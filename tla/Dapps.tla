-------------------------------- MODULE Dapps --------------------------------
(***************************************************************************)
(* DappsController: the catalog of dapps, the predefined ones together     *)
(* with those that the user visited, and the sessions of the open ones.    *)
(***************************************************************************)
EXTENDS Integers, FiniteSets, Sequences

CONSTANTS
    Ids,
    Predefined,  \* the dapps of dappCatalog.json
    Tabs,
    Accounts,
    Changes,     \* bound: additions, updates and removals
    Restarts,    \* bound
    None

VARIABLES
    dapps,     \* #dapps: None, or whether the dapp is connected and with which account
    saved,     \* 'dapps'
    writes,    \* #storageUpdateQueue: the lists to be stored, each with what was agreed by then
    read,      \* what #load has read, None once it is done
    sessions,  \* dappSessions: "none", "new" (without messenger), "open" or "gone" (its tab was closed)
    agreed,    \* ghost: what was agreed with each dapp, and was not lost with the extension
    kept,      \* ghost: what was agreed by the last write that was done
    early,     \* ghost: there was a change before #load was done
    changes, restarts
dappsVars == <<dapps, saved, writes, read, sessions, agreed, kept, early, changes, restarts>>
storeVars == <<dapps, saved, writes, read, agreed, kept, early, changes, restarts>>

Unknown == [connected |-> FALSE, account |-> None]
\* The getter: what is stored comes before the catalog
Combined(own) == [id \in Ids |-> IF own[id] = None /\ id \in Predefined THEN Unknown ELSE own[id]]

\* The setter does not wait for the write.
Set(id, dapp) ==
    /\ dapps' = [Combined(dapps) EXCEPT ![id] = dapp]
    /\ agreed' = [agreed EXCEPT ![id] = dapp]
    /\ writes' = Append(writes, [list |-> dapps', agreed |-> agreed'])
Changed ==
    /\ changes < Changes /\ changes' = changes + 1
    /\ early' = (early \/ read # None)
    /\ UNCHANGED <<saved, kept, read, sessions, restarts>>

UpdateDapp(id, dapp) ==
    /\ Changed /\ Combined(dapps)[id] # None
    /\ Set(id, dapp)
\* addDapp: a dapp that is already there is updated
AddDapp(id, dapp) ==
    \/ UpdateDapp(id, dapp)
    \/ /\ Changed /\ Combined(dapps)[id] = None
       /\ Set(id, dapp)
RemoveDapp(id) ==
    /\ Changed /\ Combined(dapps)[id] # None /\ id \notin Predefined
    /\ Set(id, None)

\* StorageController: the writes are done in their order, and one that fails is left out.
Write ==
    /\ writes # <<>> /\ writes' = Tail(writes)
    /\ saved' = Head(writes).list /\ kept' = Head(writes).agreed
    /\ UNCHANGED <<dapps, read, sessions, agreed, early, changes, restarts>>
WriteFails ==
    /\ writes # <<>> /\ writes' = Tail(writes)
    /\ UNCHANGED <<dapps, saved, read, sessions, agreed, kept, early, changes, restarts>>

\* #load replaces whatever there is
Load ==
    /\ read # None
    /\ dapps' = read /\ read' = None
    /\ UNCHANGED <<saved, writes, sessions, agreed, kept, early, changes, restarts>>
\* What was not written is lost.
Restart ==
    /\ restarts < Restarts /\ restarts' = restarts + 1
    /\ dapps' = [id \in Ids |-> None] /\ read' = saved
    /\ writes' = <<>> /\ agreed' = kept
    /\ sessions' = [s \in Tabs \X Ids |-> "none"]
    /\ UNCHANGED <<saved, kept, early, changes>>

GetOrCreateDappSession(tab, id) ==
    /\ sessions[<<tab, id>>] = "none"
    /\ sessions' = [sessions EXCEPT ![<<tab, id>>] = "new"]
    /\ UNCHANGED storeVars
SetSessionMessenger(tab, id) ==
    /\ sessions[<<tab, id>>] = "new"
    /\ sessions' = [sessions EXCEPT ![<<tab, id>>] = "open"]
    /\ UNCHANGED storeVars
TabClosed(tab, id) ==
    /\ sessions[<<tab, id>>] = "open"
    /\ sessions' = [sessions EXCEPT ![<<tab, id>>] = "gone"]
    /\ UNCHANGED storeVars
DeleteDappSession(tab, id) ==
    /\ sessions[<<tab, id>>] # "none"
    /\ sessions' = [sessions EXCEPT ![<<tab, id>>] = "none"]
    /\ UNCHANGED storeVars

HasPermission(id) == Combined(dapps)[id] # None /\ Combined(dapps)[id].connected
\* broadcastDappSessionEvent waits for #load; a session whose messenger throws is deleted
BroadcastDappSessionEvent(ids) ==
    /\ read = None
    /\ \E tab \in Tabs, id \in ids : HasPermission(id) /\ sessions[<<tab, id>>] = "gone"
    /\ sessions' = [s \in Tabs \X Ids |->
          IF s[2] \in ids /\ HasPermission(s[2]) /\ sessions[s] = "gone" THEN "none" ELSE sessions[s]]
    /\ UNCHANGED storeVars

Init ==
    /\ dapps = [id \in Ids |-> None] /\ saved = dapps /\ read = saved /\ writes = <<>>
    /\ agreed = [id \in Ids |-> IF id \in Predefined THEN Unknown ELSE None]
    /\ kept = agreed
    /\ sessions = [s \in Tabs \X Ids |-> "none"]
    /\ early = FALSE /\ changes = 0 /\ restarts = 0
Next ==
    \/ \E id \in Ids, connected \in BOOLEAN, account \in Accounts :
          AddDapp(id, [connected |-> connected, account |-> account])
    \/ \E id \in Ids : RemoveDapp(id)
    \/ \E tab \in Tabs, id \in Ids : GetOrCreateDappSession(tab, id) \/ SetSessionMessenger(tab, id)
                                     \/ TabClosed(tab, id) \/ DeleteDappSession(tab, id)
    \/ \E ids \in {Ids} \cup {{id} : id \in Ids} : BroadcastDappSessionEvent(ids)
    \/ Write \/ WriteFails \/ Load \/ Restart
Spec == Init /\ [][Next]_dappsVars
-----------------------------------------------------------------------------
Dapp == [connected : BOOLEAN, account : Accounts \cup {None}] \cup {None}

\* Type correctness.
TypeOK ==
    /\ dapps \in [Ids -> Dapp] /\ saved \in [Ids -> Dapp] /\ read \in [Ids -> Dapp] \cup {None}
    /\ writes \in Seq([list : [Ids -> Dapp], agreed : [Ids -> Dapp]])
    /\ agreed \in [Ids -> Dapp] /\ kept \in [Ids -> Dapp] /\ early \in BOOLEAN /\ changes \in 0..Changes /\ restarts \in 0..Restarts
    /\ sessions \in [Tabs \X Ids -> {"none", "new", "open", "gone"}]

\* Once the catalog is loaded, every dapp has the connection and the account that were agreed with
\* it last, also one of the catalog; after a restart, that were agreed by the last write that was
\* done, however many were on their way or failed (dapps.ts:63-67).  A change before the load, which
\* isReady lets through, is excepted: it is lost, or with it what was stored (dapps.ts:41-75, 161-205).
ConnectionsAreKept == read = None /\ ~early => Combined(dapps) = agreed
=============================================================================
