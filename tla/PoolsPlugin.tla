---------------------------- MODULE PoolsPlugin -----------------------------
(***************************************************************************)
(* PrivacyPoolsV1Controller: initialisations that overlap, the             *)
(* synchronisation of its notes, the withdrawal that is prepared,          *)
(* broadcast and recorded, and the controller of a deposit.                *)
(*                                                                         *)
(* The screen starts no second withdrawal while one is under way.          *)
(***************************************************************************)
EXTENDS Integers, FiniteSets, Sequences, Functions

CONSTANTS
    PoolTurns,  \* bound: updates of the other controllers, synchronisations, preparations, deposits
    None

VARIABLES
    ppv1Instance,    \* #ppv1Instance is there (with #host and isInitialized)
    failedInit,      \* initializationError
    initialising,    \* the calls of init that are under way
    pendingUnshield, \* pendingUnshieldOperation
    preparations,    \* the calls of prepareUnshield that are under way
    unshielding,     \* unshield: what it waits for
    latestUnshield,  \* latestBroadcastedAccountOp
    accepted,        \* what the broadcaster has accepted
    kept,            \* what ActivityController was given
    notesState,      \* syncState
    readings,        \* the synchronisations that are under way
    syncThrew,           \* one of them syncThrew
    deposit,         \* signAccountOpController and its loop
    deposits,        \* the calls of prepareShield that are under way
    callsDrawn, poolTurns
initVars == <<ppv1Instance, failedInit, initialising>>
unshieldVars == <<pendingUnshield, preparations, unshielding, latestUnshield, accepted, kept>>
syncVars == <<notesState, readings, syncThrew>>
depositVars == <<deposit, deposits>>
vars == <<initVars, unshieldVars, syncVars, depositVars, callsDrawn, poolTurns>>

\* Each call has a number of its own.
Turn == poolTurns > 0 /\ poolTurns' = poolTurns - 1 /\ callsDrawn' = callsDrawn + 1
NoTurn == UNCHANGED <<callsDrawn, poolTurns>>
NoDeposit == [controller |-> FALSE, loop |-> FALSE]

\* init up to its first await, with reset.  A switch of the account does not call it.
StartInit ==
    /\ Turn /\ initialising' = initialising \cup {callsDrawn'}
    /\ ppv1Instance' = FALSE /\ failedInit' = FALSE /\ pendingUnshield' = None /\ notesState' = "unsynced"
    /\ deposit' = NoDeposit
    /\ UNCHANGED <<preparations, unshielding, latestUnshield, accepted, kept, readings, syncThrew, deposits>>
SelectedAccountUpdates == ~ppv1Instance /\ ~failedInit /\ StartInit
UnlockedKeystoreUpdates == ~ppv1Instance /\ StartInit
InitElse == UNCHANGED <<unshieldVars, syncVars, depositVars>> /\ NoTurn
\* The portfolio has a token, or none yet.
Initialised(i) ==
    /\ i \in initialising /\ initialising' = initialising \ {i} /\ ppv1Instance' = TRUE
    /\ UNCHANGED failedInit /\ InitElse
InitReturns(i) ==
    /\ i \in initialising /\ initialising' = initialising \ {i}
    /\ UNCHANGED <<ppv1Instance, failedInit>> /\ InitElse
InitFails(i) ==
    /\ i \in initialising /\ initialising' = initialising \ {i} /\ failedInit' = TRUE
    /\ UNCHANGED ppv1Instance /\ InitElse

\* sync, for the screen or for unshield
MaySync == ppv1Instance /\ notesState # "syncing"
Reads(n) == notesState' = "syncing" /\ readings' = readings \cup {[n |-> n, at |-> "balance"]} /\ UNCHANGED syncThrew
UnshieldFailed ==
    /\ latestUnshield' = IF latestUnshield = None THEN None ELSE [latestUnshield EXCEPT !.status = "Failure"]
    /\ unshielding' = None
Sync ==
    /\ Turn /\ MaySync /\ Reads(callsDrawn')
    /\ UNCHANGED <<initVars, unshieldVars, depositVars>>
GoesOn(r, at) == readings' = (readings \ {r}) \cup {[r EXCEPT !.at = at]}
ReadsNotes(r) ==
    /\ r \in readings /\ r.at = "balance" /\ ppv1Instance /\ GoesOn(r, "notes")
    /\ UNCHANGED <<initVars, unshieldVars, notesState, syncThrew, depositVars>> /\ NoTurn
Saves(r) ==
    /\ r \in readings /\ r.at = "notes" /\ GoesOn(r, "saving")
    /\ UNCHANGED <<initVars, unshieldVars, notesState, syncThrew, depositVars>> /\ NoTurn
Awaits(r) == unshielding # None /\ unshielding.at = "sync" /\ unshielding.sync = r.n
\* addAccountOp with what latestBroadcastedAccountOp is by now
Record(what) ==
    /\ unshielding' = [unshielding EXCEPT !.at = "recording"]
    /\ kept' = kept \cup {what}
Synced(r) ==
    /\ r \in readings /\ r.at = "saving" /\ readings' = readings \ {r} /\ notesState' = "synced"
    /\ IF Awaits(r) THEN Record(unshielding.what) ELSE UNCHANGED <<unshielding, kept>>
    /\ UNCHANGED <<initVars, pendingUnshield, preparations, latestUnshield, accepted, syncThrew, depositVars>> /\ NoTurn
\* Nothing catches it in sync: the state stays as it is, and unshield fails.
SyncThrows(r) ==
    /\ r \in readings /\ readings' = readings \ {r} /\ syncThrew' = TRUE
    /\ IF Awaits(r) THEN UnshieldFailed ELSE UNCHANGED <<latestUnshield, unshielding>>
    /\ UNCHANGED <<initVars, pendingUnshield, preparations, accepted, kept, notesState, depositVars>> /\ NoTurn

UnshieldElse == UNCHANGED <<initVars, syncVars, depositVars>>
PrepareUnshield ==
    /\ Turn /\ ppv1Instance /\ preparations' = preparations \cup {callsDrawn'}
    /\ UNCHANGED <<pendingUnshield, unshielding, latestUnshield, accepted, kept>> /\ UnshieldElse
UnshieldPrepared(n) ==
    /\ n \in preparations /\ preparations' = preparations \ {n} /\ pendingUnshield' = n
    /\ UNCHANGED <<unshielding, latestUnshield, accepted, kept>> /\ UnshieldElse /\ NoTurn
PrepareFails(n) ==
    /\ n \in preparations /\ preparations' = preparations \ {n}
    /\ UNCHANGED <<pendingUnshield, unshielding, latestUnshield, accepted, kept>> /\ UnshieldElse /\ NoTurn
Unshield ==
    /\ unshielding = None /\ ppv1Instance /\ pendingUnshield # None
    /\ latestUnshield' = [what |-> pendingUnshield, status |-> "Broadcasted"]
    /\ unshielding' = [at |-> "broadcast", what |-> pendingUnshield, sync |-> 0]
    /\ UNCHANGED <<pendingUnshield, preparations, accepted, kept>> /\ UnshieldElse /\ NoTurn
AfterBroadcast == None
Broadcasted ==
    /\ unshielding # None /\ unshielding.at = "broadcast"
    /\ pendingUnshield' = AfterBroadcast /\ accepted' = Append(accepted, unshielding.what)
    /\ UNCHANGED <<preparations, latestUnshield>>
    /\ IF MaySync
       THEN /\ callsDrawn' = callsDrawn + 1 /\ Reads(callsDrawn') /\ unshielding' = [unshielding EXCEPT !.at = "sync", !.sync = callsDrawn']
            /\ UNCHANGED <<kept, poolTurns>>
       ELSE Record(unshielding.what) /\ UNCHANGED syncVars /\ NoTurn
    /\ UNCHANGED <<initVars, depositVars>>
BroadcastFails ==
    /\ unshielding # None /\ unshielding.at = "broadcast" /\ UnshieldFailed
    /\ UNCHANGED <<pendingUnshield, preparations, accepted, kept>> /\ UnshieldElse /\ NoTurn
Recorded ==
    /\ unshielding # None /\ unshielding.at = "recording" /\ unshielding' = None
    /\ latestUnshield' = IF latestUnshield = None THEN None ELSE [latestUnshield EXCEPT !.status = "Success"]
    /\ UNCHANGED <<pendingUnshield, preparations, accepted, kept>> /\ UnshieldElse /\ NoTurn
DestroyLatestBroadcastedAccountOp ==
    /\ latestUnshield # None /\ latestUnshield' = None
    /\ UNCHANGED <<pendingUnshield, preparations, unshielding, accepted, kept>> /\ UnshieldElse /\ NoTurn

\* prepareShield, syncSignAccountOp, #initSignAccOp with reestimate, destroySignAccountOp
DepositElse == UNCHANGED <<initVars, unshieldVars, syncVars>>
PrepareShield ==
    /\ Turn /\ ppv1Instance /\ deposits' = deposits \cup {[n |-> callsDrawn', at |-> "plugin"]}
    /\ UNCHANGED deposit /\ DepositElse
SyncSignAccountOp(d) ==
    /\ d \in deposits /\ d.at = "plugin"
    /\ deposit' = IF deposit.controller THEN NoDeposit ELSE deposit
    /\ deposits' = (deposits \ {d}) \cup {[d EXCEPT !.at = "state"]} /\ DepositElse /\ NoTurn
InitSignAccOp(d) ==
    /\ d \in deposits /\ d.at = "state" /\ deposits' = deposits \ {d}
    /\ deposit' = [controller |-> TRUE, loop |-> TRUE] /\ DepositElse /\ NoTurn
DepositFails(d) ==
    /\ d \in deposits /\ deposits' = deposits \ {d} /\ UNCHANGED deposit /\ DepositElse /\ NoTurn
DestroySignAccountOp ==
    /\ deposit # NoDeposit /\ deposit' = NoDeposit /\ UNCHANGED deposits /\ DepositElse /\ NoTurn

Init ==
    /\ ppv1Instance = FALSE /\ failedInit = FALSE /\ initialising = {}
    /\ pendingUnshield = None /\ preparations = {} /\ unshielding = None /\ latestUnshield = None
    /\ accepted = <<>> /\ kept = {} /\ notesState = "unsynced" /\ readings = {} /\ syncThrew = FALSE
    /\ deposit = NoDeposit /\ deposits = {} /\ callsDrawn = 0 /\ poolTurns = PoolTurns
Next ==
    \/ SelectedAccountUpdates \/ UnlockedKeystoreUpdates
    \/ \E i \in initialising : Initialised(i) \/ InitReturns(i) \/ InitFails(i)
    \/ Sync \/ \E r \in readings : ReadsNotes(r) \/ Saves(r) \/ Synced(r) \/ SyncThrows(r)
    \/ PrepareUnshield \/ \E n \in preparations : UnshieldPrepared(n) \/ PrepareFails(n)
    \/ Unshield \/ Broadcasted \/ BroadcastFails \/ Recorded \/ DestroyLatestBroadcastedAccountOp
    \/ PrepareShield \/ DestroySignAccountOp
    \/ \E d \in deposits : SyncSignAccountOp(d) \/ InitSignAccOp(d) \/ DepositFails(d)
Spec == Init /\ [][Next]_vars
-----------------------------------------------------------------------------
TypeOK ==
    /\ notesState \in {"unsynced", "syncing", "synced"} /\ Cardinality(initialising) <= callsDrawn
    /\ pendingUnshield \in 1..callsDrawn \cup {None} /\ preparations \subseteq 1..callsDrawn


\* A withdrawal that is shown as successful was recorded, and no withdrawal is sent twice
\* (privacyPoolsV1.ts:497-531).
SuccessIsRecorded ==
    /\ latestUnshield # None /\ latestUnshield.status = "Success" => latestUnshield.what \in kept
    /\ IsInjective(accepted)

\* Notes are not read for ever, unless a synchronisation has thrown, and a deposit is estimated again
\* as long as it has a controller (privacyPoolsV1.ts:233-249, 380-423).
WaitsEnd == (notesState = "syncing" /\ ~syncThrew => readings # {}) /\ deposit.loop = deposit.controller
=============================================================================
