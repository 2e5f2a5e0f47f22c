------------------------------ MODULE Railgun ------------------------------
(***************************************************************************)
(* RailgunController: the keys of the account, the shield that             *)
(* SignAccountOpController signs, and the withdrawals given to the         *)
(* relayer.  Keys are known by the account that they were derived for.     *)
(* Left out: the form, and the cache of the synchronized notes, which is   *)
(* written and read by its key only.                                       *)
(***************************************************************************)
EXTENDS Integers

CONSTANTS
    Holders,
    Indexes,    \* indexes of derived keys, with 0
    Relays,     \* bound: withdrawals in one behaviour
    Syncs,      \* bound: calls of the user in one behaviour
    None

VARIABLES
    holder,     \* the selected account
    defaultKeys, derivedKeys,
    deriving,   \* derivations in progress: [index, of], of is read with the seed
    shield,     \* signAccountOpController: [by, state], the account and the one whose state it has
    preparing,  \* initSignAccOp in progress: [n, state]
    estimating, \* there is a reestimate loop that is not aborted
    relayed,    \* how many withdrawals there are
    relays,     \* directBroadcastWithdrawal in progress: [w, by], by is None until the relayer answers
    tracked,    \* latestBroadcastedAccountOp: [w, status]
    history,    \* the withdrawals that Activity holds
    syncs
vars == <<holder, defaultKeys, derivedKeys, deriving, shield, preparing, estimating, relayed, relays,
          tracked, history, syncs>>
keys == <<defaultKeys, derivedKeys, deriving>>
shielding == <<shield, preparing, estimating>>
withdrawing == <<relayed, relays, tracked, history>>

UserSync == syncs > 0 /\ syncs' = syncs - 1

\* -- Keys, which stay when the account changes ------------------------------

DeriveRailgunKeys(k) ==
    /\ UserSync /\ deriving' = deriving \cup {[index |-> k, of |-> holder]}
    /\ (k = 0 => defaultKeys = None)
    /\ UNCHANGED <<holder, defaultKeys, derivedKeys, shielding, withdrawing>>
\* deriveRailgunKeys(0) answers the default keys, once there are any
DeriveDefault ==
    /\ UserSync /\ defaultKeys # None /\ derivedKeys' = [derivedKeys EXCEPT ![0] = defaultKeys]
    /\ UNCHANGED <<holder, defaultKeys, deriving, shielding, withdrawing>>
KeysDerived(d) ==
    /\ d \in deriving /\ deriving' = deriving \ {d} /\ derivedKeys' = [derivedKeys EXCEPT ![d.index] = d.of]
    /\ defaultKeys' = IF d.index = 0 THEN d.of ELSE defaultKeys
    /\ UNCHANGED <<holder, shielding, withdrawing, syncs>>

\* -- The shield --------------------------------------------------------------

DestroySignAccountOp == shield' = None /\ estimating' = FALSE
\* The signer that there is goes first, so that initSignAccOp always waits for the account state.
SyncSignAccountOp ==
    /\ UserSync /\ DestroySignAccountOp
    /\ preparing' = preparing \cup {[n |-> syncs, state |-> holder]}
    /\ UNCHANGED <<holder, keys, withdrawing>>
\* Another signer may have been made meanwhile; the loop that there is serves on.
AccountStateArrives(i) ==
    /\ i \in preparing /\ preparing' = preparing \ {i}
    /\ shield' = [by |-> holder, state |-> i.state] /\ estimating' = TRUE
    /\ UNCHANGED <<holder, keys, withdrawing, syncs>>
ResetForm == UserSync /\ DestroySignAccountOp /\ UNCHANGED <<holder, keys, preparing, withdrawing>>
UnloadScreen ==
    /\ UserSync /\ DestroySignAccountOp /\ tracked' = None
    /\ UNCHANGED <<holder, keys, preparing, relayed, relays, history>>
SelectAccount(a) == UserSync /\ holder' = a /\ UNCHANGED <<keys, shielding, withdrawing>>

\* -- Withdrawals ---------------------------------------------------------------

DirectBroadcastWithdrawal ==
    /\ UserSync /\ relayed < Relays /\ relayed' = relayed + 1
    /\ relays' = relays \cup {[w |-> relayed + 1, by |-> None]}
    /\ tracked' = [w |-> relayed + 1, status |-> "Sent"]
    /\ UNCHANGED <<holder, keys, shielding, history>>
\* The relayer refuses, gives no hash, or fails: whatever is tracked is said to have failed.
RelayFails(b) ==
    /\ b \in relays /\ b.by = None /\ relays' = relays \ {b}
    /\ tracked' = IF tracked = None THEN None ELSE [tracked EXCEPT !.status = "Failure"]
    /\ UNCHANGED <<holder, keys, shielding, relayed, history, syncs>>
RelayAccepted(b) ==
    /\ b \in relays /\ b.by = None /\ relays' = (relays \ {b}) \cup {[b EXCEPT !.by = holder]}
    /\ UNCHANGED <<holder, keys, shielding, relayed, tracked, history, syncs>>
\* after addAccountOp: the answer of the relayer counts as success
RelaySaved(b) ==
    /\ b \in relays /\ b.by # None /\ relays' = relays \ {b} /\ history' = history \cup {b}
    /\ tracked' = [w |-> b.w, status |-> "Success"]
    /\ UNCHANGED <<holder, keys, shielding, relayed, syncs>>

Init ==
    /\ holder \in Holders /\ defaultKeys = None /\ derivedKeys = [k \in Indexes |-> None] /\ deriving = {}
    /\ shield = None /\ preparing = {} /\ estimating = FALSE
    /\ relayed = 0 /\ relays = {} /\ tracked = None /\ history = {} /\ syncs = Syncs
Next ==
    \/ \E k \in Indexes : DeriveRailgunKeys(k)
    \/ DeriveDefault \/ \E d \in deriving : KeysDerived(d)
    \/ SyncSignAccountOp \/ ResetForm \/ UnloadScreen \/ \E i \in preparing : AccountStateArrives(i)
    \/ \E a \in Holders : SelectAccount(a)
    \/ DirectBroadcastWithdrawal \/ \E b \in relays : RelayFails(b) \/ RelayAccepted(b) \/ RelaySaved(b)

Spec == Init /\ [][Next]_vars
-----------------------------------------------------------------------------
TypeOK ==
    /\ holder \in Holders /\ defaultKeys \in Holders \cup {None} /\ derivedKeys \in [Indexes -> Holders \cup {None}]
    /\ \A b \in relays : b.w \in 1..relayed

\* There is one estimation loop as long as there is a signer, whatever was destroyed or made late
\* before (railgun.ts:373, 404, 471).
ControllerIsReestimated == estimating <=> shield # None

\* A withdrawal that the tracking page shows as done is in the history, whichever others were
\* submitted, refused or shown in the meantime (railgun.ts:640-713).
SuccessIsSaved == tracked # None /\ tracked.status = "Success" => \E b \in history : b.w = tracked.w
=============================================================================
