------------------------------ MODULE Transfer ------------------------------
(***************************************************************************)
(* TransferController: the form of a transfer and the controller that      *)
(* estimates and signs it, which is made once the state of the account on  *)
(* the chain of the token is there.  A form is a record: chain is that of  *)
(* the selected token, send the amount and the recipient, None while one   *)
(* of them is missing.                                                     *)
(***************************************************************************)
EXTENDS Integers

CONSTANTS
    TransferChains, Sends,
    Updates,    \* bound: calls of the user in one behaviour
    None

VARIABLES
    transfer,       \* the form
    signer,         \* signAccountOpController: [chain, send]
    starting,       \* initSignAccOp in progress: [n, chain, send], n is its order
    looping,        \* there is a reestimate loop that is not aborted
    sending,        \* what the signer signs and broadcasts
    latestSent,     \* latestBroadcastedAccountOp and latestBroadcastedToken
    updates
vars == <<transfer, signer, starting, looping, sending, latestSent, updates>>

NoForm == [chain |-> None, send |-> None]
UserUpdates == updates > 0 /\ updates' = updates - 1

DestroySignAccountOp == signer' = None /\ looping' = FALSE

\* A token of another chain destroys the signer; then syncSignAccountOp gives the calls to the one
\* that there is, which ignores them while it signs, or makes one.
Update(f) ==
    /\ UserUpdates /\ transfer' = f
    /\ LET anew == f.chain # transfer.chain
           has  == signer # None /\ ~anew
       IN  /\ IF anew THEN DestroySignAccountOp
              ELSE /\ UNCHANGED looping
                   /\ signer' = IF ~has \/ f.send = None \/ sending # None THEN signer
                                ELSE [signer EXCEPT !.send = f.send]
           /\ starting' = IF has \/ f.send = None THEN starting
                          ELSE starting \cup {[n |-> updates, chain |-> f.chain, send |-> f.send]}
    /\ UNCHANGED <<sending, latestSent>>
\* Those of one chain wait for the same state, in the order of their calls.
AccountStateArrives(i) ==
    /\ i \in starting /\ (\A j \in starting : j.chain = i.chain => j.n <= i.n)
    /\ starting' = starting \ {i}
    /\ signer' = [chain |-> i.chain, send |-> i.send] /\ looping' = TRUE
    /\ UNCHANGED <<transfer, sending, latestSent, updates>>
\* getOrFetchAccountOnChainState throws
AccountStateFails(i) ==
    /\ i \in starting /\ starting' = starting \ {i}
    /\ UNCHANGED <<transfer, signer, looping, sending, latestSent, updates>>

ResetForm == transfer' = NoForm /\ DestroySignAccountOp
\* the account changes, or the screen is left; what is being sent goes on in MainController
UnloadScreen(forced) ==
    /\ UserUpdates /\ (forced \/ transfer.send = None) /\ ResetForm /\ latestSent' = None
    /\ UNCHANGED <<starting, sending>>
SelectAccount == UserUpdates /\ ResetForm /\ UNCHANGED <<starting, sending, latestSent>>

\* handleSignAndBroadcastAccountOp, which tracks the token of the form that it finds at the end
Broadcast ==
    /\ sending = None /\ signer # None /\ sending' = signer
    /\ UNCHANGED <<transfer, signer, starting, looping, latestSent, updates>>
BroadcastEnds ==
    /\ sending # None /\ sending' = None /\ latestSent' = [op |-> sending, chain |-> transfer.chain]
    /\ ResetForm /\ UNCHANGED <<starting, updates>>
BroadcastFails ==
    /\ sending # None /\ sending' = None
    /\ UNCHANGED <<transfer, signer, starting, looping, latestSent, updates>>

Init ==
    /\ transfer = NoForm /\ signer = None /\ starting = {} /\ looping = FALSE /\ sending = None
    /\ latestSent = None /\ updates = Updates
Next ==
    \/ \E c \in TransferChains, s \in Sends \cup {None} : Update([chain |-> c, send |-> s])
    \/ \E i \in starting : AccountStateArrives(i) \/ AccountStateFails(i)
    \/ \E b \in BOOLEAN : UnloadScreen(b)
    \/ SelectAccount \/ Broadcast \/ BroadcastEnds \/ BroadcastFails

Spec == Init /\ [][Next]_vars
-----------------------------------------------------------------------------
TypeOK ==
    /\ transfer.chain \in TransferChains \cup {None} /\ transfer.send \in Sends \cup {None}
    /\ signer # None => signer.send \in Sends
    /\ \A i \in starting : i.chain \in TransferChains /\ i.n \in 1..Updates

\* There is one estimation loop as long as there is a signer, whatever was destroyed, reset or made
\* late before (transfer.ts:133, 656, 689).
ControllerIsReestimated == looping <=> signer # None
=============================================================================
