-------------------------- MODULE SignAndBroadcast --------------------------
(***************************************************************************)
(* MainController.handleSignAndBroadcastAccountOp, the broadcast it calls, *)
(* and the ways a user can close a screen under it.                        *)
(*                                                                         *)
(* One status (statuses.signAndBroadcastAccountOp) serves as a lock for    *)
(* every screen that can sign; one id (#signAndBroadcastCallId) tells a    *)
(* call whether it is still the current one.  A call is a process: one     *)
(* action is what it does between two awaits, and at each await another    *)
(* call, a close or an answer of the network may come first.               *)
(***************************************************************************)
EXTENDS Naturals, FiniteSets, TLC

CONSTANTS
    Screens,   \* the screens that hold a SignAccountOpController
    Ops,       \* the controllers that can be created
    NoOp,      \* "this screen has no controller"
    Calls,     \* the calls of handleSignAndBroadcastAccountOp
    NoCall,    \* #signAndBroadcastCallId = null
    Choices,   \* what the user can choose to sign with, pay with, and send
    MaxTxns    \* the most transactions one operation is sent as

VARIABLES
    status,       \* statuses.signAndBroadcastAccountOp
    callId,       \* #signAndBroadcastCallId
    feePayerKey,  \* the type of the key that pays the fee, or "none"
    screens,      \* the controller of each screen
    ops,          \* the controllers
    calls         \* the calls

vars == <<status, callId, feePayerKey, screens, ops, calls>>

-----------------------------------------------------------------------------
(* Types *)

KeyTypes == {"internal", "external"}
AllScreens == {"main", "swap", "transfer"}

\* "raw" covers every option that sends raw transactions.
Options == {"raw", "bundler", "relayer"}
Choice == [signer: KeyTypes, payer: KeyTypes, option: Options, txns: 1..MaxTxns]

ASSUME SignAssumption ==
    /\ Screens \subseteq AllScreens
    /\ NoOp \notin Ops
    /\ NoCall \notin Calls
    /\ MaxTxns \in Nat \ {0}
    /\ Choices \subseteq Choice
    /\ \A ch \in Choices : ch.option # "raw" => ch.txns = 1

\* SigningStatus.  "notReady" is null and the error statuses, "inProgress"
\* includes WaitingForPaymaster.
SigningStatuses == {"notReady", "ready", "inProgress", "done"}
Controller == [used: BOOLEAN, screen: AllScreens, choice: Choice, status: SigningStatuses]

\* What a call awaits, in the order of the code.
Working == {"route", "signing", "state", "nonce", "txnSign", "txnSend", "submit"}
Closing == {"success", "published", "rejecting", "recorded", "notifying"}
Failing == {"unsigned", "failing", "failed"}
Stages == {"unused", "ended"} \cup Working \cup Closing \cup Failing

\* txns: how many transactions the call set out to send; sent: how many the
\* network accepted; recorded: how many the history was told of.  cancelled is a
\* history variable: did a close take the lock from the call, and did the call's
\* own controller stay on its screen?
Call == [op: Ops \cup {NoOp}, stage: Stages, txns: 1..MaxTxns, sent: 0..MaxTxns,
         recorded: 0..MaxTxns, cancelled: {"no", "closed", "kept"}]

TypeOK ==
    /\ status \in {"INITIAL", "SIGNING", "BROADCASTING", "SUCCESS", "ERROR"}
    /\ callId \in Calls \cup {NoCall}
    /\ feePayerKey \in KeyTypes \cup {"none"}
    /\ screens \in [Screens -> Ops \cup {NoOp}]
    /\ ops \in [Ops -> Controller]
    /\ calls \in [Calls -> Call]

-----------------------------------------------------------------------------
(* Helpers *)

OpOf(c) == ops[calls[c].op]
IsCurrent(c) == callId = c
SetOp(o, s) == [ops EXCEPT ![o] = [ops[o] EXCEPT !.status = s]]
Goto(c, stage) == calls' = [calls EXCEPT ![c] = [calls[c] EXCEPT !.stage = stage]]

\* throwBroadcastAccountOp and the catch of the caller: the status becomes
\* ERROR whoever the call is, but only the current call goes on to reset it.
Throw(c) ==
    /\ status' = "ERROR"
    /\ ops' = SetOp(calls[c].op, "ready")
    /\ feePayerKey' = "none"
    /\ Goto(c, IF IsCurrent(c) THEN "failing" ELSE "ended")
    /\ UNCHANGED <<callId, screens>>

\* Any other exception: the catch of handleSignAndBroadcastAccountOp.
Catch(c) ==
    /\ status' = IF IsCurrent(c) THEN "ERROR" ELSE status
    /\ Goto(c, IF IsCurrent(c) THEN "failing" ELSE "ended")
    /\ UNCHANGED <<callId, feePayerKey, screens>>

-----------------------------------------------------------------------------
(* The screens *)

\* initSignAccOp and its counterparts: a new controller for a screen.
Open(o, screen) ==
    /\ ~ops[o].used
    /\ screens[screen] = NoOp
    /\ screens' = [screens EXCEPT ![screen] = o]
    /\ \E ch \in Choices :
           ops' = [ops EXCEPT ![o] = [used |-> TRUE, screen |-> screen, choice |-> ch,
                                      status |-> "notReady"]]
    /\ UNCHANGED <<status, callId, feePayerKey, calls>>

\* noStateUpdateStatuses: a controller does not change once the user committed.
\* Mistake: it thaws when the signature is there and the broadcast begins.
FrozenWhileSigning(o) == ops[o].status = "inProgress"
Frozen(o) == ops[o].status \in {"inProgress", "done"}

\* update: an estimation, a gas price or the user changes the choice.
Update(o, ch, s) ==
    /\ ops[o].used
    /\ screens[ops[o].screen] = o
    /\ ~Frozen(o)
    /\ ch # ops[o].choice \/ s # ops[o].status
    /\ ops' = [ops EXCEPT ![o] = [ops[o] EXCEPT !.choice = ch, !.status = s]]
    /\ UNCHANGED <<status, callId, feePayerKey, screens, calls>>

\* #abortHWTransactionSign takes the lock from whichever call has it.
AwaitsHW(o) ==
    \/ ops[o].choice.signer # "internal" /\ status = "SIGNING"
    \/ feePayerKey = "external" /\ status = "BROADCASTING"

\* Is the controller of the current call on its screen after o is closed?
KeptBy(o, destroyed) ==
    LET mine == calls[callId].op IN
    /\ screens[ops[mine].screen] = mine
    /\ ~(destroyed /\ mine = o)

Abort(o, destroyed) ==
    IF AwaitsHW(o)
    THEN /\ status' = "INITIAL"
         /\ callId' = NoCall
         /\ calls' = IF callId = NoCall THEN calls
                     ELSE [calls EXCEPT ![callId] = [calls[callId] EXCEPT !.cancelled =
                               IF KeptBy(o, destroyed) THEN "kept" ELSE "closed"]]
    ELSE UNCHANGED <<status, callId, calls>>

\* destroySignAccOp.
CloseMain ==
    LET o == screens["main"] IN
    /\ "main" \in Screens
    /\ o # NoOp
    /\ Abort(o, TRUE)
    /\ feePayerKey' = "none"
    /\ ops' = SetOp(o, "notReady")
    /\ screens' = [screens EXCEPT !["main"] = NoOp]

\* onOneClickSwapClose, onOneClickTransferClose.  A swap screen that is open in
\* another session too keeps its controller.
\* Mistake: the screen is not unloaded before the call is aborted.
CloseNotUnloaded(screen) ==
    LET o == screens[screen] IN
    /\ screen \in Screens \cap {"swap", "transfer"}
    /\ o # NoOp
    /\ Abort(o, TRUE)
    /\ UNCHANGED <<feePayerKey, ops, screens>>
Close(screen) ==
    LET o == screens[screen] IN
    /\ screen \in Screens \cap {"swap", "transfer"}
    /\ o # NoOp
    /\ Abort(o, TRUE)
    /\ ops' = SetOp(o, "notReady")
    /\ screens' = [screens EXCEPT ![screen] = NoOp]
    /\ UNCHANGED feePayerKey

\* The form changed to another chain, or a quote failed: the controller is
\* destroyed and nothing is aborted.
Discard(screen) ==
    LET o == screens[screen] IN
    /\ screen \in Screens \cap {"swap", "transfer"}
    /\ o # NoOp
    /\ ops' = SetOp(o, "notReady")
    /\ screens' = [screens EXCEPT ![screen] = NoOp]
    /\ UNCHANGED <<status, callId, feePayerKey, calls>>

CloseOneSession ==
    LET o == screens["swap"] IN
    /\ "swap" \in Screens
    /\ o # NoOp
    /\ AwaitsHW(o)
    /\ Abort(o, FALSE)
    /\ UNCHANGED <<feePayerKey, ops, screens>>

-----------------------------------------------------------------------------
(* handleSignAndBroadcastAccountOp *)

\* Mistake: the guard forgets that a failing call is still resetting.
FreeUnlessBusy == status \notin {"SIGNING", "BROADCASTING"}
Free == status = "INITIAL"

\* The swap's route is awaited first.  The others go on at once: sign() is only
\* called for an operation that is not signed yet, and refuses one that is not
\* ready.
Begun(o) ==
    CASE ops[o].screen = "swap" -> [lock |-> "SIGNING", stage |-> "route", op |-> ops[o].status]
      [] ops[o].status = "ready" -> [lock |-> "SIGNING", stage |-> "signing", op |-> "inProgress"]
      [] ops[o].status = "done" -> [lock |-> "BROADCASTING", stage |-> "state", op |-> "done"]
      [] OTHER -> [lock |-> "ERROR", stage |-> "unsigned", op |-> "ready"]

Start(c, screen) ==
    LET o == screens[screen] IN
    /\ Free
    /\ calls[c].stage = "unused"
    /\ o # NoOp
    /\ callId' = c
    /\ status' = Begun(o).lock
    /\ ops' = SetOp(o, Begun(o).op)
    /\ calls' = [calls EXCEPT ![c] = [calls[c] EXCEPT !.op = o, !.stage = Begun(o).stage]]
    /\ UNCHANGED <<feePayerKey, screens>>

\* The screen has no controller: the error is caught at once.
StartWithout(c, screen) ==
    /\ Free
    /\ calls[c].stage = "unused"
    /\ screens[screen] = NoOp
    /\ callId' = c
    /\ status' = "ERROR"
    /\ Goto(c, "failing")
    /\ UNCHANGED <<feePayerKey, screens, ops>>

\* addActiveRoute rejected.
RouteFailed(c) ==
    /\ calls[c].stage = "route"
    /\ Catch(c)
    /\ UNCHANGED ops

\* What follows the signature.  A cancelled call stops; the current one takes
\* the lock on to BROADCASTING.  It throws when the lock is not SIGNING ("Pending
\* broadcast") or the provider, the account, the network or a detail is missing.
AfterSigning(c) ==
    \/ /\ ~IsCurrent(c)
       /\ ops' = SetOp(calls[c].op, "done")
       /\ Goto(c, "ended")
       /\ UNCHANGED <<status, callId, feePayerKey, screens>>
    \/ /\ IsCurrent(c)
       /\ status = "SIGNING"
       /\ status' = "BROADCASTING"
       /\ ops' = SetOp(calls[c].op, "done")
       /\ Goto(c, "state")
       /\ UNCHANGED <<callId, feePayerKey, screens>>
    \/ IsCurrent(c) /\ Throw(c)

BeginSign(c) ==
    /\ calls[c].stage = "route"
    /\ OpOf(c).status = "ready"
    /\ ops' = SetOp(calls[c].op, "inProgress")
    /\ Goto(c, "signing")
    /\ UNCHANGED <<status, callId, feePayerKey, screens>>

SkipSign(c) ==
    /\ calls[c].stage = "route"
    /\ OpOf(c).status = "done"
    /\ AfterSigning(c)

\* The status is not Done after sign().
NotSigned(c) ==
    /\ status' = IF IsCurrent(c) THEN "ERROR" ELSE status
    /\ Goto(c, IF IsCurrent(c) THEN "unsigned" ELSE "ended")
    /\ UNCHANGED <<callId, feePayerKey, screens>>

RefuseSign(c) ==
    /\ calls[c].stage = "route"
    /\ OpOf(c).status \in {"notReady", "inProgress"}
    /\ ops' = SetOp(calls[c].op, "ready")
    /\ NotSigned(c)

Signed(c) ==
    /\ calls[c].stage = "signing"
    /\ AfterSigning(c)

\* The user rejected it, the paymaster refused, the signer failed.
SignFailed(c) ==
    /\ calls[c].stage = "signing"
    /\ ops' = SetOp(calls[c].op, "ready")
    /\ NotSigned(c)

\* The user operation's screen is gone when the paymaster answers.
SignDropped(c) ==
    /\ calls[c].stage = "signing"
    /\ OpOf(c).choice.option = "bundler"
    /\ OpOf(c).screen # "transfer"
    /\ screens[OpOf(c).screen] = NoOp
    /\ NotSigned(c)
    /\ UNCHANGED ops

\* getSigner or the account state rejected outside the try block of sign().
SignThrew(c) ==
    /\ calls[c].stage = "signing"
    /\ Catch(c)
    /\ UNCHANGED ops

-----------------------------------------------------------------------------
(* #broadcastSignedAccountOp *)

StateFailed(c) ==
    /\ calls[c].stage = "state"
    /\ Catch(c)
    /\ UNCHANGED ops

\* The account state is there: a user operation and a relayed one are sent
\* without asking whether the call is still the current one.
StateFetched(c) ==
    /\ calls[c].stage = "state"
    /\ Goto(c, IF OpOf(c).choice.option = "raw" THEN "nonce" ELSE "submit")
    /\ UNCHANGED <<status, callId, feePayerKey, screens, ops>>

NonceFailed(c) ==
    /\ calls[c].stage = "nonce"
    /\ Throw(c)

NonceFetched(c) ==
    /\ calls[c].stage = "nonce"
    /\ feePayerKey' = OpOf(c).choice.payer
    /\ calls' = [calls EXCEPT ![c] = [calls[c] EXCEPT
           !.stage = "txnSign", !.txns = OpOf(c).choice.txns]]
    /\ UNCHANGED <<status, callId, screens, ops>>

\* The end of the broadcast: a cancelled call stops, the current one succeeds.
Conclude(c, n) ==
    /\ status' = IF IsCurrent(c) THEN "SUCCESS" ELSE status
    /\ calls' = [calls EXCEPT ![c] = [calls[c] EXCEPT
           !.sent = n, !.stage = IF IsCurrent(c) THEN "success" ELSE "ended"]]
    /\ UNCHANGED <<callId, feePayerKey, screens, ops>>

\* The catch of the raw broadcast.  What was sent before is kept as a partial
\* operation, unless it is a swap.
\* Mistake: it is dropped.
DropsPartial(c) == FALSE
KeepsPartial(c) == calls[c].sent > 0 /\ OpOf(c).screen # "swap"

RawFailed(c) ==
    IF ~IsCurrent(c)
    THEN Goto(c, "ended") /\ UNCHANGED <<status, callId, feePayerKey, screens, ops>>
    ELSE IF KeepsPartial(c) THEN Conclude(c, calls[c].sent) ELSE Throw(c)

\* A raw transaction is signed; the call checks that it is still the current one.
\* Mistake: it does not.
TxnSignedUnchecked(c) ==
    /\ calls[c].stage = "txnSign"
    /\ Goto(c, "txnSend")
    /\ UNCHANGED <<status, callId, feePayerKey, screens, ops>>
TxnSigned(c) ==
    /\ calls[c].stage = "txnSign"
    /\ Goto(c, IF IsCurrent(c) THEN "txnSend" ELSE "ended")
    /\ UNCHANGED <<status, callId, feePayerKey, screens, ops>>

\* The user rejected it on the device, or the network refused it.
TxnFailed(c) ==
    /\ calls[c].stage \in {"txnSign", "txnSend"}
    /\ RawFailed(c)

\* Mistake: one transaction more than the operation has.
OneMoreTxn(c) == calls[c].sent < calls[c].txns
MoreTxns(c) == calls[c].sent + 1 < calls[c].txns

\* The network accepted a raw transaction.
TxnSent(c) ==
    /\ calls[c].stage = "txnSend"
    /\ IF MoreTxns(c)
       THEN /\ calls' = [calls EXCEPT ![c] = [calls[c] EXCEPT
                  !.sent = calls[c].sent + 1, !.stage = "txnSign"]]
            /\ UNCHANGED <<status, callId, feePayerKey, screens, ops>>
       ELSE Conclude(c, calls[c].sent + 1)

\* The bundler or the relayer took the operation, or did not.
Submitted(c) ==
    /\ calls[c].stage = "submit"
    /\ Conclude(c, 1)

SubmitFailed(c) ==
    /\ calls[c].stage = "submit"
    /\ Throw(c)

\* SUCCESS was shown: the lock is free before the operation is recorded.
Publish(c) ==
    /\ calls[c].stage = "success"
    /\ status' = "INITIAL"
    /\ Goto(c, "published")
    /\ UNCHANGED <<callId, feePayerKey, screens, ops>>

\* The user requests of the transactions that were not sent are rejected first.
RejectUnsent(c) ==
    /\ calls[c].stage = "published"
    /\ calls[c].sent < calls[c].txns
    /\ Goto(c, "rejecting")
    /\ UNCHANGED <<status, callId, feePayerKey, screens, ops>>

\* activity.addAccountOp.
Record(c) ==
    /\ \/ calls[c].stage = "published" /\ calls[c].sent = calls[c].txns
       \/ calls[c].stage = "rejecting"
    /\ calls' = [calls EXCEPT ![c] = [calls[c] EXCEPT
           !.stage = "recorded", !.recorded = calls[c].sent]]
    /\ UNCHANGED <<status, callId, feePayerKey, screens, ops>>

\* resolveAccountOpAction for the main screen; resetForm destroys whatever
\* controller the other screens hold by now.
Resolve(c) ==
    LET screen == OpOf(c).screen IN
    /\ calls[c].stage = "recorded"
    /\ IF screen # "main" /\ screens[screen] # NoOp
       THEN /\ ops' = SetOp(screens[screen], "notReady")
            /\ screens' = [screens EXCEPT ![screen] = NoOp]
       ELSE UNCHANGED <<ops, screens>>
    /\ Goto(c, "notifying")
    /\ UNCHANGED <<status, callId, feePayerKey>>

Release(c) == callId' = IF IsCurrent(c) THEN NoCall ELSE callId

Finish(c) ==
    /\ calls[c].stage = "notifying"
    /\ feePayerKey' = "none"
    /\ Release(c)
    /\ Goto(c, "ended")
    /\ UNCHANGED <<status, screens, ops>>

\* A notification or a dapp's promise failed.
FinishFailed(c) ==
    /\ calls[c].stage = "notifying"
    /\ Catch(c)
    /\ UNCHANGED ops

\* The catch: ERROR was shown, INITIAL is next, and then finally.
\* Mistake: the status is only reset when the screen is still open.
ResetIfOpen(c) ==
    /\ calls[c].stage = "failing"
    /\ status' = IF calls[c].op # NoOp /\ screens[OpOf(c).screen] = calls[c].op
                 THEN "INITIAL" ELSE status
    /\ Goto(c, "failed")
    /\ UNCHANGED <<callId, feePayerKey, screens, ops>>
Reset(c) ==
    /\ calls[c].stage = "failing"
    /\ status' = "INITIAL"
    /\ Goto(c, "failed")
    /\ UNCHANGED <<callId, feePayerKey, screens, ops>>

\* The branch for an operation that was not signed clears the id itself.
ResetUnsigned(c) ==
    /\ calls[c].stage = "unsigned"
    /\ status' = "INITIAL"
    /\ callId' = NoCall
    /\ Goto(c, "failed")
    /\ UNCHANGED <<feePayerKey, screens, ops>>

Finally(c) ==
    /\ calls[c].stage = "failed"
    /\ Release(c)
    /\ Goto(c, "ended")
    /\ UNCHANGED <<status, feePayerKey, screens, ops>>

-----------------------------------------------------------------------------
(* The specification *)

FirstChoice == CHOOSE ch \in Choice : TRUE
FirstScreen == CHOOSE s \in AllScreens : TRUE

Init ==
    /\ status = "INITIAL"
    /\ callId = NoCall
    /\ feePayerKey = "none"
    /\ screens = [s \in Screens |-> NoOp]
    /\ ops = [o \in Ops |-> [used |-> FALSE, screen |-> FirstScreen,
                             choice |-> FirstChoice, status |-> "notReady"]]
    /\ calls = [c \in Calls |-> [op |-> NoOp, stage |-> "unused", txns |-> 1, sent |-> 0,
                                 recorded |-> 0, cancelled |-> "no"]]

UserStep ==
    \/ \E o \in Ops, s \in Screens : Open(o, s)
    \/ \E o \in Ops, ch \in Choices, st \in {"notReady", "ready"} : Update(o, ch, st)
    \/ \E c \in Calls, s \in Screens : Start(c, s) \/ StartWithout(c, s)
    \/ CloseMain
    \/ \E s \in Screens : Close(s) \/ Discard(s)
    \/ CloseOneSession

\* What an await of a call resolves to.
Step(c) ==
    \/ RouteFailed(c) \/ BeginSign(c) \/ SkipSign(c) \/ RefuseSign(c)
    \/ Signed(c) \/ SignFailed(c) \/ SignDropped(c) \/ SignThrew(c)
    \/ StateFailed(c) \/ StateFetched(c) \/ NonceFailed(c) \/ NonceFetched(c)
    \/ TxnSigned(c) \/ TxnFailed(c) \/ TxnSent(c)
    \/ Submitted(c) \/ SubmitFailed(c)
    \/ Publish(c) \/ RejectUnsent(c) \/ Record(c) \/ Resolve(c)
    \/ Finish(c) \/ FinishFailed(c)
    \/ Reset(c) \/ ResetUnsigned(c) \/ Finally(c)

Next == UserStep \/ \E c \in Calls : Step(c)

Spec == Init /\ [][Next]_vars

\* Every await settles in the end: requests time out, a hot wallet signs.
FairSpec == Spec /\ \A c \in Calls : WF_vars(Step(c))

-----------------------------------------------------------------------------
(* Properties *)

IsWorking(c) == calls[c].stage \in Working

\* "A transaction is already being signed": a call that nothing cancelled and
\* that has not reached its result holds the lock.  It is the current call, and
\* the status refuses every other one, whatever the stale calls do meanwhile.
WorkingHoldsTheLock ==
    \A c \in Calls :
        IsWorking(c) /\ calls[c].cancelled = "no" => callId = c /\ status # "INITIAL"

\* What the history is told is what the network accepted.  A call that ends
\* without having been cancelled told it everything, also when a transaction in
\* the middle of a batch was rejected; only a swap may drop a partial batch.
HistoryMatchesNetwork ==
    \A c \in Calls :
        /\ calls[c].recorded \in {0, calls[c].sent}
        /\ calls[c].stage = "ended" /\ calls[c].cancelled = "no" =>
               calls[c].recorded = calls[c].sent \/ OpOf(c).screen = "swap"

\* A call lost the lock while its controller stayed on its screen, because the
\* screen that was closed was another one or was open twice.
Kept(o) == \E c \in Calls : calls[c].op = o /\ calls[c].cancelled = "kept"

\* No controller is signed or broadcast by two calls at a time: closing a screen
\* cancels the call and takes the controller away in the same step.
OneCallPerController ==
    \A c, d \in {k \in Calls : IsWorking(k) /\ ~Kept(calls[k].op)} :
        calls[c].op = calls[d].op => c = d

\* "Once the user commits to the things he sees on his screen, we need to be sure
\* nothing changes afterwards": from the moment sign() is called until the
\* result, no estimation and no click changes what the operation is signed, paid
\* and sent with, although stale calls set statuses of their controllers back.
CommittedIsFrozen ==
    [][\A c \in Calls :
          /\ calls[c].stage \in Working \ {"route"}
          /\ calls[c].cancelled = "no"
          /\ ~Kept(calls[c].op)
          => OpOf(c).choice = ops'[calls[c].op].choice]_vars

\* "Prevents rejected hardware wallet signatures from affecting new requests":
\* once a call that sends raw transactions is cancelled, it hands nothing more to
\* the network than what it was already waiting for.
CancelledSendsNoMore ==
    [][\A c \in Calls :
          calls[c].cancelled # "no" /\ calls[c].stage = "txnSign"
              => calls'[c].stage # "txnSend"]_vars

\* Every click ends with the lock free again, so that the user can sign the next
\* operation.
LockIsReleased == []<>(status = "INITIAL")

\* "Reset these flags only if we were awaiting a HW signature to broadcast a
\* transaction [...] once its signed there is no way to cancel the broadcast":
\* a call that loses the lock has handed nothing to the network.
CancelledBeforeSending ==
    [][\A c \in Calls :
          calls[c].cancelled = "no" /\ calls'[c].cancelled # "no"
              => calls[c].stage \notin {"txnSend", "submit"} /\ calls[c].sent = 0]_vars

-----------------------------------------------------------------------------
(* The choices of the small instances: a hardware wallet that sends two    *)
(* transactions, and a hot wallet that uses a bundler, together leave a    *)
(* stale external fee payer behind.                                        *)

Pays(signer, payer, option, txns) == [signer |-> signer, payer |-> payer, option |-> option, txns |-> txns]
HWBatch == Pays("external", "external", "raw", 2)
HWSingle == Pays("external", "external", "raw", 1)
HotBundler == Pays("internal", "internal", "bundler", 1)
HotBatch == Pays("internal", "internal", "raw", 2)

HWChoices == {HWBatch, HotBundler}
HotChoices == {HotBatch, HotBundler}
BrokenChoices == {HWSingle, HotBundler}
Symmetry == Permutations(Ops) \cup Permutations(Calls)
=============================================================================
