----------------------- MODULE SignAndBroadcastProofs -----------------------
(***************************************************************************)
(* Theorems about SignAndBroadcast, for any number of screens, controllers *)
(* and calls, and for every choice of keys and ways to send.               *)
(*                                                                         *)
(* LockInv: who works and was not cancelled is the current call, and who   *)
(* was cancelled is not.  HistoryInv: at each stage of a call, how much of *)
(* what it sent is recorded.  ControllerInv: screens show controllers of   *)
(* their own, and the controller of a call is frozen or off its screen.    *)
(***************************************************************************)
EXTENDS SignAndBroadcast, TLAPS

-----------------------------------------------------------------------------
(* The inductive invariant *)

\* Until its result is published, a call that nothing cancelled holds the lock.
Holds(c) ==
    \/ calls[c].stage \in Working /\ calls[c].cancelled = "no"
    \/ calls[c].stage \in {"success", "failing", "unsigned"}

\* A holder is the current call and the status refuses every other one.  At the
\* stages from which a call resets the status it is one that no close cancels.
HolderIsCurrent ==
    \A c \in Calls :
        /\ Holds(c) => callId = c /\ status # "INITIAL"
        /\ calls[c].stage \in {"failing", "unsigned"} => status = "ERROR"
        /\ calls[c].stage = "success" => status \in {"SUCCESS", "ERROR"}

\* The id of a cancelled call is never the current one again.
CancelledIsStale ==
    \A c \in Calls :
        /\ calls[c].cancelled # "no" => callId # c
        /\ calls[c].stage = "unused" => callId # c /\ calls[c].cancelled = "no"

LockInv == TypeOK /\ HolderIsCurrent /\ CancelledIsStale

\* A call past its start has a controller.  It has sent nothing before the
\* network is asked, and while it sends raw transactions one is left.
Early == {"unused", "route", "signing", "state", "nonce", "submit", "unsigned"}

Supplied ==
    \A c \in Calls :
        /\ calls[c].stage \notin {"unused", "failing", "failed", "ended"} => calls[c].op \in Ops
        /\ calls[c].stage \in Early => calls[c].sent = 0
        /\ calls[c].stage \in {"txnSign", "txnSend"} => calls[c].sent < calls[c].txns

\* What a call has recorded, stage by stage: nothing until the broadcast is
\* done, everything afterwards; a call that failed had nothing to record.
Late == {"recorded", "notifying"}
Stopped == {"failing", "failed", "ended"}

Accounted(c) ==
    /\ calls[c].stage \in Late => calls[c].recorded = calls[c].sent
    /\ calls[c].stage \in Stopped => calls[c].recorded \in {0, calls[c].sent}
    /\ calls[c].stage \notin Late \cup Stopped => calls[c].recorded = 0
    /\ calls[c].stage \in Stopped /\ calls[c].cancelled = "no" =>
           \/ calls[c].recorded = calls[c].sent
           \/ calls[c].op \in Ops /\ OpOf(c).screen = "swap"
    /\ calls[c].op \in Ops => ops[calls[c].op].used

\* A controller on a screen is one that was created: it is never created again,
\* and so keeps the screen it was created for.
ScreensUsed == \A s \in Screens : screens[s] \in Ops => ops[screens[s]].used

HistoryInv == LockInv /\ Supplied /\ ScreensUsed /\ \A c \in Calls : Accounted(c)

-----------------------------------------------------------------------------
(* Type correctness *)

\* The initial state is typed.
LEMMA InitTyped ==
    Init => TypeOK
<1> SUFFICES ASSUME Init PROVE TypeOK
    OBVIOUS
<1>1. FirstScreen \in AllScreens
  BY DEF FirstScreen, AllScreens
<1>2. FirstChoice \in Choice
  <2>1. [signer |-> "internal", payer |-> "internal", option |-> "raw", txns |-> 1] \in Choice
    BY SignAssumption DEF Choice, KeyTypes, Options
  <2> QED
    BY <2>1 DEF FirstChoice
<1>3. ops \in [Ops -> Controller]
  BY <1>1, <1>2 DEF Init, Controller, SigningStatuses
<1>4. calls \in [Calls -> Call]
  BY SignAssumption DEF Init, Call, Stages, Working, Closing, Failing
<1> QED
  BY <1>3, <1>4 DEF Init, TypeOK

\* The two updates that most actions make keep the types.
LEMMA GotoTyped ==
    ASSUME TypeOK, NEW c \in Calls, NEW stage \in Stages, Goto(c, stage)
    PROVE  calls' \in [Calls -> Call]
BY DEF TypeOK, Call, Goto

\* A call that is replaced by a typed one.
LEMMA CallTyped ==
    ASSUME TypeOK, NEW c \in Calls, NEW call \in Call, calls' = [calls EXCEPT ![c] = call]
    PROVE  calls' \in [Calls -> Call]
BY DEF TypeOK

\* A call that is told how much the network took, and moves on.
Sends(c, n, stage) ==
    calls' = [calls EXCEPT ![c] = [calls[c] EXCEPT !.sent = n, !.stage = stage]]

\* A call that is told how much the network took stays typed.
LEMMA SentTyped ==
    ASSUME TypeOK, NEW c \in Calls, NEW n \in 0..MaxTxns, NEW stage \in Stages,
           Sends(c, n, stage)
    PROVE  calls' \in [Calls -> Call]
<1>1. calls[c] \in Call
  BY DEF TypeOK
<1>2. [calls[c] EXCEPT !.sent = n, !.stage = stage] \in Call
  BY <1>1 DEF Call
<1> QED
  BY <1>2, CallTyped DEF Sends

\* The same call, field by field.
LEMMA SentMoves ==
    ASSUME calls \in [Calls -> Call], NEW c \in Calls, NEW n, NEW stage, Sends(c, n, stage)
    PROVE  /\ calls'[c].op = calls[c].op /\ calls'[c].txns = calls[c].txns
           /\ calls'[c].sent = n /\ calls'[c].stage = stage
           /\ calls'[c].cancelled = calls[c].cancelled
           /\ calls'[c].recorded = calls[c].recorded
           /\ \A d \in Calls \ {c} : calls'[d] = calls[d]
<1>1. calls[c] \in Call
  OBVIOUS
<1>2. calls'[c] = [calls[c] EXCEPT !.sent = n, !.stage = stage]
  BY DEF Sends
<1> QED
  BY <1>1, <1>2 DEF Call, Sends

\* A controller whose status is set remains a controller.
LEMMA SetOpTyped ==
    ASSUME TypeOK, NEW o, NEW s \in SigningStatuses
    PROVE  SetOp(o, s) \in [Ops -> Controller]
BY DEF TypeOK, SetOp, Controller

\* The groups of stages are stages.
LEMMA StagesTyped ==
    /\ Working \subseteq Stages
    /\ Closing \subseteq Stages
    /\ Failing \subseteq Stages
    /\ {"unused", "ended"} \subseteq Stages
BY DEF Stages

\* The shared endings of the actions of a call keep the types.
LEMMA ThrowTyped ==
    ASSUME TypeOK, NEW c \in Calls, Throw(c)
    PROVE  TypeOK'
<1>1. calls' \in [Calls -> Call]
  BY GotoTyped, StagesTyped DEF Throw, Failing
<1>2. ops' \in [Ops -> Controller]
  BY SetOpTyped DEF Throw, SigningStatuses
<1> QED
  BY <1>1, <1>2 DEF TypeOK, Throw

\* Any other exception keeps the types.
LEMMA CatchTyped ==
    ASSUME TypeOK, NEW c \in Calls, Catch(c), UNCHANGED ops
    PROVE  TypeOK'
<1>1. calls' \in [Calls -> Call]
  BY GotoTyped, StagesTyped DEF Catch, Failing
<1> QED
  BY <1>1 DEF TypeOK, Catch

\* An operation that was not signed keeps the types.
LEMMA NotSignedTyped ==
    ASSUME TypeOK, NEW c \in Calls, NotSigned(c), ops' \in [Ops -> Controller]
    PROVE  TypeOK'
<1>1. calls' \in [Calls -> Call]
  BY GotoTyped, StagesTyped DEF NotSigned, Failing
<1> QED
  BY <1>1 DEF TypeOK, NotSigned

\* The begin of the broadcast keeps the types.
LEMMA AfterSigningTyped ==
    ASSUME TypeOK, NEW c \in Calls, AfterSigning(c)
    PROVE  TypeOK'
<1>1. CASE Throw(c)
  BY <1>1, ThrowTyped
<1>2. CASE ~Throw(c)
  <2>1. calls' \in [Calls -> Call]
    BY <1>2, GotoTyped, StagesTyped DEF AfterSigning, Working
  <2>2. ops' \in [Ops -> Controller]
    BY <1>2, SetOpTyped DEF AfterSigning, SigningStatuses
  <2> QED
    BY <1>2, <2>1, <2>2 DEF TypeOK, AfterSigning
<1> QED
  BY <1>1, <1>2

\* The end of the broadcast keeps the types.
LEMMA ConcludeTyped ==
    ASSUME TypeOK, NEW c \in Calls, NEW n \in 0..MaxTxns, Conclude(c, n)
    PROVE  TypeOK'
<1>1. calls' \in [Calls -> Call]
  <2>1. (IF IsCurrent(c) THEN "success" ELSE "ended") \in Stages
    BY StagesTyped DEF Closing
  <2> QED
    BY <2>1, SentTyped DEF Conclude, Sends
<1> QED
  BY <1>1 DEF TypeOK, Conclude

\* An action that only moves the call on, and maybe changes the lock.
LEMMA MoveTyped ==
    ASSUME TypeOK, NEW c \in Calls, NEW stage \in Stages, Goto(c, stage),
           status' \in {status, "INITIAL"}, callId' \in {callId, NoCall},
           feePayerKey' \in {feePayerKey, "none"},
           UNCHANGED <<screens, ops>>
    PROVE  TypeOK'
<1>1. calls' \in [Calls -> Call]
  BY GotoTyped
<1> QED
  BY <1>1 DEF TypeOK

\* Every step of a call keeps the types.
LEMMA StepTyped ==
    ASSUME TypeOK, Supplied, NEW c \in Calls, Step(c)
    PROVE  TypeOK'
<1> USE StagesTyped
<1>1. CASE RouteFailed(c) \/ SignThrew(c) \/ StateFailed(c) \/ FinishFailed(c)
  BY <1>1, CatchTyped DEF RouteFailed, SignThrew, StateFailed, FinishFailed
<1>2. CASE BeginSign(c)
  <2>1. calls' \in [Calls -> Call]
    BY <1>2, GotoTyped DEF BeginSign, Working
  <2>2. ops' \in [Ops -> Controller]
    BY <1>2, SetOpTyped DEF BeginSign, SigningStatuses
  <2> QED
    BY <1>2, <2>1, <2>2 DEF BeginSign, TypeOK
<1>3. CASE SkipSign(c) \/ Signed(c)
  BY <1>3, AfterSigningTyped DEF SkipSign, Signed
<1>4. CASE RefuseSign(c) \/ SignFailed(c) \/ SignDropped(c)
  <2>1. ops' \in [Ops -> Controller]
    BY <1>4, SetOpTyped DEF RefuseSign, SignFailed, SignDropped, SigningStatuses, TypeOK
  <2> QED
    BY <1>4, <2>1, NotSignedTyped DEF RefuseSign, SignFailed, SignDropped
<1>5. CASE NonceFailed(c) \/ SubmitFailed(c)
  BY <1>5, ThrowTyped DEF NonceFailed, SubmitFailed
<1>6. CASE StateFetched(c) \/ TxnSigned(c)
  BY <1>6, MoveTyped DEF StateFetched, TxnSigned, Working
<1>7. CASE NonceFetched(c)
  <2>1. OpOf(c).choice \in Choice
    BY <1>7 DEF NonceFetched, Supplied, OpOf, TypeOK, Controller
  <2>2. calls' \in [Calls -> Call]
    <3>1. calls[c] \in Call /\ OpOf(c).choice.txns \in 1..MaxTxns
      BY <2>1 DEF TypeOK, Choice
    <3>2. [calls[c] EXCEPT !.stage = "txnSign", !.txns = OpOf(c).choice.txns] \in Call
      BY <3>1 DEF Call, Stages, Working
    <3> QED
      BY <1>7, <3>2, CallTyped DEF NonceFetched
  <2> QED
    BY <1>7, <2>1, <2>2 DEF NonceFetched, TypeOK, Choice
<1>8. CASE TxnFailed(c)
  <2>1. CASE Throw(c)
    BY <2>1, ThrowTyped
  <2>2. CASE Conclude(c, calls[c].sent)
    <3>1. calls[c].sent \in 0..MaxTxns
      BY DEF TypeOK, Call
    <3> QED
      BY <2>2, <3>1, ConcludeTyped
  <2>3. CASE Goto(c, "ended") /\ UNCHANGED <<status, callId, feePayerKey, screens, ops>>
    BY <2>3, MoveTyped
  <2> QED
    BY <1>8, <2>1, <2>2, <2>3 DEF TxnFailed, RawFailed
<1>9. CASE TxnSent(c)
  <2>1. calls[c].sent + 1 \in 0..MaxTxns
    BY <1>9, SignAssumption DEF TxnSent, Supplied, TypeOK, Call
  <2>2. CASE MoreTxns(c)
    <3>1. "txnSign" \in Stages
      BY DEF Stages, Working
    <3>2. calls' \in [Calls -> Call]
      BY <1>9, <2>1, <2>2, <3>1, SentTyped DEF TxnSent, Sends
    <3> QED
      BY <1>9, <2>2, <3>2 DEF TxnSent, TypeOK
  <2>3. CASE ~MoreTxns(c)
    BY <1>9, <2>1, <2>3, ConcludeTyped DEF TxnSent
  <2> QED
    BY <2>2, <2>3
<1>10. CASE Submitted(c)
  <2>1. 1 \in 0..MaxTxns
    BY SignAssumption
  <2> QED
    BY <1>10, <2>1, ConcludeTyped DEF Submitted
<1>11. CASE Publish(c) \/ RejectUnsent(c)
  BY <1>11, MoveTyped DEF Publish, RejectUnsent, Closing
<1>12. CASE Record(c)
  <2>1. calls' \in [Calls -> Call]
    <3>1. calls[c] \in Call
      BY DEF TypeOK
    <3>2. [calls[c] EXCEPT !.stage = "recorded", !.recorded = calls[c].sent] \in Call
      BY <3>1 DEF Call, Stages, Closing
    <3> QED
      BY <1>12, <3>2, CallTyped DEF Record
  <2> QED
    BY <1>12, <2>1 DEF Record, TypeOK
<1>13. CASE Resolve(c)
  <2>1. calls' \in [Calls -> Call]
    BY <1>13, GotoTyped DEF Resolve, Closing
  <2>2. ops' \in [Ops -> Controller]
    BY <1>13, SetOpTyped DEF Resolve, SigningStatuses, TypeOK
  <2>3. screens' \in [Screens -> Ops \cup {NoOp}]
    BY <1>13 DEF Resolve, TypeOK
  <2> QED
    BY <1>13, <2>1, <2>2, <2>3 DEF Resolve, TypeOK
<1>14. CASE Finish(c) \/ Finally(c)
  BY <1>14, MoveTyped DEF Finish, Finally, Release
<1>15. CASE Reset(c) \/ ResetUnsigned(c)
  BY <1>15, MoveTyped DEF Reset, ResetUnsigned, Failing
<1> QED
  BY <1>1, <1>2, <1>3, <1>4, <1>5, <1>6, <1>7, <1>8, <1>9, <1>10, <1>11, <1>12,
     <1>13, <1>14, <1>15 DEF Step

\* Every step of the user keeps the types.
LEMMA UserStepTyped ==
    ASSUME TypeOK, UserStep
    PROVE  TypeOK'
<1>1. ASSUME NEW o \in Ops, NEW screen \in Screens, Open(o, screen)
      PROVE  TypeOK'
  <2>1. PICK ch \in Choices : ops' = [ops EXCEPT ![o] =
            [used |-> TRUE, screen |-> screen, choice |-> ch, status |-> "notReady"]]
    BY <1>1 DEF Open
  <2>2. ops' \in [Ops -> Controller]
    BY <2>1, SignAssumption DEF TypeOK, Controller, SigningStatuses
  <2> QED
    BY <1>1, <2>2 DEF Open, TypeOK
<1>2. ASSUME NEW o \in Ops, NEW ch \in Choices, NEW s \in {"notReady", "ready"},
             Update(o, ch, s)
      PROVE  TypeOK'
  <2>1. ops' = [ops EXCEPT ![o] = [ops[o] EXCEPT !.choice = ch, !.status = s]]
    BY <1>2 DEF Update
  <2>2. ops[o] \in Controller /\ ch \in Choice /\ s \in SigningStatuses
    BY SignAssumption DEF TypeOK, SigningStatuses
  <2>3. [ops[o] EXCEPT !.choice = ch, !.status = s] \in Controller
    BY <2>2 DEF Controller
  <2>4. ops' \in [Ops -> Controller]
    BY <2>1, <2>3 DEF TypeOK
  <2> QED
    BY <1>2, <2>4 DEF Update, TypeOK
<1>3. ASSUME NEW c \in Calls, NEW screen \in Screens, Start(c, screen)
      PROVE  TypeOK'
  <2> DEFINE o == screens[screen]
  <2>1. o \in Ops
    BY <1>3 DEF Start, TypeOK
  <2>2. /\ Begun(o).lock \in {"SIGNING", "BROADCASTING", "ERROR"}
        /\ Begun(o).stage \in Stages
        /\ Begun(o).op \in SigningStatuses
    <3>1. ops[o].status \in SigningStatuses
      BY <2>1 DEF TypeOK, Controller
    <3> QED
      BY <3>1 DEF Begun, Stages, Working, Failing, SigningStatuses
  <2>3. ops' \in [Ops -> Controller]
    BY <1>3, <2>2, SetOpTyped DEF Start
  <2>4. calls' \in [Calls -> Call]
    <3>1. calls[c] \in Call
      BY DEF TypeOK
    <3>2. [calls[c] EXCEPT !.op = o, !.stage = Begun(o).stage] \in Call
      BY <2>1, <2>2, <3>1 DEF Call
    <3> QED
      BY <1>3, <3>2, CallTyped DEF Start
  <2> QED
    BY <1>3, <2>2, <2>3, <2>4 DEF Start, TypeOK
<1>4. ASSUME NEW c \in Calls, NEW screen \in Screens, StartWithout(c, screen)
      PROVE  TypeOK'
  <2>1. calls' \in [Calls -> Call]
    BY <1>4, GotoTyped, StagesTyped DEF StartWithout, Failing
  <2> QED
    BY <1>4, <2>1 DEF StartWithout, TypeOK
<1>5. ASSUME NEW o, NEW destroyed, Abort(o, destroyed)
      PROVE  /\ calls' \in [Calls -> Call]
             /\ status' \in {status, "INITIAL"}
             /\ callId' \in {callId, NoCall}
  BY <1>5 DEF Abort, TypeOK, Call
<1>6. CASE CloseMain
  <2>1. ops' \in [Ops -> Controller]
    BY <1>6, SetOpTyped DEF CloseMain, SigningStatuses
  <2> QED
    BY <1>5, <1>6, <2>1 DEF CloseMain, TypeOK
<1>7. ASSUME NEW screen \in Screens, Close(screen) \/ Discard(screen)
      PROVE  TypeOK'
  <2>1. ops' \in [Ops -> Controller]
    BY <1>7, SetOpTyped DEF Close, Discard, SigningStatuses
  <2> QED
    BY <1>5, <1>7, <2>1 DEF Close, Discard, TypeOK
<1>8. CASE CloseOneSession
  BY <1>5, <1>8 DEF CloseOneSession, TypeOK
<1> QED
  BY <1>1, <1>2, <1>3, <1>4, <1>6, <1>7, <1>8 DEF UserStep

-----------------------------------------------------------------------------
(* The lock *)

\* The shared endings of the actions of a call keep the lock with its holder.
LEMMA ThrowKeepsLock ==
    ASSUME LockInv, NEW c \in Calls, calls[c].stage \in Working, Throw(c)
    PROVE  HolderIsCurrent' /\ CancelledIsStale'
BY DEF LockInv, TypeOK, Call, HolderIsCurrent, CancelledIsStale, Holds, Throw, Goto,
       IsCurrent, Working

\* The same for any other exception.
LEMMA CatchKeepsLock ==
    ASSUME LockInv, NEW c \in Calls, calls[c].stage \in Working \cup {"notifying"}, Catch(c)
    PROVE  HolderIsCurrent' /\ CancelledIsStale'
BY DEF LockInv, TypeOK, Call, HolderIsCurrent, CancelledIsStale, Holds, Catch, Goto,
       IsCurrent, Working

\* The same for an operation that was not signed.
LEMMA NotSignedKeepsLock ==
    ASSUME LockInv, NEW c \in Calls, calls[c].stage \in Working, NotSigned(c)
    PROVE  HolderIsCurrent' /\ CancelledIsStale'
BY DEF LockInv, TypeOK, Call, HolderIsCurrent, CancelledIsStale, Holds, NotSigned, Goto,
       IsCurrent, Working

\* The same for the begin of the broadcast.
LEMMA AfterSigningKeepsLock ==
    ASSUME LockInv, NEW c \in Calls, calls[c].stage \in Working, AfterSigning(c)
    PROVE  HolderIsCurrent' /\ CancelledIsStale'
<1>1. CASE Throw(c)
  BY <1>1, ThrowKeepsLock
<1>2. CASE ~Throw(c)
  BY <1>2 DEF LockInv, TypeOK, Call, HolderIsCurrent, CancelledIsStale, Holds,
     AfterSigning, Goto, IsCurrent, Working
<1> QED
  BY <1>1, <1>2

\* The same for the end of the broadcast.
LEMMA ConcludeKeepsLock ==
    ASSUME LockInv, NEW c \in Calls, NEW n, calls[c].stage \in Working, Conclude(c, n)
    PROVE  HolderIsCurrent' /\ CancelledIsStale'
BY DEF LockInv, TypeOK, Call, HolderIsCurrent, CancelledIsStale, Holds, Conclude,
       IsCurrent, Working

\* A call that works on, or ends because it is not the current one.
LEMMA MoveKeepsLock ==
    ASSUME LockInv, NEW c \in Calls, calls[c].stage \in Working,
           NEW stage \in Working \cup {"ended"}, Goto(c, stage),
           UNCHANGED <<status, callId>>
    PROVE  HolderIsCurrent' /\ CancelledIsStale'
BY DEF LockInv, TypeOK, Call, HolderIsCurrent, CancelledIsStale, Holds, Goto, Working

\* No step of a call, current or stale, takes the lock from its holder.
LEMMA StepKeepsLock ==
    ASSUME LockInv, NEW c \in Calls, Step(c)
    PROVE  HolderIsCurrent' /\ CancelledIsStale'
<1> USE DEF Working
<1>1. CASE RouteFailed(c) \/ SignThrew(c) \/ StateFailed(c) \/ FinishFailed(c)
  BY <1>1, CatchKeepsLock DEF RouteFailed, SignThrew, StateFailed, FinishFailed
<1>2. CASE BeginSign(c) \/ StateFetched(c) \/ TxnSigned(c)
  BY <1>2, MoveKeepsLock DEF BeginSign, StateFetched, TxnSigned
<1>3. CASE SkipSign(c) \/ Signed(c)
  BY <1>3, AfterSigningKeepsLock DEF SkipSign, Signed
<1>4. CASE RefuseSign(c) \/ SignFailed(c) \/ SignDropped(c)
  BY <1>4, NotSignedKeepsLock DEF RefuseSign, SignFailed, SignDropped
<1>5. CASE NonceFailed(c) \/ SubmitFailed(c)
  BY <1>5, ThrowKeepsLock DEF NonceFailed, SubmitFailed
<1>6. CASE NonceFetched(c)
  BY <1>6 DEF NonceFetched, LockInv, TypeOK, Call, HolderIsCurrent, CancelledIsStale, Holds
<1>7. CASE TxnFailed(c)
  BY <1>7, ThrowKeepsLock, ConcludeKeepsLock, MoveKeepsLock DEF TxnFailed, RawFailed
<1>8. CASE TxnSent(c)
  <2>1. CASE MoreTxns(c)
    <3>1. /\ calls'[c].stage = "txnSign"
          /\ calls'[c].cancelled = calls[c].cancelled
          /\ \A d \in Calls \ {c} : calls'[d] = calls[d]
          /\ UNCHANGED <<status, callId>>
      BY <1>8, <2>1 DEF TxnSent, LockInv, TypeOK, Call
    <3> QED
      BY <1>8, <3>1 DEF TxnSent, LockInv, HolderIsCurrent, CancelledIsStale, Holds
  <2>2. CASE ~MoreTxns(c)
    BY <1>8, <2>2, ConcludeKeepsLock DEF TxnSent
  <2> QED
    BY <2>1, <2>2
<1>9. CASE Submitted(c)
  BY <1>9, ConcludeKeepsLock DEF Submitted
<1>10. CASE Publish(c)
  BY <1>10 DEF Publish, Goto, LockInv, TypeOK, Call, HolderIsCurrent, CancelledIsStale, Holds
<1>11. CASE RejectUnsent(c) \/ Resolve(c)
  BY <1>11 DEF RejectUnsent, Resolve, Goto, LockInv, TypeOK, Call, HolderIsCurrent,
     CancelledIsStale, Holds
<1>12. CASE Record(c)
  BY <1>12 DEF Record, LockInv, TypeOK, Call, HolderIsCurrent, CancelledIsStale, Holds
<1>13. CASE Finish(c) \/ Finally(c)
  BY <1>13, SignAssumption DEF Finish, Finally, Release, IsCurrent, Goto, LockInv, TypeOK,
     Call, HolderIsCurrent, CancelledIsStale, Holds
<1>14. CASE Reset(c) \/ ResetUnsigned(c)
  BY <1>14, SignAssumption DEF Reset, ResetUnsigned, Goto, LockInv, TypeOK, Call,
     HolderIsCurrent, CancelledIsStale, Holds
<1> QED
  BY <1>1, <1>2, <1>3, <1>4, <1>5, <1>6, <1>7, <1>8, <1>9, <1>10, <1>11, <1>12,
     <1>13, <1>14 DEF Step

\* A close can only take the lock from the call that has it, and marks it.
LEMMA AbortKeepsLock ==
    ASSUME LockInv, NEW o, NEW destroyed, Abort(o, destroyed)
    PROVE  HolderIsCurrent' /\ CancelledIsStale'
BY SignAssumption DEF Abort, AwaitsHW, LockInv, TypeOK, Call, HolderIsCurrent,
   CancelledIsStale, Holds

\* A user step takes the lock only from a call it cancels.
LEMMA UserStepKeepsLock ==
    ASSUME LockInv, UserStep
    PROVE  HolderIsCurrent' /\ CancelledIsStale'
<1>1. CASE CloseMain \/ CloseOneSession \/ \E screen \in Screens : Close(screen)
  BY <1>1, AbortKeepsLock DEF CloseMain, CloseOneSession, Close
<1>2. ASSUME NEW c \in Calls, NEW screen \in Screens, Start(c, screen)
      PROVE  HolderIsCurrent' /\ CancelledIsStale'
  <2> DEFINE begun == Begun(screens[screen])
  <2>1. /\ begun.lock # "INITIAL"
        /\ begun.stage \in {"failing", "unsigned"} => begun.lock = "ERROR"
        /\ begun.stage \notin {"success", "unused"}
    BY DEF Begun
  <2>2. status' = begun.lock /\ callId' = c
    BY <1>2 DEF Start
  <2>3. /\ calls'[c].stage = begun.stage
        /\ calls'[c].cancelled = calls[c].cancelled
    BY <1>2 DEF Start, LockInv, TypeOK, Call
  <2>4. \A d \in Calls \ {c} : calls'[d] = calls[d]
    BY <1>2 DEF Start, LockInv, TypeOK
  <2>5. \A d \in Calls : ~Holds(d) /\ calls[d].stage \notin {"failing", "unsigned", "success"}
    BY <1>2 DEF Start, Free, LockInv, HolderIsCurrent
  <2> HIDE DEF begun
  <2>6. HolderIsCurrent'
    BY <2>1, <2>2, <2>3, <2>4, <2>5 DEF HolderIsCurrent, Holds
  <2>7. CancelledIsStale'
    BY <1>2, <2>1, <2>2, <2>3, <2>4 DEF Start, LockInv, CancelledIsStale
  <2> QED
    BY <2>6, <2>7
<1>3. ASSUME NEW c \in Calls, NEW screen \in Screens, StartWithout(c, screen)
      PROVE  HolderIsCurrent' /\ CancelledIsStale'
  BY <1>3 DEF StartWithout, Goto, Free, LockInv, TypeOK, Call, HolderIsCurrent,
     CancelledIsStale, Holds
<1>4. CASE UNCHANGED <<status, callId, calls>>
  BY <1>4 DEF LockInv, HolderIsCurrent, CancelledIsStale, Holds
<1> QED
  BY <1>1, <1>2, <1>3, <1>4 DEF UserStep, Open, Update, Discard

\* A transaction that was sent is one of those that the call set out to send.
LEMMA TxnSentKeepsSupplied ==
    ASSUME TypeOK, Supplied, NEW c \in Calls, TxnSent(c)
    PROVE  Supplied'
<1> DEFINE n == calls[c].sent + 1
<1>1. PICK stage \in {"txnSign", "success", "ended"} :
          Sends(c, n, stage) /\ (stage = "txnSign" => MoreTxns(c))
  <2>1. CASE MoreTxns(c)
    <3>1. Sends(c, n, "txnSign")
      BY <2>1 DEF TxnSent, Sends
    <3> QED
      BY <2>1, <3>1
  <2>2. CASE Conclude(c, n) /\ IsCurrent(c)
    BY <2>2 DEF Conclude, Sends
  <2>3. CASE Conclude(c, n) /\ ~IsCurrent(c)
    BY <2>3 DEF Conclude, Sends
  <2> QED
    BY <2>1, <2>2, <2>3 DEF TxnSent
<1>2. calls \in [Calls -> Call]
  BY DEF TypeOK
<1>3. /\ calls'[c].op = calls[c].op /\ calls'[c].txns = calls[c].txns
      /\ calls'[c].sent = n /\ calls'[c].stage = stage
      /\ \A d \in Calls \ {c} : calls'[d] = calls[d]
  BY <1>1, <1>2, SentMoves
<1>4. calls[c].op \in Ops
  BY DEF Supplied, TxnSent
<1>5. stage \notin Early /\ (stage \in {"txnSign", "txnSend"} => n < calls[c].txns)
  BY <1>1 DEF Early, MoreTxns
<1> HIDE DEF n
<1> QED
  BY <1>3, <1>4, <1>5 DEF Supplied

\* A step of a call keeps its controller and its count of transactions.
LEMMA StepKeepsSupplied ==
    ASSUME TypeOK, Supplied, NEW c \in Calls, Step(c)
    PROVE  Supplied'
<1> USE DEF TypeOK, Call, Supplied, Early
<1>1. CASE RouteFailed(c) \/ SignThrew(c) \/ StateFailed(c) \/ FinishFailed(c)
  BY <1>1 DEF RouteFailed, SignThrew, StateFailed, FinishFailed, Catch, Goto
<1>2. CASE BeginSign(c) \/ StateFetched(c)
  BY <1>2 DEF BeginSign, StateFetched, Goto
<1>3. CASE SkipSign(c) \/ Signed(c)
  BY <1>3 DEF SkipSign, Signed, AfterSigning, Throw, Goto
<1>4. CASE RefuseSign(c) \/ SignFailed(c) \/ SignDropped(c)
  BY <1>4 DEF RefuseSign, SignFailed, SignDropped, NotSigned, Goto
<1>5. CASE NonceFailed(c) \/ SubmitFailed(c)
  BY <1>5 DEF NonceFailed, SubmitFailed, Throw, Goto
<1>6. CASE Submitted(c)
  BY <1>6 DEF Submitted, Conclude
<1>7. CASE TxnSigned(c)
  BY <1>7 DEF TxnSigned, Goto
<1>8. CASE TxnFailed(c)
  <2>1. calls[c].op \in Ops
    BY <1>8 DEF TxnFailed
  <2>2. \/ Conclude(c, calls[c].sent)
        \/ Throw(c)
        \/ Goto(c, "ended")
    BY <1>8 DEF TxnFailed, RawFailed
  <2>3. /\ calls'[c].op = calls[c].op
        /\ calls'[c].stage \in {"success", "failing", "ended"}
        /\ \A d \in Calls \ {c} : calls'[d] = calls[d]
    <3>1. CASE Conclude(c, calls[c].sent)
      BY <3>1 DEF Conclude
    <3>2. CASE Throw(c)
      BY <3>2 DEF Throw, Goto
    <3>3. CASE Goto(c, "ended")
      BY <3>3 DEF Goto
    <3> QED
      BY <2>2, <3>1, <3>2, <3>3
  <2> QED
    BY <2>1, <2>3
<1>9. CASE TxnSent(c)
  BY <1>9, TxnSentKeepsSupplied
<1>10. CASE Publish(c) \/ RejectUnsent(c) \/ Resolve(c) \/ Finish(c) \/ Finally(c)
  BY <1>10 DEF Publish, RejectUnsent, Resolve, Finish, Finally, Goto
<1>11. CASE Record(c)
  BY <1>11 DEF Record
<1>12. CASE Reset(c) \/ ResetUnsigned(c)
  BY <1>12 DEF Reset, ResetUnsigned, Goto
<1>13. CASE NonceFetched(c)
  <2>1. OpOf(c).choice.txns \in 1..MaxTxns
    BY <1>13 DEF NonceFetched, OpOf, Controller, Choice
  <2>2. /\ calls'[c].op = calls[c].op
        /\ calls[c].op \in Ops
        /\ calls'[c].stage = "txnSign"
        /\ calls'[c].sent = 0
        /\ calls'[c].txns = OpOf(c).choice.txns
        /\ \A d \in Calls \ {c} : calls'[d] = calls[d]
    BY <1>13 DEF NonceFetched
  <2> QED
    BY <2>1, <2>2
<1> QED
  BY <1>1, <1>2, <1>3, <1>4, <1>5, <1>6, <1>7, <1>8, <1>9, <1>10, <1>11, <1>12,
     <1>13 DEF Step

\* A user step gives a call its controller and nothing sent.
LEMMA UserStepKeepsSupplied ==
    ASSUME TypeOK, Supplied, UserStep
    PROVE  Supplied'
<1> USE DEF TypeOK, Call, Supplied, Early
<1>1. ASSUME NEW c \in Calls, NEW screen \in Screens, Start(c, screen)
      PROVE  Supplied'
  <2>1. /\ calls'[c].op \in Ops
        /\ calls'[c].sent = 0
        /\ \A d \in Calls \ {c} : calls'[d] = calls[d]
    BY <1>1 DEF Start
  <2>2. calls'[c].stage \in {"route", "signing", "state", "unsigned"}
    BY <1>1 DEF Start, Begun
  <2> QED
    BY <2>1, <2>2
<1>2. ASSUME NEW c \in Calls, NEW screen \in Screens, StartWithout(c, screen)
      PROVE  Supplied'
  BY <1>2 DEF StartWithout, Goto
<1>3. ASSUME NEW o, NEW destroyed, Abort(o, destroyed)
      PROVE  Supplied'
  BY <1>3 DEF Abort
<1>4. CASE UNCHANGED calls
  BY <1>4
<1> QED
  BY <1>1, <1>2, <1>3, <1>4 DEF UserStep, Open, Update, Discard, CloseMain, Close,
     CloseOneSession

\* No call, no lock, nothing sent.
LEMMA InitLocked ==
    Init => LockInv /\ Supplied
<1> SUFFICES ASSUME Init PROVE LockInv /\ Supplied
  OBVIOUS
<1>1. TypeOK
  BY InitTyped
<1>2. HolderIsCurrent /\ CancelledIsStale /\ Supplied
  BY SignAssumption DEF Init, HolderIsCurrent, CancelledIsStale, Supplied, Holds, Working
<1> QED
  BY <1>1, <1>2 DEF LockInv

\* The invariant of the lock is inductive.
LEMMA LockInductive ==
    LockInv /\ Supplied /\ [Next]_vars => (LockInv /\ Supplied)'
<1> SUFFICES ASSUME LockInv, Supplied, [Next]_vars PROVE LockInv' /\ Supplied'
  OBVIOUS
<1>1. TypeOK
  BY DEF LockInv
<1>2. CASE UserStep
  BY <1>1, <1>2, UserStepTyped, UserStepKeepsLock, UserStepKeepsSupplied DEF LockInv
<1>3. ASSUME NEW c \in Calls, Step(c)
      PROVE  LockInv' /\ Supplied'
  BY <1>1, <1>3, StepTyped, StepKeepsLock, StepKeepsSupplied DEF LockInv
<1>4. CASE UNCHANGED vars
  BY <1>4 DEF vars, LockInv, TypeOK, HolderIsCurrent, CancelledIsStale, Holds, Supplied
<1> QED
  BY <1>2, <1>3, <1>4 DEF Next

\* The inductive invariant of the lock.
LEMMA LockInvariant ==
    Spec => [](LockInv /\ Supplied)
BY InitLocked, LockInductive, PTL DEF Spec

\* Every variable keeps its type: no call sends or records more transactions
\* than there can be, and no screen shows what is not a controller.
THEOREM TypeCorrect ==
    Spec => []TypeOK
<1>1. LockInv /\ Supplied => TypeOK
  BY DEF LockInv
<1> QED
  BY <1>1, LockInvariant, PTL

\* A call that nothing cancelled holds the lock until its result, whatever stale
\* calls, closed screens and answers of the network come in between.
THEOREM LockIsHeld ==
    Spec => []WorkingHoldsTheLock
<1>1. LockInv /\ Supplied => WorkingHoldsTheLock
  BY DEF LockInv, HolderIsCurrent, Holds, WorkingHoldsTheLock, IsWorking
<1> QED
  BY <1>1, LockInvariant, PTL

-----------------------------------------------------------------------------
(* The history *)

\* A controller that was created stays on the screen it was created for.
Stable == \A o \in Ops : ops[o].used => ops'[o].used /\ ops'[o].screen = ops[o].screen

\* Setting a status moves no controller to another screen.
LEMMA SetOpStable ==
    ASSUME TypeOK, NEW o, NEW s, ops' = SetOp(o, s)
    PROVE  Stable
BY DEF TypeOK, Controller, SetOp, Stable

\* ops changes by SetOp, by Open and by Update, and by nothing else.
LEMMA StepStable ==
    ASSUME TypeOK, NEW c \in Calls, Step(c)
    PROVE  Stable
<1>1. CASE UNCHANGED ops
  BY <1>1 DEF Stable
<1>2. CASE \E o, s : ops' = SetOp(o, s)
  BY <1>2, SetOpStable
<1>3. CASE ~ UNCHANGED ops
  <2>1. \/ BeginSign(c) \/ RefuseSign(c) \/ SignFailed(c) \/ Resolve(c)
        \/ AfterSigning(c) \/ Throw(c)
    BY <1>3 DEF Step, RouteFailed, SkipSign, Signed, SignDropped, SignThrew, StateFailed,
       StateFetched, NonceFailed, NonceFetched, TxnSigned, TxnFailed, RawFailed, TxnSent,
       Conclude, Submitted, SubmitFailed, Publish, RejectUnsent, Record, Finish,
       FinishFailed, Reset, ResetUnsigned, Finally
  <2>2. \E o, s : ops' = SetOp(o, s)
    BY <1>3, <2>1 DEF BeginSign, RefuseSign, SignFailed, Resolve, AfterSigning, Throw
  <2> QED
    BY <1>2, <2>2
<1> QED
  BY <1>1, <1>3

\* A user step never creates a controller twice.
LEMMA UserStepStable ==
    ASSUME TypeOK, UserStep
    PROVE  Stable
<1>1. ASSUME NEW o \in Ops, NEW screen \in Screens, Open(o, screen)
      PROVE  Stable
  <2>1. ~ops[o].used /\ \A p \in Ops \ {o} : ops'[p] = ops[p]
    BY <1>1 DEF Open, TypeOK
  <2> QED
    BY <2>1 DEF Stable
<1>2. ASSUME NEW o \in Ops, NEW ch \in Choices, NEW st, Update(o, ch, st)
      PROVE  Stable
  BY <1>2 DEF Update, TypeOK, Controller, Stable
<1>3. CASE \E o, s : ops' = SetOp(o, s)
  BY <1>3, SetOpStable
<1>4. CASE UNCHANGED ops
  BY <1>4 DEF Stable
<1> QED
  BY <1>1, <1>2, <1>3, <1>4 DEF UserStep, Start, StartWithout, CloseMain, Close, Discard,
     CloseOneSession

\* Screens only ever show a controller that was created.
LEMMA ScreensStayUsed ==
    ASSUME TypeOK, ScreensUsed, Stable, Next
    PROVE  ScreensUsed'
<1>1. ASSUME NEW o \in Ops, NEW screen \in Screens, Open(o, screen)
      PROVE  ScreensUsed'
  <2>1. ops'[o].used
    BY <1>1 DEF Open, TypeOK
  <2> QED
    BY <1>1, <2>1 DEF Open, TypeOK, ScreensUsed, Stable
<1>2. CASE UNCHANGED screens
  BY <1>2 DEF ScreensUsed, Stable, TypeOK
<1>3. CASE \E s : screens' = [screens EXCEPT ![s] = NoOp]
  BY <1>3, SignAssumption DEF ScreensUsed, Stable, TypeOK
<1>4. ASSUME NEW c \in Calls, Step(c)
      PROVE  ScreensUsed'
  <2>1. CASE Resolve(c)
    BY <1>2, <1>3, <2>1 DEF Resolve
  <2>2. CASE ~Resolve(c)
    <3>1. UNCHANGED screens
      BY <1>4, <2>2 DEF Step, RouteFailed, BeginSign, SkipSign, RefuseSign, Signed,
         SignFailed, SignDropped, SignThrew, StateFailed, StateFetched, NonceFailed,
         NonceFetched, TxnSigned, TxnFailed, RawFailed, TxnSent, Conclude, Submitted,
         SubmitFailed, Publish, RejectUnsent, Record, Finish, FinishFailed, Reset,
         ResetUnsigned, Finally, AfterSigning, NotSigned, Throw, Catch
    <3> QED
      BY <1>2, <3>1
  <2> QED
    BY <2>1, <2>2
<1>5. CASE UserStep
  BY <1>1, <1>2, <1>3, <1>5 DEF UserStep, Update, Start, StartWithout, CloseMain, Close,
     Discard, CloseOneSession
<1> QED
  BY <1>4, <1>5 DEF Next

\* The account of a call does not depend on what the others do.
LEMMA AccountKept ==
    ASSUME Stable, NEW c \in Calls, Accounted(c),
           calls'[c].op = calls[c].op, calls'[c].stage = calls[c].stage,
           calls'[c].sent = calls[c].sent, calls'[c].recorded = calls[c].recorded,
           calls'[c].cancelled = "no" => calls[c].cancelled = "no"
    PROVE  Accounted(c)'
BY DEF Stable, Accounted, OpOf

\* What the step of a call does to the call.
Moved(c) ==
    /\ calls'[c].op = calls[c].op
    /\ calls'[c].cancelled = calls[c].cancelled
    /\ \A d \in Calls \ {c} : calls'[d] = calls[d]

\* Moving a call to another stage changes nothing else of it.
LEMMA GotoMoves ==
    ASSUME TypeOK, NEW c \in Calls, NEW stage, Goto(c, stage)
    PROVE  /\ Moved(c)
           /\ calls'[c].stage = stage
           /\ calls'[c].sent = calls[c].sent
           /\ calls'[c].recorded = calls[c].recorded
BY DEF TypeOK, Call, Goto, Moved

\* The end of the broadcast says how much was sent, and records nothing.
LEMMA ConcludeMoves ==
    ASSUME TypeOK, NEW c \in Calls, NEW n, Conclude(c, n)
    PROVE  /\ Moved(c)
           /\ calls'[c].stage = IF IsCurrent(c) THEN "success" ELSE "ended"
           /\ calls'[c].sent = n
           /\ calls'[c].recorded = calls[c].recorded
BY DEF TypeOK, Call, Conclude, Moved

\* An unrecorded call that ends has sent nothing, was cancelled, or is a swap's.
LEMMA StoppedAccounted ==
    ASSUME Stable, NEW c \in Calls, Accounted(c), Moved(c),
           calls[c].stage \notin Late \cup Stopped,
           calls'[c].stage \in Stopped \cup {"unsigned"},
           calls'[c].recorded = calls[c].recorded,
           \/ calls'[c].sent = 0
           \/ calls[c].cancelled # "no"
           \/ calls[c].op \in Ops /\ OpOf(c).screen = "swap"
    PROVE  Accounted(c)'
BY DEF Stable, Accounted, OpOf, Moved, Late, Stopped

\* An unrecorded call that goes on has recorded nothing.
LEMMA OngoingAccounted ==
    ASSUME Stable, NEW c \in Calls, Accounted(c), Moved(c),
           calls[c].stage \notin Late \cup Stopped,
           calls'[c].stage \notin Late \cup Stopped,
           calls'[c].recorded = calls[c].recorded
    PROVE  Accounted(c)'
BY DEF Stable, Accounted, Moved

\* A recorded or stopped call that goes on keeps its account.
LEMMA ClosedAccounted ==
    ASSUME Stable, NEW c \in Calls, Accounted(c), Moved(c),
           calls[c].stage \in Late \cup Stopped,
           calls'[c].stage \in Late \cup Stopped,
           calls[c].stage \in Stopped => calls'[c].stage \in Stopped,
           calls'[c].sent = calls[c].sent,
           calls'[c].recorded = calls[c].recorded
    PROVE  Accounted(c)'
BY DEF Stable, Accounted, OpOf, Moved, Late, Stopped

\* Every step of a call leaves its account right and the other calls alone.
LEMMA StepAccounted ==
    ASSUME HistoryInv, NEW c \in Calls, Step(c), Stable
    PROVE  Accounted(c)' /\ \A d \in Calls \ {c} : calls'[d] = calls[d]
<1>1. TypeOK /\ Accounted(c)
  BY DEF HistoryInv, LockInv
<1>2. calls[c].stage \in Working /\ ~IsCurrent(c) => calls[c].cancelled # "no"
  BY DEF HistoryInv, LockInv, HolderIsCurrent, Holds, IsCurrent
<1>3. calls[c].stage \in Early => calls[c].sent = 0
  BY DEF HistoryInv, Supplied
<1>4. CASE RouteFailed(c) \/ SignThrew(c) \/ StateFailed(c)
  <2>1. calls[c].stage \in Early \cap Working
    BY <1>4 DEF RouteFailed, SignThrew, StateFailed, Early, Working
  <2>2. PICK stage \in {"failing", "ended"} : Goto(c, stage)
    BY <1>4 DEF RouteFailed, SignThrew, StateFailed, Catch
  <2> QED
    BY <1>1, <1>3, <2>1, <2>2, GotoMoves, StoppedAccounted
       DEF Early, Working, Late, Stopped, Moved
<1>5. CASE FinishFailed(c)
  <2>1. PICK stage \in {"failing", "ended"} : Goto(c, stage)
    BY <1>5 DEF FinishFailed, Catch
  <2> QED
    BY <1>1, <1>5, <2>1, GotoMoves, ClosedAccounted DEF FinishFailed, Late, Stopped, Moved
<1>6. CASE RefuseSign(c) \/ SignFailed(c) \/ SignDropped(c)
  <2>1. calls[c].stage \in {"route", "signing"}
    BY <1>6 DEF RefuseSign, SignFailed, SignDropped
  <2>2. PICK stage \in {"unsigned", "ended"} : Goto(c, stage)
    BY <1>6 DEF RefuseSign, SignFailed, SignDropped, NotSigned
  <2> QED
    BY <1>1, <1>3, <2>1, <2>2, GotoMoves, StoppedAccounted DEF Early, Late, Stopped, Moved
<1>7. CASE NonceFailed(c) \/ SubmitFailed(c)
  <2>1. calls[c].stage \in {"nonce", "submit"}
    BY <1>7 DEF NonceFailed, SubmitFailed
  <2>2. PICK stage \in {"failing", "ended"} : Goto(c, stage)
    BY <1>7 DEF NonceFailed, SubmitFailed, Throw
  <2> QED
    BY <1>1, <1>3, <2>1, <2>2, GotoMoves, StoppedAccounted DEF Early, Late, Stopped, Moved
<1>8. CASE SkipSign(c) \/ Signed(c)
  <2>1. calls[c].stage \in {"route", "signing"}
    BY <1>8 DEF SkipSign, Signed
  <2>2. PICK stage \in {"state", "failing", "ended"} : Goto(c, stage)
    BY <1>8 DEF SkipSign, Signed, AfterSigning, Throw
  <2>3. Moved(c) /\ calls'[c].stage = stage /\ calls'[c].sent = 0
        /\ calls'[c].recorded = calls[c].recorded
    BY <1>1, <1>3, <2>1, <2>2, GotoMoves DEF Early
  <2> QED
    BY <1>1, <2>1, <2>3, StoppedAccounted, OngoingAccounted DEF Late, Stopped, Moved
<1>9. CASE BeginSign(c) \/ StateFetched(c) \/ Publish(c) \/ RejectUnsent(c)
  <2>1. calls[c].stage \in {"route", "state", "success", "published"}
    BY <1>9 DEF BeginSign, StateFetched, Publish, RejectUnsent
  <2>2. PICK stage \in {"signing", "nonce", "submit", "published", "rejecting"} : Goto(c, stage)
    BY <1>9 DEF BeginSign, StateFetched, Publish, RejectUnsent
  <2> QED
    BY <1>1, <2>1, <2>2, GotoMoves, OngoingAccounted DEF Late, Stopped, Moved
<1>10. CASE NonceFetched(c)
  <2>1. /\ Moved(c)
        /\ calls[c].stage = "nonce"
        /\ calls'[c].stage = "txnSign"
        /\ calls'[c].recorded = calls[c].recorded
    BY <1>1, <1>10 DEF NonceFetched, TypeOK, Call, Moved
  <2> QED
    BY <1>1, <2>1, OngoingAccounted DEF Late, Stopped, Moved
<1>11. CASE TxnSigned(c)
  <2>1. calls[c].stage = "txnSign"
    BY <1>11 DEF TxnSigned
  <2>2. PICK stage \in {"txnSend", "ended"} :
            Goto(c, stage) /\ (stage = "ended" => ~IsCurrent(c))
    BY <1>11 DEF TxnSigned
  <2>3. Moved(c) /\ calls'[c].stage = stage /\ calls'[c].recorded = calls[c].recorded
    BY <1>1, <2>2, GotoMoves
  <2> QED
    BY <1>1, <1>2, <2>1, <2>2, <2>3, StoppedAccounted, OngoingAccounted
       DEF Late, Stopped, Working, Moved
<1>12. CASE TxnFailed(c)
  <2>1. calls[c].stage \in {"txnSign", "txnSend"} /\ calls[c].op \in Ops
    BY <1>12 DEF TxnFailed, HistoryInv, Supplied
  <2>2. CASE ~IsCurrent(c)
    <3>1. Goto(c, "ended")
      BY <1>12, <2>2 DEF TxnFailed, RawFailed
    <3> QED
      BY <1>1, <1>2, <2>1, <2>2, <3>1, GotoMoves, StoppedAccounted
         DEF Late, Stopped, Working, Moved
  <2>3. CASE IsCurrent(c) /\ KeepsPartial(c)
    <3>1. Conclude(c, calls[c].sent)
      BY <1>12, <2>3 DEF TxnFailed, RawFailed
    <3>2. /\ Moved(c)
          /\ calls'[c].stage = "success"
          /\ calls'[c].recorded = calls[c].recorded
      BY <1>1, <2>3, <3>1, ConcludeMoves
    <3> QED
      BY <1>1, <2>1, <3>2, OngoingAccounted DEF Late, Stopped, Moved
  <2>4. CASE IsCurrent(c) /\ ~KeepsPartial(c)
    <3>1. Goto(c, "failing")
      BY <1>12, <2>4 DEF TxnFailed, RawFailed, Throw
    <3>2. calls[c].sent = 0 \/ OpOf(c).screen = "swap"
      BY <1>1, <2>4 DEF KeepsPartial, TypeOK, Call
    <3> QED
      BY <1>1, <2>1, <3>1, <3>2, GotoMoves, StoppedAccounted DEF Late, Stopped, Moved
  <2> QED
    BY <2>2, <2>3, <2>4
<1>13. CASE TxnSent(c) \/ Submitted(c)
  <2>1. calls[c].stage \in {"txnSend", "submit"}
    BY <1>13 DEF TxnSent, Submitted
  <2>2. CASE \E n : Conclude(c, n)
    <3>1. /\ Moved(c)
          /\ calls'[c].stage = IF IsCurrent(c) THEN "success" ELSE "ended"
          /\ calls'[c].recorded = calls[c].recorded
      BY <1>1, <2>2, ConcludeMoves
    <3>2. CASE IsCurrent(c)
      BY <1>1, <2>1, <3>1, <3>2, OngoingAccounted DEF Late, Stopped, Moved
    <3>3. CASE ~IsCurrent(c)
      BY <1>1, <1>2, <2>1, <3>1, <3>3, StoppedAccounted DEF Late, Stopped, Working, Moved
    <3> QED
      BY <3>2, <3>3
  <2>3. CASE TxnSent(c) /\ MoreTxns(c)
    <3>1. calls \in [Calls -> Call]
      BY <1>1 DEF TypeOK
    <3>2. Sends(c, calls[c].sent + 1, "txnSign")
      BY <2>3 DEF TxnSent, Sends
    <3>3. Moved(c) /\ calls'[c].stage = "txnSign" /\ calls'[c].recorded = calls[c].recorded
      BY <3>1, <3>2, SentMoves DEF Moved
    <3> QED
      BY <1>1, <2>1, <3>3, OngoingAccounted DEF Late, Stopped, Moved
  <2> QED
    BY <1>13, <2>2, <2>3 DEF TxnSent, Submitted
<1>14. CASE Record(c)
  <2>1. /\ Moved(c)
        /\ calls'[c].stage = "recorded"
        /\ calls'[c].recorded = calls[c].sent
        /\ calls'[c].sent = calls[c].sent
    BY <1>1, <1>14 DEF Record, TypeOK, Call, Moved
  <2> QED
    BY <1>1, <2>1 DEF Accounted, Late, Stopped, Stable, Moved
<1>15. CASE Resolve(c) \/ Finish(c) \/ Reset(c) \/ Finally(c)
  <2>1. calls[c].stage \in Late \cup {"failing", "failed"}
    BY <1>15 DEF Resolve, Finish, Reset, Finally, Late
  <2>2. PICK stage \in {"notifying", "failed", "ended"} :
            Goto(c, stage) /\ (stage = "notifying" => calls[c].stage = "recorded")
    BY <1>15 DEF Resolve, Finish, Reset, Finally
  <2>3. /\ Moved(c)
        /\ calls'[c].stage = stage
        /\ calls'[c].sent = calls[c].sent
        /\ calls'[c].recorded = calls[c].recorded
    BY <1>1, <2>2, GotoMoves
  <2> QED
    BY <1>1, <2>1, <2>2, <2>3, ClosedAccounted DEF Late, Stopped, Moved
<1>16. CASE ResetUnsigned(c)
  <2>1. calls[c].stage = "unsigned" /\ Goto(c, "failed")
    BY <1>16 DEF ResetUnsigned
  <2> QED
    BY <1>1, <1>3, <2>1, GotoMoves, StoppedAccounted DEF Early, Late, Stopped, Moved
<1> QED
  BY <1>4, <1>5, <1>6, <1>7, <1>8, <1>9, <1>10, <1>11, <1>12, <1>13, <1>14, <1>15,
     <1>16 DEF Step

\* A user step leaves the account of every call right.
LEMMA UserStepAccounted ==
    ASSUME HistoryInv, UserStep, Stable, NEW c \in Calls
    PROVE  Accounted(c)'
<1>1. TypeOK /\ Accounted(c) /\ ScreensUsed
  BY DEF HistoryInv, LockInv
<1>2. ASSUME NEW d \in Calls, NEW screen \in Screens, Start(d, screen)
      PROVE  Accounted(c)'
  <2>1. CASE c = d
    <3> DEFINE o == screens[screen]
    <3>1. o \in Ops /\ ops[o].used
      BY <1>1, <1>2 DEF Start, TypeOK, ScreensUsed
    <3>2. /\ calls'[c].op = o
          /\ calls'[c].stage \in {"route", "signing", "state", "unsigned"}
          /\ calls'[c].recorded = calls[c].recorded
      BY <1>1, <1>2, <2>1 DEF Start, Begun, TypeOK, Call
    <3>3. calls[c].stage = "unused"
      BY <1>2, <2>1 DEF Start
    <3> QED
      BY <1>1, <3>1, <3>2, <3>3 DEF Accounted, Stable, Late, Stopped
  <2>2. CASE c # d
    <3>1. calls'[c] = calls[c]
      BY <1>1, <1>2, <2>2 DEF Start, TypeOK
    <3> QED
      BY <1>1, <3>1, AccountKept
  <2> QED
    BY <2>1, <2>2
<1>3. ASSUME NEW d \in Calls, NEW screen \in Screens, StartWithout(d, screen)
      PROVE  Accounted(c)'
  <2>1. CASE c = d
    <3>1. /\ calls[c].stage = "unused"
          /\ Goto(c, "failing")
          /\ calls[c].sent = 0
      BY <1>3, <2>1 DEF StartWithout, HistoryInv, Supplied, Early
    <3> QED
      BY <1>1, <3>1, GotoMoves, StoppedAccounted DEF Late, Stopped
  <2>2. CASE c # d
    <3>1. calls'[c] = calls[c]
      BY <1>1, <1>3, <2>2 DEF StartWithout, Goto, TypeOK
    <3> QED
      BY <1>1, <3>1, AccountKept
  <2> QED
    BY <2>1, <2>2
<1>4. ASSUME NEW o, NEW destroyed, Abort(o, destroyed)
      PROVE  Accounted(c)'
  <2>1. /\ calls'[c].op = calls[c].op
        /\ calls'[c].stage = calls[c].stage
        /\ calls'[c].sent = calls[c].sent
        /\ calls'[c].recorded = calls[c].recorded
        /\ calls'[c].cancelled = "no" => calls[c].cancelled = "no"
    BY <1>1, <1>4 DEF Abort, TypeOK, Call
  <2> QED
    BY <1>1, <2>1, AccountKept
<1>5. CASE UNCHANGED calls
  BY <1>1, <1>5, AccountKept
<1> QED
  BY <1>2, <1>3, <1>4, <1>5 DEF UserStep, Open, Update, Discard, CloseMain, Close,
     CloseOneSession

\* Initially nothing was sent and nothing recorded.
LEMMA InitHistory ==
    Init => HistoryInv
<1> SUFFICES ASSUME Init PROVE HistoryInv
  OBVIOUS
<1>1. LockInv /\ Supplied
  BY InitLocked
<1>2. ScreensUsed
  BY SignAssumption DEF Init, ScreensUsed
<1>3. \A c \in Calls : Accounted(c)
  BY SignAssumption DEF Init, Accounted, Late, Stopped
<1> QED
  BY <1>1, <1>2, <1>3 DEF HistoryInv

\* Every step keeps the invariant of the history.
LEMMA HistoryInductive ==
    HistoryInv /\ [Next]_vars => HistoryInv'
<1> SUFFICES ASSUME HistoryInv, [Next]_vars PROVE HistoryInv'
  OBVIOUS
<1>1. TypeOK /\ ScreensUsed /\ LockInv /\ Supplied
  BY DEF HistoryInv, LockInv
<1>2. LockInv' /\ Supplied'
  BY <1>1, LockInductive
<1>3. CASE Next
  <2>1. Stable
    BY <1>1, <1>3, StepStable, UserStepStable DEF Next
  <2>2. ScreensUsed'
    BY <1>1, <1>3, <2>1, ScreensStayUsed
  <2>3. ASSUME NEW c \in Calls PROVE Accounted(c)'
    <3>1. CASE UserStep
      BY <2>1, <3>1, UserStepAccounted
    <3>2. ASSUME NEW d \in Calls, Step(d) PROVE Accounted(c)'
      <4>1. CASE c = d
        BY <2>1, <3>2, <4>1, StepAccounted
      <4>2. CASE c # d
        <5>1. calls'[c] = calls[c]
          BY <2>1, <3>2, <4>2, StepAccounted
        <5>2. Accounted(c)
          BY DEF HistoryInv
        <5> QED
          BY <2>1, <5>1, <5>2, AccountKept
      <4> QED
        BY <4>1, <4>2
    <3> QED
      BY <1>3, <3>1, <3>2 DEF Next
  <2> QED
    BY <1>2, <2>2, <2>3 DEF HistoryInv
<1>4. CASE UNCHANGED vars
  BY <1>2, <1>4 DEF vars, HistoryInv, ScreensUsed, Accounted, OpOf
<1> QED
  BY <1>3, <1>4

\* The invariant of the history.
LEMMA HistoryInvariant ==
    Spec => []HistoryInv
BY InitHistory, HistoryInductive, PTL DEF Spec

\* What the history is told is what the network accepted, and a call that nothing
\* cancelled leaves nothing of it out, unless it failed in the middle of a swap.
THEOREM HistoryIsFaithful ==
    Spec => []HistoryMatchesNetwork
<1>1. HistoryInv => HistoryMatchesNetwork
  <2> SUFFICES ASSUME HistoryInv, NEW c \in Calls
               PROVE  /\ calls[c].recorded \in {0, calls[c].sent}
                      /\ calls[c].stage = "ended" /\ calls[c].cancelled = "no" =>
                             calls[c].recorded = calls[c].sent \/ OpOf(c).screen = "swap"
    BY DEF HistoryMatchesNetwork
  <2> QED
    BY DEF HistoryInv, Accounted, Stopped
<1> QED
  BY <1>1, HistoryInvariant, PTL

-----------------------------------------------------------------------------
(* The controllers *)

\* The controller is not on the screen it was created for.
Gone(o) == screens[ops[o].screen] # o

\* A screen shows the controllers that were created for it.
OnOwnScreen ==
    /\ \A s \in Screens : screens[s] \in Ops => ops[screens[s]].screen = s
    /\ \A o \in Ops : ops[o].used => ops[o].screen \in Screens

\* A close that cancels a call takes its controller away, or says that it did not.
ClosedIsGone ==
    \A c \in Calls : IsWorking(c) /\ calls[c].cancelled = "closed" => Gone(calls[c].op)

\* The controller of a call that signs or broadcasts is frozen until the call is
\* over, or can no longer be updated.
Committed(c) ==
    /\ calls[c].stage \in Working \ {"route"}
    /\ calls[c].cancelled = "no"
    /\ ~Kept(calls[c].op)
CommittedHolds ==
    \A c \in Calls : Committed(c) => Frozen(calls[c].op) \/ Gone(calls[c].op)

ControllerInv ==
    /\ HistoryInv
    /\ OnOwnScreen
    /\ ClosedIsGone
    /\ OneCallPerController
    /\ CommittedHolds

\* What no step of a call does: it creates no controller, changes no choice and
\* shows nothing on a screen.
SameControllers == \A o \in Ops :
    /\ ops'[o].used = ops[o].used
    /\ ops'[o].screen = ops[o].screen
    /\ ops'[o].choice = ops[o].choice
ScreensLose == \A s \in Screens : screens'[s] \in {screens[s], NoOp}

\* Setting a status changes nothing else, and no other controller.
LEMMA SetOpSame ==
    ASSUME TypeOK, NEW o, NEW s, ops' = SetOp(o, s)
    PROVE  /\ SameControllers
           /\ \A p \in Ops \ {o} : ops'[p] = ops[p]
           /\ o \in Ops => ops'[o].status = s
BY DEF TypeOK, Controller, SetOp, SameControllers

\* The status of a controller is set by the call that works with it, to a frozen
\* one unless the call is over; or by a result that takes the screen away.
OwnStatus(c) ==
    \/ UNCHANGED ops
    \/ /\ calls[c].stage \in Working
       /\ \E s \in SigningStatuses :
              /\ ops' = SetOp(calls[c].op, s)
              /\ s \in {"inProgress", "done"} \/ calls'[c].stage \notin Working
    \/ \E screen \in Screens :
           /\ ops' = SetOp(screens[screen], "notReady")
           /\ screens' = [screens EXCEPT ![screen] = NoOp]

\* A call that leaves the route for its signature or its broadcast is committed.
Commits(c) ==
    calls[c].stage = "route" /\ calls'[c].stage \in Working =>
        \E s \in {"inProgress", "done"} : ops' = SetOp(calls[c].op, s)

StepEffect(c) ==
    /\ Moved(c)
    /\ calls'[c].stage \in Working => calls[c].stage \in Working
    /\ OwnStatus(c)
    /\ Commits(c)

\* The shared endings of the actions of a call have the effects of a step.
LEMMA ThrowEffect ==
    ASSUME TypeOK, NEW c \in Calls, calls[c].stage \in Working, Throw(c)
    PROVE  StepEffect(c)
<1>1. Moved(c) /\ calls'[c].stage \in {"failing", "ended"}
  BY GotoMoves DEF Throw
<1> QED
  BY <1>1 DEF StepEffect, OwnStatus, Commits, Throw, Working, SigningStatuses

\* A step that moves the call on and leaves the controllers alone.
LEMMA GotoEffect ==
    ASSUME TypeOK, NEW c \in Calls, NEW stage, Goto(c, stage), UNCHANGED ops,
           stage \in Working => calls[c].stage \in Working \ {"route"}
    PROVE  StepEffect(c)
<1>1. Moved(c) /\ calls'[c].stage = stage
  BY GotoMoves
<1> QED
  BY <1>1 DEF StepEffect, OwnStatus, Commits

\* The same for any other exception.
LEMMA CatchEffect ==
    ASSUME TypeOK, NEW c \in Calls, Catch(c), UNCHANGED ops
    PROVE  StepEffect(c)
<1>1. "failing" \notin Working /\ "ended" \notin Working
  BY DEF Working
<1> QED
  BY <1>1, GotoEffect DEF Catch

\* The same for the end of the broadcast.
LEMMA ConcludeEffect ==
    ASSUME TypeOK, NEW c \in Calls, NEW n, Conclude(c, n)
    PROVE  StepEffect(c)
<1>1. Moved(c) /\ calls'[c].stage \in {"success", "ended"} /\ UNCHANGED ops
  BY ConcludeMoves DEF Conclude
<1> QED
  BY <1>1 DEF StepEffect, OwnStatus, Commits, Working

\* The same for the begin of the broadcast.
LEMMA AfterSigningEffect ==
    ASSUME TypeOK, NEW c \in Calls, calls[c].stage \in Working, AfterSigning(c)
    PROVE  StepEffect(c)
<1>1. CASE Throw(c)
  BY <1>1, ThrowEffect
<1>2. CASE ~Throw(c)
  <2>1. ops' = SetOp(calls[c].op, "done") /\ (Goto(c, "ended") \/ Goto(c, "state"))
    BY <1>2 DEF AfterSigning
  <2>2. Moved(c)
    BY <2>1, GotoMoves
  <2> QED
    BY <2>1, <2>2 DEF StepEffect, OwnStatus, Commits, SigningStatuses
<1> QED
  BY <1>1, <1>2

\* The same for an operation that was not signed.
LEMMA NotSignedEffect ==
    ASSUME TypeOK, NEW c \in Calls, calls[c].stage \in Working, NotSigned(c),
           UNCHANGED ops \/ ops' = SetOp(calls[c].op, "ready")
    PROVE  StepEffect(c)
<1>1. Moved(c) /\ calls'[c].stage \in {"unsigned", "ended"}
  BY GotoMoves DEF NotSigned
<1> QED
  BY <1>1 DEF StepEffect, OwnStatus, Commits, Working, SigningStatuses

\* Every step of a call has these effects and no others on the controllers.
LEMMA StepHasEffect ==
    ASSUME ControllerInv, NEW c \in Calls, Step(c)
    PROVE  StepEffect(c)
<1> TypeOK
  BY DEF ControllerInv, HistoryInv, LockInv
<1>0. /\ {"route", "signing", "state", "nonce", "txnSign", "txnSend", "submit"} = Working
      /\ {"ended", "failed", "published", "rejecting", "recorded", "notifying"} \cap Working = {}
  BY DEF Working
<1>1. CASE RouteFailed(c) \/ SignThrew(c) \/ StateFailed(c) \/ FinishFailed(c)
  BY <1>1, CatchEffect DEF RouteFailed, SignThrew, StateFailed, FinishFailed
<1>2. CASE BeginSign(c)
  <2>1. Moved(c) /\ calls[c].stage \in Working /\ ops' = SetOp(calls[c].op, "inProgress")
    BY <1>0, <1>2, GotoMoves DEF BeginSign
  <2> QED
    BY <2>1 DEF StepEffect, OwnStatus, Commits, SigningStatuses
<1>3. CASE SkipSign(c) \/ Signed(c)
  BY <1>0, <1>3, AfterSigningEffect DEF SkipSign, Signed
<1>4. CASE RefuseSign(c) \/ SignFailed(c) \/ SignDropped(c)
  BY <1>0, <1>4, NotSignedEffect DEF RefuseSign, SignFailed, SignDropped
<1>5. CASE NonceFailed(c) \/ SubmitFailed(c)
  BY <1>0, <1>5, ThrowEffect DEF NonceFailed, SubmitFailed
<1>6. CASE StateFetched(c) \/ TxnSigned(c)
  BY <1>0, <1>6, GotoEffect DEF StateFetched, TxnSigned
<1>7. CASE NonceFetched(c)
  <2>1. Moved(c) /\ calls'[c].stage = "txnSign" /\ calls[c].stage = "nonce" /\ UNCHANGED ops
    BY <1>7 DEF NonceFetched, Moved, TypeOK, Call
  <2> QED
    BY <1>0, <2>1 DEF StepEffect, OwnStatus, Commits
<1>8. CASE TxnFailed(c)
  <2>1. calls[c].stage \in Working
    BY <1>0, <1>8 DEF TxnFailed
  <2> QED
    BY <1>0, <1>8, <2>1, ThrowEffect, ConcludeEffect, GotoEffect DEF TxnFailed, RawFailed
<1>9. CASE TxnSent(c)
  <2>1. CASE MoreTxns(c)
    <3>1. Moved(c) /\ calls[c].stage = "txnSend" /\ UNCHANGED ops
      BY <1>9, <2>1 DEF TxnSent, Moved, TypeOK, Call
    <3> QED
      BY <1>0, <3>1 DEF StepEffect, OwnStatus, Commits
  <2>2. CASE ~MoreTxns(c)
    BY <1>9, <2>2, ConcludeEffect DEF TxnSent
  <2> QED
    BY <2>1, <2>2
<1>10. CASE Submitted(c)
  BY <1>10, ConcludeEffect DEF Submitted
<1>11. CASE Publish(c) \/ RejectUnsent(c) \/ Finish(c) \/ Reset(c) \/ ResetUnsigned(c) \/ Finally(c)
  BY <1>0, <1>11, GotoEffect DEF Publish, RejectUnsent, Finish, Reset, ResetUnsigned, Finally
<1>12. CASE Record(c)
  <2>1. Moved(c) /\ calls'[c].stage = "recorded" /\ UNCHANGED ops
    BY <1>12 DEF Record, Moved, TypeOK, Call
  <2> QED
    BY <1>0, <2>1 DEF StepEffect, OwnStatus, Commits
<1>13. CASE Resolve(c)
  <2>1. Moved(c) /\ calls'[c].stage = "notifying"
    BY <1>13, GotoMoves DEF Resolve
  <2>2. OwnStatus(c)
    <3>1. CASE UNCHANGED ops
      BY <3>1 DEF OwnStatus
    <3>2. CASE ~UNCHANGED ops
      <4> DEFINE screen == OpOf(c).screen
      <4>1. /\ ops' = SetOp(screens[screen], "notReady")
            /\ screens' = [screens EXCEPT ![screen] = NoOp]
        BY <1>13, <3>2 DEF Resolve
      <4>2. calls[c].op \in Ops
        BY <1>13 DEF Resolve, ControllerInv, HistoryInv, Supplied
      <4>3. screen \in Screens
        BY <4>2 DEF ControllerInv, HistoryInv, Accounted, OnOwnScreen, OpOf
      <4> QED
        BY <4>1, <4>3 DEF OwnStatus
    <3> QED
      BY <3>1, <3>2
  <2> QED
    BY <1>0, <2>1, <2>2 DEF StepEffect, Commits
<1> QED
  BY <1>1, <1>2, <1>3, <1>4, <1>5, <1>6, <1>7, <1>8, <1>9, <1>10, <1>11, <1>12, <1>13
     DEF Step

-----------------------------------------------------------------------------
(* What a step does not take back *)

\* The step of a call takes screens away and shows nothing new on them.
LEMMA StepScreensLose ==
    ASSUME TypeOK, NEW c \in Calls, Step(c)
    PROVE  ScreensLose
<1>1. CASE Resolve(c)
  BY <1>1 DEF Resolve, ScreensLose, TypeOK
<1>2. CASE ~Resolve(c)
  <2>1. UNCHANGED screens
    BY <1>2 DEF Step, RouteFailed, BeginSign, SkipSign, RefuseSign, Signed,
       SignFailed, SignDropped, SignThrew, StateFailed, StateFetched, NonceFailed,
       NonceFetched, TxnSigned, TxnFailed, RawFailed, TxnSent, Conclude, Submitted,
       SubmitFailed, Publish, RejectUnsent, Record, Finish, FinishFailed, Reset,
       ResetUnsigned, Finally, AfterSigning, NotSigned, Throw, Catch
  <2> QED
    BY <2>1 DEF ScreensLose
<1> QED
  BY <1>1, <1>2

\* A controller that left its screen does not come back.
GoneAfter(o) == screens'[ops'[o].screen] # o
GoneStays == \A o \in Ops : ops[o].used /\ Gone(o) => GoneAfter(o)

\* Taking controllers off their screens brings none back.
LEMMA LostStaysGone ==
    ASSUME ControllerInv, Stable, ScreensLose
    PROVE  GoneStays
BY SignAssumption DEF ControllerInv, OnOwnScreen, Stable, ScreensLose, GoneStays, Gone, GoneAfter

\* A screen that loses its controllers still shows only its own.
LEMMA LostKeepsOwnScreen ==
    ASSUME ControllerInv, Stable, ScreensLose, \A o \in Ops : ops'[o].used => ops[o].used
    PROVE  OnOwnScreen'
BY SignAssumption DEF ControllerInv, HistoryInv, ScreensUsed, OnOwnScreen, Stable, ScreensLose

\* A call that lost the lock while its controller stayed is remembered.
KeptStays ==
    \A k \in Calls : calls[k].cancelled = "kept" =>
        calls'[k].cancelled = "kept" /\ calls'[k].op = calls[k].op

KeptAfter(o) == \E k \in Calls : calls'[k].op = o /\ calls'[k].cancelled = "kept"

\* Calls that remember that they were kept keep their controllers marked.
LEMMA KeptIsMonotone ==
    ASSUME KeptStays, NEW o, Kept(o)
    PROVE  KeptAfter(o)
BY DEF KeptStays, Kept, KeptAfter

\* What CommittedHolds says of the next state.
FrozenAfter(o) == ops'[o].status \in {"inProgress", "done"}
CommittedAfter(c) ==
    /\ calls'[c].stage \in Working \ {"route"}
    /\ calls'[c].cancelled = "no"
    /\ ~KeptAfter(calls'[c].op)

\* It is enough to show CommittedHolds' with these operators.
LEMMA CommittedLater ==
    ASSUME \A c \in Calls : CommittedAfter(c) =>
               FrozenAfter(calls'[c].op) \/ GoneAfter(calls'[c].op)
    PROVE  CommittedHolds'
BY DEF CommittedHolds, CommittedAfter, FrozenAfter, GoneAfter, KeptAfter, Committed, Frozen,
       Gone, Kept

-----------------------------------------------------------------------------
(* The steps of a call *)

\* The step of a call leaves every controller with the call that works on it.
LEMMA StepKeepsController ==
    ASSUME ControllerInv, NEW c \in Calls, Step(c)
    PROVE  OnOwnScreen' /\ ClosedIsGone' /\ OneCallPerController' /\ CommittedHolds'
<1>1. TypeOK /\ StepEffect(c)
  BY StepHasEffect DEF ControllerInv, HistoryInv, LockInv
<1>2. Stable /\ ScreensLose
  BY <1>1, StepStable, StepScreensLose
<1>3. GoneStays
  BY <1>2, LostStaysGone
<1>4. SameControllers
  <2>1. CASE UNCHANGED ops
    BY <2>1 DEF SameControllers
  <2>2. CASE \E o, s : ops' = SetOp(o, s)
    BY <1>1, <2>2, SetOpSame
  <2> QED
    BY <1>1, <2>1, <2>2 DEF StepEffect, OwnStatus
<1>5. \A k \in Calls :
          /\ calls'[k].op = calls[k].op
          /\ calls'[k].cancelled = calls[k].cancelled
          /\ k # c => calls'[k] = calls[k]
          /\ calls'[k].stage \in Working => calls[k].stage \in Working
  BY <1>1 DEF StepEffect, Moved
<1>6. \A o : Kept(o) => KeptAfter(o)
  BY <1>5, KeptIsMonotone DEF KeptStays
<1>7. \A k \in Calls : IsWorking(k) =>
          calls[k].op \in Ops /\ ops[calls[k].op].used
  BY DEF ControllerInv, HistoryInv, Supplied, Accounted, IsWorking, Working
<1>8. OnOwnScreen'
  BY <1>2, <1>4, LostKeepsOwnScreen DEF SameControllers
<1>9. ClosedIsGone'
  <2> SUFFICES ASSUME NEW k \in Calls, IsWorking(k)', calls'[k].cancelled = "closed"
               PROVE  GoneAfter(calls'[k].op)
    BY DEF ClosedIsGone, Gone, GoneAfter, IsWorking
  <2>1. IsWorking(k) /\ calls[k].cancelled = "closed" /\ calls'[k].op = calls[k].op
    BY <1>5 DEF IsWorking
  <2> QED
    BY <1>3, <1>7, <2>1 DEF GoneStays, ControllerInv, ClosedIsGone
<1>10. OneCallPerController'
  <2> SUFFICES ASSUME NEW k \in Calls, NEW d \in Calls, IsWorking(k)', IsWorking(d)',
                      ~KeptAfter(calls'[k].op), calls'[k].op = calls'[d].op
               PROVE  k = d
    BY DEF OneCallPerController, Kept, KeptAfter, IsWorking
  <2> QED
    BY <1>5, <1>6 DEF ControllerInv, OneCallPerController, IsWorking
<1>11. CommittedHolds'
  <2> SUFFICES ASSUME NEW k \in Calls, CommittedAfter(k)
               PROVE  FrozenAfter(calls'[k].op) \/ GoneAfter(calls'[k].op)
    BY CommittedLater
  <2> DEFINE o == calls[k].op
  <2>1. calls'[k].op = o /\ IsWorking(k) /\ ~Kept(o) /\ calls'[k].stage \in Working
    BY <1>5, <1>6 DEF CommittedAfter, IsWorking
  <2>2. o \in Ops /\ ops[o].used
    BY <1>7, <2>1
  <2>3. CASE calls[k].stage = "route"
    <3>1. k = c
      BY <1>5, <2>3 DEF CommittedAfter
    <3>2. \E s \in {"inProgress", "done"} : ops' = SetOp(o, s)
      BY <1>1, <2>1, <2>3, <3>1 DEF StepEffect, Commits
    <3>3. ops'[o].status \in {"inProgress", "done"}
      BY <1>1, <2>2, <3>2, SetOpSame
    <3> QED
      BY <2>1, <3>3 DEF Frozen, FrozenAfter
  <2>4. CASE calls[k].stage # "route"
    <3>1. Frozen(o) \/ Gone(o)
      BY <1>5, <1>6, <2>1, <2>4
         DEF Committed, CommittedAfter, ControllerInv, CommittedHolds, IsWorking
    <3>2. CASE Gone(o)
      BY <1>3, <2>1, <2>2, <3>2 DEF GoneStays
    <3>3. CASE Frozen(o) /\ ops'[o] = ops[o]
      BY <2>1, <3>3 DEF Frozen, FrozenAfter
    <3>4. CASE ops'[o] # ops[o]
      <4>1. CASE \E s \in SigningStatuses :
                    /\ ops' = SetOp(calls[c].op, s)
                    /\ calls[c].stage \in Working
                    /\ s \in {"inProgress", "done"} \/ calls'[c].stage \notin Working
        <5>1. calls[c].op = o
          BY <1>1, <2>2, <3>4, <4>1, SetOpSame
        <5>2. c = k
          BY <2>1, <4>1, <5>1 DEF ControllerInv, OneCallPerController, IsWorking
        <5>3. ops'[o].status \in {"inProgress", "done"}
          BY <1>1, <2>1, <2>2, <4>1, <5>1, <5>2, SetOpSame
        <5> QED
          BY <2>1, <5>3 DEF FrozenAfter
      <4>2. CASE \E screen \in Screens :
                    /\ ops' = SetOp(screens[screen], "notReady")
                    /\ screens' = [screens EXCEPT ![screen] = NoOp]
        <5>1. PICK screen \in Screens :
                    /\ ops' = SetOp(screens[screen], "notReady")
                    /\ screens' = [screens EXCEPT ![screen] = NoOp]
          BY <4>2
        <5>2. screens[screen] = o
          BY <1>1, <2>2, <3>4, <5>1, SetOpSame
        <5>3. ops[o].screen = screen /\ ops'[o].screen = screen
          BY <1>4, <2>2, <5>2 DEF ControllerInv, OnOwnScreen, SameControllers
        <5>4. screens'[screen] = NoOp
          BY <1>1, <5>1 DEF TypeOK
        <5> QED
          BY <2>1, <2>2, <5>3, <5>4, SignAssumption DEF GoneAfter
      <4> QED
        BY <1>1, <3>4, <4>1, <4>2 DEF StepEffect, OwnStatus
    <3> QED
      BY <3>1, <3>2, <3>3, <3>4
  <2> QED
    BY <2>3, <2>4
<1> QED
  BY <1>8, <1>9, <1>10, <1>11

-----------------------------------------------------------------------------
(* The steps of a user *)

\* A call that a user step cancels is the current one, which nothing cancelled
\* before; it counts as kept exactly if its controller is still on its screen.
Aborted(o, destroyed) ==
    /\ \A k \in Calls :
           /\ calls'[k].op = calls[k].op
           /\ calls'[k].stage = calls[k].stage
           /\ calls'[k].cancelled = calls[k].cancelled
              \/ calls[k].cancelled = "no"
    /\ \A k \in Calls : calls'[k].cancelled = "closed" /\ calls[k].cancelled # "closed" =>
           Gone(calls[k].op) \/ (destroyed /\ calls[k].op = o)

\* What #abortHWTransactionSign does to the calls.
LEMMA AbortCancels ==
    ASSUME LockInv, NEW o, NEW destroyed, Abort(o, destroyed)
    PROVE  Aborted(o, destroyed)
<1>1. CASE UNCHANGED calls
  BY <1>1 DEF Aborted
<1>2. CASE ~UNCHANGED calls
  <2>1. callId \in Calls /\ calls[callId] \in Call
    BY <1>2 DEF Abort, LockInv, TypeOK
  <2>2. calls[callId].cancelled = "no"
    BY <2>1 DEF LockInv, CancelledIsStale
  <2>3. calls' = [calls EXCEPT ![callId] = [calls[callId] EXCEPT !.cancelled =
                     IF KeptBy(o, destroyed) THEN "kept" ELSE "closed"]]
    BY <1>2 DEF Abort
  <2>4. /\ \A k \in Calls \ {callId} : calls'[k] = calls[k]
        /\ calls'[callId].op = calls[callId].op
        /\ calls'[callId].stage = calls[callId].stage
        /\ calls'[callId].cancelled = IF KeptBy(o, destroyed) THEN "kept" ELSE "closed"
    BY <2>1, <2>3 DEF LockInv, TypeOK, Call
  <2>5. KeptBy(o, destroyed) \/ Gone(calls[callId].op) \/ (destroyed /\ calls[callId].op = o)
    BY DEF KeptBy, Gone
  <2> QED
    BY <2>2, <2>4, <2>5 DEF Aborted
<1> QED
  BY <1>1, <1>2

\* A step that only cancels keeps the invariant, when a controller that it sets
\* back leaves its screen.
LEMMA CancelKeepsController ==
    ASSUME ControllerInv, Stable, ScreensLose, NEW o, NEW destroyed, Aborted(o, destroyed),
           \A p \in Ops : ops'[p].used => ops[p].used,
           \A p \in Ops : ops'[p].status # ops[p].status => GoneAfter(p),
           destroyed /\ o \in Ops => GoneAfter(o)
    PROVE  OnOwnScreen' /\ ClosedIsGone' /\ OneCallPerController' /\ CommittedHolds'
<1>1. GoneStays
  BY LostStaysGone
<1>2. \A p : Kept(p) => KeptAfter(p)
  BY KeptIsMonotone DEF Aborted, KeptStays
<1>3. \A k \in Calls : IsWorking(k) => calls[k].op \in Ops /\ ops[calls[k].op].used
  BY DEF ControllerInv, HistoryInv, Supplied, Accounted, IsWorking, Working
<1>4. OnOwnScreen'
  BY LostKeepsOwnScreen
<1>5. ClosedIsGone'
  <2> SUFFICES ASSUME NEW k \in Calls, IsWorking(k)', calls'[k].cancelled = "closed"
               PROVE  GoneAfter(calls'[k].op)
    BY DEF ClosedIsGone, Gone, GoneAfter, IsWorking
  <2>1. IsWorking(k) /\ calls'[k].op = calls[k].op
    BY DEF Aborted, IsWorking
  <2>2. Gone(calls[k].op) \/ (destroyed /\ calls[k].op = o)
    BY <2>1 DEF Aborted, ControllerInv, ClosedIsGone
  <2> QED
    BY <1>1, <1>3, <2>1, <2>2 DEF GoneStays
<1>6. OneCallPerController'
  <2> SUFFICES ASSUME NEW k \in Calls, NEW d \in Calls, IsWorking(k)', IsWorking(d)',
                      ~KeptAfter(calls'[k].op), calls'[k].op = calls'[d].op
               PROVE  k = d
    BY DEF OneCallPerController, Kept, KeptAfter, IsWorking
  <2> QED
    BY <1>2 DEF Aborted, ControllerInv, OneCallPerController, IsWorking
<1>7. ASSUME NEW k \in Calls, CommittedAfter(k)
      PROVE  FrozenAfter(calls'[k].op) \/ GoneAfter(calls'[k].op)
  <2>1. Committed(k) /\ calls'[k].op = calls[k].op
    BY <1>2, <1>7 DEF CommittedAfter, Committed, Aborted
  <2>2. calls[k].op \in Ops /\ ops[calls[k].op].used
    BY <1>3, <2>1 DEF Committed, IsWorking
  <2>3. Frozen(calls[k].op) \/ Gone(calls[k].op)
    BY <2>1 DEF ControllerInv, CommittedHolds
  <2> QED
    BY <1>1, <2>1, <2>2, <2>3 DEF GoneStays, Frozen, FrozenAfter
<1>8. CommittedHolds'
  BY <1>7, CommittedLater
<1> QED
  BY <1>4, <1>5, <1>6, <1>8

\* Closing a screen, and discarding its controller, take it off the screen.
LEMMA TakenIsGone ==
    ASSUME ControllerInv, NEW screen \in Screens, screens[screen] \in Ops,
           ops' = SetOp(screens[screen], "notReady"),
           screens' = [screens EXCEPT ![screen] = NoOp]
    PROVE  /\ ScreensLose
           /\ GoneAfter(screens[screen])
           /\ \A p \in Ops : ops'[p].used => ops[p].used
           /\ \A p \in Ops : ops'[p].status # ops[p].status => GoneAfter(p)
<1>1. TypeOK
  BY DEF ControllerInv, HistoryInv, LockInv
<1>2. ScreensLose /\ screens'[screen] = NoOp
  BY <1>1 DEF ScreensLose, TypeOK
<1>3. SameControllers /\ \A p \in Ops \ {screens[screen]} : ops'[p] = ops[p]
  BY <1>1, SetOpSame
<1>4. ops'[screens[screen]].screen = screen
  BY <1>3 DEF SameControllers, ControllerInv, OnOwnScreen
<1>5. GoneAfter(screens[screen])
  BY <1>2, <1>4, SignAssumption DEF GoneAfter
<1> QED
  BY <1>2, <1>3, <1>5 DEF SameControllers

\* A user step keeps every controller with the call that works on it.
LEMMA UserStepKeepsController ==
    ASSUME ControllerInv, UserStep
    PROVE  OnOwnScreen' /\ ClosedIsGone' /\ OneCallPerController' /\ CommittedHolds'
<1>1. TypeOK /\ LockInv /\ Stable
  BY UserStepStable DEF ControllerInv, HistoryInv, LockInv
<1>2. \A k \in Calls : IsWorking(k) => calls[k].op \in Ops /\ ops[calls[k].op].used
  BY DEF ControllerInv, HistoryInv, Supplied, Accounted, IsWorking, Working
<1>3. ASSUME NEW o \in Ops, NEW screen \in Screens, Open(o, screen)
      PROVE  OnOwnScreen' /\ ClosedIsGone' /\ OneCallPerController' /\ CommittedHolds'
  <2>1. /\ ~ops[o].used /\ UNCHANGED calls
        /\ \A p \in Ops \ {o} : ops'[p] = ops[p]
        /\ ops'[o].screen = screen
        /\ screens'[screen] = o
        /\ \A s \in Screens \ {screen} : screens'[s] = screens[s]
    BY <1>1, <1>3 DEF Open, TypeOK
  <2>2. \A s \in Screens : screens[s] # o
    BY <2>1 DEF ControllerInv, HistoryInv, ScreensUsed
  <2>3. OnOwnScreen'
    BY <2>1, <2>2 DEF ControllerInv, OnOwnScreen
  <2>4. \A p \in Ops : ops[p].used /\ Gone(p) => GoneAfter(p)
    BY <2>1 DEF ControllerInv, OnOwnScreen, Gone, GoneAfter
  <2>5. \A k \in Calls : IsWorking(k) => ops'[calls[k].op] = ops[calls[k].op]
    BY <1>2, <2>1
  <2>6. ClosedIsGone'
    BY <1>2, <2>1, <2>4 DEF ControllerInv, ClosedIsGone, GoneAfter, Gone, IsWorking
  <2>7. OneCallPerController'
    BY <2>1 DEF ControllerInv, OneCallPerController, Kept, IsWorking
  <2>8. ASSUME NEW k \in Calls, CommittedAfter(k)
        PROVE  FrozenAfter(calls'[k].op) \/ GoneAfter(calls'[k].op)
    <3>1. Committed(k) /\ IsWorking(k)
      BY <2>1, <2>8 DEF CommittedAfter, Committed, Kept, KeptAfter, IsWorking
    <3>2. Frozen(calls[k].op) \/ Gone(calls[k].op)
      BY <3>1 DEF ControllerInv, CommittedHolds
    <3> QED
      BY <1>2, <2>1, <2>4, <2>5, <3>1, <3>2 DEF Frozen, FrozenAfter
  <2> QED
    BY <2>3, <2>6, <2>7, <2>8, CommittedLater
<1>4. ASSUME NEW o \in Ops, NEW ch \in Choices, NEW s \in {"notReady", "ready"}, Update(o, ch, s)
      PROVE  OnOwnScreen' /\ ClosedIsGone' /\ OneCallPerController' /\ CommittedHolds'
  <2>1. /\ UNCHANGED <<screens, calls>>
        /\ ~Frozen(o) /\ ~Gone(o)
        /\ \A p \in Ops \ {o} : ops'[p] = ops[p]
        /\ ops'[o].used = ops[o].used /\ ops'[o].screen = ops[o].screen
    BY <1>1, <1>4 DEF Update, TypeOK, Controller, Gone
  <2>2. ScreensLose /\ \A p \in Ops : ops'[p].used => ops[p].used
    BY <2>1 DEF ScreensLose
  <2>3. GoneStays /\ OnOwnScreen'
    BY <1>1, <2>2, LostStaysGone, LostKeepsOwnScreen
  <2>4. ClosedIsGone'
    BY <1>2, <2>1, <2>3 DEF ControllerInv, ClosedIsGone, GoneStays, GoneAfter, Gone, IsWorking
  <2>5. OneCallPerController'
    BY <2>1 DEF ControllerInv, OneCallPerController, Kept, IsWorking
  <2>6. ASSUME NEW k \in Calls, CommittedAfter(k)
        PROVE  FrozenAfter(calls'[k].op) \/ GoneAfter(calls'[k].op)
    <3>1. Committed(k) /\ IsWorking(k)
      BY <2>1, <2>6 DEF CommittedAfter, Committed, Kept, KeptAfter, IsWorking
    <3>2. Frozen(calls[k].op) \/ Gone(calls[k].op)
      BY <3>1 DEF ControllerInv, CommittedHolds
    <3> QED
      BY <1>2, <2>1, <2>3, <3>1, <3>2 DEF GoneStays, Frozen, FrozenAfter
  <2> QED
    BY <2>3, <2>4, <2>5, <2>6, CommittedLater
<1>5. ASSUME NEW c \in Calls, NEW screen \in Screens, Start(c, screen)
      PROVE  OnOwnScreen' /\ ClosedIsGone' /\ OneCallPerController' /\ CommittedHolds'
  <2> DEFINE o == screens[screen]
  <2>1. /\ o \in Ops
        /\ calls[c].stage = "unused" /\ calls[c].cancelled = "no" /\ status = "INITIAL"
        /\ UNCHANGED screens
        /\ calls'[c].op = o /\ calls'[c].stage = Begun(o).stage /\ calls'[c].cancelled = "no"
        /\ \A k \in Calls \ {c} : calls'[k] = calls[k]
        /\ ops' = SetOp(o, Begun(o).op)
    <3>1. calls[c].stage = "unused" /\ o \in Ops /\ calls[c] \in Call
      BY <1>1, <1>5 DEF Start, TypeOK
    <3>2. calls'[c] = [calls[c] EXCEPT !.op = o, !.stage = Begun(o).stage]
          /\ \A k \in Calls \ {c} : calls'[k] = calls[k]
      BY <1>1, <1>5 DEF Start, TypeOK
    <3>3. calls[c].cancelled = "no"
      BY <1>1, <3>1 DEF LockInv, CancelledIsStale
    <3> QED
      BY <1>5, <3>1, <3>2, <3>3 DEF Start, Free, Call
  <2>2. SameControllers /\ (\A p \in Ops \ {o} : ops'[p] = ops[p])
        /\ ops'[o].status = Begun(o).op
    BY <1>1, <2>1, SetOpSame
  <2>3. /\ ScreensLose
        /\ (\A p \in Ops : ops'[p].used => ops[p].used)
        /\ (\A p : Kept(p) => KeptAfter(p))
    <3>1. KeptStays
      BY <2>1 DEF KeptStays
    <3> QED
      BY <2>1, <2>2, <3>1, KeptIsMonotone DEF ScreensLose, SameControllers
  <2>4. GoneStays /\ OnOwnScreen'
    BY <1>1, <2>3, LostStaysGone, LostKeepsOwnScreen
  <2>5. ~Gone(o)
    BY <2>1 DEF Gone, ControllerInv, OnOwnScreen
  <2>6. \A k \in Calls : IsWorking(k) /\ calls[k].op = o => Kept(o)
    <3> SUFFICES ASSUME NEW k \in Calls, IsWorking(k), calls[k].op = o PROVE Kept(o)
      OBVIOUS
    <3>1. calls[k].cancelled # "no"
      BY <1>1, <2>1 DEF LockInv, HolderIsCurrent, Holds, IsWorking
    <3>2. calls[k].cancelled # "closed"
      BY <2>5 DEF ControllerInv, ClosedIsGone
    <3> QED
      BY <1>1, <3>1, <3>2 DEF Kept, TypeOK, Call
  <2>7. ClosedIsGone'
    BY <1>2, <2>1, <2>4 DEF ControllerInv, ClosedIsGone, GoneStays, GoneAfter, Gone, IsWorking
  <2>8. OneCallPerController'
    <3> SUFFICES ASSUME NEW k \in Calls, NEW d \in Calls, IsWorking(k)', IsWorking(d)',
                        ~KeptAfter(calls'[k].op), calls'[k].op = calls'[d].op
                 PROVE  k = d
      BY DEF OneCallPerController, Kept, KeptAfter, IsWorking
    <3>1. CASE k # c /\ d # c
      BY <2>1, <2>3, <3>1 DEF ControllerInv, OneCallPerController, IsWorking
    <3>2. CASE k = c \/ d = c
      BY <2>1, <2>3, <2>6, <3>2 DEF IsWorking
    <3> QED
      BY <3>1, <3>2
  <2>9. ASSUME NEW k \in Calls, CommittedAfter(k)
        PROVE  FrozenAfter(calls'[k].op) \/ GoneAfter(calls'[k].op)
    <3>1. CASE k = c
      <4>1. Begun(o).stage \in Working \ {"route"} => Begun(o).op \in {"inProgress", "done"}
        BY DEF Begun, Working
      <4>2. Begun(o).stage \in Working \ {"route"}
        BY <2>1, <2>9, <3>1 DEF CommittedAfter
      <4> QED
        BY <2>1, <2>2, <3>1, <4>1, <4>2 DEF FrozenAfter
    <3>2. CASE k # c
      <4>1. Committed(k)
        BY <2>1, <2>3, <2>9, <3>2 DEF CommittedAfter, Committed
      <4> QED
        BY <1>1, <2>1, <4>1 DEF Committed, LockInv, HolderIsCurrent, Holds
    <3> QED
      BY <3>1, <3>2
  <2> QED
    BY <2>4, <2>7, <2>8, <2>9, CommittedLater
<1>6. ASSUME NEW c \in Calls, NEW screen \in Screens, StartWithout(c, screen)
      PROVE  OnOwnScreen' /\ ClosedIsGone' /\ OneCallPerController' /\ CommittedHolds'
  <2>1. /\ UNCHANGED <<screens, ops>>
        /\ Moved(c) /\ calls'[c].stage = "failing"
    BY <1>1, <1>6, GotoMoves DEF StartWithout
  <2>2. \A k \in Calls :
            /\ calls'[k].op = calls[k].op
            /\ calls'[k].cancelled = calls[k].cancelled
            /\ calls'[k].stage \in Working => calls'[k] = calls[k]
    BY <2>1 DEF Moved, Working
  <2>3. OnOwnScreen' /\ ClosedIsGone'
    BY <2>1, <2>2 DEF ControllerInv, OnOwnScreen, ClosedIsGone, IsWorking, Gone
  <2>4. \A p : Kept(p) <=> KeptAfter(p)
    BY <2>2 DEF Kept, KeptAfter
  <2>5. OneCallPerController'
    <3> SUFFICES ASSUME NEW k \in Calls, NEW d \in Calls, IsWorking(k)', IsWorking(d)',
                        ~KeptAfter(calls'[k].op), calls'[k].op = calls'[d].op
                 PROVE  k = d
      BY DEF OneCallPerController, Kept, KeptAfter, IsWorking
    <3> QED
      BY <2>2, <2>4 DEF ControllerInv, OneCallPerController, IsWorking
  <2>6. ASSUME NEW k \in Calls, CommittedAfter(k)
        PROVE  FrozenAfter(calls'[k].op) \/ GoneAfter(calls'[k].op)
    <3>1. Committed(k)
      BY <2>2, <2>4, <2>6 DEF CommittedAfter, Committed
    <3> QED
      BY <2>1, <2>2, <3>1
         DEF ControllerInv, CommittedHolds, Frozen, FrozenAfter, Gone, GoneAfter
  <2> QED
    BY <2>3, <2>5, <2>6, CommittedLater
<1>7. CASE CloseMain
  <2> DEFINE o == screens["main"]
  <2>1. /\ "main" \in Screens /\ o \in Ops /\ Abort(o, TRUE)
        /\ ops' = SetOp(o, "notReady")
        /\ screens' = [screens EXCEPT !["main"] = NoOp]
    BY <1>1, <1>7 DEF CloseMain, TypeOK
  <2> QED
    BY <1>1, <2>1, TakenIsGone, AbortCancels, CancelKeepsController
<1>8. ASSUME NEW screen \in Screens, Close(screen)
      PROVE  OnOwnScreen' /\ ClosedIsGone' /\ OneCallPerController' /\ CommittedHolds'
  <2> DEFINE o == screens[screen]
  <2>1. /\ o \in Ops /\ Abort(o, TRUE)
        /\ ops' = SetOp(o, "notReady")
        /\ screens' = [screens EXCEPT ![screen] = NoOp]
    BY <1>1, <1>8 DEF Close, TypeOK
  <2> QED
    BY <1>1, <2>1, TakenIsGone, AbortCancels, CancelKeepsController
<1>9. ASSUME NEW screen \in Screens, Discard(screen)
      PROVE  OnOwnScreen' /\ ClosedIsGone' /\ OneCallPerController' /\ CommittedHolds'
  <2> DEFINE o == screens[screen]
  <2>1. /\ o \in Ops /\ UNCHANGED calls
        /\ ops' = SetOp(o, "notReady")
        /\ screens' = [screens EXCEPT ![screen] = NoOp]
    BY <1>1, <1>9 DEF Discard, TypeOK
  <2>2. Aborted(o, FALSE)
    BY <2>1 DEF Aborted
  <2> QED
    BY <1>1, <2>1, <2>2, TakenIsGone, CancelKeepsController
<1>10. CASE CloseOneSession
  <2>1. Aborted(screens["swap"], FALSE) /\ UNCHANGED <<ops, screens>>
    BY <1>1, <1>10, AbortCancels DEF CloseOneSession
  <2>2. ScreensLose
    BY <2>1 DEF ScreensLose
  <2> QED
    BY <1>1, <2>1, <2>2, CancelKeepsController
<1> QED
  BY <1>3, <1>4, <1>5, <1>6, <1>7, <1>8, <1>9, <1>10 DEF UserStep

-----------------------------------------------------------------------------
(* The theorems *)

\* The invariant of the controllers.
LEMMA ControllerInvariant ==
    Spec => []ControllerInv
<1>1. Init => ControllerInv
  <2> SUFFICES ASSUME Init PROVE ControllerInv
    OBVIOUS
  <2>1. HistoryInv
    BY InitHistory
  <2>2. \A c \in Calls : calls[c].stage = "unused"
    BY DEF Init
  <2>3. OnOwnScreen
    BY SignAssumption DEF Init, OnOwnScreen
  <2> QED
    BY <2>1, <2>2, <2>3 DEF ControllerInv, ClosedIsGone, OneCallPerController,
       CommittedHolds, Committed, IsWorking, Working
<1>2. ControllerInv /\ [Next]_vars => ControllerInv'
  <2> SUFFICES ASSUME ControllerInv, [Next]_vars PROVE ControllerInv'
    OBVIOUS
  <2>1. HistoryInv'
    BY HistoryInductive DEF ControllerInv
  <2>2. CASE Next
    BY <2>1, <2>2, StepKeepsController, UserStepKeepsController DEF Next, ControllerInv
  <2>3. CASE UNCHANGED vars
    <3>1. OnOwnScreen' /\ ClosedIsGone' /\ OneCallPerController'
      BY <2>3 DEF vars, ControllerInv, OnOwnScreen, ClosedIsGone, OneCallPerController,
         IsWorking, Kept, Gone
    <3>2. CommittedHolds'
      BY <2>3 DEF vars, ControllerInv, CommittedHolds, Committed, Kept, Frozen, Gone
    <3> QED
      BY <2>1, <3>1, <3>2 DEF ControllerInv
  <2> QED
    BY <2>2, <2>3
<1> QED
  BY <1>1, <1>2, PTL DEF Spec

\* No controller is signed or broadcast by two calls at a time, however often the
\* screens are closed and opened again under calls that still wait for an answer.
THEOREM OneCallWorks ==
    Spec => []OneCallPerController
<1>1. ControllerInv => OneCallPerController
  BY DEF ControllerInv
<1> QED
  BY <1>1, ControllerInvariant, PTL

\* What a committed operation is signed, paid and sent with does not change.
LEMMA CommittedStep ==
    ASSUME ControllerInv, [Next]_vars, NEW c \in Calls, Committed(c)
    PROVE  OpOf(c).choice = ops'[calls[c].op].choice
<1> DEFINE o == calls[c].op
<1>1. TypeOK /\ o \in Ops /\ ops[o].used /\ (Frozen(o) \/ Gone(o))
  BY DEF ControllerInv, HistoryInv, LockInv, Supplied, Accounted, CommittedHolds, Committed,
     Working
<1>2. CASE UNCHANGED ops
  BY <1>2 DEF OpOf
<1>3. CASE \E p, s : ops' = SetOp(p, s)
  BY <1>1, <1>3, SetOpSame DEF SameControllers, OpOf
<1>4. ASSUME NEW p \in Ops, NEW screen \in Screens, Open(p, screen)
      PROVE  OpOf(c).choice = ops'[calls[c].op].choice
  BY <1>1, <1>4 DEF Open, TypeOK, OpOf
<1>5. ASSUME NEW p \in Ops, NEW ch \in Choices, NEW s \in {"notReady", "ready"},
             Update(p, ch, s)
      PROVE  OpOf(c).choice = ops'[calls[c].op].choice
  BY <1>1, <1>5 DEF Update, TypeOK, OpOf, Gone
<1>6. ASSUME NEW d \in Calls, Step(d)
      PROVE  OpOf(c).choice = ops'[calls[c].op].choice
  <2>1. OwnStatus(d)
    BY <1>6, StepHasEffect DEF StepEffect
  <2> QED
    BY <1>2, <1>3, <2>1 DEF OwnStatus
<1>7. CASE UserStep
  BY <1>2, <1>3, <1>4, <1>5, <1>7 DEF UserStep, Start, StartWithout, CloseMain, Close,
     Discard, CloseOneSession
<1> QED
  BY <1>2, <1>6, <1>7 DEF Next, vars

\* From the click until the result nothing that happens on any screen changes what
\* the operation is signed, paid and sent with.
THEOREM CommitmentHolds ==
    Spec => CommittedIsFrozen
<1>1. ControllerInv /\ [Next]_vars =>
          [\A c \in Calls :
             /\ calls[c].stage \in Working \ {"route"}
             /\ calls[c].cancelled = "no"
             /\ ~Kept(calls[c].op)
             => OpOf(c).choice = ops'[calls[c].op].choice]_vars
  BY CommittedStep DEF Committed
<1> QED
  BY <1>1, ControllerInvariant, PTL DEF Spec, CommittedIsFrozen

\* A call that lost the lock is not the current one, so that the check before the
\* next raw transaction stops it.
THEOREM CancelledIsSilent ==
    Spec => CancelledSendsNoMore
<1>1. ControllerInv /\ [Next]_vars =>
          [\A c \in Calls :
             calls[c].cancelled # "no" /\ calls[c].stage = "txnSign"
                 => calls'[c].stage # "txnSend"]_vars
  <2> SUFFICES ASSUME ControllerInv, Next, NEW c \in Calls, calls[c].cancelled # "no",
                      calls[c].stage = "txnSign"
               PROVE  calls'[c].stage # "txnSend"
    BY DEF vars
  <2>1. TypeOK /\ LockInv /\ ~IsCurrent(c)
    BY DEF ControllerInv, HistoryInv, LockInv, CancelledIsStale, IsCurrent
  <2>2. CASE Step(c)
    <3>1. TxnSigned(c) \/ TxnFailed(c)
      BY <2>2 DEF Step, RouteFailed, BeginSign, SkipSign, RefuseSign, Signed, SignFailed,
         SignDropped, SignThrew, StateFailed, StateFetched, NonceFailed, NonceFetched,
         TxnSent, Submitted, SubmitFailed, Publish, RejectUnsent, Record, Resolve,
         Finish, FinishFailed, Reset, ResetUnsigned, Finally
    <3>2. Goto(c, "ended")
      BY <2>1, <3>1 DEF TxnSigned, TxnFailed, RawFailed
    <3> QED
      BY <2>1, <3>2, GotoMoves
  <2>3. ASSUME NEW d \in Calls, d # c, Step(d)
        PROVE  calls'[c].stage # "txnSend"
    BY <2>3, StepHasEffect DEF StepEffect, Moved
  <2>4. CASE UserStep
    <3>1. \A o, destroyed : Abort(o, destroyed) => calls'[c].stage = calls[c].stage
      BY <2>1, AbortCancels DEF Aborted
    <3>2. ASSUME NEW d \in Calls, NEW s \in Screens, Start(d, s) \/ StartWithout(d, s)
          PROVE  calls'[c] = calls[c]
      BY <2>1, <3>2 DEF Start, StartWithout, Goto, TypeOK
    <3> QED
      BY <2>4, <3>1, <3>2 DEF UserStep, Open, Update, CloseMain, Close, Discard,
         CloseOneSession
  <2> QED
    BY <2>2, <2>3, <2>4 DEF Next
<1> QED
  BY <1>1, ControllerInvariant, PTL DEF Spec, CancelledSendsNoMore

=============================================================================
