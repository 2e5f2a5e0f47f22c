------------------------------ MODULE Requests ------------------------------
(***************************************************************************)
(* RequestsController over the window of ActionWindow, and the handlers of *)
(* MainController that resolve, reject and switch.                         *)
(*                                                                         *)
(* A request of a dapp carries the promise the dapp waits on.  Requests    *)
(* that ask for calls of one account are batched into one action; any      *)
(* other request is an action of its own; a request for an account that is *)
(* not selected waits behind a request to switch to it.                    *)
(***************************************************************************)
EXTENDS ActionWindow, TLC

CONSTANTS
    Reqs,         \* the requests that dapps send
    Kind,         \* what each asks for
    For,          \* the account each is for
    Internal,     \* requests the wallet itself makes, without a promise: transfers and intents,
    Swaps,        \* those of the swap screen, whose ids are their routes',
    Rewards,      \* and claims of rewards
    SwitchId,     \* ACCOUNT_SWITCH_USER_REQUEST
    BenzinId,     \* the request that shows a transaction's progress
    OneClickId,   \* the action of the swap or transfer screen
    Together      \* the accounts, requests and screens used in one behaviour (a bound)

Kinds == {"calls", "message", "connect", "addChain"}

ASSUME RequestsAssumption ==
    /\ Kind \in [Reqs -> Kinds]
    /\ For \in [Reqs -> Accts]
    /\ Internal \subseteq {r \in Reqs : Kind[r] = "calls"}
    /\ Swaps \cup Rewards \subseteq Internal /\ Swaps \cap Rewards = {}
    /\ {SwitchId, BenzinId, OneClickId, None} \cap (Reqs \cup Accts) = {}
    /\ Reqs \cap Accts = {}
    /\ Together \subseteq SUBSET (Accts \cup Reqs \cup {OneClickId})

VARIABLES
    userRequests,  \* userRequests
    waiting,       \* userRequestsWaitingAccountSwitch
    promise,       \* what each dapp has been told
    timers,        \* delayed removals (setTimeout of 300 ms)
    signer,        \* signAccountOp: the action it was made for and its calls
    busy,          \* who signs or broadcasts: "no", "main" or "oneClick"
    signed,        \* the action and the calls that "main" signs
    used,          \* what is used in this behaviour, one of Together
    overtaken      \* history: a request was removed while a handler held its action

history == <<used, overtaken>>
reqVars == <<userRequests, waiting, promise, timers, signer, busy, signed, history>>
vars == <<windowVars, reqVars>>

-----------------------------------------------------------------------------
(* Requests and the actions made of them *)

Request(r) == [id |-> r, kind |-> Kind[r], acct |-> For[r], asks |-> r]
\* Its promise is the dapp's, but with a resolve that does nothing.
SwitchTo(req) == [id |-> SwitchId, kind |-> "switch", acct |-> req.acct, asks |-> req.asks]
Benzin(a) == [id |-> BenzinId, kind |-> "benzin", acct |-> a, asks |-> None]

\* Mistake: an action has the kind of its request as its type.
UntranslatedType(kind) == kind

TypeOf(kind) ==
    CASE kind = "message" -> "signMessage"
      [] kind = "benzin" -> "benzin"
      [] kind = "switch" -> "switchAccount"
      [] OTHER -> "dappRequest"
ActionOf(req) ==
    [id |-> req.id, type |-> TypeOf(req.kind), acct |-> req.acct, calls |-> {}, same |-> FALSE]
OneClick ==
    [id |-> OneClickId, type |-> "swapAndBridge", acct |-> selected, calls |-> {}, same |-> FALSE]

\* batchCallsFromUserRequests, makeAccountOpAction
BatchCalls(reqs, a) ==
    {reqs[i].id : i \in {j \in DOMAIN reqs : reqs[j].kind = "calls" /\ reqs[j].acct = a}}
AccountOp(reqs, a) ==
    [id |-> a, type |-> "accountOp", acct |-> a, calls |-> BatchCalls(reqs, a), same |-> FALSE]
\* The action of the account that is in the queue already.
QueuedOp(a) == [id |-> a, type |-> "accountOp", acct |-> a, calls |-> {}, same |-> TRUE]

\* Mistake: the action keeps the calls that it was made with.
KeepBatch(q, reqs, a) == q

Rebatch(q, reqs, a) ==
    [i \in DOMAIN q |-> IF q[i].id = a THEN [q[i] EXCEPT !.calls = BatchCalls(reqs, a)] ELSE q[i]]

\* updateSignAccountOp: ignored unless it is this action's, and once it is frozen.
SignerCalls(s, a, calls) ==
    IF s # None /\ s.action = a /\ busy # "main" THEN [s EXCEPT !.calls = calls] ELSE s

\* Requests are resolved and rejected in the order in which they are listed.
Listed(ids) ==
    LET reqs == Keep(userRequests, {i \in DOMAIN userRequests : userRequests[i].id \in ids})
    IN [i \in DOMAIN reqs |-> reqs[i].id]

Tell(asked, answer) ==
    [p \in Reqs |-> IF p \in asked /\ promise[p] = "pending" THEN answer ELSE promise[p]]

\* addUserRequests: the guard, then one request after another.
AddFrames(reqs, pos, exec, skipFocus) ==
    <<Frame("guard", None),
      Frame("each", [reqs |-> reqs, actions |-> <<>>, pos |-> pos, exec |-> exec,
                     skipFocus |-> skipFocus])>>

-----------------------------------------------------------------------------
(* addUserRequests *)

\* #guardHWSigning.  Its argument is the request of the dapp that is built, which
\* is refused with an error; without one the requests are dropped silently.
Guard(t) ==
    /\ Turn(t, "guard")
    /\ LET pending == \E i \in DOMAIN queue : VisibleTo(queue[i]) /\ queue[i].type = "swapAndBridge"
       IN Become(t, IF ~pending THEN <<>>
                    ELSE IF busy = "no"
                    THEN <<Frame("remove", [ids |-> {OneClickId}, openNext |-> TRUE])>>
                    ELSE <<Frame("await", <<"close", "focus", "open">>), Frame("focus", FALSE),
                           Frame("drop", Arg(t))>>)
    /\ UNCHANGED <<selected, queue, current, window, windows, closed, reqVars>>

Drop(t) ==
    /\ Turn(t, "drop")
    /\ IF Arg(t) = None
       THEN /\ stack' = [stack EXCEPT ![t] = SubSeq(@, 3, Len(@))]
            /\ UNCHANGED promise
       ELSE /\ stack' = [stack EXCEPT ![t] = <<>>]
            /\ promise' = Tell({Arg(t)}, "rejected")
    /\ running' = None
    /\ UNCHANGED <<selected, queue, current, window, windows, closed>>
    /\ UNCHANGED <<userRequests, waiting, timers, signer, busy, signed, history>>

\* The last request was looked at: the actions are queued.
EachDone(t) ==
    /\ Turn(t, "each")
    /\ LET f == Arg(t)
       IN /\ f.reqs = <<>>
          /\ Become(t, IF f.actions = <<>> THEN <<>>
                       ELSE <<Frame("update", [actions |-> f.actions, pos |-> f.pos,
                                               exec |-> f.exec, skipFocus |-> f.skipFocus])>>)
    /\ UNCHANGED <<selected, queue, current, window, windows, closed, reqVars>>

\* A request for calls is queued first; its action is made when the account's
\* state is known, which may take a fetch.
EachCalls(t) ==
    /\ Turn(t, "each")
    /\ LET f == Arg(t)
       IN /\ f.reqs # <<>> /\ f.reqs[1].kind = "calls"
          /\ userRequests' = Insert(userRequests, f.reqs[1], f.pos)
          /\ \E op \in {"fetch", "make"} : Become(t, <<Frame(op, f)>>)
    /\ UNCHANGED <<selected, queue, current, window, windows, closed>>
    /\ UNCHANGED <<waiting, promise, timers, signer, busy, signed, history>>

\* The fetch may fail, and then so does all of addUserRequests.
Fetched(t) ==
    /\ Quiet
    /\ At(t, "fetch")
    /\ \E frames \in {<<Frame("make", Arg(t))>> \o Tail(stack[t]), <<>>} :
          stack' = [stack EXCEPT ![t] = frames]
    /\ UNCHANGED <<selected, queue, current, window, windows, closed, running, reqVars>>

Make(t) ==
    /\ Turn(t, "make")
    /\ LET f == Arg(t)
           a == f.reqs[1].acct
           op == IF HasId(queue, a) THEN QueuedOp(a) ELSE AccountOp(userRequests, a)
       IN /\ queue' = Rebatch(queue, userRequests, a)
          /\ signer' = SignerCalls(signer, a, BatchCalls(userRequests, a))
          /\ Become(t, <<Frame("each", [f EXCEPT !.reqs = Tail(@), !.actions = Append(@, op)])>>)
    /\ UNCHANGED <<selected, current, window, windows, closed>>
    /\ UNCHANGED <<userRequests, waiting, promise, timers, busy, signed, history>>

\* Only one message at a time: a second one is rejected and taken back.
EachOther(t) ==
    /\ Turn(t, "each")
    /\ LET f == Arg(t)
           req == f.reqs[1]
           second == /\ req.kind = "message"
                     /\ \E i \in DOMAIN queue :
                           VisibleTo(queue[i]) /\ queue[i].type = "signMessage"
       IN /\ f.reqs # <<>> /\ req.kind # "calls"
          /\ userRequests' = IF second THEN userRequests ELSE Insert(userRequests, req, f.pos)
          /\ promise' = IF second THEN Tell({req.asks}, "rejected") ELSE promise
          /\ Become(t, IF second THEN <<>>
                       ELSE <<Frame("each", [f EXCEPT !.reqs = Tail(@),
                                                      !.actions = Append(@, ActionOf(req))])>>)
    /\ UNCHANGED <<selected, queue, current, window, windows, closed>>
    /\ UNCHANGED <<waiting, timers, signer, busy, signed, history>>

-----------------------------------------------------------------------------
(* removeUserRequests, resolveUserRequest, rejectUserRequests *)

\* What is gathered while the ids are taken off one by one.
Removal(ids, openNext) ==
    Frame("removeReqs", [ids |-> ids, openNext |-> openNext, add |-> <<>>, actions |-> <<>>,
                         remove |-> {}])

\* A handler holds an action for the request that is not, or no longer, the queue's.
HeldElsewhere(id) ==
    \E t \in Tasks : \E i \in DOMAIN stack[t] :
        /\ stack[t][i][1] \in Holders
        /\ \E j \in DOMAIN stack[t][i][2].actions :
              LET a == stack[t][i][2].actions[j] IN ~a.same /\ id \in {a.id} \cup a.calls

\* The request that is next to be removed, of a kind, and the list without it.
RemovesNext(t) ==
    Turn(t, "removeReqs") /\ Arg(t).ids # <<>> /\ HasId(userRequests, Head(Arg(t).ids))
NextRemoved(t) == WithId(userRequests, Head(Arg(t).ids))
Remaining(t) == RemoveAt(userRequests, IndexOfId(userRequests, Head(Arg(t).ids)))
Later(t) == [Arg(t) EXCEPT !.ids = Tail(@)]

RemoveNone(t) ==
    /\ Turn(t, "removeReqs")
    /\ Arg(t).ids # <<>> /\ ~HasId(userRequests, Head(Arg(t).ids))
    /\ Become(t, <<Frame("removeReqs", Later(t))>>)
    /\ UNCHANGED <<selected, queue, current, window, windows, closed, reqVars>>

RemoveCalls(t) ==
    /\ RemovesNext(t)
    /\ LET req == NextRemoved(t)
           a == req.acct
           calls == BatchCalls(Remaining(t), a)
           mine == signer # None /\ signer.action = a
           f == Later(t)
       IN /\ req.kind = "calls"
          /\ userRequests' = Remaining(t)
          /\ queue' = Rebatch(queue, Remaining(t), a)
          /\ signer' = IF ~HasId(queue, a) THEN signer
                       ELSE IF calls # {} THEN SignerCalls(signer, a, calls)
                       ELSE IF mine THEN None ELSE signer
          /\ Become(t, <<Frame("removeReqs",
                  IF ~HasId(queue, a) THEN f
                  ELSE IF calls # {} THEN [f EXCEPT !.actions = Append(@, QueuedOp(a))]
                  ELSE [f EXCEPT !.remove = @ \cup {a}])>>)
          /\ overtaken' = (overtaken \/ HeldElsewhere(req.id))
    /\ UNCHANGED <<selected, current, window, windows, closed>>
    /\ UNCHANGED <<waiting, promise, timers, busy, signed, used>>

\* The requests that waited for the account are taken off the list by their place
\* in another list, where they are not: the last ones go (Array.splice(-1, 1)).
RemoveSwitch(t) ==
    /\ RemovesNext(t)
    /\ LET req == NextRemoved(t)
           next == Keep(waiting, {i \in DOMAIN waiting : waiting[i].acct = selected})
           f == Later(t)
       IN /\ req.id = SwitchId
          /\ userRequests' = Remaining(t)
          /\ IF selected # req.acct
             THEN /\ Become(t, <<Frame("removeReqs", [f EXCEPT !.remove = @ \cup {SwitchId}])>>)
                  /\ UNCHANGED waiting
             ELSE /\ Become(t, <<Frame("removeReqs", [f EXCEPT !.add = @ \o next])>>)
                  /\ waiting' = SubSeq(waiting, 1, Len(waiting) - Len(next))
    /\ UNCHANGED <<selected, queue, current, window, windows, closed>>
    /\ UNCHANGED <<promise, timers, signer, busy, signed, history>>

\* Mistake: the action of the request stays.
RemoveOtherNotAction(t) ==
    /\ RemovesNext(t)
    /\ LET req == NextRemoved(t)
       IN /\ req.kind # "calls" /\ req.id # SwitchId
          /\ userRequests' = Remaining(t)
          /\ Become(t, <<Frame("removeReqs", Later(t))>>)
          /\ overtaken' = (overtaken \/ HeldElsewhere(req.id))
    /\ UNCHANGED <<selected, queue, current, window, windows, closed>>
    /\ UNCHANGED <<waiting, promise, timers, signer, busy, signed, used>>

RemoveOther(t) ==
    /\ RemovesNext(t)
    /\ LET req == NextRemoved(t)
       IN /\ req.kind # "calls" /\ req.id # SwitchId
          /\ userRequests' = Remaining(t)
          /\ Become(t, <<Frame("removeReqs", [Later(t) EXCEPT !.remove = @ \cup {req.id}])>>)
          /\ overtaken' = (overtaken \/ HeldElsewhere(req.id))
    /\ UNCHANGED <<selected, queue, current, window, windows, closed>>
    /\ UNCHANGED <<waiting, promise, timers, signer, busy, signed, used>>

\* The actions of what was removed go, what waited is added, and the account ops
\* that lost a call are shown.
RemoveDone(t) ==
    /\ Turn(t, "removeReqs")
    /\ LET f == Arg(t)
       IN /\ f.ids = <<>>
          /\ Become(t,
               (IF f.remove = {} THEN <<>>
                ELSE <<Frame("remove", [ids |-> f.remove, openNext |-> f.openNext])>>)
               \o (IF f.add = <<>> THEN <<>> ELSE AddFrames(f.add, "last", "open", TRUE))
               \o (IF f.actions = <<>> THEN <<>>
                   ELSE <<Frame("update", [actions |-> f.actions, pos |-> "last", exec |-> "open",
                                           skipFocus |-> TRUE])>>))
    /\ UNCHANGED <<selected, queue, current, window, windows, closed, reqVars>>

\* The promises of the first requests with these ids.
AskedBy(ids) == {WithId(userRequests, id).asks : id \in {i \in ids : HasId(userRequests, i)}}

RejectReqs(t) ==
    /\ Turn(t, "reject")
    /\ LET f == Arg(t)
       IN /\ promise' = Tell(AskedBy(ToSet(f.ids)), "rejected")
          /\ Become(t, <<Removal(f.ids, f.openNext)>>)
    /\ UNCHANGED <<selected, queue, current, window, windows, closed>>
    /\ UNCHANGED <<userRequests, waiting, timers, signer, busy, signed, history>>

\* The user accepts what is shown.  The page that connects a dapp stays for
\* 300 ms; the resolve of a switch tells the dapp nothing.
Resolve(t) ==
    /\ current # None /\ HasId(userRequests, current.id)
    /\ LET req == WithId(userRequests, current.id)
           delayed == req.kind = "connect"
       IN /\ req.kind # "calls"
          /\ req.kind = "switch" => selected = req.acct
          /\ promise' = IF req.kind = "switch" THEN promise ELSE Tell({req.asks}, "resolved")
          /\ timers' = IF delayed THEN timers \cup {req.id} ELSE timers
          /\ IF delayed
             THEN Quiet /\ Idle(t) /\ UNCHANGED <<stack, running>>
             ELSE Start(t, <<Removal(<<req.id>>, TRUE)>>)
    /\ UNCHANGED <<selected, queue, current, window, windows, closed>>
    /\ UNCHANGED <<userRequests, waiting, signer, busy, signed, history>>

Timer(t) ==
    /\ \E id \in timers :
          /\ timers' = timers \ {id}
          /\ Start(t, <<Removal(<<id>>, TRUE)>>)
    /\ UNCHANGED <<selected, queue, current, window, windows, closed>>
    /\ UNCHANGED <<userRequests, waiting, promise, signer, busy, signed, history>>

\* The user rejects what is shown; for an account op, rejectAccountOpAction.
Reject(t) ==
    /\ current # None /\ current.type # "accountOp" /\ HasId(userRequests, current.id)
    /\ Start(t, <<Frame("reject", [ids |-> <<current.id>>, openNext |-> TRUE])>>)
    /\ UNCHANGED <<selected, queue, current, window, windows, closed, reqVars>>

RejectAccountOp(t) ==
    /\ busy # "main"
    /\ current # None /\ current.type = "accountOp" /\ HasId(queue, current.id)
    /\ signer' = IF signer # None /\ signer.action = current.id THEN None ELSE signer
    /\ \E openNext \in BOOLEAN :
          Start(t, <<Frame("remove", [ids |-> {current.id}, openNext |-> openNext]),
                     Frame("reject", [ids |-> Listed(WithId(queue, current.id).calls),
                                      openNext |-> openNext])>>)
    /\ UNCHANGED <<selected, queue, current, window, windows, closed>>
    /\ UNCHANGED <<userRequests, waiting, promise, timers, busy, signed, history>>

\* rejectSignAccountOpCall: its request has no other call.
RejectCall(t) ==
    /\ signer # None
    /\ \E c \in signer.calls :
          /\ HasId(userRequests, c)
          /\ Start(t, <<Frame("reject", [ids |-> <<c>>, openNext |-> TRUE])>>)
    /\ UNCHANGED <<selected, queue, current, window, windows, closed, reqVars>>

\* removeActiveRoute, of a route whose request is there
RejectRoute(t) ==
    \E r \in Swaps :
       /\ HasId(userRequests, r)
       /\ Start(t, <<Frame("reject", [ids |-> <<r>>, openNext |-> TRUE])>>)
       /\ UNCHANGED <<selected, queue, current, window, windows, closed, reqVars>>

\* onActionWindowClose: requests for a network that is there now are resolved one
\* by one, by their place in a list that gets shorter; then all but calls are rejected.
OnClose(t) ==
    /\ Turn(t, "onClose")
    /\ LET i == Arg(t)
           rest == Keep(userRequests, {j \in DOMAIN userRequests : userRequests[j].kind # "calls"})
           ids == [j \in DOMAIN rest |-> rest[j].id]
       IN IF i > Len(userRequests)
          THEN /\ Become(t, <<Frame("reject", [ids |-> ids, openNext |-> FALSE]),
                              Frame("noneWait", None)>>)
               /\ UNCHANGED promise
          ELSE \E added \in BOOLEAN :
               LET resolves == added /\ userRequests[i].kind = "addChain"
               IN /\ added => userRequests[i].kind = "addChain"
                  /\ promise' = IF resolves THEN Tell({userRequests[i].asks}, "resolved")
                                ELSE promise
                  /\ Become(t, (IF resolves THEN <<Removal(<<userRequests[i].id>>, TRUE)>>
                                ELSE <<>>) \o <<Frame("onClose", i + 1)>>)
    /\ UNCHANGED <<selected, queue, current, window, windows, closed>>
    /\ UNCHANGED <<userRequests, waiting, timers, signer, busy, signed, history>>

NoneWait(t) ==
    /\ Turn(t, "noneWait")
    /\ waiting' = <<>>
    /\ Become(t, <<>>)
    /\ UNCHANGED <<selected, queue, current, window, windows, closed>>
    /\ UNCHANGED <<userRequests, promise, timers, signer, busy, signed, history>>

-----------------------------------------------------------------------------
(* build: a request of a dapp, or of a screen of the wallet, is added *)

Unsent == {r \in Reqs \cap used : promise[r] = "unsent"}
Builds(t, r, frames) ==
    /\ promise' = [promise EXCEPT ![r] = IF r \notin Internal THEN "pending"
                                        ELSE IF r \in Unsent THEN "internal" ELSE "again"]
    /\ \E fetch \in BOOLEAN :
          /\ fetch => Kind[r] = "calls" /\ r \notin Rewards
          /\ Start(t, frames \o (IF fetch THEN <<Frame("state", None)>> ELSE <<>>)
                      \o <<Frame("build", r)>>
                      \o (IF r \in Swaps THEN <<Frame("built", r)>> ELSE <<>>))
    /\ UNCHANGED <<selected, queue, current, window, windows, closed>>
    /\ UNCHANGED <<userRequests, waiting, timers, signer, busy, signed, history>>

Send(t) == \E r \in Unsent \ Internal : Builds(t, r, <<Frame("guard", r)>>)
BuildTransfer(t) == \E r \in (Unsent \cap Internal) \ (Swaps \cup Rewards) : Builds(t, r, <<>>)
BuildClaim(t) == \E r \in Unsent \cap Rewards : Builds(t, r, <<>>)
\* One at a time.  For the next step of an active route its request is taken back before
\* the transaction is asked for, which may fail.  Routes have two steps (a bound)
BuildSwapAndBridge(t) ==
    /\ \A u \in Tasks : \A i \in DOMAIN stack[u] : stack[u][i][1] # "built"
    /\ \E r \in {q \in Swaps \cap used : promise[q] # "again"} :
          IF r \in Unsent THEN Builds(t, r, <<>>)
          ELSE Builds(t, r, <<Removal(<<r>>, FALSE), Frame("next", None)>>)
\* The form of the swap is reset
Built(t) ==
    /\ Turn(t, "built") /\ Become(t, <<>>)
    /\ UNCHANGED <<selected, queue, current, window, windows, closed, reqVars>>
NextTransaction(t) ==
    /\ Quiet /\ At(t, "next")
    /\ \E frames \in {Tail(stack[t]), <<>>} : stack' = [stack EXCEPT ![t] = frames]
    /\ UNCHANGED <<selected, queue, current, window, windows, closed, running, reqVars>>

\* The state of the account is there, or could not be fetched and nothing is built.
StateKnown(t) ==
    /\ Quiet
    /\ At(t, "state")
    /\ \/ stack' = [stack EXCEPT ![t] = Tail(@)] /\ UNCHANGED promise
       \/ /\ stack' = [stack EXCEPT ![t] = <<>>]
          /\ promise' = Tell({stack[t][2][2]}, "rejected")
    /\ UNCHANGED <<selected, queue, current, window, windows, closed, running>>
    /\ UNCHANGED <<userRequests, waiting, timers, signer, busy, signed, history>>

IsSignAction(r) == Kind[r] \in {"calls", "message"}
Modes(r) ==
    IF r \in Rewards THEN {<<"last", "open">>}
    ELSE IF r \in Internal THEN {<<"last", "open">>, <<"last", "queue">>}
    ELSE IF Kind[r] = "calls" THEN {<<"last", "open">>, <<"last", "queued">>}
    ELSE {<<"first", "open">>, <<"last", "open">>, <<"last", "queued">>}

\* Only requests of whitelisted origins may be for an account that is not selected
AccountError(t, r) == promise' = Tell({r}, "rejected") /\ Become(t, <<>>) /\ UNCHANGED waiting
AddSwitchAccountUserRequest(t, req) ==
    /\ waiting' = Append(waiting, req)
    /\ Become(t, AddFrames(<<SwitchTo(req)>>, "last", "open", FALSE))
    /\ UNCHANGED promise
Build(t) ==
    /\ Turn(t, "build")
    /\ LET r == Arg(t)
           other == IsSignAction(r) /\ r \notin Internal /\ For[r] # selected
           req == IF r \in Internal THEN [Request(r) EXCEPT !.acct = selected] ELSE Request(r)
       IN \/ /\ ~other
             /\ \E m \in Modes(r) : Become(t, AddFrames(<<req>>, m[1], m[2], FALSE))
             /\ UNCHANGED <<promise, waiting>>
          \/ other /\ (AccountError(t, r) \/ AddSwitchAccountUserRequest(t, req))
    /\ UNCHANGED <<selected, queue, current, window, windows, closed>>
    /\ UNCHANGED <<userRequests, timers, signer, busy, signed, history>>

-----------------------------------------------------------------------------
(* MainController: signing an account op, resolving it, switching accounts *)

\* initSignAccOp
OpenSigner ==
    /\ Quiet
    /\ busy = "no"
    /\ current # None /\ current.type = "accountOp" /\ current.acct = selected
    /\ HasId(queue, current.id)
    /\ signer' = [action |-> current.id, calls |-> WithId(queue, current.id).calls]
    /\ UNCHANGED <<windowVars, userRequests, waiting, promise, timers, busy, signed, history>>

Sign ==
    /\ Quiet
    /\ busy = "no" /\ signer # None
    /\ busy' = "main"
    /\ signed' = signer
    /\ UNCHANGED <<windowVars, userRequests, waiting, promise, timers, signer, history>>

SignFails ==
    /\ Quiet
    /\ \/ busy = "oneClick"
       \/ busy = "main" /\ signed # None
    /\ busy' = "no"
    /\ signed' = None
    /\ UNCHANGED <<windowVars, userRequests, waiting, promise, timers, signer, history>>

\* resolveAccountOpAction, once the network accepted the transaction.
Broadcast(t) ==
    /\ busy = "main" /\ signed # None
    /\ signed' = None
    /\ \E benzin \in BOOLEAN :
          Start(t, IF ~HasId(queue, signed.action) THEN <<Frame("unlock", None)>>
                   ELSE (IF benzin THEN AddFrames(<<Benzin(signed.action)>>, "first", "open", TRUE)
                         ELSE <<>>)
                        \o <<Frame("remove", [ids |-> {signed.action}, openNext |-> TRUE]),
                             Frame("settle", signed.calls), Frame("unlock", None)>>)
    /\ UNCHANGED <<selected, queue, current, window, windows, closed>>
    /\ UNCHANGED <<userRequests, waiting, promise, timers, signer, busy, history>>

\* The requests of the calls that are still there; their dapps hear the
\* transaction's id when it is known.
Settle(t) ==
    /\ Turn(t, "settle")
    /\ LET ids == {id \in Arg(t) : HasId(userRequests, id)}
       IN Become(t, <<Removal(Listed(ids), TRUE)>>
                    \o (IF ids = {} THEN <<>> ELSE <<Frame("confirm", ids)>>))
    /\ UNCHANGED <<selected, queue, current, window, windows, closed, reqVars>>

Confirm(t) ==
    /\ Quiet
    /\ At(t, "confirm")
    /\ \E answer \in {"resolved", "rejected"} : promise' = Tell(Arg(t), answer)
    /\ stack' = [stack EXCEPT ![t] = Tail(@)]
    /\ UNCHANGED <<selected, queue, current, window, windows, closed, running>>
    /\ UNCHANGED <<userRequests, waiting, timers, signer, busy, signed, history>>

Unlock(t) ==
    /\ Turn(t, "unlock")
    /\ busy' = "no"
    /\ Become(t, <<>>)
    /\ UNCHANGED <<selected, queue, current, window, windows, closed>>
    /\ UNCHANGED <<userRequests, waiting, promise, timers, signer, signed, history>>

\* The screen that swaps or transfers in one click shows itself and signs.
OpenOneClick(t) ==
    /\ OneClickId \in used
    /\ ~HasId(queue, OneClickId)
    /\ Start(t, <<Frame("update", [actions |-> <<OneClick>>, pos |-> "last", exec |-> "open",
                                   skipFocus |-> FALSE])>>)
    /\ UNCHANGED <<selected, queue, current, window, windows, closed, reqVars>>

SignOneClick ==
    /\ Quiet
    /\ busy = "no" /\ HasId(queue, OneClickId)
    /\ busy' = "oneClick"
    /\ UNCHANGED <<windowVars, userRequests, waiting, promise, timers, signer, signed, history>>

\* selectAccount: withStatus lets one run at a time.
SelectAccount(t) ==
    /\ \A u \in Tasks : \A i \in DOMAIN stack[u] : stack[u][i][1] \notin {"select", "store"}
    /\ \E a \in (Accts \cap used) \ {selected} :
          Start(t, (IF current # None /\ current.type \in {"switchAccount", "dappRequest"} THEN <<>>
                    ELSE <<Frame("await", <<"close", "focus", "open">>), Frame("close", None)>>)
                   \o <<Frame("leaveSwap", None), Frame("select", a)>>)
    /\ UNCHANGED <<selected, queue, current, window, windows, closed, reqVars>>

LeaveSwap(t) ==
    /\ Turn(t, "leaveSwap")
    /\ LET swap == \E i \in DOMAIN queue : VisibleTo(queue[i]) /\ queue[i].type = "swapAndBridge"
       IN Become(t, IF swap THEN <<Frame("remove", [ids |-> {OneClickId}, openNext |-> TRUE])>>
                    ELSE <<>>)
    /\ UNCHANGED <<selected, queue, current, window, windows, closed, reqVars>>

SetAccount(t) ==
    /\ Turn(t, "select")
    /\ selected' = Arg(t)
    /\ Become(t, <<Frame("store", None)>>)
    /\ UNCHANGED <<queue, current, window, windows, closed, reqVars>>

-----------------------------------------------------------------------------
Init ==
    /\ WindowInit
    /\ userRequests = <<>>
    /\ waiting = <<>>
    /\ promise = [r \in Reqs |-> "unsent"]
    /\ timers = {}
    /\ signer = None
    /\ busy = "no"
    /\ signed = None
    /\ used \in Together /\ selected \in used
    /\ overtaken = FALSE

Handlers(t) ==
    \/ Guard(t) \/ Drop(t) \/ EachDone(t) \/ EachCalls(t) \/ EachOther(t) \/ Make(t)
    \/ RemoveNone(t) \/ RemoveCalls(t) \/ RemoveSwitch(t) \/ RemoveOther(t) \/ RemoveDone(t)
    \/ RejectReqs(t) \/ OnClose(t) \/ NoneWait(t) \/ Build(t) \/ Built(t)
    \/ Settle(t) \/ Unlock(t) \/ LeaveSwap(t) \/ SetAccount(t)
Answers(t) == Fetched(t) \/ StateKnown(t) \/ NextTransaction(t) \/ Confirm(t)
User(t) ==
    \/ Send(t) \/ BuildTransfer(t) \/ BuildClaim(t) \/ BuildSwapAndBridge(t)
    \/ Resolve(t) \/ Reject(t) \/ RejectAccountOp(t) \/ Broadcast(t)
    \/ RejectCall(t) \/ RejectRoute(t) \/ OpenOneClick(t) \/ SelectAccount(t) \/ Timer(t)

Next ==
    \/ \E t \in Tasks :
          \/ (\/ WindowSteps(t) \/ WindowAnswers(t) \/ WindowRemoved(t) \/ Pick(t)
              \/ Answered(t, "store"))
             /\ UNCHANGED reqVars
          \/ Handlers(t) \/ Answers(t) \/ User(t)
    \/ \E w \in windows.open : WindowCloses(w) /\ UNCHANGED reqVars
    \/ OpenSigner \/ Sign \/ SignFails \/ SignOneClick

Spec == Init /\ [][Next]_vars

-----------------------------------------------------------------------------
(* Properties *)

Promises == {"unsent", "internal", "again", "pending", "resolved", "rejected"}
UserRequest(r) == /\ r.kind \in Kinds \cup {"benzin", "switch"}
                  /\ r.id \in Reqs \cup {SwitchId, BenzinId}
                  /\ r.acct \in Accts
                  /\ r.asks \in Reqs \cup {None}
Action(a) == /\ a.type \in ActionTypes
             /\ a.acct \in Accts
             /\ a.calls \subseteq Reqs
             /\ a.same \in BOOLEAN
             /\ a.id \in Reqs \cup Accts \cup {SwitchId, BenzinId, OneClickId}

\* The type invariant of the requests, of the actions and of the window.
RequestsTypeOK ==
    /\ selected \in Accts
    /\ \A i \in DOMAIN queue : Action(queue[i]) /\ ~queue[i].same
    /\ current = None \/ Action(current)
    /\ window.id \in 1..MaxWindows \cup {None}
    /\ \A n \in {"close", "focus", "open"} : window[n] \in Tasks \cup {None}
    /\ windows.last \in 0..MaxWindows /\ windows.open \cup closed \subseteq 1..windows.last
    /\ running \in Tasks \cup {None}
    /\ \A i \in DOMAIN userRequests : UserRequest(userRequests[i])
    /\ \A i \in DOMAIN waiting : UserRequest(waiting[i])
    /\ promise \in [Reqs -> Promises]
    /\ timers \subseteq Reqs
    /\ busy \in {"no", "main", "oneClick"}
    /\ overtaken \in BOOLEAN

\* Every call of a queued account op belongs to a request that is still listed:
\* whatever handlers add, remove and rebatch at the same time, the user is never
\* asked to sign a call whose request was resolved, rejected or taken back.  Only
\* an action that a handler held outside the queue, when its request was removed,
\* may come back without it.
CallsAreAsked ==
    ~overtaken => \A i \in DOMAIN queue : queue[i].type = "accountOp" =>
                      \A c \in queue[i].calls : HasId(userRequests, c)

\* A handler that waits for a promise of the window (#awaitPendingPromises) waits
\* for a handler that is itself at a call of the browser: no two handlers ever
\* wait for each other, and no promise outlives the handler that made it.
WaitersWait ==
    \A t \in Tasks : At(t, "waiting") =>
        \E op \in {"opening", "focusing", "closing"} : At(Arg(t), op)

AllIdle == \A t \in Tasks : Idle(t)

\* When no handler runs and every close of a window was handled, the window the
\* controller believes to be open is open: it never stays blocked on a window
\* that is gone.
QuietWindowIsOpen ==
    AllIdle /\ closed = {} /\ window.id # None => window.id \in windows.open

\* When no handler runs, a message to sign or a question of a dapp that is in the
\* queue has its request: an answered request leaves its action behind only if a
\* handler held that when the request was removed.
QuietActionIsAsked ==
    AllIdle /\ ~overtaken => \A i \in DOMAIN queue :
        queue[i].type \in {"signMessage", "dappRequest"} => HasId(userRequests, queue[i].id)

\* "Closing the window will reject the sign message request" (requests.ts): when
\* no handler runs, a message that the user is asked to sign has its request,
\* even if the window closed while a handler was adding it.
RejectedMessageIsNotAsked ==
    AllIdle => \A i \in DOMAIN queue :
        queue[i].type = "signMessage" => HasId(userRequests, queue[i].id)
-----------------------------------------------------------------------------
(* The instance that the runs check: two accounts and two handlers at a time. *)
(* Everything lists what may be sent together.                                *)

CONSTANTS
    acctA, acctB,                     \* accounts
    t1, t2,                           \* handlers
    swapReq, transferReq, claimReq,   \* requests of the wallet's screens
    send, sign, connect, network,     \* requests of dapps
    oneClick                          \* the action of the swap screen

MCAccts == {acctA, acctB}
MCTasks == {t1, t2}
MCReqs == {swapReq, transferReq, claimReq, send, sign, connect, network}
MCKind == [r \in MCReqs |->
    IF r = sign THEN "message" ELSE IF r = connect THEN "connect"
    ELSE IF r = network THEN "addChain" ELSE "calls"]
MCFor == [r \in MCReqs |-> IF r \in {sign, send} THEN acctB ELSE acctA]
Everything == {{acctA, swapReq}, {acctA, transferReq, claimReq}, {acctA, acctB, send},
               {acctA, acctB, sign, connect}, {acctA, connect, network}, {acctA, connect, oneClick}}

Symmetry == Permutations(MCTasks)
=============================================================================
