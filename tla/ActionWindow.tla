---------------------------- MODULE ActionWindow ----------------------------
(***************************************************************************)
(* ActionsController: the queue of actions the user is asked to decide, the *)
(* action that is shown, and the one window that shows it.                 *)
(*                                                                         *)
(* The handlers are async and call one another, so a running handler is a  *)
(* stack of frames, its top frame first.  One action is what a handler     *)
(* does up to its next await.  A handler whose await is settled goes on    *)
(* before the browser, the network or the user is heard again: that is the *)
(* order in which an event loop runs microtasks and tasks.                 *)
(***************************************************************************)
EXTENDS Naturals, FiniteSets, Sequences, SequencesExt

CONSTANTS
    Accts,      \* the accounts
    Tasks,      \* the slots for handlers that run at the same time
    None,       \* null and undefined
    MaxWindows  \* how many windows may be opened

ASSUME WindowAssumption == MaxWindows \in Nat /\ None \notin Accts \cup Tasks

VARIABLES
    selected,  \* selectedAccount.account.addr
    queue,     \* actionsQueue
    current,   \* currentAction
    window,    \* actionWindow: the shown window and the pending promises
    windows,   \* the windows the browser has open, and how many it ever opened
    closed,    \* "windowRemoved" events that wait to be handled
    stack,     \* the frames of each running handler
    running    \* the handler in the middle of a segment, or None

windowVars == <<selected, queue, current, window, windows, closed, stack, running>>

-----------------------------------------------------------------------------
(* Frames *)

Frame(op, arg) == <<op, arg>>

\* What only the browser, the network or the storage can settle.
Blocking == {"popup", "opening", "focusing", "closing", "waiting", "notify",
             "fetch", "state", "next", "store", "confirm"}
Idle(t) == stack[t] = <<>>
TopOp(t) == Head(stack[t])[1]
Arg(t) == Head(stack[t])[2]
At(t, op) == ~Idle(t) /\ TopOp(t) = op
Ready(t) == ~Idle(t) /\ TopOp(t) \notin Blocking
Quiet == \A t \in Tasks : ~Ready(t)

\* Whose turn it is: the segment that is being run, then any settled await.
Turn(t, op) == At(t, op) /\ running \in {t, None}

\* The top frame of t is replaced by frames; a callee starts at once.
Runs(t, frames) ==
    running' = IF frames # <<>> /\ Head(frames)[1] \notin Blocking THEN t ELSE None
Replaced(t, frames) == [stack EXCEPT ![t] = frames \o Tail(@)]
Become(t, frames) ==
    /\ stack' = Replaced(t, frames)
    /\ Runs(t, frames)

\* A free slot is given to a handler.
Start(t, frames) ==
    /\ Quiet
    /\ Idle(t)
    /\ stack' = [stack EXCEPT ![t] = frames]
    /\ Runs(t, frames)

-----------------------------------------------------------------------------
(* Actions and their queue *)

\* What is left of a list when the items at other places are filtered out.
Kth(places, k) == CHOOSE i \in places : Cardinality({j \in places : j <= i}) = k
Keep(list, places) == [k \in 1..Cardinality(places) |-> list[Kth(places, k)]]
First(list, places) == IF places = {} THEN None ELSE list[Min(places)]

\* "accountOp" actions are named after their account: one per account and chain.
VisibleTo(a) ==
    IF a.type = "switchAccount" THEN a.acct # selected
    ELSE IF a.type = "dappRequest" THEN TRUE
    ELSE a.acct = selected
Seen(q) == {i \in DOMAIN q : VisibleTo(q[i])}
HasId(q, id) == \E i \in DOMAIN q : q[i].id = id
IndexOfId(q, id) == SelectInSeq(q, LAMBDA a : a.id = id)
WithId(q, id) == q[IndexOfId(q, id)]

Keeps(a) == a.type # "benzin" /\ (a.type = "switchAccount" => a.acct # selected)

\* An account op that a handler holds may be the very object in the queue (same):
\* what happens to that, the handler sees, until it leaves the queue.
Held(a) == IF a.same THEN WithId(queue, a.id) ELSE a
LetGo(a, ids) == IF a.id \in ids THEN Held(a) ELSE a
Holders == {"put", "update", "each", "fetch", "make", "removeReqs"}
Freed(frame, ids) ==
    IF frame[1] \in Holders
    THEN [frame EXCEPT ![2].actions = [i \in DOMAIN @ |-> LetGo(@[i], ids)]]
    ELSE frame
FreedAll(stk, ids) == [t \in Tasks |-> [i \in DOMAIN stk[t] |-> Freed(stk[t][i], ids)]]
BecomeFreeing(t, frames, ids) ==
    /\ stack' = FreedAll(Replaced(t, frames), ids)
    /\ Runs(t, frames)

Insert(list, item, pos) == IF pos = "first" THEN <<item>> \o list ELSE Append(list, item)
Put(q, a, pos) ==
    IF HasId(q, a.id) THEN ReplaceAt(q, IndexOfId(q, a.id), a) ELSE Insert(q, a, pos)

\* setCurrentAction
Show(a, skipFocus) ==
    <<Frame("await", <<"close", "focus", "open">>),
      IF a = None THEN Frame("close", None) ELSE Frame("open", skipFocus)>>

\* addOrUpdateActions.  exec is "queue", "queued" (queue-but-open-action-window)
\* or "open" (open-action-window).
Update(t) ==
    /\ Turn(t, "update")
    /\ queue' = Keep(queue, {i \in DOMAIN queue : Keeps(queue[i])})
    /\ current' = IF current # None /\ current.type = "benzin" THEN None ELSE current
    /\ LET f == Arg(t)
       IN Become(t, <<Frame("put", [actions |-> f.actions, shows |-> f.actions[1].id, pos |-> f.pos,
                                    exec |-> f.exec, skipFocus |-> f.skipFocus])>>)
    /\ UNCHANGED <<selected, window, windows, closed>>

PutNext(t) ==
    /\ Turn(t, "put")
    /\ LET f == Arg(t)
           a == Head(f.actions)
       IN /\ f.actions # <<>>
          /\ queue' = Put(queue, Held(a), f.pos)
          /\ BecomeFreeing(t, <<Frame("put", [f EXCEPT !.actions = Tail(@)])>>,
                           IF a.same THEN {} ELSE {a.id})
    /\ UNCHANGED <<selected, current, window, windows, closed>>

PutDone(t) ==
    /\ Turn(t, "put")
    /\ LET f == Arg(t)
           shown == IF f.exec = "open"
                    THEN First(queue, {i \in Seen(queue) : queue[i].id = f.shows})
                    ELSE IF current # None THEN current ELSE First(queue, Seen(queue))
       IN /\ f.actions = <<>>
          /\ IF f.exec = "queue" THEN Become(t, <<>>) /\ UNCHANGED current
             ELSE current' = shown /\ Become(t, Show(shown, f.skipFocus))
    /\ UNCHANGED <<selected, queue, window, windows, closed>>

\* removeActions
RemoveActions(t) ==
    /\ Turn(t, "remove")
    /\ LET f == Arg(t)
           q == Keep(queue, {i \in DOMAIN queue : queue[i].id \notin f.ids})
           next == First(q, Seen(q))
       IN /\ queue' = q
          /\ IF next = None \/ f.openNext
             THEN current' = next /\ BecomeFreeing(t, Show(next, TRUE), f.ids)
             ELSE BecomeFreeing(t, <<>>, f.ids) /\ UNCHANGED current
    /\ UNCHANGED <<selected, window, windows, closed>>

\* setCurrentActionById and setCurrentActionByIndex: the user picks an action.
Pick(t) ==
    /\ \E i \in Seen(queue) : current' = queue[i] /\ Start(t, Show(queue[i], FALSE))
    /\ UNCHANGED <<selected, queue, window, windows, closed>>

-----------------------------------------------------------------------------
(* The window.  A promise of actionWindow is named by the handler that made it. *)

NoWindow == [id |-> None, close |-> None, focus |-> None, open |-> None]

\* #awaitPendingPromises: each promise is read when the one before is settled.
Await(t) ==
    /\ Turn(t, "await")
    /\ LET names == Arg(t)
           pending == {i \in DOMAIN names : window[names[i]] # None}
           i == Min(pending)
       IN Become(t, IF pending = {} THEN <<>>
                    ELSE <<Frame("waiting", window[names[i]]),
                           Frame("await", SubSeq(names, i + 1, Len(names)))>>)
    /\ UNCHANGED <<selected, queue, current, window, windows, closed>>

\* A promise of t settles: t goes on with frames and all who wait for t go on.
Settled(t, frames) ==
    stack' = [u \in Tasks |->
                IF u = t THEN frames \o Tail(stack[t])
                ELSE IF At(u, "waiting") /\ Arg(u) = t THEN Tail(stack[u])
                ELSE stack[u]]

\* openActionWindow, focusActionWindow and closeActionWindow after their awaits.
Open(t) ==
    /\ Turn(t, "open")
    /\ Become(t, IF window.id = None THEN <<Frame("popup", [next |-> "opening", reopen |-> TRUE])>>
                 ELSE IF Arg(t) THEN <<>>
                 ELSE <<Frame("await", <<"close", "focus", "open">>), Frame("focus", TRUE)>>)
    /\ UNCHANGED <<selected, queue, current, window, windows, closed>>

Focus(t) ==
    /\ Turn(t, "focus")
    /\ Become(t, IF Seen(queue) = {} \/ current = None \/ window.id = None THEN <<>>
                 ELSE <<Frame("popup", [next |-> "focusing", reopen |-> Arg(t)])>>)
    /\ UNCHANGED <<selected, queue, current, window, windows, closed>>

\* windowManager.remove('popup') settles and the window itself is asked for.
PopupGone(t) ==
    /\ Quiet
    /\ At(t, "popup")
    /\ window' = [window EXCEPT ![IF Arg(t).next = "opening" THEN "open" ELSE "focus"] = t]
    /\ Become(t, <<Frame(Arg(t).next, Arg(t).reopen)>>)
    /\ UNCHANGED <<selected, queue, current, windows, closed>>

NewWindow == windows.last + 1
Opens == /\ windows.last < MaxWindows
         /\ windows' = [open |-> windows.open \cup {NewWindow}, last |-> NewWindow]

\* Mistake: the promise of the window stays when it is settled.
OpenedStillPending(t) ==
    /\ Quiet
    /\ At(t, "opening")
    /\ Opens
    /\ window' = [window EXCEPT !.id = NewWindow]
    /\ Settled(t, <<>>)
    /\ UNCHANGED <<selected, queue, current, closed, running>>

Opened(t) ==
    /\ Quiet
    /\ At(t, "opening")
    /\ \/ Opens /\ window' = [window EXCEPT !.open = None, !.id = NewWindow]
       \/ UNCHANGED windows /\ window' = [window EXCEPT !.open = None]
    /\ Settled(t, <<>>)
    /\ UNCHANGED <<selected, queue, current, closed, running>>

\* The window manager opens another window when the old one is gone.
Focused(t) ==
    /\ Quiet
    /\ At(t, "focusing")
    /\ \/ /\ Arg(t) /\ window.id \notin windows.open /\ Opens
          /\ window' = [window EXCEPT !.focus = None, !.id = NewWindow]
       \/ UNCHANGED windows /\ window' = [window EXCEPT !.focus = None]
    /\ Settled(t, <<>>)
    /\ UNCHANGED <<selected, queue, current, closed, running>>

Close(t) ==
    /\ Turn(t, "close")
    /\ window' = IF window.id = None THEN window ELSE [window EXCEPT !.close = t]
    /\ Become(t, IF window.id = None THEN <<>> ELSE <<Frame("closing", window.id)>>)
    /\ UNCHANGED <<selected, queue, current, windows, closed>>

\* A window closes, because it was asked to or because the user closes it.
WindowCloses(w) ==
    /\ Quiet
    /\ w \in windows.open
    /\ windows' = [windows EXCEPT !.open = @ \ {w}]
    /\ closed' = closed \cup {w}
    /\ UNCHANGED <<selected, queue, current, window, stack, running>>

CloseDone(t) ==
    /\ Quiet
    /\ At(t, "closing")
    /\ Arg(t) \notin windows.open
    /\ window' = [window EXCEPT !.close = None]
    /\ Settled(t, IF window.id = None THEN <<>> ELSE <<Frame("handleClose", window.id)>>)
    /\ UNCHANGED <<selected, queue, current, windows, closed, running>>

\* Mistake: the event is dropped.
WindowRemovedIgnored(t) ==
    /\ \E w \in closed :
          /\ Start(t, <<>>)
          /\ closed' = closed \ {w}
    /\ UNCHANGED <<selected, queue, current, window, windows>>

WindowRemoved(t) ==
    /\ \E w \in closed :
          /\ Start(t, <<Frame("await", <<"focus">>), Frame("handleClose", w)>>)
          /\ closed' = closed \ {w}
    /\ UNCHANGED <<selected, queue, current, window, windows>>

\* #handleActionWindowClose
HandleClose(t) ==
    /\ Turn(t, "handleClose")
    /\ LET ours == \/ Arg(t) = window.id
                   \/ Seen(queue) = {} /\ current # None /\ window.id # None
           q == Keep(queue, {i \in DOMAIN queue : queue[i].type = "accountOp"})
           told == IF Seen(q) = {} THEN <<>> ELSE <<Frame("notify", None)>>
       IN IF ours
          THEN /\ window' = [window EXCEPT !.id = None]
               /\ current' = None
               /\ queue' = q
               /\ Become(t, told \o <<Frame("onClose", 1)>>)
          ELSE Become(t, <<>>) /\ UNCHANGED <<window, current, queue>>
    /\ UNCHANGED <<selected, windows, closed>>

\* A promise nobody else waits for: a notification, the storage, the network.
Answered(t, op) ==
    /\ Quiet
    /\ At(t, op)
    /\ Settled(t, <<>>)
    /\ UNCHANGED <<selected, queue, current, window, windows, closed, running>>
Notified(t) == Answered(t, "notify")

-----------------------------------------------------------------------------
ActionTypes == {"accountOp", "signMessage", "benzin", "switchAccount", "dappRequest",
                "swapAndBridge"}

WindowInit ==
    /\ selected \in Accts
    /\ queue = <<>>
    /\ current = None
    /\ window = NoWindow
    /\ windows = [open |-> {}, last |-> 0]
    /\ closed = {}
    /\ stack = [t \in Tasks |-> <<>>]
    /\ running = None

\* The steps of a handler, and what the browser answers.
WindowSteps(t) ==
    \/ Update(t) \/ PutNext(t) \/ PutDone(t) \/ RemoveActions(t)
    \/ Await(t) \/ Open(t) \/ Focus(t) \/ Close(t) \/ HandleClose(t)
WindowAnswers(t) ==
    \/ PopupGone(t) \/ Opened(t) \/ Focused(t) \/ CloseDone(t) \/ Notified(t)
=============================================================================
