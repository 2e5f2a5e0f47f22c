------------------------------ MODULE SwapRoutes -----------------------------
(***************************************************************************)
(* SwapAndBridgeController's active routes: what the user started to swap  *)
(* or to bridge, from the moment it is signed until it is removed.  Each   *)
(* has at most one operation under way, which main broadcasts, activity    *)
(* records and refreshes, and which the routes are told about; the routes  *)
(* in progress are polled at Li.Fi.                                        *)
(***************************************************************************)
EXTENDS Integers, Sequences, Functions

CONSTANTS
    Routes,
    Swaps,     \* the routes that stay on their chain: Li.Fi names no bridge for them
    Attempts,  \* bound: operations of a route
    Restarts,  \* bound
    None

VARIABLES
    active,    \* #activeRoutes by id: None, or status, hash (the attempt that it is of), error
    saved,     \* 'swapAndBridgeActiveRoutes'; that writes take time is left to Storage
    ops,       \* the latest operation of each route: where it is, its calls, what was mined, what activity knows
    tellings,  \* refreshes whose updates were not yet passed on
    polls,     \* getRouteStatus under way
    untold,    \* routes whose operation a restart kept from telling them
    restarts
routesVars == <<active, saved, ops, tellings, polls, untold, restarts>>

Settled == {"success", "failure"}
NoOp == [at |-> "none", calls |-> <<>>, mined |-> "no", known |-> "none", attempt |-> 0]
Fresh == [status |-> "ready", hash |-> None, error |-> FALSE]
Updates(r, route) == active' = [active EXCEPT ![r] = route] /\ saved' = active'

\* handleUpdateActiveRouteOnSubmittedAccountOpStatusUpdate, one call of the operation
TellBroadcast(route, call, status) ==
    IF status # "broadcast" THEN route
    ELSE [route EXCEPT !.status = IF call = "swap" THEN "in-progress" ELSE "waiting-approval-to-resolve"]
TellApproval(route, call, status) ==
    IF call # "approval" \/ route.status # "waiting-approval-to-resolve" THEN route
    ELSE CASE status = "success" -> [route EXCEPT !.status = "ready"]
           [] status = "failure" -> [route EXCEPT !.status = "ready", !.error = TRUE]
           [] OTHER -> route
TellHash(route, call, attempt) ==
    IF call = "swap" /\ route.hash = None THEN [route EXCEPT !.hash = attempt] ELSE route
TellCompleted(route, isSwap, call, status) ==
    CASE call = "swap" /\ status = "failure" -> [route EXCEPT !.status = "failed", !.error = TRUE]
      [] call = "swap" /\ status = "success" /\ isSwap -> [route EXCEPT !.status = "completed"]
      [] OTHER -> route
TellCall(route, isSwap, attempt, status, call) ==
    TellCompleted(TellHash(TellApproval(TellBroadcast(route, call, status), call, status),
                           call, attempt), isSwap, call, status)
Told(route, isSwap, op, status) ==
    LET told[n \in 0..Len(op.calls)] ==
            IF n = 0 THEN route ELSE TellCall(told[n - 1], isSwap, op.attempt, status, op.calls[n])
    IN told[Len(op.calls)]
Tell(r, op, status) ==
    IF active[r] = None THEN UNCHANGED <<active, saved>>
    ELSE Updates(r, Told(active[r], r \in Swaps, op, status))

\* addActiveRoute, which main calls before it signs: it pushes to the list and does not save
AddActiveRoute(r, calls) ==
    /\ ops[r].at = "none" /\ active[r] = None /\ ops[r].attempt < Attempts
    /\ active' = [active EXCEPT ![r] = Fresh]
    /\ ops' = [ops EXCEPT ![r] = [NoOp EXCEPT !.at = "signing", !.calls = calls,
                                              !.attempt = ops[r].attempt + 1]]
    /\ UNCHANGED <<saved, tellings, polls, untold, restarts>>

\* The user cancels, or signing or broadcasting fails
NotSent(r) ==
    /\ ops[r].at = "signing" /\ Updates(r, None)
    /\ ops' = [ops EXCEPT ![r] = [NoOp EXCEPT !.attempt = ops[r].attempt]]
    /\ UNCHANGED <<tellings, polls, untold, restarts>>

\* The network has the operation: the route is told, activity not yet.  Of the calls of an account
\* that sends one transaction per call, the approval may be all that was sent.
Broadcast(r, sent) ==
    /\ ops[r].at = "signing" /\ \E n \in 1..Len(ops[r].calls) : sent = SubSeq(ops[r].calls, 1, n)
    /\ ops' = [ops EXCEPT ![r].at = "sent", ![r].calls = sent]
    /\ Tell(r, ops'[r], "broadcast")
    /\ UNCHANGED <<tellings, polls, untold, restarts>>
AddAccountOp(r) ==
    /\ ops[r].at = "sent"
    /\ ops' = [ops EXCEPT ![r].at = "recorded", ![r].known = "broadcast"]
    /\ UNCHANGED <<active, saved, tellings, polls, untold, restarts>>

Mined(r, status) ==
    /\ ops[r].at \in {"sent", "recorded", "unknown"} /\ ops[r].mined = "no"
    /\ ops' = [ops EXCEPT ![r].mined = status]
    /\ UNCHANGED <<active, saved, tellings, polls, untold, restarts>>

\* updateAccountsOpsStatuses of main: activity has the status at once, the routes when all
\* networks were asked and stored
Refresh(r) ==
    /\ ops[r].at = "recorded" /\ ops[r].known = "broadcast" /\ ops[r].mined # "no"
    /\ ops' = [ops EXCEPT ![r].known = ops[r].mined]
    /\ tellings' = tellings \cup {r}
    /\ UNCHANGED <<active, saved, polls, untold, restarts>>
Refreshed(r) ==
    /\ r \in tellings
    /\ tellings' = tellings \ {r}
    /\ Tell(r, ops[r], ops[r].known)
    /\ UNCHANGED <<ops, polls, untold, restarts>>

\* checkForNextUserTxForActiveRoutes.  For a route without bridge Li.Fi's answer is "completed",
\* without a request.
Polled(r) ==
    /\ active[r] # None /\ active[r].status = "in-progress" /\ active[r].hash # None
    /\ ~(ops[r].known = "broadcast" /\ "swap" \in Range(ops[r].calls))
CheckForNextUserTx(r) ==
    /\ Polled(r)
    /\ IF r \in Swaps
         THEN Updates(r, [active[r] EXCEPT !.status = "completed", !.error = FALSE]) /\ UNCHANGED polls
         ELSE polls' = polls \cup {<<r, active[r].hash>>} /\ UNCHANGED <<active, saved>>
    /\ UNCHANGED <<ops, tellings, untold, restarts>>

\* DONE and REFUNDED are answered of a transaction that was mined; anything else is pending
Answers(r, attempt) ==
    {"pending"} \cup IF ops[r].attempt = attempt /\ ops[r].mined = "success" THEN {"completed", "refunded"} ELSE {}
StatusArrives(r, attempt, answer) ==
    /\ <<r, attempt>> \in polls /\ answer \in Answers(r, attempt)
    /\ polls' = polls \ {<<r, attempt>>}
    /\ IF active[r] = None \/ (answer = "pending" /\ ~active[r].error) THEN UNCHANGED <<active, saved>>
       ELSE Updates(r, [active[r] EXCEPT !.error = FALSE, !.status = IF answer = "pending" THEN @ ELSE answer])
    /\ UNCHANGED <<ops, tellings, untold, restarts>>
StatusFails(r, attempt) ==
    /\ <<r, attempt>> \in polls
    /\ polls' = polls \ {<<r, attempt>>}
    /\ IF active[r] = None THEN UNCHANGED <<active, saved>> ELSE Updates(r, [active[r] EXCEPT !.error = TRUE])
    /\ UNCHANGED <<ops, tellings, untold, restarts>>

\* buildSwapAndBridgeUserRequest for a route that is there: it asks for the next transaction
Rebuild(r) ==
    /\ active[r] # None /\ active[r].status \in {"ready", "failed"} /\ r \notin tellings
    /\ ops[r].at \in {"recorded", "none"} /\ ops[r].known # "broadcast" /\ ops[r].attempt < Attempts
    /\ Updates(r, [active[r] EXCEPT !.error = FALSE])
    /\ ops' = [ops EXCEPT ![r] = [NoOp EXCEPT !.at = "building", !.attempt = ops[r].attempt]]
    /\ UNCHANGED <<tellings, polls, untold, restarts>>
Rebuilt(r) ==
    /\ ops[r].at = "building"
    /\ IF active[r] = None THEN UNCHANGED <<active, saved>> ELSE Updates(r, [active[r] EXCEPT !.hash = None])
    /\ ops' = [ops EXCEPT ![r] = [NoOp EXCEPT !.at = "signing", !.calls = <<"swap">>,
                                              !.attempt = ops[r].attempt + 1]]
    /\ UNCHANGED <<tellings, polls, untold, restarts>>

RemoveActiveRoute(r) ==
    /\ active[r] # None /\ Updates(r, None)
    /\ UNCHANGED <<ops, tellings, polls, untold, restarts>>

\* What was sent and not recorded is never refreshed
Restart ==
    /\ restarts < Restarts
    /\ restarts' = restarts + 1
    /\ active' = saved
    /\ untold' = untold \cup tellings \cup {r \in Routes : ops[r].at = "sent"}
    /\ ops' = [r \in Routes |->
          CASE ops[r].at \in {"signing", "building"} -> [NoOp EXCEPT !.attempt = ops[r].attempt]
            [] ops[r].at = "sent" -> [ops[r] EXCEPT !.at = "unknown"]
            [] OTHER -> ops[r]]
    /\ tellings' = {} /\ polls' = {}
    /\ UNCHANGED saved

Init ==
    /\ active = [r \in Routes |-> None] /\ saved = active
    /\ ops = [r \in Routes |-> NoOp]
    /\ tellings = {} /\ polls = {} /\ untold = {} /\ restarts = 0
Next ==
    \/ \E r \in Routes : NotSent(r) \/ AddAccountOp(r) \/ Refresh(r) \/ Refreshed(r)
                         \/ CheckForNextUserTx(r) \/ Rebuild(r) \/ Rebuilt(r) \/ RemoveActiveRoute(r)
    \/ \E r \in Routes, calls \in {<<"swap">>, <<"approval", "swap">>} : AddActiveRoute(r, calls)
    \/ \E r \in Routes, sent \in {<<"swap">>, <<"approval">>, <<"approval", "swap">>} : Broadcast(r, sent)
    \/ \E r \in Routes, status \in Settled : Mined(r, status)
    \/ \E r \in Routes, attempt \in 1..Attempts :
          StatusFails(r, attempt) \/ \E answer \in {"pending", "completed", "refunded"} : StatusArrives(r, attempt, answer)
    \/ Restart
Spec == Init /\ [][Next]_routesVars
-----------------------------------------------------------------------------
Active == [status : {"ready", "in-progress", "waiting-approval-to-resolve", "completed", "refunded", "failed"},
           hash : 1..Attempts \cup {None}, error : BOOLEAN] \cup {None}

\* Type correctness.
TypeOK ==
    /\ active \in [Routes -> Active] /\ saved \in [Routes -> Active]
    /\ \A r \in Routes : ops[r].at \in {"none", "building", "signing", "sent", "recorded", "unknown"}
    /\ polls \subseteq Routes \X (1..Attempts)
    /\ untold \subseteq Routes /\ tellings \subseteq Routes /\ restarts \in 0..Restarts

\* What a route should show once its operation is settled and it was told
Shown(r) ==
    IF "swap" \notin Range(ops[r].calls) THEN {"ready"}
    ELSE IF ops[r].known = "failure" THEN {"failed"}
    ELSE IF r \in Swaps THEN {"completed"} ELSE {"in-progress", "completed", "refunded"}

\* A route that was told shows how its operation ended, whatever was polled meanwhile and however
\* often it was signed again; a bridge is not shown as completed before its transaction is mined;
\* and what is shown survives a restart, but for a route that is not yet sent
\* (swapAndBridge.ts:1630-1704, 1726-2000, main.ts:1285, 2115).
RoutesShowTheirEnd ==
    \A r \in Routes : active[r] # None =>
        /\ r \notin Swaps /\ active[r].status \in {"completed", "refunded"} => ops[r].mined = "success"
        /\ ops[r].at = "recorded" /\ ops[r].known \in Settled /\ r \notin tellings \cup untold
              => active[r].status \in Shown(r)
        /\ active[r].status = "in-progress" => active[r].hash # None /\ active[r].hash = ops[r].attempt
        /\ saved[r] = active[r] \/ active[r].status = "ready"
=============================================================================
