------------------------------ MODULE SwapQuote ------------------------------
(***************************************************************************)
(* SwapAndBridgeController: from the form to a quote, a route and the      *)
(* SignAccountOpController of its transaction.  A call of updateQuote      *)
(* draws an id; what was asked under an earlier id is dropped after each   *)
(* await.  A form is a record: from is its chain, amount stands for the    *)
(* token and how much of it, to for the token and the chain to get; None   *)
(* is a form that is not valid to fetch a quote.  Left out: the errors of  *)
(* single routes and of the batch in the main screen.                      *)
(***************************************************************************)
EXTENDS Integers, SequencesExt

CONSTANTS
    Forms, RouteNames,
    Turns,      \* bound: calls of the user and failed estimations in one behaviour
    None

VARIABLES
    form, quote, proceeded,
    quoteId,    \* #updateQuoteId
    ids,        \* the ids drawn so far
    quoteStatus,  \* updateQuoteStatus
    autoOff,    \* isAutoSelectRouteDisabled
    ctrl,       \* #signAccountOpController: [id, of, route, estimation]
    calls,      \* updateQuote in progress: [id, of], of is None until the quote is asked for
    inits,      \* initSignAccountOpIfNeeded in progress: [id, n, of, route], None until it starts
    reestimating,  \* what the one reestimate loop compares with
    turns
swapVars == <<form, quote, proceeded, quoteId, ids, quoteStatus, autoOff, ctrl, calls, inits,
              reestimating, turns>>

Quote == [of: Forms, routes: Seq(RouteNames), failed: SUBSET RouteNames,
          selected: RouteNames \cup {None}]
\* The transaction that a route of a quote starts with.
Transaction == [of: Forms, route: RouteNames]

ASSUME SwapAssumption ==
    /\ Turns \in Nat /\ IsFiniteSet(RouteNames)
    /\ None \notin Forms \cup RouteNames \cup Quote \cup Transaction

\* -- The status of the form ------------------------------------------------

\* Mistake: the getter gives whatever controller there is
VisibleAlways == ctrl
\* the getter signAccountOpController
Visible == IF ctrl # None /\ ctrl.id = quoteId THEN ctrl ELSE None
FormStatus(q, status) ==
    IF proceeded THEN "Proceeded"
    ELSE IF form = None THEN "Invalid"
    ELSE IF status = "LOADING" THEN "FetchingRoutes"
    ELSE IF q = None \/ Range(q.routes) \subseteq q.failed THEN "NoRoutesFound"
    ELSE IF Visible # None /\ ctrl.estimation = "Success" THEN "ReadyToSubmit"
    ELSE "ReadyToEstimate"
Ready(q, status) == FormStatus(q, status) \in {"ReadyToEstimate", "ReadyToSubmit"}

\* -- The controller that estimates and signs --------------------------------

DestroySignAccountOp == ctrl' = None /\ proceeded' = (proceeded /\ ctrl = None)
\* initSignAccountOpIfNeeded, up to its first await; n tells calls of one id apart
Init0(id, n, q, status) ==
    IF Ready(q, status) THEN {[id |-> id, n |-> n, of |-> None, route |-> None]} ELSE {}

\* selectRoute; its callers say what else changes
SelectRoute(r, q, n, drop) ==
    IF Ready(q, quoteStatus)
    THEN /\ quote' = [q EXCEPT !.selected = r]
         /\ inits' = (inits \ drop) \cup IF quoteId = 0 THEN {}
                                        ELSE Init0(quoteId, n, q, quoteStatus)
    ELSE quote' = q /\ inits' = inits \ drop
\* onEstimationFailure: the next route, if the failed one is not the last
OnEstimationFailure(route, n, drop) ==
    IF quote = None \/ quote.selected = None \/ autoOff
    THEN UNCHANGED <<quote, quoteStatus>> /\ inits' = inits \ drop
    ELSE LET at == {k \in 1..(Len(quote.routes) - 1) : quote.routes[k] = route}
         IN  IF at = {}
             THEN /\ quote' = [quote EXCEPT !.routes = <<>>, !.selected = None]
                  /\ quoteStatus' = "INITIAL" /\ inits' = inits \ drop
             ELSE /\ \E k \in at : SelectRoute(quote.routes[k + 1],
                                        [quote EXCEPT !.routes = RemoveAt(@, k)], n, drop)
                  /\ UNCHANGED quoteStatus

\* After the account state: getRouteStartUserTx asks for the transaction of the selected route.
StartRoute(i) ==
    /\ i \in inits /\ i.of = None
    /\ IF i.id # quoteId
       THEN inits' = inits \ {i} /\ UNCHANGED <<quote, quoteStatus>>
       ELSE IF Ready(quote, quoteStatus)
       THEN /\ inits' = (inits \ {i}) \cup {[i EXCEPT !.of = quote.of, !.route = quote.selected]}
            /\ UNCHANGED <<quote, quoteStatus>>
       ELSE OnEstimationFailure(IF quote = None THEN None ELSE quote.selected, i.n, {i})
    /\ UNCHANGED <<form, proceeded, quoteId, ids, autoOff, ctrl, calls, reestimating, turns>>
RouteFails(i) ==
    /\ i \in inits /\ i.of # None /\ turns > 0 /\ turns' = turns - 1
    /\ IF i.id # quoteId THEN inits' = inits \ {i} /\ UNCHANGED <<quote, quoteStatus>>
       ELSE OnEstimationFailure(IF quote = None THEN None ELSE quote.selected, i.n, {i})
    /\ UNCHANGED <<form, proceeded, quoteId, ids, autoOff, ctrl, calls, reestimating>>
\* The controller is updated, or replaced on another chain; the loop of the old one serves on.
\* It is estimated anew unless the calls are those that it has.
SameRoute(i) == ctrl # None /\ ctrl.of = i.of /\ ctrl.route = i.route
RouteStarts(i) ==
    /\ i \in inits /\ i.of # None /\ inits' = inits \ {i}
    /\ IF i.id # quoteId THEN UNCHANGED <<ctrl, proceeded, reestimating>>
       ELSE /\ \E e \in {"Loading"} \cup IF SameRoute(i) THEN {ctrl.estimation} ELSE {} :
                  ctrl' = [id |-> i.id, of |-> i.of, route |-> i.route, estimation |-> e]
            /\ IF ctrl # None /\ ctrl.of.from = i.of.from
               THEN UNCHANGED <<proceeded, reestimating>>
               ELSE /\ proceeded' = (proceeded /\ ctrl = None)
                    /\ reestimating' = IF reestimating # None THEN reestimating
                                     ELSE [of |-> i.of, route |-> i.route]
    /\ UNCHANGED <<form, quote, quoteId, ids, quoteStatus, autoOff, calls, turns>>

EstimationSucceeds ==
    /\ ctrl # None /\ ctrl.estimation = "Loading" /\ ctrl' = [ctrl EXCEPT !.estimation = "Success"]
    /\ UNCHANGED <<form, quote, proceeded, quoteId, ids, quoteStatus, autoOff, calls, inits>>
    /\ UNCHANGED <<reestimating, turns>>
EstimationFails ==
    /\ ctrl # None /\ ctrl.estimation = "Loading" /\ turns > 0 /\ turns' = turns - 1
    /\ ctrl' = [ctrl EXCEPT !.estimation = "Error"]
    /\ OnEstimationFailure(ctrl.route, turns, {})
    /\ UNCHANGED <<form, proceeded, quoteId, ids, autoOff, calls, reestimating>>

\* reestimate, 30 seconds later: a new estimation, unless the quote or the transaction changes
Reestimate ==
    /\ reestimating # None
    /\ IF ctrl = None THEN reestimating' = None /\ UNCHANGED ctrl
       ELSE LET txn == [of |-> ctrl.of, route |-> ctrl.route]
            IN  /\ reestimating' = txn
                /\ ctrl' = IF quoteStatus = "LOADING" \/ reestimating # txn THEN ctrl
                           ELSE [ctrl EXCEPT !.estimation = "Loading"]
    /\ UNCHANGED <<form, quote, proceeded, quoteId, ids, quoteStatus, autoOff, calls, inits, turns>>

\* -- updateQuote -----------------------------------------------------------

\* up to the debounce of 500 ms
UpdateQuote(f, q) ==
    /\ form' = f
    /\ IF proceeded \/ autoOff THEN quote' = q /\ UNCHANGED <<quoteId, ids, quoteStatus, calls>>
       ELSE /\ ids' = ids + 1 /\ quoteId' = ids + 1
            /\ quote' = IF f = None THEN None ELSE q
            /\ quoteStatus' = IF f = None THEN "INITIAL" ELSE "LOADING"
            /\ calls' = IF f = None THEN calls ELSE calls \cup {[id |-> ids + 1, of |-> None]}
\* its last part: the route is started, or the controller goes
EndQuote(c, q, ok) ==
    /\ calls' = calls \ {c} /\ quote' = q /\ quoteStatus' = "INITIAL"
    /\ IF ok THEN inits' = inits \cup Init0(c.id, 0, q, "INITIAL") /\ UNCHANGED <<ctrl, proceeded>>
       ELSE DestroySignAccountOp /\ UNCHANGED inits
QuoteObsolete(c) ==
    /\ c \in calls /\ c.id # quoteId /\ calls' = calls \ {c}
    /\ UNCHANGED <<form, quote, proceeded, quoteId, ids, quoteStatus, autoOff, ctrl, inits>>
    /\ UNCHANGED <<reestimating, turns>>
SameValues == quote # None /\ quote.of = form /\ quote.selected # None
AskQuote(c) ==
    /\ c \in calls /\ c.of = None /\ c.id = quoteId
    /\ IF form = None \/ SameValues THEN EndQuote(c, quote, FALSE)
       ELSE /\ calls' = (calls \ {c}) \cup {[c EXCEPT !.of = form]}
            /\ quote' = None /\ quoteStatus' = IF quote = None THEN quoteStatus ELSE "LOADING"
            /\ UNCHANGED <<ctrl, proceeded, inits>>
    /\ UNCHANGED <<form, quoteId, ids, autoOff, reestimating, turns>>
\* The routes of the answer, none if the provider has none, failed if it gives an error.
Answers == {<<>>} \cup SetToSeqs(RouteNames)
Accepted(c, routes) == routes # <<>> /\ form # None /\ form.to = c.of.to /\ form.from = c.of.from
\* The route that was selected stays so if the new answer has it too
QuoteWith(c, routes) ==
    [of |-> c.of, routes |-> routes, failed |-> {},
     selected |-> IF quote # None /\ quote.selected \in Range(routes)
                  THEN quote.selected ELSE routes[1]]
QuoteArrives(c, routes, failed) ==
    /\ c \in calls /\ c.of # None /\ c.id = quoteId
    /\ IF failed \/ proceeded \/ autoOff THEN EndQuote(c, quote, FALSE)
       ELSE EndQuote(c, IF Accepted(c, routes) THEN QuoteWith(c, routes) ELSE quote, TRUE)
    /\ UNCHANGED <<form, quoteId, ids, autoOff, reestimating, turns>>

\* -- The user ---------------------------------------------------------------

UserTurn == turns > 0 /\ turns' = turns - 1 /\ UNCHANGED reestimating
UpdateForm(f) == UserTurn /\ UpdateQuote(f, quote) /\ UNCHANGED <<proceeded, autoOff, ctrl, inits>>
SetRoutePriority ==
    UserTurn /\ UpdateQuote(form, None) /\ UNCHANGED <<proceeded, autoOff, ctrl, inits>>
\* switchFromAndToTokens changes the form; its list of tokens may take long before updateForm
SwitchFromAndToTokens(f) ==
    /\ UserTurn /\ form' = f
    /\ UNCHANGED <<quote, proceeded, quoteId, ids, quoteStatus, autoOff, ctrl, calls, inits>>
ChooseRoute(r) ==
    /\ UserTurn /\ quote # None /\ r \in Range(quote.routes)
    /\ Ready(quote, quoteStatus) /\ autoOff' = TRUE
    /\ SelectRoute(r, quote, turns, {})
    /\ UNCHANGED <<form, proceeded, quoteId, ids, quoteStatus, ctrl, calls>>
SetIsAutoSelectRouteDisabled(disabled) ==
    /\ UserTurn /\ autoOff' = disabled
    /\ UNCHANGED <<form, quote, proceeded, quoteId, ids, quoteStatus, ctrl, calls, inits>>
SetUserProceeded(value) ==
    /\ UserTurn /\ proceeded' = value /\ proceeded # value
    /\ UNCHANGED <<form, quote, quoteId, ids, quoteStatus, autoOff, ctrl, calls, inits>>
MarkSelectedRouteAsFailed ==
    /\ UserTurn /\ quote # None
    /\ quote' = [quote EXCEPT !.failed = @ \cup ({quote.selected} \ {None})]
    /\ UNCHANGED <<form, proceeded, quoteId, ids, quoteStatus, autoOff, ctrl, calls, inits>>
ResetForm ==
    /\ UserTurn /\ form' = None /\ quote' = None /\ quoteStatus' = "INITIAL" /\ quoteId' = 0
    /\ ctrl' = None /\ proceeded' = FALSE /\ autoOff' = FALSE
    /\ UNCHANGED <<ids, calls, inits>>

SwapInit ==
    /\ form = None /\ quote = None /\ proceeded = FALSE /\ quoteId = 0 /\ ids = 0
    /\ quoteStatus = "INITIAL" /\ autoOff = FALSE /\ ctrl = None /\ calls = {} /\ inits = {}
    /\ reestimating = None /\ turns = Turns
SwapNext ==
    \/ \E f \in Forms \cup {None} : UpdateForm(f) \/ SwitchFromAndToTokens(f)
    \/ SetRoutePriority \/ ResetForm \/ MarkSelectedRouteAsFailed
    \/ \E r \in RouteNames : ChooseRoute(r)
    \/ \E b \in BOOLEAN : SetIsAutoSelectRouteDisabled(b) \/ SetUserProceeded(b)
    \/ \E c \in calls :
          QuoteObsolete(c) \/ AskQuote(c) \/ \E s \in Answers, e \in BOOLEAN : QuoteArrives(c, s, e)
    \/ \E i \in inits : StartRoute(i) \/ RouteFails(i) \/ RouteStarts(i)
    \/ EstimationSucceeds \/ EstimationFails \/ Reestimate

SwapSpec == SwapInit /\ [][SwapNext]_swapVars
-----------------------------------------------------------------------------
SwapTypeOK ==
    /\ form \in Forms \cup {None} /\ proceeded \in BOOLEAN /\ autoOff \in BOOLEAN
    /\ quote \in Quote \cup {None} /\ quoteStatus \in {"INITIAL", "LOADING"}
    /\ ids \in Nat /\ quoteId \in 0..ids /\ turns \in 0..Turns
    /\ calls \subseteq [id: 1..ids, of: Forms \cup {None}]
    /\ inits \subseteq [id: 1..ids, n: 0..Turns, of: Forms \cup {None},
                        route: RouteNames \cup {None}]
    /\ ctrl \in [id: 1..ids, of: Forms, route: RouteNames,
                 estimation: {"Loading", "Success", "Error"}] \cup {None}
    /\ reestimating \in Transaction \cup {None}

\* Quotes are fetched as long as the form says so: the call that holds the current id is in
\* progress, whatever was debounced, overtaken, made invalid or reset before
\* (swapAndBridge.ts:1282, 1526-1551).
QuoteIsFetched == quoteStatus = "LOADING" => \E c \in calls : c.id = quoteId

\* A controller is estimated anew every 30 seconds, although the controllers of a form share one
\* loop that outlives them (swapAndBridge.ts:2248).
ControllerIsReestimated == ctrl # None => reestimating # None

\* What the user can submit comes from the quote that is shown, however many quotes, routes and
\* estimations overtook each other before (swapAndBridge.ts:2086, 2090, 2116).
SubmitsTheQuote == FormStatus(quote, quoteStatus) = "ReadyToSubmit" => ctrl.of = quote.of
=============================================================================
