--------------------------- MODULE ScreenPartsProofs --------------------------
(***************************************************************************)
(* What the theorems about MCScreens in ScreensProofs rest on, for most of *)
(* the parts: the invariants of the screens that sign or send (swap,       *)
(* transfers, Railgun, privacy pools, fees, messages), of the plugins for  *)
(* private operations and of the email vault, and the types of their       *)
(* variables.                                                              *)
(*                                                                         *)
(* Each part has an inductive invariant of its own, under its heading.     *)
(* None of the properties is inductive by itself: a quote that loads is    *)
(* explained by a call that has drawn the last id (SwapInv, PoolsInv), a   *)
(* payment by the estimate that its option is of (FeesOwn), a signature by *)
(* the message that it was asked for (MsgInv), a private operation by the  *)
(* one step that it is at (PluginInv, PluginOwn, PluginV1Inv), and an      *)
(* email flow by what its methods still have to do (MailInv).              *)
(***************************************************************************)
EXTENDS MCScreens, SequenceTheorems, FiniteSetTheorems, FunctionTheorems, WellFoundedInduction, TLAPS

-----------------------------------------------------------------------------
(* What all parts need *)

\* The bounds are numbers.
LEMMA BoundsAssumed ==
    /\ Withdrawals \in Nat /\ TransferUpdates \in Nat /\ ListTurns \in Nat
    /\ Attempts \in Nat /\ Restarts \in Nat
BY ScreensAssumption

\* The first numbers.
LEMMA FirstNumbers == ASSUME NEW n \in Nat PROVE IsFiniteSet(1..n) /\ Cardinality(1..n) = n
<1> QED  BY FS_Interval

-----------------------------------------------------------------------------
(* Proofs.  What is asked for under the current id is pending until the call  *)
(* that holds the id ends; as long as it is, nothing was started for the id,  *)
(* neither a route nor a controller.  So the quote that arrives finds nothing *)
(* of an earlier quote under its id, and what starts later is of that quote.  *)

\* a quote is being fetched under the current id (swapAndBridge.ts:1282)
Pending == \E c \in calls : c.id = quoteId

\* every call of updateQuote draws an id of its own
CallsDiffer == \A c, d \in calls : c.id = d.id => c = d

\* as long as a quote is pending, nothing was started under its id
PendingFirst ==
    Pending => /\ quoteStatus = "LOADING" \/ quote = None \/ quote.routes = <<>>
               /\ \A i \in inits : i.id # quoteId
               /\ ctrl # None => ctrl.id # quoteId

\* what was started under the current id is for the quote that is shown
OfTheQuote ==
    quote # None =>
        /\ quote.routes # <<>> => quote.selected \in RouteNames
        /\ \A i \in inits : i.id = quoteId /\ i.of # None => i.of = quote.of
        /\ ctrl # None /\ ctrl.id = quoteId => ctrl.of = quote.of

\* a transaction is asked for a route, not for none
StartsRoute == \A i \in inits : i.of # None => i.route \in RouteNames

\* the inductive invariant
SwapInv ==
    /\ SwapTypeOK /\ CallsDiffer /\ QuoteIsFetched /\ PendingFirst /\ OfTheQuote /\ StartsRoute
    /\ ControllerIsReestimated

\* At first nothing is asked for.
LEMMA SwapInvInit == ASSUME SwapInit PROVE SwapInv
<1>1. Turns \in 0..Turns
  BY SwapAssumption
<1>2. SwapTypeOK
  <2>2. ids \in Nat /\ quoteId \in 0..ids
    BY DEF SwapInit
  <2> QED
    BY <1>1, <2>2 DEF SwapTypeOK, SwapInit
<1>4. OfTheQuote /\ StartsRoute /\ ControllerIsReestimated
  BY DEF SwapInit, OfTheQuote, StartsRoute, ControllerIsReestimated
<1> QED
  BY <1>2, <1>4 DEF SwapInv, SwapInit, CallsDiffer, QuoteIsFetched, PendingFirst, Pending

\* A turn that is taken.
LEMMA TurnTaken == ASSUME SwapInv, turns > 0, turns' = turns - 1 PROVE turns' \in 0..Turns
<1> QED
  BY SwapAssumption DEF SwapInv, SwapTypeOK

\* Taking out an element that is not the last leaves a list with another.
LEMMA RemoveNext ==
    ASSUME NEW S, NEW s \in Seq(S), NEW k \in 1..(Len(s) - 1)
    PROVE  RemoveAt(s, k) \in Seq(S) /\ RemoveAt(s, k) # <<>> /\ s # <<>>
<1>2. RemoveAt(s, k) \in Seq(S) /\ Len(RemoveAt(s, k)) = Len(s) - 1
  BY ConcatProperties, SubSeqProperties DEF RemoveAt
<1> QED
  BY <1>2

\* An answer lists routes.
LEMMA AnswersAreRoutes == \A s \in Answers : s \in Seq(RouteNames)
<1>2. \A s \in SetToSeqs(RouteNames) : s \in Seq(RouteNames)
  BY SwapAssumption, FS_CardinalityType DEF SetToSeqs
<1>3. <<>> \in Seq(RouteNames)
  OBVIOUS
<1> QED
  BY <1>2, <1>3 DEF Answers

\* A form that may be estimated has a quote with a route, and nothing is pending for it.
LEMMA ReadyIsSelected ==
    ASSUME SwapInv, Ready(quote, quoteStatus)
    PROVE  quote # None /\ ~Pending /\ quote.routes # <<>> /\ quote.selected \in RouteNames
<1> QED
  BY DEF SwapInv, OfTheQuote, PendingFirst, Ready, FormStatus, Range

\* what a failed estimation or route leaves: the same quote with fewer routes, and perhaps a start
\* of the next of them (swapAndBridge.ts:1828-1860)
Narrowed(q, status, is, n) ==
    /\ q \in Quote \cup {None} /\ status \in {"INITIAL", quoteStatus}
    /\ q # None => /\ quote # None /\ q.of = quote.of
                   /\ q.routes # <<>> => q.selected \in RouteNames
    /\ \A i \in is : i \in inits \/ (~Pending /\ quoteId # 0
                                     /\ i = [id |-> quoteId, n |-> n, of |-> None, route |-> None])
    /\ Pending => status = "LOADING" \/ q = None \/ q.routes = <<>>

\* Selecting a route of a quote.
LEMMA SelectNarrows ==
    ASSUME SwapInv, NEW n, NEW drop, NEW q \in Quote, quote # None, q.of = quote.of,
           q.routes # <<>>, quote.routes # <<>>, NEW r \in RouteNames, q.selected \in RouteNames,
           SelectRoute(r, q, n, drop), UNCHANGED quoteStatus
    PROVE  Narrowed(quote', quoteStatus', inits', n)
<1>2. CASE ~Ready(q, quoteStatus)
  BY <1>2 DEF SelectRoute, Narrowed, SwapInv, SwapTypeOK, PendingFirst
<1>3. CASE Ready(q, quoteStatus)
  <2>4. \A i \in inits' : i \in inits \/ (quoteId # 0
                                /\ i = [id |-> quoteId, n |-> n, of |-> None, route |-> None])
    BY <1>3 DEF SelectRoute, Init0
  <2> QED
    BY <1>3, <2>4 DEF Narrowed, SwapInv, SwapTypeOK, PendingFirst, Ready, FormStatus, Quote, SelectRoute
<1> QED
  BY <1>2, <1>3

\* The route that failed is taken out of the list.
LEMMA FailureNarrows ==
    ASSUME SwapInv, NEW n, NEW drop, NEW route, OnEstimationFailure(route, n, drop)
    PROVE  Narrowed(quote', quoteStatus', inits', n)
<1>2. CASE quote = None \/ quote.selected = None \/ autoOff
  BY <1>2 DEF OnEstimationFailure, Narrowed, SwapInv, OfTheQuote, PendingFirst, SwapTypeOK
<1>3. CASE ~(quote = None \/ quote.selected = None \/ autoOff)
  <2> DEFINE at == {k \in 1..(Len(quote.routes) - 1) : quote.routes[k] = route}
  <2>1. quote \in Quote /\ quote # None
    BY <1>3 DEF SwapInv, SwapTypeOK
  <2>2. CASE at = {}
    <3>2. <<>> \in Seq(RouteNames)
      OBVIOUS
    <3> QED
      BY <1>3, <2>1, <2>2, <3>2 DEF Narrowed, OnEstimationFailure, Quote
  <2>3. CASE at # {}
    <3>1. PICK k \in at : /\ SelectRoute(quote.routes[k + 1],
                                         [quote EXCEPT !.routes = RemoveAt(@, k)], n, drop)
                          /\ UNCHANGED quoteStatus
      BY <1>3, <2>3 DEF OnEstimationFailure
    <3> DEFINE q == [quote EXCEPT !.routes = RemoveAt(@, k)]
               s == quote.routes
    <3>4. s[k + 1] \in RouteNames
      BY <2>1 DEF Quote
    <3>5. q \in Quote /\ q.of = quote.of /\ q.routes = RemoveAt(s, k)
          /\ q.selected = quote.selected /\ quote.selected \in RouteNames
      BY <1>3, <2>1, RemoveNext DEF Quote
    <3> QED
      BY <2>1, <3>1, <3>4, <3>5, SelectNarrows, RemoveNext DEF Quote
  <2> QED
    BY <2>2, <2>3
<1> QED
  BY <1>2, <1>3

\* The invariant where the quote is narrowed, and the controller at most estimated.
LEMMA NarrowedKeeps ==
    ASSUME SwapInv, NEW n \in 0..Turns, Narrowed(quote', quoteStatus', inits', n),
           turns' \in 0..Turns, autoOff' \in BOOLEAN,
           \/ UNCHANGED ctrl
           \/ /\ ctrl # None
              /\ \E e \in {"Loading", "Success", "Error"} : ctrl' = [ctrl EXCEPT !.estimation = e],
           UNCHANGED <<form, proceeded, quoteId, ids, calls, reestimating>>
    PROVE  SwapInv'
<1>6. StartsRoute' /\ ControllerIsReestimated'
  BY DEF SwapInv, StartsRoute, ControllerIsReestimated, Narrowed, SwapTypeOK
<1> QED
  BY <1>6 DEF SwapInv, SwapTypeOK, CallsDiffer, QuoteIsFetched, Narrowed, PendingFirst, Pending, OfTheQuote

\* The user's calls that ask for no quote.
LEMMA UserKeeps ==
    ASSUME SwapInv,
           \/ \E f \in Forms \cup {None} : SwitchFromAndToTokens(f)
           \/ MarkSelectedRouteAsFailed
           \/ ResetForm
           \/ \E b \in BOOLEAN : SetIsAutoSelectRouteDisabled(b) \/ SetUserProceeded(b)
    PROVE  SwapInv'
<1> USE DEF SwapInv, SwapTypeOK, UserTurn
<1>0. turns' \in 0..Turns /\ UNCHANGED reestimating
  BY TurnTaken DEF SwitchFromAndToTokens, SetIsAutoSelectRouteDisabled, SetUserProceeded,
     MarkSelectedRouteAsFailed, ResetForm
<1>1. CASE \E f \in Forms \cup {None} : SwitchFromAndToTokens(f)
  BY <1>0, <1>1 DEF SwitchFromAndToTokens, CallsDiffer, QuoteIsFetched, PendingFirst, Pending,
     OfTheQuote, StartsRoute, ControllerIsReestimated
<1>2. CASE \E b \in BOOLEAN : SetIsAutoSelectRouteDisabled(b)
  BY <1>0, <1>2 DEF SetIsAutoSelectRouteDisabled, CallsDiffer, QuoteIsFetched, PendingFirst,
     Pending, OfTheQuote, StartsRoute, ControllerIsReestimated
<1>3. CASE \E b \in BOOLEAN : SetUserProceeded(b)
  BY <1>0, <1>3 DEF SetUserProceeded, CallsDiffer, QuoteIsFetched, PendingFirst, Pending,
     OfTheQuote, StartsRoute, ControllerIsReestimated
<1>4. CASE MarkSelectedRouteAsFailed
  <2>3. PendingFirst' /\ OfTheQuote'
    BY <1>4 DEF MarkSelectedRouteAsFailed, PendingFirst, Pending, OfTheQuote, Quote
  <2> QED
    BY <1>0, <1>4, <2>3 DEF MarkSelectedRouteAsFailed, CallsDiffer, QuoteIsFetched, StartsRoute,
       ControllerIsReestimated, Quote
<1>5. CASE ResetForm
  <2>2. quoteId' \in 0..ids' /\ \A c \in calls' : c.id # quoteId'
    BY <1>5 DEF ResetForm
  <2> QED
    BY <1>0, <1>5, <2>2 DEF OfTheQuote, StartsRoute, ControllerIsReestimated, CallsDiffer, QuoteIsFetched,
       PendingFirst, Pending, ResetForm
<1> QED
  BY <1>1, <1>2, <1>3, <1>4, <1>5

\* updateQuote draws an id that nothing has.
LEMMA UpdateKeeps ==
    ASSUME SwapInv, NEW f \in Forms \cup {None}, NEW q \in {quote, None}, UpdateQuote(f, q),
           turns' \in 0..Turns, UNCHANGED <<proceeded, autoOff, ctrl, inits, reestimating>>
    PROVE  SwapInv'
<1>1. CASE proceeded \/ autoOff
  BY <1>1 DEF UpdateQuote, SwapInv, SwapTypeOK, CallsDiffer, QuoteIsFetched, PendingFirst,
     Pending, OfTheQuote, StartsRoute, ControllerIsReestimated
<1>2. CASE ~(proceeded \/ autoOff)
  <2> DEFINE c == [id |-> ids + 1, of |-> None]
  <2>1. /\ form' = f /\ ids' = ids + 1 /\ quoteId' = ids + 1
        /\ quote' = (IF f = None THEN None ELSE q)
        /\ quoteStatus' = (IF f = None THEN "INITIAL" ELSE "LOADING")
        /\ calls' = (IF f = None THEN calls ELSE calls \cup {c})
    BY <1>2 DEF UpdateQuote
  <2>5. QuoteIsFetched'
    <3>1. CASE f # None
      <4>1. c \in calls' /\ c.id = quoteId'
        BY <2>1, <3>1
      <4> QED
        BY <4>1 DEF QuoteIsFetched
    <3>2. CASE f = None
      BY <2>1, <3>2 DEF QuoteIsFetched
    <3> QED
      BY <3>1, <3>2
  <2> QED
    BY <2>1, <2>5 DEF SwapInv, SwapTypeOK, CallsDiffer, PendingFirst, Pending, OfTheQuote, StartsRoute,
       ControllerIsReestimated
<1> QED
  BY <1>1, <1>2

\* The end of the call that is pending: what it found is the quote, or it is not pending any more.
LEMMA EndKeeps ==
    ASSUME SwapInv, NEW c \in calls, c.id = quoteId, NEW q \in Quote \cup {None},
           NEW ok \in BOOLEAN, EndQuote(c, q, ok),
           q # None => /\ q.routes # <<>> => q.selected \in RouteNames,
           UNCHANGED <<form, quoteId, ids, autoOff, reestimating, turns>>
    PROVE  SwapInv'
<1>1. /\ calls' = calls \ {c} /\ quote' = q /\ quoteStatus' = "INITIAL"
      /\ ctrl' \in {ctrl, None} /\ proceeded' \in BOOLEAN
      /\ \A i \in inits' : i \in inits \/ i = [id |-> quoteId, n |-> 0, of |-> None, route |-> None]
  BY DEF EndQuote, DestroySignAccountOp, Init0, SwapInv, SwapTypeOK
<1>6. OfTheQuote'
  BY <1>1, SwapAssumption DEF OfTheQuote, SwapInv, SwapTypeOK, PendingFirst, Pending
<1> QED
  BY <1>1, <1>6, SwapAssumption DEF SwapInv, StartsRoute, ControllerIsReestimated, CallsDiffer,
     QuoteIsFetched, PendingFirst, Pending, SwapTypeOK

\* The steps of updateQuote.
LEMMA FetchKeeps ==
    ASSUME SwapInv, NEW c \in calls,
           \/ QuoteObsolete(c)
           \/ AskQuote(c)
           \/ \E s \in Answers, e \in BOOLEAN : QuoteArrives(c, s, e)
    PROVE  SwapInv'
<1>1. /\ quote \in Quote \cup {None}
      /\ quote # None => (quote.routes # <<>> => quote.selected \in RouteNames)
  BY DEF SwapInv, SwapTypeOK, OfTheQuote
<1>2. CASE QuoteObsolete(c)
  BY <1>2 DEF QuoteObsolete, SwapInv, SwapTypeOK, CallsDiffer, QuoteIsFetched, PendingFirst,
     Pending, OfTheQuote, StartsRoute, ControllerIsReestimated
<1>3. CASE AskQuote(c)
  <2>1. CASE form = None \/ SameValues
    BY <1>1, <1>3, <2>1, EndKeeps DEF AskQuote
  <2>2. CASE ~(form = None \/ SameValues)
    <3> DEFINE d == [c EXCEPT !.of = form]
    <3>2. d \in [id: 1..ids, of: Forms \cup {None}] /\ d.id = c.id
      BY DEF SwapInv, SwapTypeOK
    <3>6. PendingFirst' /\ OfTheQuote' /\ StartsRoute' /\ ControllerIsReestimated'
      BY <1>3, <2>2 DEF SwapInv, PendingFirst, Pending, OfTheQuote, StartsRoute, ControllerIsReestimated,
         AskQuote
    <3> QED
      BY <1>3, <2>2, <3>2, <3>6 DEF SwapInv, SwapTypeOK, CallsDiffer, QuoteIsFetched, AskQuote
  <2> QED
    BY <2>1, <2>2
<1>4. CASE \E s \in Answers, e \in BOOLEAN : QuoteArrives(c, s, e)
  <2>1. PICK s \in Answers, e \in BOOLEAN : QuoteArrives(c, s, e)
    BY <1>4
  <2>2. CASE e \/ proceeded \/ autoOff
    BY <1>1, <2>1, <2>2, EndKeeps DEF QuoteArrives
  <2>3. CASE ~(e \/ proceeded \/ autoOff)
    <3> DEFINE q == IF Accepted(c, s) THEN QuoteWith(c, s) ELSE quote
    <3>1. EndQuote(c, q, TRUE) /\ c.of # None /\ c.id = quoteId
          /\ UNCHANGED <<form, quoteId, ids, autoOff, reestimating, turns>>
      BY <2>1, <2>3 DEF QuoteArrives
    <3>2. Accepted(c, s) => QuoteWith(c, s) \in Quote /\ QuoteWith(c, s).selected \in RouteNames
      <4> SUFFICES ASSUME Accepted(c, s)
                   PROVE  QuoteWith(c, s) \in Quote /\ QuoteWith(c, s).selected \in RouteNames
        OBVIOUS
      <4> QED
        BY <3>1, AnswersAreRoutes DEF QuoteWith, Quote, Accepted, Range, SwapInv, SwapTypeOK
    <3>3. q \in Quote \cup {None} /\ (q # None => (q.routes # <<>> => q.selected \in RouteNames))
      BY <1>1, <3>2
    <3> HIDE DEF q
    <3> QED
      BY <3>1, <3>3, EndKeeps
  <2> QED
    BY <2>2, <2>3
<1> QED
  BY <1>2, <1>3, <1>4

\* The steps of initSignAccountOpIfNeeded.
LEMMA StartKeeps ==
    ASSUME SwapInv, NEW i \in inits, StartRoute(i) \/ RouteFails(i) \/ RouteStarts(i)
    PROVE  SwapInv'
<1>1. i \in [id: 1..ids, n: 0..Turns, of: Forms \cup {None}, route: RouteNames \cup {None}]
  BY DEF SwapInv, SwapTypeOK
<1>2. CASE i.id # quoteId
  <2>1. /\ inits' = inits \ {i} /\ turns' \in 0..Turns
        /\ UNCHANGED <<quote, quoteStatus, form, proceeded, quoteId, ids, autoOff, ctrl, calls,
                       reestimating>>
        BY <1>2, TurnTaken DEF StartRoute, RouteFails, RouteStarts, SwapInv, SwapTypeOK
  <2> QED
    BY <2>1 DEF SwapInv, SwapTypeOK, CallsDiffer, QuoteIsFetched, PendingFirst, Pending, OfTheQuote,
       StartsRoute, ControllerIsReestimated
<1>3. CASE StartRoute(i) /\ i.id = quoteId /\ Ready(quote, quoteStatus)
  <2> DEFINE d == [i EXCEPT !.of = quote.of, !.route = quote.selected]
  <2>1. /\ inits' = (inits \ {i}) \cup {d}
        /\ UNCHANGED <<quote, quoteStatus, form, proceeded, quoteId, ids, autoOff, ctrl, calls,
                       reestimating, turns>>
    BY <1>3 DEF StartRoute
  <2>2. quote # None /\ ~Pending /\ quote.selected \in RouteNames
    BY <1>3, ReadyIsSelected
  <2>4. d \in [id: 1..ids, n: 0..Turns, of: Forms \cup {None}, route: RouteNames \cup {None}]
        /\ d.of = quote.of /\ d.route = quote.selected /\ d.id = i.id
    BY <1>1, <2>2 DEF SwapInv, SwapTypeOK, Quote
  <2> HIDE DEF d
  <2>7. StartsRoute' /\ ControllerIsReestimated'
    BY <2>1, <2>2, <2>4 DEF SwapInv, StartsRoute, ControllerIsReestimated
  <2> QED
    BY <2>1, <2>2, <2>4, <2>7 DEF SwapInv, SwapTypeOK, CallsDiffer, QuoteIsFetched, PendingFirst, Pending,
       OfTheQuote
<1>4. CASE i.id = quoteId /\ \/ StartRoute(i) /\ ~Ready(quote, quoteStatus)
                             \/ RouteFails(i)
      BY <1>1, <1>4, NarrowedKeeps, FailureNarrows, TurnTaken DEF StartRoute, RouteFails, SwapInv,
         SwapTypeOK
<1>5. CASE i.id = quoteId /\ RouteStarts(i)
  <2>1. /\ i.of # None /\ inits' = inits \ {i}
        /\ \E e \in {"Loading", "Success", "Error"} :
              ctrl' = [id |-> i.id, of |-> i.of, route |-> i.route, estimation |-> e]
        /\ proceeded' \in BOOLEAN
        /\ reestimating' = reestimating
           \/ (reestimating = None /\ reestimating' = [of |-> i.of, route |-> i.route])
        /\ reestimating' # None
        /\ UNCHANGED <<form, quote, quoteId, ids, quoteStatus, autoOff, calls, turns>>
    <3>2. [of |-> i.of, route |-> i.route] # None
      BY <1>1, <1>5, SwapAssumption DEF Transaction, RouteStarts, SwapInv, StartsRoute
    <3> QED
      BY <1>1, <1>5, <3>2 DEF RouteStarts, SwapInv, SwapTypeOK, ControllerIsReestimated, StartsRoute,
         SameRoute
  <2>4. CallsDiffer' /\ QuoteIsFetched' /\ PendingFirst'
    BY <1>1, <1>5, <2>1 DEF SwapInv, CallsDiffer, QuoteIsFetched, PendingFirst, Pending, StartsRoute
  <2> QED
    BY <1>1, <1>5, <2>1, <2>4 DEF SwapInv, OfTheQuote, SwapTypeOK, Transaction, StartsRoute, PendingFirst,
       ControllerIsReestimated
<1> QED
  BY <1>2, <1>3, <1>4, <1>5

\* The steps of the controller's estimation.
LEMMA EstimationKeeps ==
    ASSUME SwapInv, EstimationSucceeds \/ EstimationFails \/ Reestimate
    PROVE  SwapInv'
<1> USE DEF SwapInv, SwapTypeOK
<1>1. CASE EstimationSucceeds
      BY <1>1 DEF EstimationSucceeds, CallsDiffer, QuoteIsFetched, PendingFirst, Pending, OfTheQuote,
         StartsRoute, ControllerIsReestimated
<1>2. CASE EstimationFails
      BY <1>2, NarrowedKeeps, TurnTaken, FailureNarrows DEF EstimationFails
<1>3. CASE Reestimate
  <2>1. CASE ctrl = None
    BY <1>3, <2>1 DEF Reestimate, CallsDiffer, QuoteIsFetched, PendingFirst, Pending,
       OfTheQuote, StartsRoute, ControllerIsReestimated
  <2>2. CASE ctrl # None
    <3> DEFINE txn == [of |-> ctrl.of, route |-> ctrl.route]
    <3>1. txn \in Transaction /\ txn # None
      BY <2>2, SwapAssumption DEF Transaction
    <3>2. /\ reestimating' = txn
          /\ ctrl' = ctrl \/ ctrl' = [ctrl EXCEPT !.estimation = "Loading"]
          /\ UNCHANGED <<form, quote, proceeded, quoteId, ids, quoteStatus, autoOff, calls, inits,
                         turns>>
      BY <1>3, <2>2 DEF Reestimate
    <3> HIDE DEF txn
    <3> QED
      BY <2>2, <3>1, <3>2 DEF CallsDiffer, QuoteIsFetched, PendingFirst, Pending, OfTheQuote, StartsRoute,
         ControllerIsReestimated
  <2> QED
    BY <2>1, <2>2
<1> QED
  BY <1>1, <1>2, <1>3

\* The user chooses a route of the list.
LEMMA ChooseKeeps ==
    ASSUME SwapInv, NEW r \in RouteNames, ChooseRoute(r)
    PROVE  SwapInv'
<1> QED
  BY NarrowedKeeps, TurnTaken, SelectNarrows, ReadyIsSelected DEF ChooseRoute, UserTurn, SwapInv, SwapTypeOK

\* Every step.
LEMMA SwapInvNext == ASSUME SwapInv, [SwapNext]_swapVars PROVE SwapInv'
<1>1. ASSUME NEW f \in Forms \cup {None}, UpdateForm(f) PROVE SwapInv'
      BY <1>1, UpdateKeeps, TurnTaken DEF UpdateForm, UserTurn
<1>2. ASSUME SetRoutePriority PROVE SwapInv'
      BY <1>2, UpdateKeeps, TurnTaken DEF SetRoutePriority, UserTurn, SwapInv, SwapTypeOK
<1>3. CASE UNCHANGED swapVars
  BY <1>3 DEF swapVars, SwapInv, SwapTypeOK, CallsDiffer, QuoteIsFetched, PendingFirst, Pending,
     OfTheQuote, StartsRoute, ControllerIsReestimated
<1> QED
  BY <1>1, <1>2, <1>3, UserKeeps, FetchKeeps, StartKeeps, EstimationKeeps, ChooseKeeps DEF SwapNext

\* For all forms and routes and any number of calls, what is shown as loading is being fetched.
THEOREM QuotesAreFetched == SwapSpec => []QuoteIsFetched
<1>1. SwapInv => QuoteIsFetched
  BY DEF SwapInv
<1> QED
  BY <1>1, SwapInvInit, SwapInvNext, PTL DEF SwapSpec

\* The user only ever submits a transaction of the quote that is shown.
THEOREM SubmittedIsQuoted == SwapSpec => []SubmitsTheQuote
<1>1. SwapInv => SubmitsTheQuote
  BY DEF SwapInv, OfTheQuote, SubmitsTheQuote, FormStatus, Visible
<1> QED
  BY <1>1, SwapInvInit, SwapInvNext, PTL DEF SwapSpec

\* The controller of a swap is estimated again and again, whatever replaced it.
THEOREM LoopServesController == SwapSpec => []ControllerIsReestimated
<1>1. SwapInv => ControllerIsReestimated
  BY DEF SwapInv
<1> QED
  BY <1>1, SwapInvInit, SwapInvNext, PTL DEF SwapSpec

\* All variables keep their types.
THEOREM SwapIsTyped == SwapSpec => []SwapTypeOK
<1>1. SwapInv => SwapTypeOK
  BY DEF SwapInv
<1> QED
  BY <1>1, SwapInvInit, SwapInvNext, PTL DEF SwapSpec
-----------------------------------------------------------------------------
(* Railgun *)

\* What estimates and is tracked are records; the rest is what is to be shown.
RailInv ==
    /\ holder \in Holders
    /\ \A i \in preparing : i.state \in Holders
    /\ tracked # None => tracked = [w |-> tracked.w, status |-> tracked.status]
    /\ Rail!ControllerIsReestimated
    /\ Rail!SuccessIsSaved

\* At first there is neither a signer nor a withdrawal.
LEMMA RailInvInit == ASSUME Rail!Init PROVE RailInv
BY DEF Rail!Init, RailInv, Rail!ControllerIsReestimated, Rail!SuccessIsSaved

\* A signer is made of states that were awaited, success is shown of what was just recorded.
LEMMA RailInvNext == ASSUME RailInv, [Rail!Next]_railVars PROVE RailInv'
<1> USE DEF RailInv, Rail!ControllerIsReestimated, Rail!SuccessIsSaved, Rail!UserSync, Rail!keys,
            Rail!shielding, Rail!withdrawing, Rail!DestroySignAccountOp
<1>1. ASSUME NEW k \in Indexes, Rail!DeriveRailgunKeys(k) PROVE RailInv'
      BY <1>1 DEF Rail!DeriveRailgunKeys
<1>2. ASSUME Rail!DeriveDefault PROVE RailInv'
      BY <1>2 DEF Rail!DeriveDefault
<1>3. ASSUME NEW d \in deriving, Rail!KeysDerived(d) PROVE RailInv'
      BY <1>3 DEF Rail!KeysDerived
<1>4. ASSUME Rail!SyncSignAccountOp PROVE RailInv'
      BY <1>4 DEF Rail!SyncSignAccountOp
<1>5. ASSUME Rail!ResetForm \/ Rail!UnloadScreen PROVE RailInv'
      BY <1>5 DEF Rail!ResetForm, Rail!UnloadScreen
<1>6. ASSUME NEW i \in preparing, Rail!AccountStateArrives(i) PROVE RailInv'
      BY <1>6, ScreensAssumption DEF Rail!AccountStateArrives
<1>7. ASSUME NEW a \in Holders, Rail!SelectAccount(a) PROVE RailInv'
      BY <1>7 DEF Rail!SelectAccount
<1>8. ASSUME Rail!DirectBroadcastWithdrawal PROVE RailInv'
      BY <1>8 DEF Rail!DirectBroadcastWithdrawal
<1>9. ASSUME NEW b \in relays, Rail!RelayFails(b) PROVE RailInv'
      BY <1>9 DEF Rail!RelayFails
<1>10. ASSUME NEW b \in relays, Rail!RelayAccepted(b) PROVE RailInv'
      BY <1>10 DEF Rail!RelayAccepted
<1>11. ASSUME NEW b \in relays, Rail!RelaySaved(b) PROVE RailInv'
      BY <1>11 DEF Rail!RelaySaved
<1>12. ASSUME UNCHANGED railVars PROVE RailInv'
      BY <1>12 DEF railVars
<1> QED  BY <1>1, <1>2, <1>3, <1>4, <1>5, <1>6, <1>7, <1>8, <1>9, <1>10, <1>11, <1>12 DEF Rail!Next

\* Keys are of accounts, also those that are being derived, and what is relayed has a number.
RailTypes ==
    /\ defaultKeys \in Holders \cup {None} /\ derivedKeys \in [Indexes -> Holders \cup {None}]
    /\ deriving \subseteq [index : Indexes, of : Holders]
    /\ relayed \in Nat /\ relays \subseteq [w : 1..relayed, by : Holders \cup {None}]

\* At first there are neither keys nor withdrawals.
LEMMA RailTypesInit == ASSUME Rail!Init PROVE RailTypes
BY DEF Rail!Init, RailTypes

\* Keys are derived for the account that was selected, and a withdrawal takes the next number.
LEMMA RailTypesNext == ASSUME RailInv, RailTypes, [Rail!Next]_railVars PROVE RailTypes'
<1> USE DEF RailTypes, Rail!UserSync, Rail!keys, Rail!shielding, Rail!withdrawing, Rail!DestroySignAccountOp
<1>1. ASSUME NEW k \in Indexes, Rail!DeriveRailgunKeys(k) PROVE RailTypes'
      BY <1>1 DEF Rail!DeriveRailgunKeys, RailInv
<1>2. ASSUME Rail!DeriveDefault PROVE RailTypes'
      BY <1>2 DEF Rail!DeriveDefault
<1>3. ASSUME NEW d \in deriving, Rail!KeysDerived(d) PROVE RailTypes'
      BY <1>3 DEF Rail!KeysDerived
<1>4. ASSUME UNCHANGED <<defaultKeys, derivedKeys, deriving, relayed>>, relays' \subseteq relays PROVE RailTypes'
      BY <1>4
<1>5. ASSUME Rail!DirectBroadcastWithdrawal PROVE RailTypes'
      BY <1>5 DEF Rail!DirectBroadcastWithdrawal
<1>6. ASSUME NEW b \in relays, Rail!RelayAccepted(b) PROVE RailTypes'
      BY <1>6 DEF Rail!RelayAccepted, RailInv
<1> QED  BY <1>1, <1>2, <1>3, <1>4, <1>5, <1>6
         DEF Rail!Next, Rail!SyncSignAccountOp, Rail!ResetForm, Rail!UnloadScreen, Rail!AccountStateArrives,
             Rail!SelectAccount, Rail!RelayFails, Rail!RelaySaved, railVars

\* The types that the module states.
LEMMA RailTypeOK == ASSUME RailInv, RailTypes PROVE Rail!TypeOK
BY DEF RailInv, RailTypes, Rail!TypeOK
-----------------------------------------------------------------------------
(* Transfer *)

\* The signer is a record, as those that are started will be.
SendInv ==
    /\ \A i \in starting : i.chain \in TransferChains /\ i.send \in Sends
    /\ signer # None => signer \in [chain : TransferChains, send : Sends]
    /\ Send!ControllerIsReestimated

\* At first there is no signer.
LEMMA SendInvInit == ASSUME Send!Init PROVE SendInv
BY DEF Send!Init, SendInv, Send!ControllerIsReestimated

\* The loop is started with the signer and ends with it; an update keeps both or ends both.
LEMMA SendInvNext == ASSUME SendInv, [Send!Next]_sendVars PROVE SendInv'
<1> USE DEF SendInv, Send!ControllerIsReestimated, Send!UserUpdates, Send!DestroySignAccountOp,
            Send!ResetForm
<1>1. ASSUME NEW c \in TransferChains, NEW s \in Sends \cup {None},
             Send!Update([chain |-> c, send |-> s])
      PROVE  SendInv'
  <2>1. \A i \in starting' : i.chain \in TransferChains /\ i.send \in Sends
        BY <1>1 DEF Send!Update
  <2>2. (signer # None => signer \in [chain : TransferChains, send : Sends])'
        BY <1>1 DEF Send!Update
  <2>3. (looping <=> signer # None)'
        BY <1>1, ScreensAssumption DEF Send!Update
  <2> QED  BY <2>1, <2>2, <2>3
<1>2. ASSUME NEW i \in starting, Send!AccountStateArrives(i) PROVE SendInv'
      BY <1>2, ScreensAssumption DEF Send!AccountStateArrives
<1>3. ASSUME NEW i \in starting, Send!AccountStateFails(i) PROVE SendInv'
      BY <1>3 DEF Send!AccountStateFails
<1>4. ASSUME NEW b \in BOOLEAN, Send!UnloadScreen(b) PROVE SendInv'
      BY <1>4 DEF Send!UnloadScreen
<1>5. ASSUME Send!SelectAccount PROVE SendInv'
      BY <1>5 DEF Send!SelectAccount
<1>6. ASSUME Send!Broadcast PROVE SendInv'
      BY <1>6 DEF Send!Broadcast
<1>7. ASSUME Send!BroadcastEnds \/ Send!BroadcastFails PROVE SendInv'
      BY <1>7 DEF Send!BroadcastEnds, Send!BroadcastFails
<1>8. ASSUME UNCHANGED sendVars PROVE SendInv'
      BY <1>8 DEF sendVars
<1> QED  BY <1>1, <1>2, <1>3, <1>4, <1>5, <1>6, <1>7, <1>8 DEF Send!Next

\* What the transfer needs of the constants.
LEMMA TransferAssumed ==
    TransferUpdates \in Nat /\ None \notin [by : Holders, state : Holders] \cup [chain : TransferChains, send : Sends]
BY ScreensAssumption

\* The form is of a chain, if it is of any, and who waits for a state has a number.
SendTypes ==
    /\ transfer \in [chain : TransferChains \cup {None}, send : Sends \cup {None}]
    /\ updates \in 0..TransferUpdates
    /\ \A i \in starting : i.chain \in TransferChains /\ i.n \in 1..TransferUpdates

\* At first the form is empty.
LEMMA SendTypesInit == ASSUME Send!Init PROVE SendTypes
BY TransferAssumed DEF Send!Init, SendTypes, Send!NoForm

\* A form is what the user put in, or empty.
LEMMA SendTypesNext == ASSUME SendTypes, [Send!Next]_sendVars PROVE SendTypes'
<1>1. ASSUME NEW c \in TransferChains, NEW s \in Sends \cup {None}, Send!Update([chain |-> c, send |-> s])
      PROVE  SendTypes'
      BY <1>1, TransferAssumed DEF SendTypes, Send!Update, Send!UserUpdates
<1>2. ASSUME transfer' = transfer \/ transfer' = Send!NoForm, updates' = updates \/ Send!UserUpdates,
             starting' \subseteq starting
      PROVE  SendTypes'
      BY <1>2, TransferAssumed DEF SendTypes, Send!NoForm, Send!UserUpdates
<1> QED  BY <1>1, <1>2 DEF Send!Next, Send!AccountStateArrives, Send!AccountStateFails, Send!UnloadScreen,
             Send!SelectAccount, Send!Broadcast, Send!BroadcastEnds, Send!BroadcastFails, Send!ResetForm, sendVars

\* The types that the module states.
LEMMA SendTypeOK == ASSUME SendInv, SendTypes PROVE Send!TypeOK
BY TransferAssumed DEF SendInv, SendTypes, Send!TypeOK
-----------------------------------------------------------------------------
(* TransactionForm *)

\* At first nothing loads.
LEMMA FormInvInit == ASSUME Form!Init PROVE Form!FetchingIsCurrent
BY DEF Form!Init, Form!FetchingIsCurrent

\* A list that is taken from the cache, or not to be had, leaves no status of an update before it.
LEMMA FormInvUpdate ==
    ASSUME Form!FetchingIsCurrent, NEW from, NEW to, NEW token, NEW reset, NEW select,
           \/ Form!FetchList(from, to, token, reset, select)
           \/ Form!UpdateToTokenList(from, to, token, reset, select)
           \/ Form!NoListUpdate
    PROVE  Form!FetchingIsCurrent'
BY DEF Form!FetchingIsCurrent, Form!UpdateToTokenList, Form!FetchList, Form!ShowList,
       Form!NoListUpdate

\* Every update ends in one of these.
LEMMA FormInvNext == ASSUME Form!FetchingIsCurrent, [Form!Next]_formVars PROVE Form!FetchingIsCurrent'
<1>1. ASSUME Form!ThrottlePasses PROVE Form!FetchingIsCurrent'
      BY <1>1 DEF Form!ThrottlePasses, Form!FetchingIsCurrent
<1>2. ASSUME Form!ThrottledUpdate PROVE Form!FetchingIsCurrent'
      BY <1>2, FormInvUpdate DEF Form!ThrottledUpdate
<1>3. ASSUME NEW c \in listCalls, NEW ok \in BOOLEAN, Form!ListArrives(c, ok)
      PROVE  Form!FetchingIsCurrent'
      BY <1>3 DEF Form!ListArrives, Form!ShowList, Form!FetchingIsCurrent
<1>4. ASSUME NEW c \in ListChains, Form!UpdateFromToken(c) PROVE Form!FetchingIsCurrent'
      BY <1>4, FormInvUpdate DEF Form!UpdateFromToken
<1>5. ASSUME NEW c \in ListChains, NEW b \in BOOLEAN, Form!UpdateToChain(c, b)
      PROVE  Form!FetchingIsCurrent'
      BY <1>5, FormInvUpdate DEF Form!UpdateToChain
<1>6. ASSUME NEW t \in ListChains \cup {None}, Form!UpdateToToken(t) PROVE Form!FetchingIsCurrent'
      BY <1>6, FormInvUpdate DEF Form!UpdateToToken
<1>7. ASSUME Form!SwitchFromAndToTokens \/ Form!PortfolioUpdates PROVE Form!FetchingIsCurrent'
      BY <1>7, FormInvUpdate DEF Form!SwitchFromAndToTokens, Form!PortfolioUpdates
<1>8. ASSUME NEW s \in Sessions, Form!InitForm(s) \/ Form!UnloadScreen(s)
      PROVE  Form!FetchingIsCurrent'
      BY <1>8 DEF Form!InitForm, Form!UnloadScreen, Form!Reset, Form!FetchingIsCurrent
<1>9. ASSUME UNCHANGED formVars PROVE Form!FetchingIsCurrent'
      BY <1>9 DEF formVars, Form!FetchingIsCurrent
<1> QED  BY <1>1, <1>2, <1>3, <1>4, <1>5, <1>6, <1>7, <1>8, <1>9 DEF Form!Next

\* Lists are cached by pairs of chains, and an update that waits has what it was called with.
FormTypes ==
    /\ {fromChain, toChain, fromToken, toToken, toList} \subseteq ListChains \cup {None}
    /\ cachedLists \in [ListChains \X ListChains -> ListChains \cup {None}]
    /\ listStatus \in {"INITIAL", "LOADING"} /\ sessions \subseteq Sessions
    /\ \A c \in listCalls : c.of \in ListChains

\* At first there is neither a form nor a list.
LEMMA FormTypesInit == ASSUME Form!Init PROVE FormTypes
BY DEF Form!Init, FormTypes

\* What is fetched, or taken from the cache, is the list of a chain.
LEMMA FormTypesFetch ==
    ASSUME FormTypes, NEW from \in ListChains \cup {None}, NEW to \in ListChains \cup {None},
           NEW token \in ListChains \cup {None}, NEW reset, NEW select,
           Form!FetchList(from, to, token, reset, select)
    PROVE  /\ {toToken', toList'} \subseteq ListChains \cup {None} /\ UNCHANGED cachedLists
           /\ listStatus' \in {"INITIAL", "LOADING"} /\ \A c \in listCalls' : c.of \in ListChains
<1>1. CASE from = None \/ to = None
      BY <1>1 DEF Form!FetchList, FormTypes
<1>2. CASE ~(from = None \/ to = None)
  <2>1. /\ UNCHANGED cachedLists /\ from \in ListChains /\ to \in ListChains
        /\ cachedLists[<<from, to>>] \in ListChains \cup {None}
        BY <1>2 DEF Form!FetchList, FormTypes
  <2>2. CASE /\ toList' = (IF reset THEN None ELSE toList) /\ listStatus' = "LOADING"
             /\ toToken' = (IF reset THEN None ELSE token)
             /\ listCalls' = listCalls \cup {[n |-> choices, of |-> to, select |-> select]}
        BY <2>1, <2>2 DEF FormTypes
  <2>3. CASE UNCHANGED listCalls /\ Form!ShowList(cachedLists[<<from, to>>], IF reset THEN None ELSE token, select)
        BY <2>1, <2>3 DEF Form!ShowList, FormTypes
  <2> QED  BY <1>2, <2>1, <2>2, <2>3 DEF Form!FetchList
<1> QED  BY <1>1, <1>2

\* The same of an update that may have to wait.
LEMMA FormTypesUpdate ==
    ASSUME FormTypes, NEW from \in ListChains \cup {None}, NEW to \in ListChains \cup {None},
           NEW token \in ListChains \cup {None}, NEW reset, NEW select,
           \/ Form!UpdateToTokenList(from, to, token, reset, select)
           \/ Form!NoListUpdate /\ toToken' = token
    PROVE  /\ {toToken', toList'} \subseteq ListChains \cup {None} /\ UNCHANGED cachedLists
           /\ listStatus' \in {"INITIAL", "LOADING"} /\ \A c \in listCalls' : c.of \in ListChains
<1>1. CASE Form!NoListUpdate /\ toToken' = token
      BY <1>1 DEF Form!NoListUpdate, FormTypes
<1>2. CASE Form!UpdateToTokenList(from, to, token, reset, select) /\ recent
      BY <1>2 DEF Form!UpdateToTokenList, FormTypes
<1>3. CASE Form!UpdateToTokenList(from, to, token, reset, select) /\ ~recent
      BY <1>3, FormTypesFetch DEF Form!UpdateToTokenList
<1> QED  BY <1>1, <1>2, <1>3

\* The form is of chains, as the user chooses them and exchanges them.
LEMMA FormTypesNext == ASSUME FormTypes, [Form!Next]_formVars PROVE FormTypes'
<1> USE DEF Form!Choice, Form!chosen
<1>1. ASSUME UNCHANGED cachedLists, sessions' \subseteq Sessions,
             {fromChain', toChain', fromToken', toToken', toList'} \subseteq ListChains \cup {None},
             listStatus' \in {"INITIAL", "LOADING"}, \A c \in listCalls' : c.of \in ListChains
      PROVE  FormTypes'
      BY <1>1 DEF FormTypes
<1>2. {fromChain, toChain, fromToken, toToken, toList} \subseteq ListChains \cup {None} /\ sessions \subseteq Sessions
      BY DEF FormTypes
<1>3. ASSUME Form!ThrottlePasses PROVE FormTypes'
      BY <1>3 DEF Form!ThrottlePasses, FormTypes
<1>4. ASSUME Form!ThrottledUpdate PROVE FormTypes'
      BY <1>1, <1>2, <1>4, FormTypesFetch DEF Form!ThrottledUpdate
<1>5. ASSUME NEW c \in listCalls, NEW ok \in BOOLEAN, Form!ListArrives(c, ok) PROVE FormTypes'
      BY <1>2, <1>5 DEF FormTypes, Form!ListArrives, Form!ShowList
<1>6. ASSUME NEW c \in ListChains, Form!UpdateFromToken(c) PROVE FormTypes'
      BY <1>1, <1>2, <1>6, FormTypesUpdate DEF Form!UpdateFromToken
<1>7. ASSUME NEW c \in ListChains, NEW b \in BOOLEAN, Form!UpdateToChain(c, b) PROVE FormTypes'
  <2>1. PICK token \in ListChains \cup {None} : token = IF b THEN c ELSE toToken
        BY <1>2
  <2> QED  BY <1>1, <1>2, <1>7, <2>1, FormTypesUpdate DEF Form!UpdateToChain
<1>8. ASSUME NEW t \in ListChains \cup {None}, Form!UpdateToToken(t) PROVE FormTypes'
      BY <1>1, <1>2, <1>8, FormTypesUpdate DEF Form!UpdateToToken
<1>9. ASSUME Form!SwitchFromAndToTokens PROVE FormTypes'
  <2>1. PICK token \in ListChains \cup {None} : \E select :
          /\ fromChain' = toChain /\ toChain' = fromChain /\ fromToken' = toToken /\ UNCHANGED sessions
          /\ Form!UpdateToTokenList(toChain, fromChain, token, TRUE, select)
        BY <1>2, <1>9 DEF Form!SwitchFromAndToTokens
  <2>2. PICK select : Form!UpdateToTokenList(toChain, fromChain, token, TRUE, select)  BY <2>1
  <2> QED  BY <1>1, <1>2, <2>1, <2>2, FormTypesUpdate
<1>10. ASSUME Form!PortfolioUpdates PROVE FormTypes'
      BY <1>1, <1>2, <1>10, FormTypesUpdate DEF Form!PortfolioUpdates
<1>11. ASSUME NEW s \in Sessions, Form!InitForm(s) \/ Form!UnloadScreen(s) PROVE FormTypes'
      BY <1>11 DEF Form!InitForm, Form!UnloadScreen, Form!Reset, FormTypes
<1>12. ASSUME UNCHANGED formVars PROVE FormTypes'
      BY <1>12 DEF formVars, FormTypes
<1> QED  BY <1>3, <1>4, <1>5, <1>6, <1>7, <1>8, <1>9, <1>10, <1>11, <1>12 DEF Form!Next

\* The types that the module states.
LEMMA FormTypeOK == ASSUME FormTypes PROVE Form!TypeOK
BY DEF FormTypes, Form!TypeOK
-----------------------------------------------------------------------------
(* AccountOpFees *)

\* The numbers of fetches and of waits are no less than none.
FeesInv ==
    /\ gasFetches \in Nat /\ gasWaits \in Nat
    /\ Fees!FetchingIsCurrent
    /\ Fees!GasPricesAreRefetched

\* The constructor has started an estimate and a fetch.
LEMMA FeesInvInit == ASSUME Fees!Init PROVE FeesInv
BY DEF Fees!Init, FeesInv, Fees!FetchingIsCurrent, Fees!GasPricesAreRefetched

\* An answer or a failure ends the status and a throw is remembered; a fetch makes room for a wait, a
\* wait for a fetch unless it is abandoned.
LEMMA FeesInvNext == ASSUME FeesInv, [Fees!Next]_feesVars PROVE FeesInv'
<1> USE DEF FeesInv, Fees!FetchingIsCurrent, Fees!GasPricesAreRefetched, Fees!Turn, Fees!gas,
            Fees!estimating
<1>1. ASSUME Fees!Reestimate \/ \E c \in Batches : Fees!UpdateCalls(c) PROVE FeesInv'
      BY <1>1 DEF Fees!Reestimate, Fees!UpdateCalls, Fees!StartEstimate
<1>2. ASSUME Fees!SimulateAgain PROVE FeesInv'
  <2>1. estimates' # {} /\ UNCHANGED <<gasWaits, stopRefetching, abandoned>>
        BY <1>2 DEF Fees!SimulateAgain, Fees!StartEstimate
  <2>2. gasFetches' = gasFetches \/ gasFetches' = gasFetches + 1
        BY <1>2 DEF Fees!SimulateAgain
  <2> QED  BY <2>1, <2>2
<1>3. ASSUME NEW e \in estimates, Fees!AskEstimation(e) PROVE FeesInv'
      BY <1>3 DEF Fees!AskEstimation
<1>4. ASSUME NEW e \in estimates, NEW o,
             Fees!EstimateThrows(e) \/ Fees!EstimationFails(e) \/ Fees!EstimationArrives(e, o)
      PROVE  FeesInv'
      BY <1>4 DEF Fees!EstimateThrows, Fees!EstimationFails, Fees!EstimationArrives
<1>5. ASSUME NEW ok \in BOOLEAN, Fees!GasPricesArrive(ok) PROVE FeesInv'
      BY <1>5 DEF Fees!GasPricesArrive, Fees!UpdateWith
<1>6. ASSUME NEW ok \in BOOLEAN, Fees!SignEnds(ok) PROVE FeesInv'
      BY <1>6 DEF Fees!SignEnds
<1>7. ASSUME Fees!Refetch \/ Fees!RefetchEnds PROVE FeesInv'
      BY <1>7 DEF Fees!Refetch, Fees!RefetchEnds
<1>8. ASSUME NEW t, Fees!SelectFee(t) \/ Fees!SelectSpeed(t) PROVE FeesInv'
      BY <1>8 DEF Fees!SelectFee, Fees!SelectSpeed, Fees!UpdateWith
<1>9. ASSUME Fees!Sign \/ Fees!BuildUserOp PROVE FeesInv'
      BY <1>9 DEF Fees!Sign, Fees!BuildUserOp
<1>10. ASSUME Fees!BroadcastFails PROVE FeesInv'
  <2>1. UNCHANGED <<estimates, estimationStatus, thrown, gasWaits, stopRefetching, abandoned>>
        BY <1>10 DEF Fees!BroadcastFails
  <2>2. gasFetches' = gasFetches \/ gasFetches' = gasFetches + 1
        BY <1>10 DEF Fees!BroadcastFails
  <2> QED  BY <2>1, <2>2
<1>11. ASSUME Fees!Reset PROVE FeesInv'
      BY <1>11 DEF Fees!Reset
<1>12. ASSUME UNCHANGED feesVars PROVE FeesInv'
      BY <1>12 DEF feesVars
<1> QED  BY <1>1, <1>2, <1>3, <1>4, <1>5, <1>6, <1>7, <1>8, <1>9, <1>10, <1>11, <1>12 DEF Fees!Next

\* What is assumed of the constants, as far as fees are concerned.
LEMMA FeesAssumed ==
    /\ MaxLoops \in Nat \ {0} /\ FeeTurns \in Nat /\ Covers \in [Batches -> [FeeTokens -> Nat]]
    /\ None \notin Batches \cup FeeTokens \cup SignStatuses
    /\ None \notin [of : Batches, token : FeeTokens, speed : Nat] \cup [of : Batches, token : FeeTokens]
    /\ None \notin [of : Batches, options : SUBSET FeeTokens]
BY ScreensAssumption

\* What an estimation offers, an option of it, and what is paid.
Offer == [of : Batches, options : SUBSET FeeTokens]
Choice == [of : Batches, token : FeeTokens]
Payment == [of : Batches, token : FeeTokens, speed : Nat]
UserOp == [payment : Payment, limits : Batches \cup {None}]

\* The estimation and the fee hold what they are made of; a controller that is gone has no fee token, and
\* no speeds are known before the gas prices are.
FeesTypes ==
    /\ opCalls \in Batches /\ speed \in Nat /\ feeToken \in FeeTokens \cup {None}
    /\ {estimationError, hasEstimated, gasPrices, stopRefetching, recovered} \subseteq BOOLEAN
    /\ estimationStatus \in {"Initial", "Loading", "Success", "Error"}
    /\ estimation # None => estimation \in Offer
    /\ estimationStatus = "Success" => estimation # None
    /\ option # None => option \in Choice
    /\ speeds # None => speeds \in Offer
    /\ payment # None => payment \in Payment
    /\ stopRefetching => feeToken = None
    /\ ~gasPrices /\ ~stopRefetching => speeds = None

\* What is ready to be signed is covered, and so is what is signed.
FeesCovered ==
    /\ signing \in {None, "EstimationError", "UnableToSign", "ReadyToSign", "InProgress", "Done"}
    /\ Fees!Frozen => userOp \in UserOp /\ (signing = "Done" => userOp.limits \in Batches)
    /\ signing = "ReadyToSign" /\ ~recovered /\ payment # None /\ option # None =>
          payment.speed <= Covers[payment.of][option.token]

\* An estimate is of the calls that there were; fetches and waits share the loops.
FeesLoops ==
    /\ \A e \in estimates : e = [n |-> e.n, of |-> e.of] /\ e.of \in Batches \cup {None}
    /\ gasFetches \in Nat /\ gasWaits \in Nat /\ gasFetches + gasWaits <= MaxLoops

FeesOwn == FeesTypes /\ FeesCovered /\ FeesLoops /\ Fees!FeeIsOffered

\* The properties.
LEMMA FeesOwnKeeps == ASSUME FeesOwn PROVE Fees!TypeOK /\ Fees!FeeIsOffered
BY DEF FeesOwn, FeesTypes, FeesCovered, FeesLoops, Fees!TypeOK, Fees!Frozen

\* The constructor knows nothing yet.
LEMMA FeesOwnInit == ASSUME Fees!Init PROVE FeesOwn
<1>3. FeesLoops
      BY FeesAssumed DEF FeesLoops, Fees!Init, Fees!Fast
<1> QED  BY <1>3, FeesAssumed DEF FeesOwn, FeesCovered, Fees!FeeIsOffered, Fees!Frozen, FeesTypes,
            Fees!Init, Fees!Fast, SignStatuses

\* What an update finds: the option, the pace, the speeds and the payment, which is of the estimation.
LEMMA FeesAreFound ==
    ASSUME FeesTypes,
           NEW token \in FeeTokens \cup {None}, NEW chosen \in Nat,
           {estimationError', hasEstimated', gasPrices'} \subseteq BOOLEAN,
           estimation' # None => estimation' \in Offer, estimationStatus' = "Success" => estimation' # None,
           ~gasPrices' /\ token # None => speeds = None, ~Fees!Frozen,
           Fees!UpdateFees(estimation', estimationError', estimationStatus', hasEstimated', gasPrices', token,
                           chosen)
    PROVE  /\ speed' \in Nat /\ recovered' = FALSE
           /\ option' # None => option' \in Choice
           /\ speeds' # None => speeds' \in Offer
           /\ ~gasPrices' => speeds' = speeds
           /\ payment' # None => payment' \in Payment
           /\ estimationStatus' = "Success" /\ hasEstimated' /\ token # None /\ payment' # None =>
                 /\ payment' = [of |-> estimation'.of, token |-> token, speed |-> speed']
                 /\ token \in estimation'.options
           /\ signing' \in {None, "EstimationError", "UnableToSign", "ReadyToSign"}
           /\ signing' = "ReadyToSign" /\ payment' # None /\ option' # None =>
                 payment'.speed <= Covers[payment'.of][option'.token]
<1> USE FeesAssumed
<1>a. PICK est : est = estimation'
      OBVIOUS
<1>b. PICK error \in BOOLEAN : error = estimationError'
      OBVIOUS
<1>c. PICK status : status = estimationStatus'
      OBVIOUS
<1>d. PICK initialized \in BOOLEAN : initialized = hasEstimated'
      OBVIOUS
<1>e. PICK prices \in BOOLEAN : prices = gasPrices'
      OBVIOUS
<1>f. /\ est # None => est \in Offer
      /\ status = "Success" => est # None
      /\ ~prices /\ token # None => speeds = None
      BY <1>a, <1>c, <1>e
<1>1. PICK opt : opt = Fees!OptionFor(est, status, token)
      OBVIOUS
<1>2. PICK pace : pace = IF status = "Success" /\ token # None THEN Fees!DefaultSpeed(opt, chosen) ELSE chosen
      OBVIOUS
<1>3. PICK spds : spds = IF status = "Success" /\ prices THEN [of |-> est.of, options |-> Fees!Options(est)]
                         ELSE speeds
      OBVIOUS
<1>4. PICK pays : pays = IF ~initialized \/ token = None THEN payment
                         ELSE Fees!PaymentOf(est, opt, spds, token, pace)
      OBVIOUS
<1>5. /\ option' = opt /\ speed' = pace /\ speeds' = spds /\ payment' = pays /\ recovered' = FALSE
      /\ signing' = IF error THEN "EstimationError"
                    ELSE IF ~initialized THEN None
                    ELSE IF Fees!HasErrors(est, prices, opt, spds, pays, token) THEN "UnableToSign"
                    ELSE IF pays # None THEN "ReadyToSign" ELSE None
      BY <1>a, <1>b, <1>c, <1>d, <1>e, <1>1, <1>2, <1>3, <1>4 DEF Fees!UpdateFees
<1>6. /\ opt # None => opt \in Choice
      /\ status = "Success" /\ token # None /\ opt # None => token \in est.options /\ opt.token = token
  <2>1. CASE status # "Success" \/ token = None
        BY <1>1, <2>1 DEF Fees!OptionFor, FeesTypes
  <2>2. CASE status = "Success" /\ token # None
        BY <1>f, <1>1, <2>2 DEF Fees!OptionFor, Fees!Options, Offer, Choice
  <2> QED  BY <2>1, <2>2
<1>7. pace \in Nat
  <2>1. CASE option # None \/ ~Fees!HasSpeeds(opt, speeds)
        BY <1>2, <2>1 DEF Fees!DefaultSpeed
  <2>2. CASE option = None /\ Fees!HasSpeeds(opt, speeds)
        BY <1>2, <2>2 DEF Fees!DefaultSpeed, Fees!Slow, Offer, Fees!HasSpeeds, FeesTypes
  <2> QED  BY <2>1, <2>2
<1>8. /\ spds # None => spds \in Offer
      /\ ~prices => spds = speeds
      /\ status = "Success" /\ token # None /\ spds # None => spds.of = est.of
  <2>1. CASE status = "Success" /\ prices
    <3>2. spds \in Offer /\ spds.of = est.of
          BY <1>3, <2>1, <1>f DEF Offer, Fees!Options
    <3> QED  BY <2>1, <3>2, Zenon
  <2>2. CASE ~(status = "Success" /\ prices)
        BY <1>f, <1>3, <2>2 DEF FeesTypes
  <2> QED  BY <2>1, <2>2
<1>9. /\ pays # None => pays \in Payment
      /\ status = "Success" /\ initialized /\ token # None /\ pays # None =>
            pays = [of |-> est.of, token |-> token, speed |-> pace] /\ token \in est.options
  <2>1. CASE ~initialized \/ token = None
        BY <1>4, <2>1 DEF FeesTypes
  <2>2. CASE initialized /\ token # None /\ pays # None
        BY <1>4, <1>6, <1>7, <1>8, <2>2 DEF Fees!PaymentOf, Fees!HasSpeeds, Payment, Offer
  <2> QED  BY <2>1, <2>2
<1>10. /\ signing' \in {None, "EstimationError", "UnableToSign", "ReadyToSign"}
       /\ signing' = "ReadyToSign" => ~Fees!HasErrors(est, prices, opt, spds, pays, token)
       BY <1>5 DEF SignStatuses
<1>11. signing' = "ReadyToSign" /\ pays # None /\ opt # None => pays.speed <= Covers[pays.of][opt.token]
  <2> SUFFICES ASSUME signing' = "ReadyToSign", pays # None, opt # None
               PROVE  pays.speed <= Covers[pays.of][opt.token]
        OBVIOUS
  <2> QED  BY <1>6, <1>9, <1>10 DEF Fees!HasErrors, Fees!BalanceIsLow, Payment, Choice
<1> QED  BY <1>a, <1>c, <1>d, <1>e, <1>5, <1>6, <1>7, <1>8, <1>9, <1>10, <1>11

\* An update keeps what the fees are; while the user signs it changes nothing.
LEMMA FeesUpdateKeeps ==
    ASSUME FeesOwn,
           NEW token \in FeeTokens \cup {None}, NEW chosen \in Nat,
           Fees!UpdateFees(estimation', estimationError', estimationStatus', hasEstimated', gasPrices', token,
                           chosen),
           opCalls' \in Batches, {estimationError', hasEstimated', gasPrices'} \subseteq BOOLEAN,
           estimationStatus' \in {"Initial", "Loading", "Success", "Error"},
           estimation' # None => estimation' \in Offer, estimationStatus' = "Success" => estimation' # None,
           feeToken' = token, stopRefetching' = stopRefetching, userOp' = userOp,
           stopRefetching => token = None, gasPrices => gasPrices',
           Fees!Frozen => chosen = speed /\ gasPrices' = gasPrices
    PROVE  FeesTypes' /\ FeesCovered' /\ Fees!FeeIsOffered'
<1> USE FeesAssumed
<1>1. CASE Fees!Frozen
      BY <1>1 DEF FeesOwn, FeesTypes, FeesCovered, Fees!Frozen, Fees!UpdateFees, Fees!fee, Fees!FeeIsOffered
<1>2. CASE ~Fees!Frozen
      BY <1>2, FeesAreFound DEF FeesOwn, FeesTypes, FeesCovered, Fees!Frozen, SignStatuses,
         Fees!FeeIsOffered
<1> QED  BY <1>1, <1>2

\* Every action that updates the fees does so with what there is then; what fails is recovered from.
LEMMA FeesOwnNext == ASSUME FeesInv, FeesOwn, [Fees!Next]_feesVars PROVE FeesOwn'
<1> USE FeesAssumed
<1>1. /\ opCalls \in Batches /\ speed \in Nat /\ feeToken \in FeeTokens \cup {None}
      /\ {estimationError, hasEstimated, gasPrices, stopRefetching, recovered} \subseteq BOOLEAN
      /\ estimation # None => estimation \in Offer
      /\ estimationStatus \in {"Initial", "Loading", "Success", "Error"}
      /\ stopRefetching => feeToken = None
      /\ estimationStatus = "Success" => estimation # None
      BY DEF FeesOwn, FeesTypes
<1>2. ASSUME UNCHANGED <<gasFetches, gasWaits>>,
             \/ estimates' \subseteq estimates
             \/ \E n : \E of \in Batches \cup {None} : estimates' \subseteq estimates \cup {[n |-> n, of |-> of]}
      PROVE  FeesLoops'
      BY <1>2 DEF FeesOwn, FeesLoops
<1>3. ASSUME Fees!StartEstimate, opCalls' \in Batches, UNCHANGED <<gasPrices, feeToken, stopRefetching, userOp>>
      PROVE  /\ FeesTypes' /\ FeesCovered' /\ Fees!FeeIsOffered'
             /\ \E n : \E of \in Batches \cup {None} : estimates' \subseteq estimates \cup {[n |-> n, of |-> of]}
      BY <1>1, <1>3, FeesUpdateKeeps DEF Fees!StartEstimate
<1>4. CASE Fees!Reestimate \/ \E c \in Batches : Fees!UpdateCalls(c)
      BY <1>1, <1>2, <1>3, <1>4 DEF FeesOwn, Fees!Reestimate, Fees!UpdateCalls, Fees!gas
<1>5. CASE Fees!SimulateAgain
  <2>3. PICK n, of : of \in Batches \cup {None} /\ estimates' \subseteq estimates \cup {[n |-> n, of |-> of]}
        BY <1>1, <1>3, <1>5 DEF Fees!SimulateAgain
  <2> QED  BY <1>1, <1>3, <1>5, <2>3 DEF FeesOwn, Fees!SimulateAgain, FeesLoops
<1>6. ASSUME NEW e \in estimates, Fees!AskEstimation(e) PROVE FeesOwn'
  <2>4. FeesLoops'
        BY <1>1, <1>2, <1>6 DEF Fees!AskEstimation, Fees!fee, Fees!gas, FeesOwn, FeesLoops
  <2> QED  BY <1>6, <2>4 DEF FeesOwn, FeesTypes, FeesCovered, Fees!Frozen, Fees!FeeIsOffered,
              Fees!AskEstimation, Fees!fee, Fees!gas
<1>7. ASSUME NEW e \in estimates, NEW o \in SUBSET FeeTokens, Fees!EstimationArrives(e, o) PROVE FeesOwn'
  <2>3. estimation' \in Offer /\ estimation' # None
        BY <1>7 DEF Offer, FeesOwn, FeesLoops, Fees!EstimationArrives, Fees!gas
  <2> QED  BY <1>1, <1>2, <1>7, <2>3, FeesUpdateKeeps DEF FeesOwn, Fees!EstimationArrives, Fees!gas
<1>21. ASSUME NEW e \in estimates, Fees!EstimateThrows(e) PROVE FeesOwn'
  <2>4. FeesLoops'
        BY <1>1, <1>2, <1>21 DEF Fees!EstimateThrows, Fees!fee, Fees!gas, FeesOwn, FeesLoops
  <2> QED  BY <1>21, <2>4 DEF FeesOwn, FeesTypes, FeesCovered, Fees!Frozen, Fees!FeeIsOffered,
              Fees!EstimateThrows, Fees!fee, Fees!gas
<1>8. ASSUME NEW e \in estimates, Fees!EstimationFails(e) PROVE FeesOwn'
      BY <1>1, <1>2, <1>8, FeesUpdateKeeps DEF FeesOwn, Fees!EstimationFails, Fees!gas
<1>9. ASSUME NEW token \in FeeTokens \cup {None}, NEW chosen \in Nat, Fees!UpdateWith(gasPrices', token, chosen),
             UNCHANGED <<opCalls, stopRefetching, userOp>>, feeToken' = token, stopRefetching => token = None,
             gasPrices' \in BOOLEAN, gasPrices => gasPrices',
             Fees!Frozen => chosen = speed /\ gasPrices' = gasPrices
      PROVE  FeesTypes' /\ FeesCovered' /\ Fees!FeeIsOffered'
      BY <1>1, <1>9, FeesUpdateKeeps DEF Fees!UpdateWith
<1>10. ASSUME NEW ok \in BOOLEAN, Fees!GasPricesArrive(ok) PROVE FeesOwn'
  <2>1. /\ gasFetches > 0 /\ gasFetches' = gasFetches - 1 /\ gasWaits' = gasWaits + 1
        /\ gasPrices' = (gasPrices \/ (ok /\ ~Fees!Frozen)) /\ Fees!UpdateWith(gasPrices', feeToken, speed)
        /\ UNCHANGED <<opCalls, estimates, stopRefetching, feeToken, userOp>>
        BY <1>10 DEF Fees!GasPricesArrive
  <2>2. gasPrices' \in BOOLEAN /\ (gasPrices => gasPrices')
        BY <2>1, Zenon
  <2> QED  BY <1>1, <1>9, <2>1, <2>2 DEF FeesOwn, FeesLoops
<1>11. CASE Fees!Refetch \/ Fees!RefetchEnds
  <2>2. FeesLoops'
        BY <1>11 DEF FeesOwn, FeesLoops, Fees!Refetch, Fees!RefetchEnds, Fees!fee, Fees!estimating
  <2> QED  BY <1>11, <2>2 DEF FeesOwn, FeesTypes, FeesCovered, Fees!Frozen, Fees!FeeIsOffered, Fees!Refetch,
              Fees!RefetchEnds, Fees!fee, Fees!estimating
<1>12. ASSUME NEW t \in FeeTokens, Fees!SelectFee(t) PROVE FeesOwn'
       BY <1>1, <1>2, <1>9, <1>12 DEF FeesOwn, Fees!SelectFee, Fees!gas
<1>13. ASSUME NEW s \in {Fees!Slow, Fees!Fast}, Fees!SelectSpeed(s) PROVE FeesOwn'
       BY <1>1, <1>2, <1>9, <1>13 DEF FeesOwn, Fees!SelectSpeed, Fees!gas, Fees!Slow, Fees!Fast
<1>14. ASSUME UNCHANGED <<opCalls, estimation, estimationError, estimationStatus, hasEstimated, gasPrices,
                          stopRefetching, feeToken, speed, option, speeds, payment>>,
              recovered' = TRUE, signing' = "ReadyToSign"
       PROVE  FeesTypes' /\ FeesCovered' /\ Fees!FeeIsOffered'
       BY <1>14 DEF FeesOwn, FeesTypes, FeesCovered, Fees!Frozen, Fees!FeeIsOffered
<1>15. CASE Fees!Sign
  <2>1. UNCHANGED <<opCalls, estimation, estimationError, estimationStatus, hasEstimated, estimates, gasPrices,
                    gasFetches, gasWaits, stopRefetching, feeToken, speed, option, speeds, payment>>
        BY <1>15 DEF Fees!Sign, Fees!estimating, Fees!gas
  <2>2. CASE signing = "ReadyToSign" /\ payment # None /\ option # None
        BY <1>2, <1>15, <2>1, <2>2 DEF FeesOwn, FeesTypes, FeesCovered, Fees!Frozen, UserOp, Fees!Sign,
           Fees!FeeIsOffered
  <2>3. CASE ~(signing = "ReadyToSign" /\ payment # None /\ option # None)
        BY <1>2, <1>14, <1>15, <2>1, <2>3 DEF FeesOwn, Fees!Sign, Fees!SignFails
  <2> QED  BY <2>2, <2>3
<1>16. CASE Fees!BuildUserOp
  <2>1. /\ UNCHANGED <<opCalls, estimation, estimationError, estimationStatus, hasEstimated, estimates,
                       gasPrices, gasFetches, gasWaits, stopRefetching, feeToken, speed, option, speeds, payment>>
        /\ signing = "InProgress"
        BY <1>16 DEF Fees!BuildUserOp, Fees!estimating, Fees!gas
  <2>2. CASE estimation = None
        BY <1>2, <1>14, <1>16, <2>1, <2>2 DEF FeesOwn, Fees!BuildUserOp, Fees!SignFails
  <2>3. CASE estimation # None
        BY <1>1, <1>2, <1>16, <2>1, <2>3 DEF FeesOwn, FeesTypes, FeesCovered, Fees!Frozen, UserOp, Offer,
           Fees!BuildUserOp, Fees!FeeIsOffered
  <2> QED  BY <2>2, <2>3
<1>17. ASSUME NEW ok \in BOOLEAN, Fees!SignEnds(ok) PROVE FeesOwn'
  <2>1. /\ UNCHANGED <<opCalls, estimation, estimationError, estimationStatus, hasEstimated, estimates,
                       gasPrices, gasFetches, gasWaits, stopRefetching, feeToken, speed, option, speeds, payment>>
        /\ signing = "InProgress" /\ userOp.limits # None
        BY <1>17 DEF Fees!SignEnds, Fees!estimating, Fees!gas
  <2>2. CASE ok
        BY <1>2, <1>17, <2>1, <2>2 DEF FeesOwn, FeesTypes, FeesCovered, Fees!Frozen, Fees!FeeIsOffered,
           Fees!SignEnds, UserOp
  <2>3. CASE ~ok
        BY <1>2, <1>14, <1>17, <2>1, <2>3 DEF FeesOwn, Fees!SignEnds, Fees!SignFails
  <2> QED  BY <2>2, <2>3
<1>18. CASE Fees!BroadcastFails
       BY <1>14, <1>18 DEF FeesOwn, Fees!BroadcastFails, Fees!estimating, Fees!SignFails, FeesLoops
<1>19. CASE Fees!Reset
       BY <1>2, <1>19 DEF FeesOwn, FeesTypes, FeesCovered, Fees!Frozen, Fees!FeeIsOffered, Fees!Reset,
          Fees!Fast, SignStatuses
<1>20. CASE UNCHANGED feesVars
       BY <1>20 DEF feesVars, FeesOwn, FeesTypes, FeesCovered, FeesLoops, Fees!Frozen, Fees!FeeIsOffered
<1> QED  BY <1>4, <1>5, <1>6, <1>7, <1>8, <1>10, <1>11, <1>12, <1>13, <1>15, <1>16, <1>17, <1>18, <1>19,
            <1>20, <1>21 DEF Fees!Next

-----------------------------------------------------------------------------
(* PrivacyPools *)

\* What is submitted is in its range; what is polled is saved; what is saved and not only sent or
\* stuck was mined.
PoolsInv ==
    /\ \A c \in fetches : c = [id |-> c.id, quote |-> c.quote]
    /\ Pools!FetchingIsCurrent
    /\ owner \in Owners /\ submitted \in 0..Withdrawals
    /\ \A b \in submits : b \in [w : 1..Withdrawals, by : Owners \cup {None}]
    /\ saved \in [1..Withdrawals -> Withdrawal \cup {None}]
    /\ mined \in [1..Withdrawals -> {"Success", "Failure", None}]
    /\ \A p \in polls : p = [w |-> p.w, at |-> p.at] /\ p.w \in 1..Withdrawals /\ saved[p.w] # None
    /\ \A w \in 1..Withdrawals :
          saved[w] # None /\ saved[w].status \in {"Success", "Failure"} => mined[w] = saved[w].status

\* A status of the history is one of four.
LEMMA PoolsSavedIsMined == ASSUME PoolsInv PROVE Pools!SavedStatusIsMined
BY DEF PoolsInv, Pools!SavedStatusIsMined, Withdrawal, Statuses

\* At first nothing is fetched or saved.
LEMMA PoolsInvInit == ASSUME Pools!Init PROVE PoolsInv
BY ScreensAssumption DEF Pools!Init, PoolsInv, Pools!FetchingIsCurrent

\* Whoever leaves the status to load has drawn the id of a fetch that goes on.
LEMMA PoolsFetches ==
    ASSUME PoolsInv,
           \/ \E f : Pools!UpdateQuote(f)
           \/ Pools!Cleanup \/ Pools!ResetForm
           \/ \E c \in fetches : Pools!QuoteDropped(c) \/ Pools!AskQuote(c)
                                 \/ Pools!QuoteArrives(c) \/ Pools!QuoteFails(c)
    PROVE  /\ \A c \in fetches' : c = [id |-> c.id, quote |-> c.quote]
           /\ Pools!FetchingIsCurrent'
<1> USE DEF PoolsInv, Pools!FetchingIsCurrent
<1>1. ASSUME NEW f, Pools!UpdateQuote(f)
      PROVE  /\ \A c \in fetches' : c = [id |-> c.id, quote |-> c.quote]
             /\ Pools!FetchingIsCurrent'
  <2>1. CASE f = None
        BY <1>1, <2>1 DEF Pools!UpdateQuote
  <2>2. CASE f # None
    <3> DEFINE new == [id |-> drawn + 1, quote |-> None]
    <3>1. new.id = updateQuoteId' /\ fetches' = fetches \cup {new}
          BY <1>1, <2>2 DEF Pools!UpdateQuote
    <3>2. new = [id |-> new.id, quote |-> new.quote]
          OBVIOUS
    <3> HIDE DEF new
    <3> QED  BY <3>1, <3>2
  <2> QED  BY <2>1, <2>2
<1>2. ASSUME Pools!Cleanup \/ Pools!ResetForm
      PROVE  /\ \A c \in fetches' : c = [id |-> c.id, quote |-> c.quote]
             /\ Pools!FetchingIsCurrent'
      BY <1>2 DEF Pools!Cleanup, Pools!ResetForm
<1>3. ASSUME NEW c \in fetches, Pools!AskQuote(c)
      PROVE  /\ \A d \in fetches' : d = [id |-> d.id, quote |-> d.quote]
             /\ Pools!FetchingIsCurrent'
  <2> DEFINE new == [c EXCEPT !.quote = [of |-> withdrawal]]
  <2>1. new = [id |-> c.id, quote |-> [of |-> withdrawal]]
        BY <1>3
  <2> HIDE DEF new
  <2> QED  BY <1>3, <2>1 DEF Pools!AskQuote
<1>4. ASSUME NEW c \in fetches,
             Pools!QuoteDropped(c) \/ Pools!QuoteArrives(c) \/ Pools!QuoteFails(c)
      PROVE  /\ \A d \in fetches' : d = [id |-> d.id, quote |-> d.quote]
             /\ Pools!FetchingIsCurrent'
      BY <1>4 DEF Pools!QuoteDropped, Pools!QuoteArrives, Pools!QuoteFails
<1> QED  BY <1>1, <1>2, <1>3, <1>4

\* A receipt is written for a withdrawal that is saved, and says what the network says.
LEMMA PoolsSettles ==
    ASSUME PoolsInv, NEW p \in polls, NEW status \in {"BroadcastButStuck", mined[p.w]} \ {None},
           Pools!Settle(p, status), UNCHANGED <<fetches, updateQuoteId, updateQuoteStatus, owner,
                                               submitted, submits, mined>>
    PROVE  PoolsInv'
<1> USE DEF PoolsInv
<1>4. CASE saved' = saved
      BY <1>4 DEF Pools!FetchingIsCurrent, Pools!Settle
<1>5. CASE saved' # saved
  <2> DEFINE new == [saved[p.w] EXCEPT !.status = status]
  <2>1. saved' = [saved EXCEPT ![p.w] = new]
        BY <1>5 DEF Pools!Settle
  <2>2. new \in Withdrawal /\ new.status = status
        BY DEF Withdrawal, Statuses
  <2>3. new # None
        BY <2>2, ScreensAssumption
  <2> HIDE DEF new
  <2>7. ASSUME NEW w \in 1..Withdrawals, saved'[w] # None, saved'[w].status \in {"Success", "Failure"}
        PROVE  mined'[w] = saved'[w].status
        BY <2>1, <2>2, <2>7
  <2> QED  BY <2>1, <2>2, <2>3, <2>7 DEF Pools!FetchingIsCurrent, Pools!Settle
<1> QED  BY <1>4, <1>5

\* What the withdrawals and polls do.
LEMMA PoolsInvNext == ASSUME PoolsInv, [Pools!Next]_poolsVars PROVE PoolsInv'
<1> USE DEF Pools!tracking, Pools!quoting, Pools!PollStep
<1>1. ASSUME NEW f \in PoolForms \cup {None}, Pools!Update(f) PROVE PoolsInv'
      BY <1>1, PoolsFetches DEF Pools!Update, PoolsInv
<1>2. ASSUME Pools!DirectBroadcastWithdrawal PROVE PoolsInv'
  <2>1. submitted' \in 1..Withdrawals
        BY <1>2, ScreensAssumption, SMTT(30) DEF Pools!DirectBroadcastWithdrawal, PoolsInv
  <2>2. submits' = submits \cup {[w |-> submitted', by |-> None]}
        BY <1>2 DEF Pools!DirectBroadcastWithdrawal
  <2>3. \A b \in submits' : b \in [w : 1..Withdrawals, by : Owners \cup {None}]
        BY <2>1, <2>2 DEF PoolsInv
  <2>4. UNCHANGED <<fetches, updateQuoteId, updateQuoteStatus, owner, saved, mined, polls>>
        BY <1>2 DEF Pools!DirectBroadcastWithdrawal
  <2> QED  BY <2>1, <2>3, <2>4 DEF PoolsInv, Pools!FetchingIsCurrent
<1>3. ASSUME Pools!DestroySignAccountOp \/ \E a \in Owners : Pools!SelectAccount(a) PROVE PoolsInv'
      BY <1>3 DEF Pools!DestroySignAccountOp, Pools!SelectAccount, PoolsInv, Pools!FetchingIsCurrent
<1>4. ASSUME NEW forced \in BOOLEAN, Pools!UnloadScreen(forced) PROVE PoolsInv'
      BY <1>4, PoolsFetches DEF Pools!UnloadScreen, Pools!ResetForm, PoolsInv
<1>5. ASSUME Pools!Refetch PROVE PoolsInv'
      BY <1>5, PoolsFetches DEF Pools!Refetch, PoolsInv
<1>6. ASSUME NEW c \in fetches,
             \/ Pools!QuoteDropped(c) \/ Pools!AskQuote(c)
             \/ Pools!QuoteArrives(c) \/ Pools!QuoteFails(c),
             UNCHANGED <<owner, withdrawal, Pools!tracking, steps>>
      PROVE  PoolsInv'
  <2>1. UNCHANGED <<owner, submitted, submits, polls, saved, mined>>
        BY <1>6
  <2>2. \A d \in fetches' : d = [id |-> d.id, quote |-> d.quote]
        BY <1>6, PoolsFetches
  <2>3. Pools!FetchingIsCurrent'
        BY <1>6, PoolsFetches
  <2> QED  BY <2>1, <2>2, <2>3 DEF PoolsInv
<1>7. ASSUME NEW b \in submits, Pools!RelayerRefuses(b) \/ Pools!RelayerAccepts(b) PROVE PoolsInv'
  <2>1. UNCHANGED <<fetches, updateQuoteId, updateQuoteStatus, owner, submitted, polls, saved, mined>>
        BY <1>7 DEF Pools!RelayerRefuses, Pools!RelayerAccepts
  <2>2. submits' \subseteq (submits \ {b}) \cup {[b EXCEPT !.by = owner]}
        BY <1>7 DEF Pools!RelayerRefuses, Pools!RelayerAccepts
  <2>3. [b EXCEPT !.by = owner] \in [w : 1..Withdrawals, by : Owners \cup {None}]
        BY DEF PoolsInv
  <2>4. \A d \in submits' : d \in [w : 1..Withdrawals, by : Owners \cup {None}]
        BY <2>2, <2>3 DEF PoolsInv
  <2> QED  BY <2>1, <2>4 DEF PoolsInv, Pools!FetchingIsCurrent
<1>8. ASSUME NEW b \in submits, Pools!WithdrawalSaved(b) PROVE PoolsInv'
  <2> DEFINE new == [by |-> b.by, status |-> "Sent"]
  <2>1. b.w \in 1..Withdrawals /\ b.by \in Owners
        BY <1>8 DEF PoolsInv, Pools!WithdrawalSaved
  <2>2. new \in Withdrawal /\ new.status = "Sent" /\ new # None
        BY <2>1, ScreensAssumption DEF Withdrawal, Statuses
  <2>3. /\ saved' = [saved EXCEPT ![b.w] = new]
        /\ polls' = polls \cup {[w |-> b.w, at |-> "waiting"]}
        /\ submits' = submits \ {b} /\ UNCHANGED <<owner, submitted, mined>>
        /\ updateQuoteStatus' = "INITIAL" /\ fetches' = fetches
        BY <1>8 DEF Pools!WithdrawalSaved, Pools!Cleanup
  <2> HIDE DEF new
  <2>4. \A w \in 1..Withdrawals : saved'[w] = IF w = b.w THEN new ELSE saved[w]
        BY <2>3 DEF PoolsInv
  <2>5. saved' \in [1..Withdrawals -> Withdrawal \cup {None}]
        BY <2>2, <2>3 DEF PoolsInv
  <2>6. \A p \in polls' : p = [w |-> p.w, at |-> p.at] /\ p.w \in 1..Withdrawals /\ saved'[p.w] # None
        BY <2>1, <2>2, <2>3, <2>4 DEF PoolsInv
  <2>7. \A w \in 1..Withdrawals :
          saved'[w] # None /\ saved'[w].status \in {"Success", "Failure"} => mined'[w] = saved'[w].status
        BY <2>2, <2>3, <2>4 DEF PoolsInv
  <2> QED  BY <2>3, <2>5, <2>6, <2>7 DEF PoolsInv, Pools!FetchingIsCurrent
<1>9. ASSUME NEW p \in polls, Pools!PollEnds(p) \/ Pools!AskReceipt(p) \/ Pools!NoReceipt(p) \/ Pools!PollStops(p)
      PROVE  PoolsInv'
  <2>1. UNCHANGED <<fetches, updateQuoteId, updateQuoteStatus, owner, submitted, submits, saved, mined>>
        BY <1>9 DEF Pools!PollEnds, Pools!AskReceipt, Pools!NoReceipt, Pools!PollStops
  <2>2. PICK at : polls' \subseteq polls \cup {[p EXCEPT !.at = at]}
        BY <1>9 DEF Pools!PollEnds, Pools!AskReceipt, Pools!NoReceipt, Pools!PollStops
  <2>3. [p EXCEPT !.at = at] = [w |-> p.w, at |-> at]
        BY DEF PoolsInv
  <2>4. \A q \in polls' : q = [w |-> q.w, at |-> q.at] /\ q.w \in 1..Withdrawals /\ saved'[q.w] # None
        BY <2>1, <2>2, <2>3 DEF PoolsInv
  <2> QED  BY <2>1, <2>4 DEF PoolsInv, Pools!FetchingIsCurrent
<1>10. ASSUME NEW p \in polls, Pools!ReceiptArrives(p) PROVE PoolsInv'
  <2>1. mined[p.w] \in {"BroadcastButStuck", mined[p.w]} \ {None}
        BY <1>10 DEF Pools!ReceiptArrives
  <2> QED  BY <1>10, <2>1, PoolsSettles DEF Pools!ReceiptArrives
<1>11. ASSUME NEW p \in polls, Pools!PollTimesOut(p) PROVE PoolsInv'
  <2>1. "BroadcastButStuck" \in {"BroadcastButStuck", mined[p.w]} \ {None}
        BY ScreensAssumption DEF Statuses
  <2> QED  BY <1>11, <2>1, PoolsSettles DEF Pools!PollTimesOut
<1>12. ASSUME NEW w \in 1..Withdrawals, NEW s \in {"Success", "Failure"}, Pools!Mine(w, s) PROVE PoolsInv'
  <2>1. /\ mined[w] = None /\ mined' = [mined EXCEPT ![w] = s]
        /\ UNCHANGED <<fetches, updateQuoteId, updateQuoteStatus, owner, submitted, submits, polls, saved>>
        BY <1>12 DEF Pools!Mine
  <2>2. mined' \in [1..Withdrawals -> {"Success", "Failure", None}]
        BY <2>1 DEF PoolsInv
  <2>3. \A x \in 1..Withdrawals :
          saved'[x] # None /\ saved'[x].status \in {"Success", "Failure"} => mined'[x] = saved'[x].status
        BY <2>1, ScreensAssumption DEF PoolsInv, Statuses
  <2> QED  BY <2>1, <2>2, <2>3 DEF PoolsInv, Pools!FetchingIsCurrent
<1>13. ASSUME UNCHANGED poolsVars PROVE PoolsInv'
      BY <1>13 DEF poolsVars, PoolsInv, Pools!FetchingIsCurrent
<1> QED  BY <1>1, <1>2, <1>3, <1>4, <1>5, <1>6, <1>7, <1>8, <1>9, <1>10, <1>11, <1>12, <1>13 DEF Pools!Next

\* Quotes are numbered as they are drawn, withdrawals as they are submitted.
PoolsTypes ==
    /\ withdrawal \in PoolForms \cup {None} /\ drawn \in Nat /\ updateQuoteId \in 0..drawn
    /\ \A c \in fetches : c.id \in 1..drawn
    /\ pollOf \in 0..submitted /\ \A p \in polls : p.w \in 1..submitted
    /\ \A b \in submits : b.w \in 1..submitted

\* At first there is neither a quote nor a withdrawal.
LEMMA PoolsTypesInit == ASSUME Pools!Init PROVE PoolsTypes
BY DEF Pools!Init, PoolsTypes

\* A quote takes the next number.
LEMMA PoolsTypesQuote ==
    ASSUME PoolsTypes, NEW f, Pools!UpdateQuote(f)
    PROVE  drawn' \in Nat /\ updateQuoteId' \in 0..drawn' /\ \A c \in fetches' : c.id \in 1..drawn'
<1>1. CASE f = None
      BY <1>1 DEF Pools!UpdateQuote, PoolsTypes
<1>2. CASE f # None
      BY <1>2 DEF PoolsTypes, Pools!UpdateQuote
<1> QED  BY <1>1, <1>2

\* What is asked for, saved or polled has the number that it was drawn or submitted with.
LEMMA PoolsTypesNext == ASSUME PoolsInv, PoolsTypes, [Pools!Next]_poolsVars PROVE PoolsTypes'
<1> USE DEF Pools!tracking, Pools!quoting, Pools!PollStep
<1>1. ASSUME NEW f \in PoolForms \cup {None}, Pools!Update(f) PROVE PoolsTypes'
      BY <1>1, PoolsTypesQuote DEF PoolsTypes, Pools!Update
<1>2. ASSUME Pools!Refetch PROVE PoolsTypes'
      BY <1>2, PoolsTypesQuote DEF PoolsTypes, Pools!Refetch
<1>3. ASSUME Pools!DirectBroadcastWithdrawal PROVE PoolsTypes'
      BY <1>3, BoundsAssumed DEF PoolsTypes, Pools!DirectBroadcastWithdrawal, PoolsInv
<1>4. ASSUME withdrawal' \in PoolForms \cup {None}, drawn' = drawn, updateQuoteId' \in {0, updateQuoteId},
             fetches' \subseteq fetches, submitted' = submitted, submits' \subseteq submits,
             pollOf' \in {0, pollOf}, polls' \subseteq polls
      PROVE  PoolsTypes'
      BY <1>4, BoundsAssumed DEF PoolsTypes, PoolsInv
<1>5. withdrawal \in PoolForms \cup {None}
      BY DEF PoolsTypes
<1>6. ASSUME \/ Pools!DestroySignAccountOp \/ \E a \in Owners : Pools!SelectAccount(a)
             \/ \E b \in BOOLEAN : Pools!UnloadScreen(b)
             \/ \E w \in 1..Withdrawals, s \in {"Success", "Failure"} : Pools!Mine(w, s)
      PROVE  PoolsTypes'
      BY <1>4, <1>5, <1>6 DEF Pools!DestroySignAccountOp, Pools!SelectAccount, Pools!UnloadScreen, Pools!ResetForm,
                              Pools!Mine
<1>7. ASSUME NEW c \in fetches, Pools!QuoteDropped(c) \/ Pools!QuoteArrives(c) \/ Pools!QuoteFails(c),
             UNCHANGED <<withdrawal, submitted, submits, pollOf, polls>>
      PROVE  PoolsTypes'
      BY <1>4, <1>5, <1>7 DEF Pools!QuoteDropped, Pools!QuoteArrives, Pools!QuoteFails
<1>8. ASSUME NEW c \in fetches, Pools!AskQuote(c), UNCHANGED <<withdrawal, submitted, submits, pollOf, polls>>
      PROVE  PoolsTypes'
  <2>1. PICK new : new = [c EXCEPT !.quote = [of |-> withdrawal]]
        OBVIOUS
  <2> QED  BY <1>8, <2>1 DEF PoolsTypes, Pools!AskQuote, PoolsInv
<1>9. ASSUME NEW b \in submits, Pools!RelayerRefuses(b) PROVE PoolsTypes'
      BY <1>4, <1>5, <1>9 DEF Pools!RelayerRefuses
<1>10. ASSUME NEW b \in submits, Pools!RelayerAccepts(b) PROVE PoolsTypes'
       BY <1>10 DEF PoolsTypes, PoolsInv, Pools!RelayerAccepts
<1>11. ASSUME NEW b \in submits, Pools!WithdrawalSaved(b) PROVE PoolsTypes'
       BY <1>11 DEF PoolsTypes, Pools!WithdrawalSaved, Pools!Cleanup
<1>12. ASSUME NEW p \in polls, Pools!PollEnds(p) \/ Pools!PollStops(p) PROVE PoolsTypes'
      BY <1>4, <1>5, <1>12 DEF Pools!PollEnds, Pools!PollStops
<1>13. ASSUME NEW p \in polls, NEW at, polls' = (polls \ {p}) \cup {[p EXCEPT !.at = at]},
              UNCHANGED <<withdrawal, drawn, updateQuoteId, fetches, submitted, submits, pollOf>>
       PROVE  PoolsTypes'
       BY <1>13 DEF PoolsTypes, PoolsInv
<1>14. ASSUME NEW p \in polls, Pools!AskReceipt(p) \/ Pools!NoReceipt(p) \/ Pools!ReceiptArrives(p)
                               \/ Pools!PollTimesOut(p)
       PROVE  PoolsTypes'
      BY <1>13, <1>14 DEF Pools!AskReceipt, Pools!NoReceipt, Pools!ReceiptArrives, Pools!PollTimesOut, Pools!Settle
<1>15. ASSUME UNCHANGED poolsVars PROVE PoolsTypes'
      BY <1>15 DEF poolsVars, PoolsTypes
<1> QED  BY <1>1, <1>2, <1>3, <1>6, <1>7, <1>8, <1>9, <1>10, <1>11, <1>12, <1>14, <1>15 DEF Pools!Next

\* The types that the module states.
LEMMA PoolsTypeOK == ASSUME PoolsInv, PoolsTypes PROVE Pools!TypeOK
BY DEF PoolsInv, PoolsTypes, Pools!TypeOK
-----------------------------------------------------------------------------
(* MessageSigning *)

\* What is assumed of the constants, as far as messages are concerned.
LEMMA MsgAssumed ==
    None \notin Messages
BY ScreensAssumption

\* A signature is of the message it is kept with, unless that was put in while it was checked.
Kept(signed, late) ==
    /\ signed \in [content : Messages, signature : Messages]
    /\ signed.signature = signed.content \/ signed.content \in late

\* A signature under way is of a message, which a valid one has in common with the controller.
SignJob == [at : {"signer", "signing", "verifying"}, signature : Messages \cup {None}, valid : BOOLEAN]
MsgSigns ==
    /\ messageToSign \in Messages \cup {None}
    /\ signJob # None =>
          /\ signJob \in SignJob
          /\ signJob.at # "signer" => signJob.signature \in Messages
          /\ signJob.at = "verifying" /\ signJob.valid =>
                messageToSign \in {None, signJob.signature} \cup replaced

\* What the controller shows and what a handler stores was kept; one handler waits for the signature.
MsgHandles ==
    /\ signedMessage # None => Kept(signedMessage, replaced) /\ signedMessage.content = messageToSign
    /\ signJob # None => \E h \in handlers : h.at = "signing"
    /\ \A h \in handlers : /\ h = [n |-> h.n, at |-> h.at, signed |-> h.signed]
                           /\ h.at = "storing" => Kept(h.signed, replaced)

MsgInv ==
    /\ MsgSigns
    /\ MsgHandles
    /\ answers \in [Messages -> Messages \cup {None}]
    /\ Msg!AnswersAreVerified

\* The two properties.
LEMMA MsgKeepsPromises == ASSUME MsgInv PROVE Msg!TypeOK /\ Msg!AnswersAreVerified
BY DEF MsgInv, MsgSigns, MsgHandles, Msg!TypeOK

\* At first nothing is signed.
LEMMA MsgInvInit == ASSUME Msg!Init PROVE MsgInv
BY DEF Msg!Init, MsgInv, MsgSigns, MsgHandles, Msg!AnswersAreVerified

\* What was replaced stays so.
LEMMA KeptLonger ==
    ASSUME NEW signed, NEW late, NEW later, late \subseteq later, Kept(signed, late)
    PROVE  Kept(signed, later)
BY DEF Kept

\* A handler that moves on is one as well.
LEMMA HandlerMoves ==
    ASSUME NEW h, NEW at, h = [n |-> h.n, at |-> h.at, signed |-> h.signed]
    PROVE  [h EXCEPT !.at = at] = [n |-> h.n, at |-> at, signed |-> h.signed]
OBVIOUS

\* So is one that has something to store.
LEMMA HandlerStores ==
    ASSUME NEW h, NEW s, h = [n |-> h.n, at |-> h.at, signed |-> h.signed]
    PROVE  [h EXCEPT !.at = "storing", !.signed = s] = [n |-> h.n, at |-> "storing", signed |-> s]
<1>1. PICK n : n = h.n
      OBVIOUS
<1>2. PICK at : at = h.at
      OBVIOUS
<1>3. PICK signed : signed = h.signed
      OBVIOUS
<1>5. [h EXCEPT !.at = "storing"] = [n |-> n, at |-> "storing", signed |-> signed]
      BY <1>1, <1>2, <1>3
<1>6. [h EXCEPT !.at = "storing", !.signed = s] = [[h EXCEPT !.at = "storing"] EXCEPT !.signed = s]
      OBVIOUS
<1>7. [[n |-> n, at |-> "storing", signed |-> signed] EXCEPT !.signed = s]
      = [n |-> n, at |-> "storing", signed |-> s]
      OBVIOUS
<1> QED  BY <1>1, <1>5, <1>6, <1>7, Zenon

\* A job that begins is one.
LEMMA JobBegins == [at |-> "signer", signature |-> None, valid |-> FALSE] \in SignJob
BY DEF SignJob

\* A handler that signs or refuses comes after its state; the job has its handler.
LEMMA SignsOrRefuses ==
    ASSUME MsgInv, NEW h, h = [n |-> h.n, at |-> "state", signed |-> h.signed], Msg!SignOrRefuse(h)
    PROVE  /\ \A g \in handlers' : /\ g = [n |-> g.n, at |-> g.at, signed |-> g.signed]
                                   /\ g.at = "storing" => Kept(g.signed, replaced)
           /\ signJob' # None => \E g \in handlers' : g.at = "signing"
           /\ \/ signJob' = signJob
              \/ signJob' # None /\ signJob' \in SignJob /\ signJob'.at = "signer"
              \/ signJob' = None
<1>1. CASE signJob = None /\ messageToSign # None /\ signingKey
  <2> DEFINE moved == [n |-> h.n, at |-> "signing", signed |-> h.signed]
  <2>2. handlers' = (handlers \ {h}) \cup {moved} /\ moved.at = "signing"
        /\ signJob' = [at |-> "signer", signature |-> None, valid |-> FALSE]
        BY <1>1 DEF Msg!SignOrRefuse
  <2>3. moved = [n |-> moved.n, at |-> moved.at, signed |-> moved.signed]
        OBVIOUS
  <2> HIDE DEF moved
  <2> QED  BY <2>2, <2>3, JobBegins DEF MsgInv, MsgHandles
<1>2. CASE ~(signJob = None /\ messageToSign # None /\ signingKey)
  <2> DEFINE moved == [n |-> h.n, at |-> "signed", signed |-> h.signed]
  <2>3. moved = [n |-> moved.n, at |-> moved.at, signed |-> moved.signed] /\ h.at = "state"
        OBVIOUS
  <2> HIDE DEF moved
  <2> QED  BY <1>2, <2>3 DEF MsgInv, MsgHandles, Msg!SignOrRefuse
<1> QED  BY <1>1, <1>2

\* The handler that waited for the signature goes on without the job.
LEMMA WaiterGoesOn ==
    ASSUME MsgInv, NEW h \in handlers, h.at = "signing", Msg!Moved(h, "signed")
    PROVE  \A g \in handlers' : /\ g = [n |-> g.n, at |-> g.at, signed |-> g.signed]
                                /\ g.at = "storing" => Kept(g.signed, replaced)
<1> DEFINE moved == [n |-> h.n, at |-> "signed", signed |-> h.signed]
<1>3. moved = [n |-> moved.n, at |-> moved.at, signed |-> moved.signed] /\ moved.at = "signed"
      OBVIOUS
<1> HIDE DEF moved
<1> QED  BY <1>3, HandlerMoves DEF MsgInv, MsgHandles, Msg!Moved

\* The messages that are put in meanwhile are those that may get a signature of another.
LEMMA MsgInvNext == ASSUME MsgInv, [Msg!Next]_msgVars PROVE MsgInv'
<1> USE MsgAssumed
<1>1. ASSUME NEW m \in Messages \cup {None}, Msg!InitMessage(m) PROVE MsgInv'
      BY <1>1, KeptLonger DEF MsgInv, MsgSigns, SignJob, MsgHandles, Msg!InitMessage, Msg!AnswersAreVerified
<1>2. ASSUME Msg!SetSigningKey PROVE MsgInv'
      BY <1>2 DEF Msg!SetSigningKey, MsgInv, MsgSigns, MsgHandles, Msg!AnswersAreVerified
<1>3. ASSUME Msg!HandleSignMessage PROVE MsgInv'
  <2> DEFINE h == [n |-> presses, at |-> "state", signed |-> None]
  <2>1. h = [n |-> h.n, at |-> "state", signed |-> h.signed] /\ h.at = "state"
        OBVIOUS
  <2>2. /\ Msg!SignOrRefuse(h) \/ (handlers' = handlers \cup {h} /\ UNCHANGED signJob)
        /\ UNCHANGED <<messageToSign, signedMessage, answers, replaced>>
        BY <1>3 DEF Msg!HandleSignMessage, Msg!Handler
  <2> HIDE DEF h
  <2>3. /\ MsgHandles'
        /\ \/ signJob' \in {None, signJob}
           \/ signJob' # None /\ signJob' \in SignJob /\ signJob'.at = "signer"
    <3>1. CASE Msg!SignOrRefuse(h)
          BY <2>1, <2>2, <3>1, SignsOrRefuses DEF MsgInv, MsgHandles
    <3>2. CASE handlers' = handlers \cup {h} /\ UNCHANGED signJob
          BY <2>1, <2>2, <3>2 DEF MsgInv, MsgHandles
    <3> QED  BY <2>2, <3>1, <3>2
  <2> QED  BY <2>2, <2>3 DEF MsgInv, Msg!AnswersAreVerified, MsgSigns
<1>4. ASSUME Msg!SignerArrives PROVE MsgInv'
      BY <1>4 DEF MsgInv, MsgHandles, Msg!AnswersAreVerified, Msg!SignerArrives, MsgSigns, SignJob
<1>5. ASSUME Msg!SignatureArrives PROVE MsgInv'
  <2> DEFINE ok == signJob.signature = messageToSign
  <2>3. ok \in BOOLEAN
        BY Zenon
  <2>5. signJob' \in SignJob
    <3> HIDE DEF ok
    <3> QED  BY <1>5, <2>3 DEF SignJob, MsgInv, MsgSigns, Msg!SignatureArrives, Msg!Checked
  <2> QED  BY <1>5, <2>5 DEF MsgInv, MsgHandles, Msg!AnswersAreVerified, MsgSigns, SignJob,
              Msg!SignatureArrives, Msg!Checked
<1>6. ASSUME Msg!Verified PROVE MsgInv'
  <2>1. PICK h \in handlers : h.at = "signing" /\ Msg!Moved(h, "signed")
        BY <1>6 DEF Msg!Verified
  <2> QED  BY <1>6, <2>1, WaiterGoesOn DEF MsgInv, MsgSigns, Msg!AnswersAreVerified, Msg!Verified,
              MsgHandles, Kept
<1>7. ASSUME Msg!SignThrows PROVE MsgInv'
  <2>1. PICK h \in handlers : h.at = "signing" /\ Msg!Moved(h, "signed")
        BY <1>7 DEF Msg!SignThrows
  <2> QED  BY <1>7, <2>1, WaiterGoesOn DEF MsgInv, MsgSigns, Msg!AnswersAreVerified, Msg!SignThrows,
              MsgHandles
<1>8. ASSUME NEW h \in handlers, Msg!AccountStateArrives(h) PROVE MsgInv'
      BY <1>8, SignsOrRefuses DEF MsgInv, Msg!AnswersAreVerified, MsgSigns, Msg!AccountStateArrives,
         MsgHandles
<1>9. ASSUME NEW h \in handlers, Msg!AccountStateMissing(h) PROVE MsgInv'
      BY <1>9 DEF Msg!AccountStateMissing, MsgInv, MsgSigns, MsgHandles, Msg!AnswersAreVerified
<1>10. ASSUME NEW h \in handlers, Msg!SignEnded(h) PROVE MsgInv'
  <2> DEFINE moved == [n |-> h.n, at |-> "storing", signed |-> signedMessage]
  <2>3. /\ handlers' = (handlers \ {h}) \cup (IF signedMessage = None THEN {} ELSE {moved})
        /\ UNCHANGED <<messageToSign, signedMessage, signJob, answers, replaced>>
        BY <1>10, HandlerStores DEF Msg!SignEnded, MsgInv, MsgHandles
  <2>5. PICK left : left = moved
        OBVIOUS
  <2> HIDE DEF moved
  <2>6. MsgHandles'
        BY <1>10, <2>3 DEF MsgInv, MsgHandles, Msg!SignEnded
  <2> QED  BY <2>3, <2>6 DEF MsgInv, MsgSigns, Msg!AnswersAreVerified
<1>11. ASSUME NEW h \in handlers, Msg!Stored(h) PROVE MsgInv'
       BY <1>11 DEF MsgInv, MsgSigns, MsgHandles, Msg!Stored, Msg!AnswersAreVerified, Kept
<1>12. ASSUME UNCHANGED msgVars PROVE MsgInv'
      BY <1>12 DEF msgVars, MsgInv, MsgSigns, MsgHandles, Msg!AnswersAreVerified
<1> QED  BY <1>1, <1>2, <1>3, <1>4, <1>5, <1>6, <1>7, <1>8, <1>9, <1>10, <1>11, <1>12 DEF Msg!Next

-----------------------------------------------------------------------------
(* RailgunPlugin *)

WasmCall == [what : {"sync", "shield", "balance", "prepare", "broadcast", "confirm"},
             on : Holders \cup {None, NotYet}]
HasSync(queue) == \E i \in DOMAIN queue : queue[i].what = "sync"

\* A synchronisation under way has a call in the queue, or waits for the storage.
PluginSyncs ==
    /\ selected \in Holders /\ instance \in Holders \cup {None}
    /\ init # None => init \in Initialisation
    /\ wasm \in Seq(WasmCall) /\ saves \in Nat
    /\ syncState = "syncing" => saves > 0 \/ HasSync(wasm)

\* From its broadcast on, what an operation shows is its own; at the end it is recorded.
PluginSends ==
    /\ op # None => op \in PrivateOp
    /\ inFlight <=> op # None
    /\ sent # None => sent = [n |-> sent.n, by |-> sent.by, status |-> sent.status]
    /\ op # None /\ op.at \in {"broadcast", "confirm", "record"} /\ sent # None => sent.n = asked
    /\ op # None /\ op.at = "record" => \E r \in recorded : r.n = asked
    /\ sent # None /\ sent.status = "Success" => \E r \in recorded : r.n = sent.n

\* A shield has a controller and a loop, or neither.
PluginShields == selected \in Holders /\ (reestimates <=> shieldOp # None)

PluginInv == PluginSyncs /\ PluginSends /\ PluginShields

\* The two properties.
LEMMA PluginKeepsPromises == ASSUME PluginInv PROVE Plugin!WaitsEnd /\ Plugin!SuccessIsRecorded
BY DEF PluginInv, PluginSyncs, PluginSends, PluginShields, Plugin!WaitsEnd,
       Plugin!SuccessIsRecorded, HasSync

\* At first nothing is under way.
LEMMA PluginInvInit == ASSUME Plugin!Init PROVE PluginInv
<1> QED  BY DEF Plugin!Init, PluginInv, PluginSyncs, PluginSends, PluginShields

\* A call joins the queue.
LEMMA CallJoins ==
    ASSUME NEW queue \in Seq(WasmCall), instance \in Holders \cup {None},
           NEW what \in {"sync", "shield", "balance", "prepare", "broadcast", "confirm"}
    PROVE  /\ Plugin!Call(queue, what) \in Seq(WasmCall)
           /\ HasSync(queue) => HasSync(Plugin!Call(queue, what))
           /\ what = "sync" => HasSync(Plugin!Call(queue, what))
<1> DEFINE call == [what |-> what, on |-> IF queue = <<>> THEN instance ELSE NotYet]
           joined == Append(queue, call)
<1>1. call \in WasmCall /\ call.what = what
      BY DEF WasmCall
<1> HIDE DEF call
<1>2. /\ joined \in Seq(WasmCall) /\ Len(joined) = Len(queue) + 1 /\ Len(queue) \in Nat
      /\ \A i \in 1..Len(queue) : joined[i] = queue[i]
      /\ joined[Len(queue) + 1] = call
      BY <1>1, AppendProperties, LenProperties
<1> HIDE DEF joined
<1> QED  BY <1>1, <1>2, LenProperties DEF HasSync, Plugin!Call, joined, call

\* The first call leaves the queue.
LEMMA CallLeaves ==
    ASSUME wasm \in Seq(WasmCall), wasm # <<>>, instance \in Holders \cup {None}
    PROVE  /\ Plugin!Rest \in Seq(WasmCall)
           /\ HasSync(wasm) /\ wasm[1].what # "sync" => HasSync(Plugin!Rest)
<1> DEFINE tail == Tail(wasm)
           rest == [tail EXCEPT ![1].on = instance]
<1>1. /\ tail \in Seq(WasmCall) /\ Len(tail) = Len(wasm) - 1 /\ Len(wasm) \in Nat \ {0}
      /\ \A i \in 1..Len(tail) : tail[i] = wasm[i + 1]
      BY EmptySeq, HeadTailProperties
<1>3. CASE Len(wasm) = 1
      BY <1>3, LenProperties DEF Plugin!Rest, HasSync
<1>4. CASE Len(wasm) # 1
  <2>1. tail[1] \in WasmCall /\ 1 \in 1..Len(tail)
        BY <1>1, <1>4
  <2>2. [tail[1] EXCEPT !.on = instance] = [what |-> tail[1].what, on |-> instance]
        BY <2>1 DEF WasmCall
  <2> DEFINE first == [what |-> tail[1].what, on |-> instance]
  <2>3. first \in WasmCall /\ first.what = tail[1].what
        BY <2>1 DEF WasmCall
  <2>4. rest = [tail EXCEPT ![1] = first]
        BY <2>2
  <2> HIDE DEF first, rest, tail
  <2>7. ASSUME HasSync(wasm), wasm[1].what # "sync" PROVE HasSync(rest)
    <3>1. PICK i \in 1..Len(wasm) : wasm[i].what = "sync"
          BY <2>7, LenProperties DEF HasSync
    <3>3. rest[i - 1].what = "sync"
          BY <1>1, <2>3, <2>4, <2>7, <3>1, LenProperties
    <3> QED  BY <1>1, <2>1, <2>3, <2>4, <2>7, <3>1, <3>3, LenProperties DEF HasSync
  <2> QED  BY <1>1, <1>4, <2>1, <2>3, <2>4, <2>7, LenProperties DEF Plugin!Rest, rest, tail
<1> QED  BY <1>3, <1>4

\* The queue of a call that is none of a synchronisation.
LEMMA PluginCalls ==
    ASSUME PluginSyncs, UNCHANGED <<selected, instance, init, saves, syncState>>,
           \/ wasm' = wasm
           \/ \E what \in {"shield", "balance"} : wasm' = Plugin!Call(wasm, what)
           \/ /\ wasm # <<>> /\ wasm[1].what # "sync"
              /\ \/ wasm' = Plugin!Rest
                 \/ \E what \in {"prepare", "broadcast", "confirm"} : wasm' = Plugin!Call(Plugin!Rest, what)
    PROVE  PluginSyncs'
<1>1. wasm \in Seq(WasmCall) /\ instance \in Holders \cup {None}
      BY DEF PluginSyncs
<1>2. wasm' \in Seq(WasmCall) /\ (HasSync(wasm) => HasSync(wasm'))
  <2>1. CASE \E what \in {"shield", "balance"} : wasm' = Plugin!Call(wasm, what)
        BY <1>1, <2>1, CallJoins
  <2>2. CASE wasm # <<>> /\ wasm[1].what # "sync" /\ wasm' = Plugin!Rest
        BY <1>1, <2>2, CallLeaves
  <2>3. ASSUME wasm # <<>>, wasm[1].what # "sync", NEW what \in {"prepare", "broadcast", "confirm"},
               wasm' = Plugin!Call(Plugin!Rest, what)
        PROVE  wasm' \in Seq(WasmCall) /\ (HasSync(wasm) => HasSync(wasm'))
        BY <1>1, <2>3, CallJoins, CallLeaves
  <2>4. CASE wasm' = wasm
        BY <1>1, <2>4
  <2> QED  BY <2>1, <2>2, <2>3, <2>4
<1> QED  BY <1>2 DEF PluginSyncs

\* Synchronisations, and what else changes whom the plugin is for.
LEMMA PluginSyncsNext == ASSUME PluginSyncs, [Plugin!Next]_pluginVars PROVE PluginSyncs'
<1> USE DEF Plugin!Turn, Plugin!Others, Plugin!inits, Plugin!syncing, Plugin!private, Plugin!shielding,
            Plugin!Initialising, Plugin!Runs, Plugin!Returns, Plugin!At
<1>1. ASSUME NEW h \in Holders, Plugin!SelectAccount(h) PROVE PluginSyncs'
      BY <1>1 DEF PluginSyncs, Plugin!SelectAccount, Plugin!Reset, Plugin!Kept, Plugin!InitOnce,
         Initialisation
<1>2. ASSUME NEW open \in BOOLEAN, Plugin!KeystoreUpdates(open) PROVE PluginSyncs'
      BY <1>2 DEF PluginSyncs, Plugin!KeystoreUpdates, Plugin!Reset, Plugin!Kept, Plugin!InitOnce,
         Initialisation
<1>3. ASSUME Plugin!HostMade \/ Plugin!PluginMade \/ Plugin!Initialised \/ Plugin!InitFails PROVE PluginSyncs'
      BY <1>3 DEF PluginSyncs, Plugin!HostMade, Plugin!PluginMade, Plugin!Initialised, Plugin!InitFails,
         Initialisation
<1>4. ASSUME Plugin!Sync PROVE PluginSyncs'
      BY <1>4, CallJoins DEF PluginSyncs, Plugin!Sync
<1>5. ASSUME Plugin!Synced PROVE PluginSyncs'
      BY <1>5, CallLeaves DEF PluginSyncs, Plugin!Synced
<1>6. ASSUME Plugin!SyncSaved \/ Plugin!SyncFails PROVE PluginSyncs'
      BY <1>6, CallLeaves DEF PluginSyncs, Plugin!SyncSaved, Plugin!SyncFails
<1>7. ASSUME \/ Plugin!PrepareShield \/ Plugin!ShieldPrepared \/ Plugin!ShieldFails
             \/ Plugin!InitSignAccOp \/ Plugin!InitSignAccOpFails \/ Plugin!DestroySignAccountOp
      PROVE  PluginSyncs'
      BY <1>7, PluginCalls DEF Plugin!PrepareShield, Plugin!ShieldPrepared, Plugin!ShieldFails,
         Plugin!InitSignAccOp, Plugin!InitSignAccOpFails, Plugin!DestroySignAccountOp
<1>8. ASSUME Plugin!SubmitPrivateOp PROVE PluginSyncs'
      BY <1>8, PluginCalls DEF Plugin!SubmitPrivateOp, Plugin!Broadcast
<1>9. ASSUME \/ Plugin!Balanced \/ Plugin!BalanceFails \/ Plugin!Prepared \/ Plugin!PrepareFails
             \/ Plugin!BroadcastReturns \/ Plugin!BroadcastRejects \/ Plugin!ConfirmFails
             \/ \E moved \in BOOLEAN : Plugin!Confirm(moved)
      PROVE  PluginSyncs'
  <2> USE DEF Plugin!Balanced, Plugin!BalanceFails, Plugin!Prepared, Plugin!PrepareFails,
              Plugin!BroadcastReturns, Plugin!BroadcastRejects, Plugin!ConfirmFails, Plugin!Confirm,
              Plugin!Broadcast
  <2> QED  BY <1>9, PluginCalls
<1>10. ASSUME Plugin!Recorded \/ Plugin!DestroyLatestBroadcastedAccountOp PROVE PluginSyncs'
      BY <1>10 DEF Plugin!Recorded, Plugin!DestroyLatestBroadcastedAccountOp, PluginSyncs
<1>11. ASSUME UNCHANGED pluginVars PROVE PluginSyncs'
      BY <1>11 DEF pluginVars, PluginSyncs
<1> QED  BY <1>1, <1>2, <1>3, <1>4, <1>5, <1>6, <1>7, <1>8, <1>9, <1>10, <1>11 DEF Plugin!Next

\* A private operation ends, as a failure.
LEMMA PluginFails ==
    ASSUME PluginSends, op' = None, inFlight' = FALSE, recorded' = recorded,
           \/ sent' = None \/ sent' = sent
           \/ sent # None /\ sent' = [sent EXCEPT !.status = "Failure"]
    PROVE  PluginSends'
<1>1. CASE sent' = None \/ sent' = sent
      BY <1>1 DEF PluginSends
<1>2. CASE sent # None /\ sent' = [sent EXCEPT !.status = "Failure"]
      BY <1>2 DEF PluginSends
<1> QED  BY <1>1, <1>2

\* A private operation goes on, and shows what it did.
LEMMA PluginMoves ==
    ASSUME PluginSends, op # None, op' \in PrivateOp, UNCHANGED <<inFlight, asked, sent>>,
           recorded \subseteq recorded',
           op'.at \in {"confirm", "record"} => op.at \in {"broadcast", "confirm"},
           op'.at # "broadcast",
           op'.at = "record" => \E r \in recorded' : r.n = asked
    PROVE  PluginSends'
<1> QED  BY ScreensAssumption DEF PluginSends

\* The broadcast is tried, or not even that.
LEMMA PluginBroadcasts ==
    ASSUME PluginSends, NEW queue, NEW own \in BOOLEAN, NEW pending, NEW n,
           Plugin!Broadcast(queue, n, own, pending), recorded' = recorded,
           \/ op # None /\ asked' = asked /\ n = asked
           \/ instance = None
    PROVE  PluginSends'
<1>1. CASE pending = None \/ instance = None
      BY <1>1, PluginFails DEF Plugin!Broadcast, Plugin!OpEnds
<1>2. CASE pending # None /\ instance # None
  <2>1. /\ UNCHANGED inFlight /\ op' = [at |-> "broadcast", own |-> own, tries |-> 0]
        /\ sent' = [n |-> n, by |-> selected, status |-> "Broadcasted"]
        /\ op # None /\ asked' = asked /\ n = asked
        BY <1>2 DEF Plugin!Broadcast
  <2> QED  BY <2>1, ScreensAssumption DEF PluginSends, PrivateOp
<1> QED  BY <1>1, <1>2

\* From the call of submitPrivateOp to its end.
LEMMA PluginSendsNext == ASSUME PluginSends, [Plugin!Next]_pluginVars PROVE PluginSends'
<1> USE DEF Plugin!Others, Plugin!inits, Plugin!syncing, Plugin!private, Plugin!shielding,
            Plugin!Initialising, Plugin!At
<1>1. ASSUME UNCHANGED <<asked, op, inFlight, sent, recorded>> PROVE PluginSends'
      BY <1>1 DEF PluginSends
<1>2. ASSUME \/ \E h \in Holders : Plugin!SelectAccount(h)
             \/ \E open \in BOOLEAN : Plugin!KeystoreUpdates(open)
             \/ Plugin!HostMade \/ Plugin!PluginMade \/ Plugin!Initialised \/ Plugin!InitFails
             \/ Plugin!Sync \/ Plugin!Synced \/ Plugin!SyncSaved \/ Plugin!SyncFails
             \/ Plugin!PrepareShield \/ Plugin!ShieldPrepared \/ Plugin!ShieldFails
             \/ Plugin!InitSignAccOp \/ Plugin!InitSignAccOpFails \/ Plugin!DestroySignAccountOp
      PROVE  PluginSends'
  <2>1. UNCHANGED <<asked, op, inFlight, sent, recorded>>
        BY <1>2 DEF Plugin!SelectAccount, Plugin!KeystoreUpdates, Plugin!HostMade, Plugin!PluginMade,
           Plugin!Initialised, Plugin!InitFails, Plugin!Sync, Plugin!Synced, Plugin!SyncSaved,
           Plugin!SyncFails, Plugin!PrepareShield, Plugin!ShieldPrepared, Plugin!ShieldFails,
           Plugin!InitSignAccOp, Plugin!InitSignAccOpFails, Plugin!DestroySignAccountOp
  <2> QED  BY <1>1, <2>1
<1>3. ASSUME Plugin!SubmitPrivateOp PROVE PluginSends'
  <2>2. CASE instance = None
        BY <1>3, <2>2, PluginBroadcasts DEF Plugin!SubmitPrivateOp
  <2>3. CASE instance # None
    <3>1. op' = [at |-> "balance", own |-> TRUE, tries |-> 0] /\ inFlight' = TRUE /\ UNCHANGED sent
          BY <1>3, <2>3 DEF Plugin!SubmitPrivateOp
    <3>2. op' \in PrivateOp /\ op'.at = "balance"
          BY ONLY <3>1 DEF PrivateOp
    <3>3. op' # None
          BY ONLY <3>2, ScreensAssumption
    <3> QED  BY <1>3, <3>1, <3>2, <3>3 DEF PluginSends, Plugin!SubmitPrivateOp
  <2> QED  BY <2>2, <2>3
<1>4. ASSUME Plugin!Balanced PROVE PluginSends'
  <2>2. CASE instance = None
        BY <1>4, <2>2, PluginBroadcasts DEF Plugin!Balanced
  <2>3. CASE instance # None
        BY <1>4, <2>3, PluginMoves DEF Plugin!Balanced, PluginSends, PrivateOp
  <2> QED  BY <2>2, <2>3
<1>5. ASSUME Plugin!BalanceFails PROVE PluginSends'
      BY <1>5, PluginFails DEF Plugin!BalanceFails, Plugin!OpEnds
<1>6. ASSUME Plugin!Prepared PROVE PluginSends'
      BY <1>6, PluginBroadcasts DEF Plugin!Prepared
<1>7. ASSUME Plugin!PrepareFails PROVE PluginSends'
      BY <1>7, PluginBroadcasts DEF Plugin!PrepareFails
<1>8. ASSUME Plugin!BroadcastReturns PROVE PluginSends'
      BY <1>8, PluginMoves DEF Plugin!BroadcastReturns, PluginSends, PrivateOp
<1>9. ASSUME Plugin!BroadcastRejects \/ Plugin!ConfirmFails PROVE PluginSends'
      BY <1>9, PluginFails DEF Plugin!BroadcastFailed, Plugin!OpEnds, Plugin!BroadcastRejects,
         Plugin!ConfirmFails
<1>10. ASSUME NEW moved \in BOOLEAN, Plugin!Confirm(moved) PROVE PluginSends'
  <2>2. CASE moved
    <3>3. \E r \in recorded' : r.n = asked
      <4>1. PICK who : recorded' = recorded \cup {[n |-> asked, by |-> who]}
            BY <1>10, <2>2 DEF Plugin!Confirm, Plugin!Moved
      <4>2. [n |-> asked, by |-> who] \in recorded' /\ [n |-> asked, by |-> who].n = asked
            BY ONLY <4>1
      <4> QED  BY <4>2
    <3> QED  BY <1>10, <2>2, <3>3, PluginMoves DEF PrivateOp, Plugin!Confirm, PluginSends, Plugin!Moved
  <2>3. CASE ~moved /\ op.tries = 2
        BY <1>10, <2>3, PluginFails DEF Plugin!BroadcastFailed, Plugin!OpEnds, Plugin!Confirm
  <2>4. CASE ~moved /\ op.tries # 2
        BY <1>10, <2>4, PluginMoves DEF Plugin!Confirm, PrivateOp, PluginSends
  <2> QED  BY <2>2, <2>3, <2>4
<1>11. ASSUME Plugin!Recorded PROVE PluginSends'
       BY <1>11 DEF PluginSends, Plugin!Recorded, Plugin!OpEnds
<1>12. ASSUME Plugin!DestroyLatestBroadcastedAccountOp PROVE PluginSends'
      BY <1>12 DEF Plugin!DestroyLatestBroadcastedAccountOp, PluginSends
<1>13. ASSUME UNCHANGED pluginVars PROVE PluginSends'
      BY <1>1, <1>13 DEF pluginVars
<1> QED  BY <1>2, <1>3, <1>4, <1>5, <1>6, <1>7, <1>8, <1>9, <1>10, <1>11, <1>12, <1>13 DEF Plugin!Next

\* A loop is started with a controller and ends with it.
LEMMA PluginShieldsNext == ASSUME PluginShields, [Plugin!Next]_pluginVars PROVE PluginShields'
<1> USE DEF Plugin!Others, Plugin!inits, Plugin!syncing, Plugin!private, Plugin!shielding,
            Plugin!Initialising, Plugin!At
<1>1. ASSUME UNCHANGED <<selected, shieldOp, reestimates>> PROVE PluginShields'
      BY <1>1 DEF PluginShields
<1>2. ASSUME NEW h \in Holders, Plugin!SelectAccount(h) PROVE PluginShields'
      BY <1>2 DEF Plugin!SelectAccount, Plugin!Reset, Plugin!Kept, PluginShields
<1>3. ASSUME NEW open \in BOOLEAN, Plugin!KeystoreUpdates(open) PROVE PluginShields'
      BY <1>3 DEF Plugin!KeystoreUpdates, Plugin!Reset, Plugin!Kept, PluginShields
<1>4. ASSUME Plugin!ShieldPrepared \/ Plugin!InitSignAccOp \/ Plugin!DestroySignAccountOp PROVE PluginShields'
      BY <1>4, ScreensAssumption DEF Plugin!ShieldPrepared, Plugin!InitSignAccOp,
         Plugin!DestroySignAccountOp, PluginShields
<1>5. ASSUME \/ Plugin!HostMade \/ Plugin!PluginMade \/ Plugin!Initialised \/ Plugin!InitFails
             \/ Plugin!Sync \/ Plugin!Synced \/ Plugin!SyncSaved \/ Plugin!SyncFails
             \/ Plugin!PrepareShield \/ Plugin!ShieldFails \/ Plugin!InitSignAccOpFails
             \/ Plugin!SubmitPrivateOp \/ Plugin!Balanced \/ Plugin!BalanceFails \/ Plugin!Prepared
             \/ Plugin!PrepareFails \/ Plugin!BroadcastReturns \/ Plugin!BroadcastRejects
             \/ \E moved \in BOOLEAN : Plugin!Confirm(moved)
             \/ Plugin!ConfirmFails \/ Plugin!Recorded \/ Plugin!DestroyLatestBroadcastedAccountOp
      PROVE  PluginShields'
  <2>1. UNCHANGED <<selected, shieldOp, reestimates>>
        BY <1>5 DEF Plugin!HostMade, Plugin!PluginMade, Plugin!Initialised, Plugin!InitFails,
           Plugin!Sync, Plugin!Synced, Plugin!SyncSaved, Plugin!SyncFails, Plugin!PrepareShield,
           Plugin!ShieldFails, Plugin!InitSignAccOpFails, Plugin!SubmitPrivateOp, Plugin!Balanced,
           Plugin!BalanceFails, Plugin!Prepared, Plugin!PrepareFails, Plugin!BroadcastReturns,
           Plugin!BroadcastRejects, Plugin!Confirm, Plugin!ConfirmFails, Plugin!Recorded,
           Plugin!DestroyLatestBroadcastedAccountOp
  <2> QED  BY <1>1, <2>1
<1>6. ASSUME UNCHANGED pluginVars PROVE PluginShields'
      BY <1>1, <1>6 DEF pluginVars
<1> QED  BY <1>2, <1>3, <1>4, <1>5, <1>6 DEF Plugin!Next

\* All three.
LEMMA PluginInvNext == ASSUME PluginInv, [Plugin!Next]_pluginVars PROVE PluginInv'
BY PluginSyncsNext, PluginSendsNext, PluginShieldsNext DEF PluginInv

\* What is assumed of the constants, as far as the plugin is concerned.
LEMMA PluginAssumed ==
    /\ None \notin Nat \cup Holders \cup PrivateOp \cup Initialisation
    /\ NotYet \notin Holders \cup {None} /\ Budgets \subseteq [turns : Nat, ops : Nat]
BY ScreensAssumption

\* The calls of a private operation, and where it is.
OpCalls == {"balance", "prepare", "broadcast", "confirm"}
Stage == IF op = None THEN "none" ELSE op.at

\* Only the first call of a queue has its instance.
Waiting(queue) ==
    /\ \A i \in 2..Len(queue) : queue[i].on = NotYet
    /\ queue # <<>> => queue[1].on \in Holders \cup {None}
\* No call of a private operation is in a queue.
NoOpCall(queue) == \A i \in 1..Len(queue) : queue[i].what \notin OpCalls
\* A private operation has one call in the queue, which is of its stage, and no synchronisation is behind it.
OneOpCall(queue, stage) ==
    \A i \in 1..Len(queue) : queue[i].what \in OpCalls =>
        /\ stage = queue[i].what
        /\ \A k \in 1..Len(queue) : /\ k # i => queue[k].what \notin OpCalls
                                    /\ k > i => queue[k].what # "sync"
Syncless(queue) == \A i \in 1..Len(queue) : queue[i].what # "sync"

\* What Call puts in a queue.
LEMMA CallIs ==
    ASSUME NEW queue \in Seq(WasmCall), instance \in Holders \cup {None},
           NEW what \in {"sync", "shield", "balance", "prepare", "broadcast", "confirm"}
    PROVE  /\ Plugin!Call(queue, what) \in Seq(WasmCall) /\ Plugin!Call(queue, what) # <<>>
           /\ Len(queue) \in Nat /\ Len(Plugin!Call(queue, what)) = Len(queue) + 1
           /\ \A i \in 1..Len(queue) : Plugin!Call(queue, what)[i] = queue[i]
           /\ Plugin!Call(queue, what)[Len(queue) + 1]
              = [what |-> what, on |-> IF queue = <<>> THEN instance ELSE NotYet]
           /\ queue = <<>> <=> Len(queue) = 0
<1> DEFINE call == [what |-> what, on |-> IF queue = <<>> THEN instance ELSE NotYet]
<1>1. call \in WasmCall
      BY DEF WasmCall
<1> HIDE DEF call
<1> QED  BY <1>1, AppendProperties, LenProperties, EmptySeq DEF call, Plugin!Call

\* What is left of the queue when its first call leaves.
LEMMA RestIs ==
    ASSUME wasm \in Seq(WasmCall), wasm # <<>>, instance \in Holders \cup {None}
    PROVE  /\ Plugin!Rest \in Seq(WasmCall) /\ Len(wasm) \in Nat \ {0}
           /\ Len(Plugin!Rest) = Len(wasm) - 1
           /\ \A i \in 1..(Len(wasm) - 1) : Plugin!Rest[i].what = wasm[i + 1].what
           /\ \A i \in 2..(Len(wasm) - 1) : Plugin!Rest[i].on = wasm[i + 1].on
           /\ Plugin!Rest # <<>> => Plugin!Rest[1].on = instance
<1> DEFINE tail == Tail(wasm)
           rest == [tail EXCEPT ![1].on = instance]
<1>1. /\ tail \in Seq(WasmCall) /\ Len(tail) = Len(wasm) - 1 /\ Len(wasm) \in Nat \ {0}
      /\ \A i \in 1..Len(tail) : tail[i] = wasm[i + 1]
      BY EmptySeq, HeadTailProperties
<1>2. CASE Len(wasm) = 1
      BY <1>1, <1>2 DEF Plugin!Rest
<1>3. CASE Len(wasm) # 1
  <2>1. tail[1] \in WasmCall /\ 1 \in 1..Len(tail)
        BY <1>1, <1>3
  <2>2. [tail[1] EXCEPT !.on = instance] = [what |-> tail[1].what, on |-> instance]
        BY <2>1 DEF WasmCall
  <2> DEFINE first == [what |-> tail[1].what, on |-> instance]
  <2>3. first \in WasmCall /\ first.what = tail[1].what /\ first.on = instance
        BY <2>1 DEF WasmCall
  <2>4. rest = [tail EXCEPT ![1] = first]
        BY <2>2
  <2> HIDE DEF first, rest, tail
  <2>6. rest \in Seq(WasmCall) /\ Len(rest) = Len(tail)
        BY <1>1, <2>1, <2>3, <2>4, LenProperties
  <2>7. rest[1] = first /\ \A i \in 2..Len(tail) : rest[i] = tail[i]
        BY <1>1, <2>1, <2>4, LenProperties
  <2> QED  BY <1>1, <1>3, <2>1, <2>3, <2>6, <2>7 DEF Plugin!Rest, rest, tail
<1> QED  BY <1>2, <1>3

\* A call that joins the queue waits in it, and a queue that had no call of an operation has this one.
LEMMA QueueGrows ==
    ASSUME NEW queue \in Seq(WasmCall), instance \in Holders \cup {None}, Waiting(queue),
           NEW what \in {"sync", "shield", "balance", "prepare", "broadcast", "confirm"}
    PROVE  /\ Waiting(Plugin!Call(queue, what))
           /\ \A stage : OneOpCall(queue, stage) /\ what \notin OpCalls /\ (what = "sync" => NoOpCall(queue))
                         => OneOpCall(Plugin!Call(queue, what), stage)
           /\ NoOpCall(queue) /\ what \in OpCalls => OneOpCall(Plugin!Call(queue, what), what)
           /\ Syncless(queue) /\ what # "sync" => Syncless(Plugin!Call(queue, what))
           /\ queue # <<>> => Plugin!Call(queue, what)[1] = queue[1]
           /\ queue = <<>> => Plugin!Call(queue, what)[1].on = instance
<1> DEFINE joined == Plugin!Call(queue, what)
           last == [what |-> what, on |-> IF queue = <<>> THEN instance ELSE NotYet]
<1>1. /\ Len(queue) \in Nat /\ Len(joined) = Len(queue) + 1 /\ joined # <<>>
      /\ \A i \in 1..Len(queue) : joined[i] = queue[i]
      /\ joined[Len(queue) + 1] = last /\ (queue = <<>> <=> Len(queue) = 0)
  <2>1. PICK grown : grown = Plugin!Call(queue, what)
        OBVIOUS
  <2>2. PICK end : end = last
        OBVIOUS
  <2>3. /\ Len(queue) \in Nat /\ Len(grown) = Len(queue) + 1 /\ grown # <<>>
        /\ \A i \in 1..Len(queue) : grown[i] = queue[i]
        /\ grown[Len(queue) + 1] = end
        BY <2>1, <2>2, CallIs, ZenonT(40)
  <2>4. queue = <<>> <=> Len(queue) = 0
        BY CallIs
  <2> QED  BY <2>1, <2>2, <2>3, <2>4, Zenon
<1>2. /\ last.what = what /\ (queue = <<>> => last.on = instance) /\ (queue # <<>> => last.on = NotYet)
      OBVIOUS
<1> HIDE DEF joined, last
<1>3. Waiting(joined)
      BY <1>1, <1>2 DEF Waiting
<1>4. Syncless(queue) /\ what # "sync" => Syncless(joined)
      BY <1>1, <1>2 DEF Syncless
<1>5. NoOpCall(queue) /\ what \in OpCalls => OneOpCall(joined, what)
      BY <1>1, <1>2 DEF NoOpCall, OneOpCall
<1>6. ASSUME NEW stage, OneOpCall(queue, stage), what \notin OpCalls, what = "sync" => NoOpCall(queue)
      PROVE  OneOpCall(joined, stage)
  <2> SUFFICES ASSUME NEW i \in 1..Len(joined), joined[i].what \in OpCalls
               PROVE  /\ stage = joined[i].what
                      /\ \A k \in 1..Len(joined) : /\ k # i => joined[k].what \notin OpCalls
                                                   /\ k > i => joined[k].what # "sync"
        BY DEF OneOpCall
  <2>1. i \in 1..Len(queue) /\ queue[i].what \in OpCalls /\ what # "sync"
        BY <1>1, <1>2, <1>6 DEF NoOpCall
  <2> QED  BY <1>1, <1>2, <1>6, <2>1 DEF OneOpCall
<1>7. /\ queue # <<>> => joined[1] = queue[1]
      /\ queue = <<>> => joined[1].on = instance
      BY <1>1, <1>2
<1> QED  BY <1>3, <1>4, <1>5, <1>6, <1>7 DEF joined

\* The queue whose first call leaves; behind the call of an operation there was no other, and no
\* synchronisation.
LEMMA QueueShrinks ==
    ASSUME wasm \in Seq(WasmCall), wasm # <<>>, instance \in Holders \cup {None}, Waiting(wasm)
    PROVE  /\ Plugin!Rest \in Seq(WasmCall) /\ Waiting(Plugin!Rest)
           /\ \A stage : OneOpCall(wasm, stage) => OneOpCall(Plugin!Rest, stage)
           /\ \A stage : OneOpCall(wasm, stage) /\ wasm[1].what \in OpCalls =>
                            NoOpCall(Plugin!Rest) /\ Syncless(Plugin!Rest) /\ stage = wasm[1].what
           /\ Syncless(wasm) => Syncless(Plugin!Rest)
           /\ Plugin!Rest # <<>> => Plugin!Rest[1].on = instance
<1> DEFINE rest == Plugin!Rest
           n == Len(wasm)
<1>1. /\ rest \in Seq(WasmCall) /\ n \in Nat \ {0} /\ Len(rest) = n - 1
      /\ \A i \in 1..(n - 1) : rest[i].what = wasm[i + 1].what
      /\ \A i \in 2..(n - 1) : rest[i].on = wasm[i + 1].on
      /\ rest # <<>> => rest[1].on = instance
      BY RestIs
<1> HIDE DEF rest
<1>2. Waiting(rest)
      BY <1>1 DEF Waiting
<1>3. ASSUME NEW stage, OneOpCall(wasm, stage) PROVE OneOpCall(rest, stage)
  <2> SUFFICES ASSUME NEW i \in 1..(n - 1), wasm[i + 1].what \in OpCalls
               PROVE  /\ stage = wasm[i + 1].what
                      /\ \A k \in 1..(n - 1) : /\ k # i => wasm[k + 1].what \notin OpCalls
                                               /\ k > i => wasm[k + 1].what # "sync"
        BY <1>1 DEF OneOpCall
  <2>1. i + 1 \in 1..n
        BY <1>1
  <2>2. ASSUME NEW k \in 1..(n - 1)
        PROVE  k + 1 \in 1..n /\ (k # i => k + 1 # i + 1) /\ (k > i => k + 1 > i + 1)
        BY <1>1
  <2> QED  BY <1>3, <2>1, <2>2 DEF OneOpCall
<1>4. ASSUME NEW stage, OneOpCall(wasm, stage), wasm[1].what \in OpCalls
      PROVE  NoOpCall(rest) /\ Syncless(rest) /\ stage = wasm[1].what
  <2>1. 1 \in 1..n /\ \A k \in 1..(n - 1) : k + 1 \in 1..n /\ k + 1 # 1 /\ k + 1 > 1
        BY <1>1
  <2> QED  BY <1>1, <1>4, <2>1 DEF OneOpCall, NoOpCall, Syncless
<1>5. Syncless(wasm) => Syncless(rest)
      BY <1>1 DEF Syncless
<1> QED  BY <1>1, <1>2, <1>3, <1>4, <1>5 DEF rest

\* The queue of the library and the stage of a private operation, which no synchronisation follows.
PluginQueue ==
    /\ Waiting(wasm) /\ OneOpCall(wasm, Stage)
    /\ Stage \in {"prepare", "broadcast", "confirm"} => Syncless(wasm)

\* What is initialised is for the present account; until it is switched in the middle of something,
\* whatever there is belongs to it.
PluginMine ==
    /\ current \in {None, selected} /\ (init # None \/ instance # None => current = selected)
    /\ balance \in Holders \cup {None}
    /\ ~crossed =>
          /\ {instance, balance} \subseteq {selected, None}
          /\ isInitialized => instance # None
          /\ init # None /\ init.at # "storage" => init.of = selected
          /\ init # None /\ init.at = "id" => instance # None
          /\ wasm # <<>> => wasm[1].on \in {selected, None}

\* What is broadcast was prepared as it is now, with the instance that is still there.
PluginPrepared ==
    Stage = "broadcast" /\ op.own /\ ~crossed =>
        prepared = [n |-> asked, of |-> selected, tree |-> tree] /\ instance # None

PluginCounts ==
    /\ shieldOp \in Holders \cup {None} /\ syncState \in {"unsynced", "syncing", "synced"}
    /\ making \in Nat /\ asked \in Nat /\ railLeft \in [turns : Int, ops : Nat] /\ asked <= railLeft.ops

PluginOwn == PluginQueue /\ PluginMine /\ PluginPrepared /\ PluginCounts

\* The properties.
LEMMA PluginOwnKeeps ==
    ASSUME PluginInv, PluginOwn
    PROVE  Plugin!TypeOK /\ Plugin!SendsWhatWasPrepared /\ Plugin!PluginIsOfTheAccount
<1>1. Plugin!TypeOK
      BY PluginAssumed DEF PluginOwn, PluginCounts, PluginQueue, Waiting, Plugin!TypeOK, PluginInv,
         PluginSyncs, PluginMine
<1> QED  BY <1>1 DEF PluginOwn, PluginPrepared, Stage, Plugin!SendsWhatWasPrepared, Plugin!At, PluginMine,
            Plugin!PluginIsOfTheAccount

\* At first nothing is initialised, called or sent.
LEMMA PluginOwnInit == ASSUME Plugin!Init PROVE PluginOwn
<1>1. /\ selected \in Holders /\ current = None /\ instance = None /\ isInitialized = FALSE /\ init = None
      /\ wasm = <<>> /\ balance = None /\ syncState = "unsynced" /\ asked = 0 /\ op = None /\ shieldOp = None
      /\ making = 0 /\ railLeft \in Budgets
      BY DEF Plugin!Init
<1>5. PluginCounts
      BY <1>1, PluginAssumed DEF PluginCounts
<1> QED  BY <1>1, <1>5 DEF PluginOwn, PluginMine, PluginPrepared, Stage, PluginQueue, Waiting, OneOpCall,
            Syncless

\* What a step does to the queue and the private operation.
PluginHeld == UNCHANGED <<selected, current, instance, isInitialized, init, crossed>>
PluginRests == PluginHeld /\ UNCHANGED <<wasm, op, prepared, asked, tree, balance>>
PluginJoins ==
    /\ PluginHeld /\ UNCHANGED <<op, prepared, asked, tree, balance>>
    /\ \E what \in {"sync", "shield"} : wasm' = Plugin!Call(wasm, what) /\ (what = "sync" => op = None)
PluginLeaves ==
    /\ PluginHeld /\ UNCHANGED <<op, prepared, asked>>
    /\ wasm # <<>> /\ wasm[1].what \notin OpCalls /\ wasm' = Plugin!Rest
    /\ tree' = tree \/ wasm[1].what = "sync"
    /\ balance' \in {balance, wasm[1].on}
\* The queue that a private operation leaves when it comes back from the library.
Behind(queue) ==
    \/ queue = wasm /\ (op = None \/ Stage = "record")
    \/ queue = Plugin!Rest /\ wasm # <<>> /\ wasm[1].what \in OpCalls
PluginGoesOn ==
    /\ PluginHeld
    /\ balance' = balance \/ (wasm # <<>> /\ balance' = wasm[1].on)
    /\ \E queue : /\ Behind(queue)
                  /\ \/ wasm' = queue /\ (op' = None \/ (op' # None /\ op'.at = "record"))
                     \/ /\ op' # None /\ op'.at \in OpCalls /\ wasm' = Plugin!Call(queue, op'.at)
                        /\ op'.at # "balance" => wasm # <<>> /\ wasm[1].what \in OpCalls /\ queue = Plugin!Rest
    /\ op' # None /\ op'.at = "broadcast" /\ op'.own =>
          /\ wasm # <<>> /\ wasm[1].on # None /\ instance # None
          /\ prepared' = [n |-> asked', of |-> wasm[1].on, tree |-> tree']

\* The library's answers to a private operation.
LEMMA OperationGoesOn ==
    ASSUME PluginInv, PluginInv',
           \/ Plugin!SubmitPrivateOp \/ Plugin!Balanced \/ Plugin!BalanceFails \/ Plugin!Prepared
           \/ Plugin!PrepareFails \/ Plugin!BroadcastReturns \/ Plugin!BroadcastRejects
           \/ (\E moved \in BOOLEAN : Plugin!Confirm(moved)) \/ Plugin!ConfirmFails \/ Plugin!Recorded
    PROVE  PluginGoesOn
<1> USE DEF Plugin!At, Plugin!Runs, Plugin!Returns, Plugin!Others, Plugin!inits, Plugin!syncing
<1>1. /\ op # None => op \in PrivateOp
      /\ op' # None => op' \in PrivateOp
      /\ None \notin PrivateOp
      BY PluginAssumed DEF PluginInv, PluginSends
<1>2. ASSUME NEW queue, NEW n, NEW own \in BOOLEAN, NEW pending, Plugin!Broadcast(queue, n, own, pending)
      PROVE  \/ wasm' = queue /\ op' = None
             \/ /\ op' # None /\ op'.at = "broadcast" /\ op'.own = own
                /\ wasm' = Plugin!Call(queue, "broadcast") /\ instance # None
  <2>1. CASE pending = None \/ instance = None
        BY <1>2, <2>1 DEF Plugin!Broadcast, Plugin!OpEnds
  <2>2. CASE pending # None /\ instance # None
        BY <1>1, <1>2, <2>2 DEF Plugin!Broadcast, PrivateOp
  <2> QED  BY <2>1, <2>2
<1>3. CASE Plugin!SubmitPrivateOp
  <2>2. CASE instance = None
        BY <1>2, <1>3, <2>2 DEF PluginGoesOn, Plugin!SubmitPrivateOp, PluginHeld, Behind
  <2>3. CASE instance # None
    <3>1. wasm' = Plugin!Call(wasm, "balance") /\ op' = [at |-> "balance", own |-> TRUE, tries |-> 0]
          BY <1>3, <2>3 DEF Plugin!SubmitPrivateOp
    <3>2. op' \in PrivateOp /\ op'.at = "balance"
          BY <3>1 DEF PrivateOp
    <3> QED  BY <1>1, <1>3, <3>1, <3>2 DEF PluginGoesOn, OpCalls, Plugin!SubmitPrivateOp, PluginHeld, Behind
  <2> QED  BY <2>2, <2>3
<1>4. CASE Plugin!Balanced
  <2>3. CASE instance = None
        BY <1>2, <1>4, <2>3 DEF PluginGoesOn, Behind, Plugin!Balanced, PluginHeld, OpCalls
  <2>4. CASE instance # None
        BY <1>1, <1>4, <2>4 DEF PluginGoesOn, OpCalls, Behind, Plugin!Balanced, PrivateOp, PluginHeld
  <2> QED  BY <2>3, <2>4
<1>5. CASE Plugin!BalanceFails
      BY <1>5 DEF Plugin!BalanceFails, Plugin!OpEnds, PluginGoesOn, PluginHeld, Behind, OpCalls
<1>6. CASE Plugin!Prepared
      BY <1>2, <1>6 DEF PluginGoesOn, OpCalls, Plugin!Prepared, PluginHeld, Behind
<1>7. CASE Plugin!PrepareFails
      BY <1>2, <1>7 DEF PluginGoesOn, OpCalls, Plugin!PrepareFails, PluginHeld, Behind
<1>8. CASE Plugin!BroadcastReturns
      BY <1>1, <1>8 DEF PluginGoesOn, Behind, OpCalls, Plugin!BroadcastReturns, PluginHeld, PrivateOp
<1>9. CASE Plugin!BroadcastRejects \/ Plugin!ConfirmFails
      BY <1>9 DEF Plugin!BroadcastRejects, Plugin!ConfirmFails, Plugin!BroadcastFailed, Plugin!OpEnds,
                  PluginGoesOn, PluginHeld, Behind, OpCalls
<1>10. ASSUME NEW moved \in BOOLEAN, Plugin!Confirm(moved) PROVE PluginGoesOn
  <2>1. PluginHeld /\ balance' = wasm[1].on /\ wasm # <<>> /\ wasm[1].what \in OpCalls /\ op # None
        BY <1>10 DEF Plugin!Confirm, PluginHeld, OpCalls
  <2>2. Behind(Plugin!Rest)
        BY <2>1 DEF Behind
  <2>4. CASE op' = [op EXCEPT !.at = "record"] /\ wasm' = Plugin!Rest
        BY <1>1, <2>1, <2>2, <2>4 DEF PluginGoesOn, PrivateOp
  <2>5. CASE wasm' = Plugin!Call(Plugin!Rest, "confirm") /\ op' = [op EXCEPT !.tries = @ + 1]
             /\ op.at = "confirm" /\ op.tries # 2
    <3>1. PICK private : private = op
          OBVIOUS
    <3>2. PICK more : more = op.tries + 1
          OBVIOUS
    <3> QED  BY <1>1, <2>1, <2>2, <2>5, <3>1, <3>2 DEF PluginGoesOn, OpCalls, PrivateOp
  <2>6. CASE wasm' = Plugin!Rest /\ op' = None
        BY <2>1, <2>2, <2>6 DEF PluginGoesOn
  <2> QED  BY <1>10, <2>4, <2>5, <2>6 DEF Plugin!Confirm, Plugin!Moved, Plugin!BroadcastFailed,
              Plugin!OpEnds
<1>11. CASE Plugin!Recorded
      BY <1>11 DEF Plugin!Recorded, Plugin!OpEnds, PluginGoesOn, PluginHeld, Behind, Stage
<1> QED  BY <1>3, <1>4, <1>5, <1>6, <1>7, <1>8, <1>9, <1>10, <1>11

\* A step switches the account, or initialises, or waits, or does something to the queue.
LEMMA PluginSteps ==
    ASSUME PluginInv, PluginInv', Plugin!Next
    PROVE  \/ \E h \in Holders : Plugin!SelectAccount(h)
           \/ \E open \in BOOLEAN : Plugin!KeystoreUpdates(open)
           \/ Plugin!HostMade \/ Plugin!PluginMade \/ Plugin!Initialised \/ Plugin!InitFails
           \/ PluginRests \/ PluginJoins \/ PluginLeaves \/ PluginGoesOn
<1> USE DEF PluginHeld, Plugin!Others, Plugin!inits, Plugin!syncing, Plugin!private, Plugin!shielding,
            Plugin!Runs, Plugin!Returns
<1>1. CASE Plugin!SyncSaved \/ Plugin!InitSignAccOp \/ Plugin!InitSignAccOpFails
           \/ Plugin!DestroySignAccountOp \/ Plugin!DestroyLatestBroadcastedAccountOp
      BY <1>1 DEF PluginRests, Plugin!SyncSaved, Plugin!InitSignAccOp, Plugin!InitSignAccOpFails,
         Plugin!DestroySignAccountOp, Plugin!DestroyLatestBroadcastedAccountOp
<1>2. CASE Plugin!Sync
  <2>2. PluginJoins
        BY <1>2 DEF PluginJoins, Plugin!Sync, Plugin!MaySync, PluginInv, PluginSends
  <2> QED  BY <2>2
<1>3. CASE Plugin!PrepareShield
      BY <1>3 DEF PluginJoins, Plugin!PrepareShield
<1>4. CASE Plugin!Synced \/ Plugin!ShieldPrepared \/ Plugin!ShieldFails
      BY <1>4 DEF PluginLeaves, OpCalls, Plugin!Synced, Plugin!ShieldPrepared, Plugin!ShieldFails
<1>5. CASE Plugin!SyncFails
      BY <1>5 DEF PluginLeaves, PluginRests, OpCalls, Plugin!SyncFails
<1>6. CASE \/ Plugin!SubmitPrivateOp \/ Plugin!Balanced \/ Plugin!BalanceFails \/ Plugin!Prepared
           \/ Plugin!PrepareFails \/ Plugin!BroadcastReturns \/ Plugin!BroadcastRejects
           \/ (\E moved \in BOOLEAN : Plugin!Confirm(moved)) \/ Plugin!ConfirmFails \/ Plugin!Recorded
      BY <1>6, OperationGoesOn
<1> QED  BY <1>1, <1>2, <1>3, <1>4, <1>5, <1>6 DEF Plugin!Next

\* The queue: calls join it behind those that wait, the one that returns has given its instance.
LEMMA PluginQueueNext ==
    ASSUME PluginInv, PluginInv', PluginQueue, Plugin!Next
    PROVE  PluginQueue'
<1>1. wasm \in Seq(WasmCall) /\ instance \in Holders \cup {None}
      BY DEF PluginInv, PluginSyncs
<1>2. CASE UNCHANGED <<wasm, op>>
      BY <1>2 DEF PluginQueue, Waiting, OneOpCall, Syncless, Stage
<1>3. CASE PluginJoins
  <2>1. PICK what \in {"sync", "shield"} : wasm' = Plugin!Call(wasm, what) /\ (what = "sync" => op = None)
        BY <1>3 DEF PluginJoins
  <2>4. op = None => Stage = "none" /\ NoOpCall(wasm)
        BY DEF PluginQueue, OneOpCall, NoOpCall, OpCalls, Stage
  <2>5. Waiting(wasm') /\ OneOpCall(wasm', Stage)
        BY <1>1, <2>1, <2>4, QueueGrows DEF PluginQueue, OpCalls
  <2> QED  BY <1>1, <1>3, <2>1, <2>4, <2>5, QueueGrows DEF PluginQueue, Waiting, OneOpCall, Syncless,
              PluginJoins, Stage
<1>4. CASE PluginLeaves
  <2>2. Waiting(wasm') /\ OneOpCall(wasm', Stage) /\ (Syncless(wasm) => Syncless(wasm'))
        BY <1>1, <1>4, QueueShrinks DEF PluginQueue, PluginLeaves, Stage
  <2> QED  BY <1>4, <2>2 DEF PluginQueue, Waiting, OneOpCall, Syncless, PluginLeaves, Stage
<1>5. CASE PluginGoesOn
  <2>1. PICK queue : /\ Behind(queue)
                     /\ \/ wasm' = queue /\ (op' = None \/ (op' # None /\ op'.at = "record"))
                        \/ /\ op' # None /\ op'.at \in OpCalls /\ wasm' = Plugin!Call(queue, op'.at)
                           /\ op'.at # "balance" => wasm # <<>> /\ wasm[1].what \in OpCalls
                                                    /\ queue = Plugin!Rest
        BY <1>5 DEF PluginGoesOn
  <2>2. /\ queue \in Seq(WasmCall) /\ Waiting(queue) /\ NoOpCall(queue)
        /\ wasm # <<>> /\ wasm[1].what \in OpCalls /\ queue = Plugin!Rest => Syncless(queue)
    <3>1. CASE queue = wasm /\ (op = None \/ Stage = "record")
          BY <1>1, <3>1, EmptySeq, LenProperties DEF PluginQueue, OneOpCall, NoOpCall, OpCalls, Stage
    <3>2. CASE queue = Plugin!Rest /\ wasm # <<>> /\ wasm[1].what \in OpCalls
          BY <1>1, <3>2, QueueShrinks DEF PluginQueue
    <3> QED  BY <2>1, <3>1, <3>2 DEF Behind
  <2>3. CASE wasm' = queue /\ (op' = None \/ (op' # None /\ op'.at = "record"))
        BY <2>2, <2>3 DEF PluginQueue, Waiting, OneOpCall, NoOpCall, Stage
  <2>4. CASE /\ op' # None /\ op'.at \in OpCalls /\ wasm' = Plugin!Call(queue, op'.at)
             /\ op'.at # "balance" => wasm # <<>> /\ wasm[1].what \in OpCalls /\ queue = Plugin!Rest
    <3>1. PICK step \in OpCalls : step = op'.at
          BY <2>4
    <3>3. Waiting(wasm') /\ OneOpCall(wasm', step) /\ (Syncless(queue) => Syncless(wasm'))
          BY <1>1, <2>2, <2>4, <3>1, QueueGrows DEF OpCalls
    <3> QED  BY <2>2, <2>4, <3>1, <3>3 DEF PluginQueue, Waiting, OneOpCall, Syncless, Stage
  <2> QED  BY <2>1, <2>3, <2>4
<1>6. CASE \/ \E h \in Holders : Plugin!SelectAccount(h)
           \/ \E open \in BOOLEAN : Plugin!KeystoreUpdates(open)
           \/ Plugin!HostMade \/ Plugin!PluginMade \/ Plugin!Initialised \/ Plugin!InitFails \/ PluginRests
  <2>1. UNCHANGED <<wasm, op>>
        BY <1>6 DEF Plugin!SelectAccount, Plugin!KeystoreUpdates, Plugin!HostMade, Plugin!PluginMade,
              Plugin!Initialised, Plugin!InitFails, Plugin!Initialising, Plugin!private, PluginRests
  <2> QED  BY <1>2, <2>1
<1> QED  BY <1>3, <1>4, <1>5, <1>6, PluginSteps

\* The account: a switch in the middle of something is seen, every other resets what was there.
LEMMA PluginMineNext ==
    ASSUME PluginInv, PluginInv', PluginMine, PluginQueue, Plugin!Next
    PROVE  PluginMine'
<1>1. /\ wasm \in Seq(WasmCall) /\ instance \in Holders \cup {None} /\ selected \in Holders
      /\ init # None => init \in Initialisation
      /\ None \notin Initialisation /\ None \notin Holders
      BY PluginAssumed DEF PluginInv, PluginSyncs
<1>3. ASSUME NEW h \in Holders, Plugin!SelectAccount(h) PROVE PluginMine'
  <2>1. /\ selected' = h /\ current' = h /\ UNCHANGED wasm
        /\ crossed' = (crossed \/ (h # selected /\ (init # None \/ wasm # <<>> \/ saves > 0 \/ op # None)))
        /\ init' = init \/ init' = IF init = None THEN [at |-> "storage", of |-> None] ELSE init
        BY <1>3 DEF Plugin!SelectAccount, Plugin!InitOnce
  <2>2. CASE h # current
    <3>2. ASSUME ~crossed'
          PROVE  /\ init # None => init' = init /\ h = selected
                 /\ wasm # <<>> => h = selected
                 /\ ~crossed
          BY <2>1, <3>2
    <3> QED  BY <1>3, <2>1, <2>2, <3>2 DEF PluginMine, Plugin!SelectAccount, Plugin!Reset
  <2>3. CASE h = current
    <3>5. init = None /\ init' # None => init'.at = "storage"
          BY <2>1
    <3> QED  BY <1>1, <1>3, <2>1, <2>3, <3>5 DEF PluginMine, Plugin!SelectAccount, Plugin!Kept
  <2> QED  BY <2>2, <2>3
<1>4. ASSUME NEW open \in BOOLEAN, Plugin!KeystoreUpdates(open) PROVE PluginMine'
  <2>2. CASE instance = None /\ open /\ init = None
        BY <1>4, <2>2 DEF PluginMine, Plugin!KeystoreUpdates, Plugin!Reset, Plugin!InitOnce
  <2>3. CASE ~(instance = None /\ open /\ init = None)
        BY <1>4, <2>3 DEF PluginMine, Plugin!KeystoreUpdates, Plugin!Kept, Plugin!InitOnce
  <2> QED  BY <2>2, <2>3
<1>5. CASE Plugin!HostMade
      BY <1>5 DEF PluginMine, Plugin!HostMade, Plugin!Initialising, Plugin!syncing
<1>6. CASE Plugin!PluginMade
      BY <1>1, <1>6 DEF PluginMine, Plugin!PluginMade, Plugin!Initialising, Plugin!syncing, Initialisation
<1>7. CASE Plugin!Initialised
      BY <1>7 DEF Plugin!Initialised, Plugin!Initialising, Plugin!syncing, PluginMine
<1>8. CASE Plugin!InitFails
      BY <1>8 DEF Plugin!InitFails, Plugin!Initialising, Plugin!syncing, PluginMine
<1>9. CASE PluginRests
      BY <1>9 DEF PluginRests, PluginHeld, PluginMine
<1>10. CASE PluginJoins \/ PluginLeaves \/ PluginGoesOn
  <2>2. wasm' # <<>> => wasm'[1].on = instance \/ (wasm # <<>> /\ wasm'[1].on = wasm[1].on)
    <3>1. Waiting(wasm)
          BY DEF PluginQueue
    <3>4. CASE PluginJoins
      <4>1. PICK what \in {"sync", "shield"} : wasm' = Plugin!Call(wasm, what)
            BY <3>4 DEF PluginJoins
      <4>2. CASE wasm = <<>>
            BY <1>1, <3>1, <4>1, <4>2, QueueGrows
      <4>3. CASE wasm # <<>>
            BY <1>1, <3>1, <4>1, <4>3, QueueGrows
      <4> QED  BY <4>2, <4>3
    <3>5. CASE PluginLeaves
          BY <1>1, <3>1, <3>5, QueueShrinks DEF PluginLeaves
    <3>6. CASE PluginGoesOn
      <4>1. PICK queue : /\ Behind(queue)
                         /\ \/ wasm' = queue
                            \/ op'.at \in OpCalls /\ wasm' = Plugin!Call(queue, op'.at)
            BY <3>6 DEF PluginGoesOn
      <4>3. CASE wasm' = queue
            BY <1>1, <3>1, <4>1, <4>3, QueueShrinks DEF Behind
      <4>4. CASE op'.at \in OpCalls /\ wasm' = Plugin!Call(queue, op'.at)
        <5>1. PICK what \in OpCalls : what = op'.at
              BY <4>4
        <5> QED  BY <1>1, <3>1, <4>1, <4>4, <5>1, QueueGrows, QueueShrinks DEF OpCalls, Behind
      <4> QED  BY <4>1, <4>3, <4>4
    <3> QED  BY <1>10, <3>4, <3>5, <3>6
  <2> QED  BY <1>1, <1>10, <2>2 DEF PluginMine, PluginHeld, PluginQueue, Waiting, PluginJoins, PluginLeaves,
              PluginGoesOn
<1> QED  BY <1>3, <1>4, <1>5, <1>6, <1>7, <1>8, <1>9, <1>10, PluginSteps

\* What was prepared: it is reset with the instance, and no call before the broadcast reads the chain.
LEMMA PluginPreparedNext ==
    ASSUME PluginInv, PluginInv', PluginQueue, PluginMine, PluginPrepared, Plugin!Next
    PROVE  PluginPrepared'
<1> SUFFICES ASSUME op' # None, op'.at = "broadcast", op'.own, ~crossed'
             PROVE  /\ prepared' = [n |-> asked', of |-> selected', tree |-> tree']
                    /\ instance' # None
    BY DEF PluginPrepared, Stage
<1>2. op # None /\ op.at = "broadcast" /\ op.own /\ ~crossed =>
          prepared = [n |-> asked, of |-> selected, tree |-> tree] /\ instance # None
      BY DEF PluginPrepared, Stage
<1>3. ASSUME NEW h \in Holders, Plugin!SelectAccount(h)
      PROVE  prepared' = [n |-> asked', of |-> selected', tree |-> tree'] /\ instance' # None
      BY <1>2, <1>3 DEF Plugin!SelectAccount, Plugin!Kept, PluginMine
<1>4. ASSUME NEW open \in BOOLEAN, Plugin!KeystoreUpdates(open)
      PROVE  prepared' = [n |-> asked', of |-> selected', tree |-> tree'] /\ instance' # None
      BY <1>2, <1>4 DEF Plugin!KeystoreUpdates, Plugin!Kept
<1>5. CASE Plugin!HostMade \/ Plugin!PluginMade \/ Plugin!Initialised \/ Plugin!InitFails
  <2>1. UNCHANGED <<op, asked, tree, selected, crossed, prepared>>
        BY <1>5 DEF Plugin!HostMade, Plugin!PluginMade, Plugin!Initialised, Plugin!InitFails,
                    Plugin!Initialising, Plugin!syncing, Plugin!private
  <2> QED  BY <1>2, <1>5, <2>1, PluginAssumed DEF PluginMine, PluginInv, PluginSyncs, Plugin!HostMade,
              Plugin!PluginMade, Plugin!Initialised, Plugin!InitFails
<1>6. CASE PluginRests \/ PluginJoins
      BY <1>2, <1>6 DEF PluginRests, PluginJoins, PluginHeld
<1>7. CASE PluginLeaves
      BY <1>2, <1>7, EmptySeq, LenProperties, PluginAssumed DEF PluginLeaves, Syncless, PluginHeld,
         PluginQueue, Stage, PluginInv, PluginSyncs
<1>8. CASE PluginGoesOn
      BY <1>8 DEF PluginGoesOn, PluginHeld, PluginMine
<1> QED  BY <1>3, <1>4, <1>5, <1>6, <1>7, <1>8, PluginSteps

\* What is left of the budget.
LEMMA PluginCountsNext ==
    ASSUME PluginInv, PluginMine, PluginCounts, Plugin!Next
    PROVE  PluginCounts'
<1>2. ASSUME Plugin!Turn PROVE railLeft' \in [turns : Int, ops : Nat] /\ railLeft'.ops = railLeft.ops
  <2>1. PICK less \in Int : less = railLeft.turns - 1
        BY DEF PluginCounts
  <2> QED  BY <1>2, <2>1 DEF PluginCounts, Plugin!Turn
<1>3. CASE \/ \E h \in Holders : Plugin!SelectAccount(h)
           \/ \E open \in BOOLEAN : Plugin!KeystoreUpdates(open)
      BY <1>2, <1>3 DEF PluginCounts, Plugin!SelectAccount, Plugin!KeystoreUpdates, Plugin!Reset,
         Plugin!Kept
<1>4. CASE Plugin!HostMade \/ Plugin!PluginMade \/ Plugin!Initialised \/ Plugin!InitFails
      BY <1>4 DEF Plugin!HostMade, Plugin!PluginMade, Plugin!Initialised, Plugin!InitFails,
                  Plugin!Initialising, Plugin!syncing, Plugin!private, Plugin!shielding, PluginCounts
<1>5. CASE Plugin!Sync \/ Plugin!PrepareShield
      BY <1>2, <1>5 DEF PluginCounts, Plugin!Sync, Plugin!PrepareShield, Plugin!private, Plugin!shielding,
         Plugin!syncing
<1>6. CASE Plugin!Synced \/ Plugin!SyncSaved \/ Plugin!SyncFails
      BY <1>6 DEF Plugin!Synced, Plugin!SyncSaved, Plugin!SyncFails, Plugin!private, Plugin!shielding,
                  PluginCounts
<1>7. CASE Plugin!ShieldPrepared \/ Plugin!ShieldFails \/ Plugin!InitSignAccOp
           \/ Plugin!InitSignAccOpFails \/ Plugin!DestroySignAccountOp
  <2>1. UNCHANGED <<syncState, asked, railLeft>>
        BY <1>7 DEF Plugin!ShieldPrepared, Plugin!ShieldFails, Plugin!InitSignAccOp,
              Plugin!InitSignAccOpFails, Plugin!DestroySignAccountOp, Plugin!syncing, Plugin!private
  <2>2. making' \in Nat
        BY <1>7 DEF Plugin!ShieldPrepared, Plugin!ShieldFails, Plugin!InitSignAccOp,
              Plugin!InitSignAccOpFails, Plugin!DestroySignAccountOp, Plugin!shielding, PluginCounts
  <2>3. shieldOp' \in {None, selected, shieldOp}
        BY <1>7 DEF Plugin!ShieldPrepared, Plugin!ShieldFails, Plugin!InitSignAccOp,
              Plugin!InitSignAccOpFails, Plugin!DestroySignAccountOp, Plugin!shielding
  <2> QED  BY <2>1, <2>2, <2>3 DEF PluginCounts, PluginInv, PluginSyncs
<1>8. CASE Plugin!SubmitPrivateOp
      BY <1>8 DEF Plugin!SubmitPrivateOp, Plugin!syncing, Plugin!shielding, PluginCounts
<1>9. CASE \/ Plugin!Balanced \/ Plugin!BalanceFails \/ Plugin!Prepared
           \/ Plugin!PrepareFails \/ Plugin!BroadcastReturns \/ Plugin!BroadcastRejects
           \/ (\E moved \in BOOLEAN : Plugin!Confirm(moved)) \/ Plugin!ConfirmFails \/ Plugin!Recorded
           \/ Plugin!DestroyLatestBroadcastedAccountOp
  <2>1. UNCHANGED <<shieldOp, syncState, making, asked, railLeft>>
        BY <1>9 DEF Plugin!Balanced, Plugin!BalanceFails, Plugin!Prepared, Plugin!PrepareFails,
              Plugin!BroadcastReturns, Plugin!BroadcastRejects, Plugin!Confirm, Plugin!ConfirmFails,
              Plugin!Recorded, Plugin!DestroyLatestBroadcastedAccountOp, Plugin!syncing, Plugin!shielding
  <2> QED  BY <2>1 DEF PluginCounts
<1> QED  BY <1>3, <1>4, <1>5, <1>6, <1>7, <1>8, <1>9 DEF Plugin!Next

\* A step keeps all of it.
LEMMA PluginOwnNext ==
    ASSUME PluginInv, PluginInv', PluginOwn, [Plugin!Next]_pluginVars
    PROVE  PluginOwn'
<1>1. CASE Plugin!Next
      BY <1>1, PluginQueueNext, PluginMineNext, PluginPreparedNext, PluginCountsNext DEF PluginOwn
<1>2. CASE UNCHANGED pluginVars
      BY <1>2 DEF pluginVars, PluginOwn, PluginQueue, PluginMine, PluginPrepared, PluginCounts, Waiting,
                  OneOpCall, Syncless, Stage
<1> QED  BY <1>1, <1>2

-----------------------------------------------------------------------------
(* privacyPoolsV1.ts.  Every preparation draws a number of its own, and    *)
(* what was accepted by the broadcaster can no longer be asked for: it was *)
(* taken out of pendingUnshieldOperation, and no preparation has it.       *)

\* The numbers that can still be broadcast are each in one place and none was accepted.
Unsent(pending, drawing, job, sentOnes) ==
    /\ drawing \cap sentOnes = {}
    /\ pending # None => pending \notin drawing \cup sentOnes
    /\ job # None /\ job.at = "broadcast" => job.what \notin drawing \cup sentOnes

\* A withdrawal that was accepted is the latest, and being recorded it was given to the history.
Ends(job, last, given) ==
    /\ job # None /\ last # None => last.what = job.what
    /\ job # None /\ last # None => last.status = "Broadcasted"
    /\ job # None /\ job.at = "recording" => job.what \in given
    /\ last # None /\ last.status = "Success" => last.what \in given

Withdraws ==
    /\ callsDrawn \in Nat /\ preparations \subseteq 1..callsDrawn
    /\ pendingUnshield \in 1..callsDrawn \cup {None}
    /\ unshielding \in Unshielding \cup {None} /\ latestUnshield \in Withdrawn \cup {None}
    /\ unshielding # None => unshielding.what \in 1..callsDrawn
    /\ accepted \in Seq(Nat) /\ Range(accepted) \subseteq 1..callsDrawn
    /\ Unsent(pendingUnshield, preparations, unshielding, Range(accepted))
    /\ Ends(unshielding, latestUnshield, kept)
    /\ IsInjective(accepted)

NotesAreRead == notesState = "syncing" /\ ~syncThrew => readings # {}
DepositIsEstimated ==
    deposit \in [controller : BOOLEAN, loop : BOOLEAN] /\ deposit.loop = deposit.controller

PluginV1Inv == Withdraws /\ readings \subseteq Reading /\ NotesAreRead /\ DepositIsEstimated

\* It implies what the screens' runs check of this controller.
LEMMA PluginV1KeepsPromises ==
    ASSUME PluginV1Inv
    PROVE  PluginV1!WaitsEnd /\ PluginV1!SuccessIsRecorded
BY DEF PluginV1Inv, Withdraws, NotesAreRead, DepositIsEstimated, Ends,
        PluginV1!WaitsEnd, PluginV1!SuccessIsRecorded, IsInjective, PluginV1!IsInjective

\* It holds at first.
LEMMA PluginV1InvInit ==
    ASSUME PluginV1!Init
    PROVE  PluginV1Inv
<1>2. accepted \in Seq(Nat) /\ Range(accepted) = {} /\ IsInjective(accepted)
      BY DEF Range, IsInjective, PluginV1!Init, PluginV1!NoDeposit
<1> QED  BY <1>2 DEF PluginV1Inv, Withdraws, NotesAreRead, DepositIsEstimated, Unsent, Ends, PluginV1!Init,
            PluginV1!NoDeposit

\* What is appended and was not there leaves a sequence without repetition.
LEMMA AppendKeepsApart ==
    ASSUME NEW s \in Seq(Nat), NEW x \in Nat, NEW t, t = Append(s, x), IsInjective(s), x \notin Range(s)
    PROVE  t \in Seq(Nat) /\ IsInjective(t) /\ Range(t) = Range(s) \cup {x}
<1>1. /\ t \in Seq(Nat) /\ Len(t) = Len(s) + 1 /\ t[Len(s) + 1] = x
      /\ \A i \in 1..Len(s) : t[i] = s[i]
      BY AppendProperties
<1>2. /\ DOMAIN s = 1..Len(s) /\ DOMAIN t = 1..Len(t) /\ Len(s) \in Nat
      BY <1>1, LenProperties
<1>4. IsInjective(t)
      BY <1>1, <1>2 DEF IsInjective, Range
<1>5. Range(t) \subseteq Range(s) \cup {x}
      BY <1>1, <1>2 DEF Range
<1>6. Range(s) \cup {x} \subseteq Range(t)
  <2>2. ASSUME NEW y \in Range(s) PROVE y \in Range(t)
    <3>1. PICK i \in DOMAIN s : s[i] = y
          BY DEF Range
    <3> QED  BY <1>1, <1>2, <3>1 DEF Range
  <2> QED  BY <1>1, <1>2, <2>2 DEF Range
<1>7. Range(t) = Range(s) \cup {x}
      BY ONLY <1>5, <1>6
<1> QED  BY ONLY <1>1, <1>4, <1>7

\* A reading goes on, or a new one starts.
LEMMA ReadingGoesOn ==
    ASSUME readings \subseteq Reading, NEW r \in readings, NEW at \in {"notes", "saving"},
           PluginV1!GoesOn(r, at)
    PROVE  readings' \subseteq Reading /\ readings' # {}
<1> DEFINE next == [r EXCEPT !.at = at]
<1>2. next \in Reading
      BY DEF Reading
<1>3. readings' = (readings \ {r}) \cup {next}
      BY DEF PluginV1!GoesOn
<1> HIDE DEF next
<1> QED  BY <1>2, <1>3

\* A synchronisation starts with the balance.
LEMMA ReadingStarts ==
    ASSUME readings \subseteq Reading, NEW n \in Nat, PluginV1!Reads(n)
    PROVE  readings' \subseteq Reading /\ readings' # {}
<1> DEFINE next == [n |-> n, at |-> "balance"]
<1>1. next \in Reading
      BY DEF Reading
<1>2. readings' = readings \cup {next}
      BY DEF PluginV1!Reads
<1> HIDE DEF next
<1> QED  BY <1>1, <1>2

\* The notes: of every step.
LEMMA NotesAreReadNext ==
    ASSUME PluginV1Inv, [PluginV1!Next]_pluginV1Vars
    PROVE  readings' \subseteq Reading /\ NotesAreRead'
<1> USE DEF NotesAreRead
<1>0. readings \subseteq Reading /\ callsDrawn \in Nat
      BY DEF PluginV1Inv, Withdraws
<1>1. CASE UNCHANGED <<notesState, readings, syncThrew>>
      BY <1>1 DEF PluginV1Inv
<1>2. CASE PluginV1!StartInit
      BY <1>2 DEF PluginV1!StartInit, PluginV1Inv
<1>3. CASE PluginV1!Sync
      BY <1>0, <1>3, ReadingStarts DEF PluginV1!Sync, PluginV1!Turn
<1>4. CASE PluginV1!Broadcasted
  <2>1. CASE PluginV1!MaySync
        BY <1>0, <1>4, <2>1, ReadingStarts DEF PluginV1!Broadcasted
  <2>2. CASE ~PluginV1!MaySync
        BY <1>1, <1>4, <2>2 DEF PluginV1!Broadcasted, PluginV1!syncVars
  <2> QED  BY <2>1, <2>2
<1>5. CASE \E r \in readings : PluginV1!ReadsNotes(r)
  <2>1. PICK r \in readings : PluginV1!GoesOn(r, "notes")
        BY <1>5 DEF PluginV1!ReadsNotes
  <2> QED  BY <1>0, <2>1, ReadingGoesOn
<1>6. CASE \E r \in readings : PluginV1!Saves(r)
  <2>1. PICK r \in readings : PluginV1!GoesOn(r, "saving")
        BY <1>6 DEF PluginV1!Saves
  <2> QED  BY <1>0, <2>1, ReadingGoesOn
<1>7. CASE \E r \in readings : PluginV1!Synced(r)
      BY <1>0, <1>7 DEF PluginV1!Synced
<1>8. CASE \E r \in readings : PluginV1!SyncThrows(r)
      BY <1>0, <1>8 DEF PluginV1!SyncThrows
<1>9. ASSUME PluginV1!Next PROVE
        \/ UNCHANGED <<notesState, readings, syncThrew>>
        \/ PluginV1!StartInit \/ PluginV1!Sync \/ PluginV1!Broadcasted
        \/ \E r \in readings : PluginV1!ReadsNotes(r)
        \/ \E r \in readings : PluginV1!Saves(r)
        \/ \E r \in readings : PluginV1!Synced(r)
        \/ \E r \in readings : PluginV1!SyncThrows(r)
  <2> USE DEF PluginV1!syncVars, PluginV1!InitElse, PluginV1!UnshieldElse, PluginV1!DepositElse
  <2>1. CASE \E i \in initialising : \/ PluginV1!Initialised(i) \/ PluginV1!InitReturns(i)
                                     \/ PluginV1!InitFails(i)
        BY <2>1 DEF PluginV1!Initialised, PluginV1!InitReturns, PluginV1!InitFails
  <2>2. CASE \/ PluginV1!PrepareUnshield
             \/ \E n \in preparations : PluginV1!UnshieldPrepared(n) \/ PluginV1!PrepareFails(n)
        BY <2>2 DEF PluginV1!PrepareUnshield, PluginV1!UnshieldPrepared, PluginV1!PrepareFails
  <2>3. CASE \/ PluginV1!Unshield \/ PluginV1!BroadcastFails \/ PluginV1!Recorded
             \/ PluginV1!DestroyLatestBroadcastedAccountOp
        BY <2>3 DEF PluginV1!Unshield, PluginV1!BroadcastFails, PluginV1!Recorded,
           PluginV1!DestroyLatestBroadcastedAccountOp
  <2>4. CASE \/ PluginV1!PrepareShield \/ PluginV1!DestroySignAccountOp
             \/ \E d \in deposits : \/ PluginV1!SyncSignAccountOp(d) \/ PluginV1!InitSignAccOp(d)
                                    \/ PluginV1!DepositFails(d)
        BY <2>4 DEF PluginV1!PrepareShield, PluginV1!DestroySignAccountOp,
           PluginV1!SyncSignAccountOp, PluginV1!InitSignAccOp, PluginV1!DepositFails
  <2> QED  BY <1>9, <2>1, <2>2, <2>3, <2>4 DEF PluginV1!Next, PluginV1!SelectedAccountUpdates,
              PluginV1!UnlockedKeystoreUpdates
<1>10. CASE UNCHANGED pluginV1Vars
       BY <1>1, <1>10 DEF pluginV1Vars
<1> QED  BY <1>1, <1>2, <1>3, <1>4, <1>5, <1>6, <1>7, <1>8, <1>9, <1>10

\* The deposit: of every step.
LEMMA DepositIsEstimatedNext ==
    ASSUME PluginV1Inv, [PluginV1!Next]_pluginV1Vars
    PROVE  DepositIsEstimated'
<1> USE DEF DepositIsEstimated
<1>1. CASE UNCHANGED deposit
      BY <1>1 DEF PluginV1Inv
<1>2. CASE deposit' = PluginV1!NoDeposit \/ deposit' = [controller |-> TRUE, loop |-> TRUE]
  <2>1. PICK there \in BOOLEAN : deposit' = [controller |-> there, loop |-> there]
        BY <1>2 DEF PluginV1!NoDeposit
  <2> QED  BY ONLY <2>1 DEF DepositIsEstimated
<1>3. ASSUME PluginV1!Next PROVE \/ UNCHANGED deposit \/ deposit' = PluginV1!NoDeposit
                                 \/ deposit' = [controller |-> TRUE, loop |-> TRUE]
  <2> USE DEF PluginV1!depositVars, PluginV1!InitElse, PluginV1!UnshieldElse
  <2>1. CASE \E i \in initialising : \/ PluginV1!Initialised(i) \/ PluginV1!InitReturns(i)
                                     \/ PluginV1!InitFails(i)
        BY <2>1 DEF PluginV1!Initialised, PluginV1!InitReturns, PluginV1!InitFails
  <2>2. CASE \/ PluginV1!PrepareUnshield
             \/ \E n \in preparations : PluginV1!UnshieldPrepared(n) \/ PluginV1!PrepareFails(n)
        BY <2>2 DEF PluginV1!PrepareUnshield, PluginV1!UnshieldPrepared, PluginV1!PrepareFails
  <2>3. CASE \/ PluginV1!Unshield \/ PluginV1!BroadcastFails \/ PluginV1!Recorded
             \/ PluginV1!Broadcasted \/ PluginV1!DestroyLatestBroadcastedAccountOp
        BY <2>3 DEF PluginV1!Unshield, PluginV1!BroadcastFails, PluginV1!Recorded,
           PluginV1!Broadcasted, PluginV1!DestroyLatestBroadcastedAccountOp
  <2>4. CASE \/ PluginV1!PrepareShield \/ PluginV1!DestroySignAccountOp
             \/ \E d \in deposits : \/ PluginV1!SyncSignAccountOp(d) \/ PluginV1!InitSignAccOp(d)
                                    \/ PluginV1!DepositFails(d)
        BY <2>4 DEF PluginV1!PrepareShield, PluginV1!DestroySignAccountOp,
           PluginV1!SyncSignAccountOp, PluginV1!InitSignAccOp, PluginV1!DepositFails
  <2>5. CASE PluginV1!StartInit
        BY <2>5 DEF PluginV1!StartInit
  <2>6. CASE \/ PluginV1!Sync
             \/ \E r \in readings : \/ PluginV1!ReadsNotes(r) \/ PluginV1!Saves(r)
                                    \/ PluginV1!Synced(r) \/ PluginV1!SyncThrows(r)
        BY <2>6 DEF PluginV1!Sync, PluginV1!ReadsNotes, PluginV1!Saves, PluginV1!Synced,
           PluginV1!SyncThrows
  <2> QED  BY <1>3, <2>1, <2>2, <2>3, <2>4, <2>5, <2>6 DEF PluginV1!Next,
              PluginV1!SelectedAccountUpdates, PluginV1!UnlockedKeystoreUpdates
<1>4. CASE UNCHANGED pluginV1Vars
      BY <1>1, <1>4 DEF pluginV1Vars
<1> QED  BY <1>1, <1>2, <1>3, <1>4

\* A withdrawal that was not accepted is given up.
LEMMA WithdrawalFails ==
    ASSUME Withdraws, PluginV1!UnshieldFailed,
           UNCHANGED <<callsDrawn, preparations, pendingUnshield, accepted, kept>>
    PROVE  Withdraws'
<1> QED  BY DEF Withdraws, Unsent, Ends, Withdrawn, PluginV1!UnshieldFailed

\* It is recorded: the history has it from now on.
LEMMA WithdrawalIsGiven ==
    ASSUME Withdraws, unshielding # None, PluginV1!Record(unshielding.what),
           UNCHANGED <<callsDrawn, preparations, pendingUnshield, accepted, latestUnshield>>
    PROVE  Withdraws'
<1> DEFINE next == [unshielding EXCEPT !.at = "recording"]
<1>1. unshielding' = next /\ kept' = kept \cup {unshielding.what}
      BY DEF PluginV1!Record
<1>3. next \in Unshielding /\ next.what = unshielding.what /\ next.at = "recording"
      BY DEF Unshielding, Withdraws
<1> HIDE DEF next
<1> QED  BY <1>1, <1>3 DEF Withdraws, Unsent, Ends

\* It is accepted: nothing can ask for it again.
LEMMA WithdrawalIsAccepted ==
    ASSUME Withdraws, unshielding # None, unshielding.at = "broadcast", callsDrawn' \in Nat,
           callsDrawn' >= callsDrawn, pendingUnshield' = None,
           accepted' = Append(accepted, unshielding.what), unshielding' \in Unshielding,
           unshielding'.what = unshielding.what, unshielding'.at # "broadcast",
           kept \subseteq kept', unshielding'.at = "recording" => unshielding.what \in kept',
           UNCHANGED <<preparations, latestUnshield>>
    PROVE  Withdraws'
<1>1. /\ unshielding.what \in Nat /\ unshielding.what \in 1..callsDrawn
      /\ unshielding.what \notin preparations \cup Range(accepted) /\ callsDrawn \in Nat
      BY DEF Withdraws, Unsent
<1>2. /\ accepted' \in Seq(Nat) /\ IsInjective(accepted')
      /\ Range(accepted') = Range(accepted) \cup {unshielding.what}
      BY <1>1, AppendKeepsApart DEF Withdraws
<1>6. Range(accepted)' = Range(accepted')
      BY DEF Range
<1> QED  BY <1>1, <1>2, <1>6 DEF Withdraws, Unsent, Ends

\* The withdrawals: of every step.
LEMMA WithdrawsNext ==
    ASSUME PluginV1Inv, [PluginV1!Next]_pluginV1Vars
    PROVE  Withdraws'
<1>0. Withdraws /\ readings \subseteq Reading /\ None \notin Unshielding \cup Withdrawn \cup Nat
      BY ScreensAssumption DEF PluginV1Inv
<1>1. ASSUME UNCHANGED <<preparations, pendingUnshield, unshielding, latestUnshield, accepted, kept>>,
             \/ callsDrawn' = callsDrawn
             \/ callsDrawn' = callsDrawn + 1
      PROVE  Withdraws'
  <2>1. callsDrawn' \in Nat /\ 1..callsDrawn \subseteq 1..callsDrawn'
        BY <1>0, <1>1 DEF Withdraws
  <2> QED  BY <1>0, <1>1, <2>1 DEF Withdraws
<1>2. CASE PluginV1!StartInit
  <2>1. /\ callsDrawn' = callsDrawn + 1 /\ pendingUnshield' = None
        /\ UNCHANGED <<preparations, unshielding, latestUnshield, accepted, kept>>
        BY <1>2 DEF PluginV1!StartInit, PluginV1!Turn
  <2>2. callsDrawn' \in Nat /\ 1..callsDrawn \subseteq 1..callsDrawn'
        BY <1>0, <2>1 DEF Withdraws
  <2> QED  BY <1>0, <2>1, <2>2 DEF Withdraws, Unsent
<1>3. CASE PluginV1!PrepareUnshield
  <2>1. /\ callsDrawn' = callsDrawn + 1 /\ preparations' = preparations \cup {callsDrawn + 1}
        /\ UNCHANGED <<pendingUnshield, unshielding, latestUnshield, accepted, kept>>
        BY <1>3 DEF PluginV1!PrepareUnshield, PluginV1!Turn
  <2>2. /\ callsDrawn' \in Nat /\ 1..callsDrawn \subseteq 1..callsDrawn'
        /\ callsDrawn + 1 \notin 1..callsDrawn /\ callsDrawn + 1 \in 1..callsDrawn'
        BY <1>0, <2>1 DEF Withdraws
  <2>3. Unsent(pendingUnshield', preparations', unshielding', Range(accepted))
        BY <1>0, <2>1, <2>2 DEF Withdraws, Unsent
  <2> QED  BY <1>0, <2>1, <2>2, <2>3 DEF Withdraws
<1>4. ASSUME NEW n \in preparations, PluginV1!UnshieldPrepared(n) PROVE Withdraws'
  <2>1. /\ preparations' = preparations \ {n} /\ pendingUnshield' = n
        /\ UNCHANGED <<callsDrawn, unshielding, latestUnshield, accepted, kept>>
        BY <1>4 DEF PluginV1!UnshieldPrepared, PluginV1!NoTurn
  <2> QED  BY <1>0, <2>1 DEF Withdraws, Unsent
<1>5. ASSUME NEW n \in preparations, PluginV1!PrepareFails(n) PROVE Withdraws'
  <2>1. /\ preparations' = preparations \ {n}
        /\ UNCHANGED <<callsDrawn, pendingUnshield, unshielding, latestUnshield, accepted, kept>>
        BY <1>5 DEF PluginV1!PrepareFails, PluginV1!NoTurn
  <2> QED  BY <1>0, <2>1 DEF Withdraws, Unsent
<1>6. CASE PluginV1!Unshield
  <2> DEFINE last == [what |-> pendingUnshield, status |-> "Broadcasted"]
             next == [at |-> "broadcast", what |-> pendingUnshield, sync |-> 0]
  <2>1. /\ unshielding = None /\ pendingUnshield # None /\ latestUnshield' = last
        /\ unshielding' = next
        /\ UNCHANGED <<callsDrawn, pendingUnshield, preparations, accepted, kept>>
        BY <1>6 DEF PluginV1!Unshield, PluginV1!NoTurn
  <2>2. pendingUnshield \in Nat /\ pendingUnshield \in 1..callsDrawn
        BY <1>0, <2>1 DEF Withdraws
  <2>3. /\ last \in Withdrawn /\ next \in Unshielding /\ next.at = "broadcast"
        /\ next.what = pendingUnshield /\ last.what = pendingUnshield
        /\ last.status = "Broadcasted"
        BY <2>2 DEF Withdrawn, Unshielding
  <2> HIDE DEF last, next
  <2>4. Ends(unshielding', latestUnshield', kept') 
        BY <2>1, <2>3 DEF Ends
  <2>5. Unsent(pendingUnshield', preparations', unshielding', Range(accepted))
        BY <1>0, <2>1, <2>3 DEF Withdraws, Unsent
  <2> QED  BY <1>0, <2>1, <2>2, <2>3, <2>4, <2>5 DEF Withdraws
<1>7. CASE PluginV1!Broadcasted
  <2>0. /\ unshielding # None /\ unshielding.at = "broadcast" /\ unshielding \in Unshielding
        /\ pendingUnshield' = None /\ accepted' = Append(accepted, unshielding.what)
        /\ callsDrawn \in Nat /\ UNCHANGED <<preparations, latestUnshield>>
        BY <1>0, <1>7 DEF PluginV1!Broadcasted, PluginV1!AfterBroadcast, Withdraws
  <2>1. CASE PluginV1!MaySync
    <3>0. PICK n \in Nat : n = callsDrawn + 1
          BY <2>0
    <3> DEFINE next == [unshielding EXCEPT !.at = "sync", !.sync = n]
    <3>1. callsDrawn' = n /\ unshielding' = next /\ kept' = kept
          BY <1>7, <2>1, <3>0 DEF PluginV1!Broadcasted
    <3>2. next \in Unshielding
          BY <2>0 DEF Unshielding
    <3>3. next.what = unshielding.what /\ next.at = "sync"
          BY <2>0 DEF Unshielding
    <3> HIDE DEF next
    <3>4. callsDrawn' \in Nat /\ callsDrawn' >= callsDrawn
          BY <2>0, <3>0, <3>1
    <3>5. /\ unshielding' \in Unshielding /\ unshielding'.what = unshielding.what
          /\ unshielding'.at # "broadcast" /\ unshielding'.at # "recording"
          BY <3>1, <3>2, <3>3
    <3> QED  BY <1>0, <2>0, <3>1, <3>4, <3>5, WithdrawalIsAccepted
  <2>2. CASE ~PluginV1!MaySync
    <3> DEFINE next == [unshielding EXCEPT !.at = "recording"]
    <3>1. /\ callsDrawn' = callsDrawn /\ unshielding' = next
          /\ kept' = kept \cup {unshielding.what}
          BY <1>7, <2>2 DEF PluginV1!Broadcasted, PluginV1!Record, PluginV1!NoTurn
    <3>2. next \in Unshielding /\ next.what = unshielding.what /\ next.at = "recording"
          BY <2>0 DEF Unshielding
    <3> HIDE DEF next
    <3>4. callsDrawn' \in Nat /\ callsDrawn' >= callsDrawn
          BY <2>0, <3>1
    <3>5. /\ unshielding' \in Unshielding /\ unshielding'.what = unshielding.what
          /\ unshielding'.at # "broadcast" /\ unshielding.what \in kept' /\ kept \subseteq kept'
          BY <3>1, <3>2
    <3> QED  BY <1>0, <2>0, <3>4, <3>5, WithdrawalIsAccepted
  <2> QED  BY <2>1, <2>2
<1>8. CASE PluginV1!BroadcastFails
      BY <1>0, <1>8, WithdrawalFails DEF PluginV1!BroadcastFails, PluginV1!NoTurn
<1>9. CASE PluginV1!Recorded
  <2>1. /\ unshielding # None /\ unshielding.at = "recording" /\ unshielding' = None
        /\ latestUnshield' = IF latestUnshield = None THEN None
                             ELSE [latestUnshield EXCEPT !.status = "Success"]
        /\ UNCHANGED <<callsDrawn, pendingUnshield, preparations, accepted, kept>>
        BY <1>9 DEF PluginV1!Recorded, PluginV1!NoTurn
  <2>2. latestUnshield # None =>
            latestUnshield' = [what |-> latestUnshield.what, status |-> "Success"]
        BY <1>0, <2>1 DEF Withdraws, Withdrawn
  <2>3. latestUnshield' \in Withdrawn \cup {None}
        BY <1>0, <2>1, <2>2 DEF Withdraws, Withdrawn
  <2>4. latestUnshield' # None => latestUnshield'.what \in kept
        BY <1>0, <2>1, <2>2 DEF Withdraws, Ends
  <2> QED  BY <1>0, <2>1, <2>3, <2>4 DEF Withdraws, Unsent, Ends
<1>10. CASE PluginV1!DestroyLatestBroadcastedAccountOp
       BY <1>0, <1>10 DEF PluginV1!DestroyLatestBroadcastedAccountOp, PluginV1!NoTurn, Withdraws,
          Unsent, Ends
<1>11. ASSUME NEW r \in readings, PluginV1!Synced(r) PROVE Withdraws'
  <2>0. UNCHANGED <<callsDrawn, pendingUnshield, preparations, latestUnshield, accepted>>
        BY <1>11 DEF PluginV1!Synced, PluginV1!NoTurn
  <2>1. CASE PluginV1!Awaits(r)
    <3>1. unshielding # None /\ PluginV1!Record(unshielding.what)
          BY <1>11, <2>1 DEF PluginV1!Synced, PluginV1!Awaits
    <3> QED  BY <1>0, <2>0, <3>1, WithdrawalIsGiven
  <2>2. CASE ~PluginV1!Awaits(r)
        BY <1>1, <1>11, <2>0, <2>2 DEF PluginV1!Synced
  <2> QED  BY <2>1, <2>2
<1>12. ASSUME NEW r \in readings, PluginV1!SyncThrows(r) PROVE Withdraws'
  <2>0. UNCHANGED <<callsDrawn, pendingUnshield, preparations, accepted, kept>>
        BY <1>12 DEF PluginV1!SyncThrows, PluginV1!NoTurn
  <2>1. CASE PluginV1!Awaits(r)
    <3>1. PluginV1!UnshieldFailed
          BY <1>12, <2>1 DEF PluginV1!SyncThrows
    <3> QED  BY <1>0, <2>0, <3>1, WithdrawalFails
  <2>2. CASE ~PluginV1!Awaits(r)
        BY <1>1, <1>12, <2>0, <2>2 DEF PluginV1!SyncThrows
  <2> QED  BY <2>1, <2>2
<1>13. CASE PluginV1!Next
  <2> USE DEF PluginV1!unshieldVars, PluginV1!InitElse, PluginV1!DepositElse, PluginV1!NoTurn,
      PluginV1!Turn
  <2>1. CASE \E i \in initialising : \/ PluginV1!Initialised(i) \/ PluginV1!InitReturns(i)
                                     \/ PluginV1!InitFails(i)
        BY <1>1, <2>1 DEF PluginV1!Initialised, PluginV1!InitReturns, PluginV1!InitFails
  <2>2. CASE \/ PluginV1!PrepareShield \/ PluginV1!DestroySignAccountOp
             \/ \E d \in deposits : \/ PluginV1!SyncSignAccountOp(d) \/ PluginV1!InitSignAccOp(d)
                                    \/ PluginV1!DepositFails(d)
        BY <1>1, <2>2 DEF PluginV1!PrepareShield, PluginV1!DestroySignAccountOp,
           PluginV1!SyncSignAccountOp, PluginV1!InitSignAccOp, PluginV1!DepositFails
  <2>3. CASE \/ PluginV1!Sync
             \/ \E r \in readings : PluginV1!ReadsNotes(r) \/ PluginV1!Saves(r)
        BY <1>1, <2>3 DEF PluginV1!Sync, PluginV1!ReadsNotes, PluginV1!Saves
  <2> QED  BY <1>2, <1>3, <1>4, <1>5, <1>6, <1>7, <1>8, <1>9, <1>10, <1>11, <1>12, <1>13,
              <2>1, <2>2, <2>3 DEF PluginV1!Next, PluginV1!SelectedAccountUpdates,
              PluginV1!UnlockedKeystoreUpdates
<1>14. CASE UNCHANGED pluginV1Vars
       BY <1>1, <1>14 DEF pluginV1Vars
<1> QED  BY <1>13, <1>14

\* Every step keeps the invariant of the plugin.
LEMMA PluginV1InvNext ==
    ASSUME PluginV1Inv, [PluginV1!Next]_pluginV1Vars
    PROVE  PluginV1Inv'
BY NotesAreReadNext, DepositIsEstimatedNext, WithdrawsNext DEF PluginV1Inv

\* Initialisations are numbered by the calls that were drawn.
V1Types ==
    /\ notesState \in {"unsynced", "syncing", "synced"} /\ callsDrawn \in Nat
    /\ initialising \subseteq 1..callsDrawn

\* At first none was drawn.
LEMMA V1TypesInit == ASSUME PluginV1!Init PROVE V1Types
BY DEF PluginV1!Init, V1Types

\* A call draws the next number.
LEMMA V1TypesNext == ASSUME V1Types, [PluginV1!Next]_pluginV1Vars PROVE V1Types'
<1> USE DEF PluginV1!Turn, PluginV1!NoTurn, PluginV1!InitElse, PluginV1!UnshieldElse, PluginV1!DepositElse,
            PluginV1!initVars, PluginV1!syncVars, PluginV1!Reads
<1>1. ASSUME PluginV1!StartInit PROVE V1Types'
      BY <1>1 DEF PluginV1!StartInit, V1Types
<1>2. ASSUME callsDrawn' \in {callsDrawn, callsDrawn + 1}, initialising' \subseteq initialising,
             notesState' \in {notesState, "syncing", "synced"}
      PROVE  V1Types'
      BY <1>2 DEF V1Types
<1>3. ASSUME NEW i \in initialising, PluginV1!Initialised(i) \/ PluginV1!InitReturns(i) \/ PluginV1!InitFails(i)
      PROVE  V1Types'
      BY <1>2, <1>3 DEF PluginV1!Initialised, PluginV1!InitReturns, PluginV1!InitFails
<1>4. ASSUME NEW r \in readings, PluginV1!ReadsNotes(r) \/ PluginV1!Saves(r) \/ PluginV1!Synced(r) \/ PluginV1!SyncThrows(r)
      PROVE  V1Types'
      BY <1>2, <1>4 DEF PluginV1!ReadsNotes, PluginV1!Saves, PluginV1!Synced, PluginV1!SyncThrows
<1>5. ASSUME PluginV1!Sync \/ PluginV1!PrepareUnshield \/ PluginV1!PrepareShield PROVE V1Types'
      BY <1>2, <1>5 DEF PluginV1!Sync, PluginV1!PrepareUnshield, PluginV1!PrepareShield
<1>6. ASSUME NEW n \in preparations, PluginV1!UnshieldPrepared(n) \/ PluginV1!PrepareFails(n) PROVE V1Types'
      BY <1>2, <1>6 DEF PluginV1!UnshieldPrepared, PluginV1!PrepareFails
<1>7. ASSUME PluginV1!Broadcasted PROVE V1Types'
      BY <1>2, <1>7 DEF PluginV1!Broadcasted
<1>8. ASSUME \/ PluginV1!Unshield \/ PluginV1!BroadcastFails \/ PluginV1!Recorded
             \/ PluginV1!DestroyLatestBroadcastedAccountOp \/ PluginV1!DestroySignAccountOp
      PROVE  V1Types'
      BY <1>2, <1>8 DEF PluginV1!Unshield, PluginV1!BroadcastFails, PluginV1!Recorded,
                        PluginV1!DestroyLatestBroadcastedAccountOp, PluginV1!DestroySignAccountOp
<1>9. ASSUME NEW d \in deposits, \/ PluginV1!SyncSignAccountOp(d) \/ PluginV1!InitSignAccOp(d)
                                 \/ PluginV1!DepositFails(d)
      PROVE  V1Types'
      BY <1>2, <1>9 DEF PluginV1!SyncSignAccountOp, PluginV1!InitSignAccOp, PluginV1!DepositFails
<1>10. ASSUME UNCHANGED pluginV1Vars PROVE V1Types'
      BY <1>2, <1>10 DEF pluginV1Vars
<1> QED  BY <1>1, <1>3, <1>4, <1>5, <1>6, <1>7, <1>8, <1>9, <1>10
         DEF PluginV1!Next, PluginV1!SelectedAccountUpdates, PluginV1!UnlockedKeystoreUpdates

\* The types that the module states.
LEMMA PluginV1TypeOK == ASSUME PluginV1Inv, V1Types PROVE PluginV1!TypeOK
<1>2. IsFiniteSet(1..callsDrawn) /\ Cardinality(1..callsDrawn) = callsDrawn
      BY FirstNumbers DEF V1Types
<1>3. Cardinality(initialising) <= callsDrawn
      BY <1>2, FS_Subset DEF V1Types
<1> QED  BY <1>3 DEF PluginV1!TypeOK, V1Types, PluginV1Inv, Withdraws, PluginV1!Cardinality, Cardinality
-----------------------------------------------------------------------------
(* EmailConfirmation *)

Stages == {"ask", "link", "poll", "keep", "info", "fetch", "infoEnd", "session", "upload", "secret",
           "send", "sent", "sync", "fulfil"}
Flow == [wrapped : BOOLEAN, todo : Seq(Stages), fn : Seq(Stages)]
\* The method f once its present step is done, which other steps took the place of.
After(f, stages, fn) == [wrapped |-> f.wrapped, todo |-> stages \o Tail(f.todo), fn |-> fn]
\* This method has to end an upload.
Uploads(f) == \E i \in 1..Len(f.todo) : f.todo[i] \in {"send", "sent"}

\* As long as no method threw, a confirmation is waited for by a method that polls or is about to,
\* and an upload goes on in a method that will end it.
MailInv ==
    /\ \A f \in flows : f \in Flow /\ f.todo # <<>>
    /\ isWaiting /\ ~threw => \E f \in flows : f.todo[1] \in {"link", "poll"}
    /\ isUploading /\ ~threw => \E f \in flows : Uploads(f)

\* Without methods nothing is waited for.
LEMMA MailIsReady == ASSUME MailInv PROVE Mail!QuietVaultIsReady
BY DEF MailInv, Mail!QuietVaultIsReady

\* At first nothing is waited for.
LEMMA MailInvInit == ASSUME Mail!Init PROVE MailInv
BY DEF Mail!Init, MailInv

\* Turned is After.
LEMMA TurnedIsAfter ==
    ASSUME NEW f \in Flow, NEW stages, NEW fn
    PROVE  /\ Mail!Turned(f, stages) = After(f, stages, f.fn)
           /\ [Mail!Turned(f, stages) EXCEPT !.fn = fn] = After(f, stages, fn)
<1> DEFINE todo == stages \o Tail(f.todo)
<1> HIDE DEF todo
<1>2. [f EXCEPT !.todo = todo] = [wrapped |-> f.wrapped, todo |-> todo, fn |-> f.fn]
      BY DEF Flow
<1>3. [[wrapped |-> f.wrapped, todo |-> todo, fn |-> f.fn] EXCEPT !.fn = fn]
        = [wrapped |-> f.wrapped, todo |-> todo, fn |-> fn]
      OBVIOUS
<1> QED  BY <1>2, <1>3 DEF Mail!Turned, After, todo

\* What a method still has to do after its present step, it has to do after it.
LEMMA AfterKeeps ==
    ASSUME NEW f \in Flow, f.todo # <<>>, NEW stages \in Seq(Stages), NEW fn \in Seq(Stages)
    PROVE  /\ After(f, stages, fn) \in Flow
           /\ stages # <<>> => /\ After(f, stages, fn).todo # <<>>
                               /\ After(f, stages, fn).todo[1] = stages[1]
           /\ \A i \in 1..Len(stages) : stages[i] \in {"send", "sent"} => Uploads(After(f, stages, fn))
           /\ f.todo[1] \notin {"send", "sent"} /\ Uploads(f) => Uploads(After(f, stages, fn))
           /\ Uploads(After(f, stages, fn)) => After(f, stages, fn).todo # <<>>
<1> DEFINE rest == Tail(f.todo)
           todo == stages \o rest
           new == After(f, stages, fn)
<1>1. f.todo \in Seq(Stages) /\ f.wrapped \in BOOLEAN
      BY DEF Flow
<1>2. rest \in Seq(Stages) /\ Len(rest) = Len(f.todo) - 1 /\ Len(f.todo) \in Nat \ {0}
      BY <1>1, EmptySeq, HeadTailProperties
<1>3. todo \in Seq(Stages) /\ Len(todo) = Len(stages) + Len(rest) /\ Len(stages) \in Nat
      BY <1>2
<1>4. new = [wrapped |-> f.wrapped, todo |-> todo, fn |-> fn]
      BY DEF After
<1>5. new \in Flow /\ new.todo = todo
      BY <1>1, <1>3, <1>4 DEF Flow
<1>6. stages # <<>> => todo # <<>> /\ todo[1] = stages[1]
      BY <1>2, <1>3
<1>7. \A i \in 1..Len(stages) : i \in 1..Len(todo) /\ todo[i] = stages[i]
      BY <1>2, <1>3
<1>8. ASSUME f.todo[1] \notin {"send", "sent"}, NEW i \in 1..Len(f.todo), f.todo[i] \in {"send", "sent"}
      PROVE  \E k \in 1..Len(todo) : todo[k] \in {"send", "sent"}
  <2>1. i \in 2..Len(f.todo) /\ rest[i - 1] = f.todo[i]
        BY <1>1, <1>2, <1>8
  <2>2. Len(stages) + i - 1 \in 1..Len(todo) /\ todo[Len(stages) + i - 1] = rest[i - 1]
        BY <1>2, <1>3, <2>1
  <2> QED  BY <1>8, <2>1, <2>2
<1>9. todo = <<>> => 1..Len(todo) = {}
      BY <1>3
<1> HIDE DEF todo, new
<1>10. Uploads(new) <=> \E k \in 1..Len(todo) : todo[k] \in {"send", "sent"}
      BY <1>5 DEF Uploads
<1>11. Uploads(f) <=> \E k \in 1..Len(f.todo) : f.todo[k] \in {"send", "sent"}
      BY DEF Uploads
<1>12. Uploads(new) => new.todo # <<>>
      BY <1>5, <1>9, <1>10
<1>13. \A i \in 1..Len(stages) : stages[i] \in {"send", "sent"} => Uploads(new)
      BY <1>7, <1>10
<1>14. f.todo[1] \notin {"send", "sent"} /\ Uploads(f) => Uploads(new)
      BY <1>8, <1>10, <1>11
<1> QED  BY <1>5, <1>6, <1>12, <1>13, <1>14 DEF new

\* A method takes a step that leaves what is waited for to itself or to the others.
LEMMA MailGoesOn ==
    ASSUME MailInv, NEW f \in flows, NEW stages \in Seq(Stages), NEW fn \in Seq(Stages),
           flows' = (flows \ {f}) \cup Mail!Live({After(f, stages, fn)}),
           isWaiting' => \/ isWaiting /\ f.todo[1] \notin {"link", "poll"}
                         \/ stages # <<>> /\ stages[1] \in {"link", "poll"},
           isUploading' => \/ isUploading /\ f.todo[1] \notin {"send", "sent"}
                           \/ \E i \in 1..Len(stages) : stages[i] \in {"send", "sent"},
           threw' = threw
    PROVE  MailInv'
<1> DEFINE new == After(f, stages, fn)
<1>2. /\ new \in Flow
      /\ stages # <<>> => new.todo # <<>> /\ new.todo[1] = stages[1]
      /\ \A i \in 1..Len(stages) : stages[i] \in {"send", "sent"} => Uploads(new)
      /\ f.todo[1] \notin {"send", "sent"} /\ Uploads(f) => Uploads(new)
      /\ Uploads(new) => new.todo # <<>>
      BY AfterKeeps DEF MailInv
<1> HIDE DEF new
<1>3. flows' = (flows \ {f}) \cup (IF new.todo # <<>> THEN {new} ELSE {})
      BY DEF Mail!Live, new
<1>5. ASSUME isWaiting', ~threw' PROVE \E g \in flows' : g.todo[1] \in {"link", "poll"}
      BY <1>2, <1>3, <1>5 DEF MailInv
<1>6. ASSUME isUploading', ~threw' PROVE \E g \in flows' : Uploads(g)
      BY <1>2, <1>3, <1>6 DEF MailInv
<1> QED  BY <1>2, <1>3, <1>5, <1>6 DEF MailInv

\* What Goes does.
LEMMA MailGoes ==
    ASSUME MailInv, NEW f \in flows, NEW stages \in Seq(Stages), Mail!Goes(f, stages)
    PROVE  f.fn \in Seq(Stages) /\ flows' = (flows \ {f}) \cup Mail!Live({After(f, stages, f.fn)})
<1> QED  BY TurnedIsAfter DEF Mail!Live, MailInv, Flow, Mail!Goes

\* What Asks does.
LEMMA MailAsks ==
    ASSUME MailInv, NEW f \in flows, NEW stages \in Seq(Stages), NEW fn \in Seq(Stages),
           Mail!Asks(f, fn, stages)
    PROVE  /\ <<"ask">> \o stages \in Seq(Stages)
           /\ flows' = (flows \ {f}) \cup Mail!Live({After(f, <<"ask">> \o stages, fn)})
<1> DEFINE one == <<"ask">>
<1>2. <<"ask">> \o stages \in Seq(Stages) /\ Len(<<"ask">> \o stages) = 1 + Len(stages)
      BY ConcatProperties DEF Stages
<1>3. <<"ask">> \o stages # <<>>
      BY <1>2, LenProperties
<1>5. After(f, <<"ask">> \o stages, fn).todo # <<>>
      BY <1>2, <1>3, AfterKeeps DEF MailInv
<1> QED  BY <1>2, <1>5, TurnedIsAfter DEF Mail!Live, Mail!Asks, MailInv

\* A method goes on that neither polls nor uploads.
LEMMA MailElse ==
    ASSUME MailInv, NEW f \in flows, f.todo[1] \notin {"link", "poll", "send", "sent"},
           NEW stages \in Seq(Stages), NEW fn \in Seq(Stages),
           Mail!Goes(f, stages) \/ Mail!Asks(f, fn, stages),
           isWaiting' => isWaiting, UNCHANGED <<isUploading, threw>>
    PROVE  MailInv'
<1>1. CASE Mail!Goes(f, stages)
      BY <1>1, MailGoesOn, MailGoes
<1>2. CASE Mail!Asks(f, fn, stages)
  <2> DEFINE all == <<"ask">> \o stages
  <2>1. all \in Seq(Stages) /\ flows' = (flows \ {f}) \cup Mail!Live({After(f, all, fn)})
        BY <1>2, MailAsks
  <2> HIDE DEF all
  <2> QED  BY <2>1, MailGoesOn
<1> QED  BY <1>1, <1>2

\* A method begins to poll or ends it.
LEMMA MailPolls ==
    ASSUME MailInv, NEW f \in flows, f.todo[1] \notin {"send", "sent"},
           NEW stages \in Seq(Stages), Mail!Goes(f, stages),
           isWaiting' => stages \in {<<"link">>, <<"poll">>}, UNCHANGED <<isUploading, threw>>
    PROVE  MailInv'
<1>2. isWaiting' => stages # <<>> /\ stages[1] \in {"link", "poll"}
      OBVIOUS
<1> QED  BY <1>2, MailGoesOn, MailGoes

\* A method begins to upload or ends it.
LEMMA MailUploads ==
    ASSUME MailInv, NEW f \in flows, f.todo[1] \notin {"link", "poll"},
           NEW stages \in Seq(Stages), Mail!Goes(f, stages),
           isUploading' => stages \in {<<"send">>, <<"sent">>, <<"info", "sent">>},
           UNCHANGED <<isWaiting, threw>>
    PROVE  MailInv'
<1>2. isUploading' => \E i \in 1..Len(stages) : stages[i] \in {"send", "sent"}
  <2> SUFFICES ASSUME isUploading' PROVE \E i \in 1..Len(stages) : stages[i] \in {"send", "sent"}
        OBVIOUS
  <2>1. CASE stages = <<"send">> \/ stages = <<"sent">>
        BY <2>1
  <2>2. CASE stages = <<"info", "sent">>
        BY <2>2
  <2> QED  BY <2>1, <2>2
<1> QED  BY <1>2, MailGoesOn, MailGoes

\* The stages are sequences.
LEMMA StagesAre ==
    /\ <<>> \in Seq(Stages)
    /\ \A a \in Stages : <<a>> \in Seq(Stages)
    /\ \A a, b \in Stages : <<a, b>> \in Seq(Stages)
<1>1. ASSUME NEW S PROVE <<>> \in Seq(S)
      OBVIOUS
<1>2. ASSUME NEW S, NEW a \in S PROVE <<a>> \in Seq(S)
      OBVIOUS
<1>3. ASSUME NEW S, NEW a \in S, NEW b \in S PROVE <<a, b>> \in Seq(S)
      OBVIOUS
<1> QED  BY <1>1, <1>2, <1>3

\* A method throws.
LEMMA MailThrows == ASSUME MailInv, NEW f \in flows, Mail!Throws(f) PROVE MailInv'
BY DEF MailInv, Mail!Throws

\* A method begins.
LEMMA MailBegins ==
    ASSUME MailInv, NEW new \in Flow, new.todo # <<>>, flows' = flows \cup {new},
           isWaiting' => isWaiting, UNCHANGED <<isUploading, threw>>
    PROVE  MailInv'
BY DEF MailInv

\* Every stage, and the user.
LEMMA MailInvNext == ASSUME MailInv, [Mail!Next]_mailVars PROVE MailInv'
<1> USE DEF Mail!At, Mail!flags, Mail!keys, Stages
<1>1. ASSUME NEW f \in flows, Mail!Ask(f) PROVE MailInv'
  <2>1. CASE magicKey
        BY <1>1, <2>1, StagesAre, MailElse DEF Mail!Ask
  <2>2. CASE ~magicKey
        BY <1>1, <2>2, StagesAre, MailPolls DEF Mail!Ask
  <2> QED  BY <2>1, <2>2
<1>2. ASSUME NEW f \in flows, Mail!LinkSent(f) PROVE MailInv'
      BY <1>2, StagesAre, MailPolls DEF Mail!LinkSent
<1>3. ASSUME NEW f \in flows, Mail!LinkFails(f) \/ Mail!SessionFails(f) \/ Mail!SendFails(f) PROVE MailInv'
      BY <1>3, MailThrows DEF Mail!LinkFails, Mail!SessionFails, Mail!SendFails
<1>4. ASSUME NEW f \in flows, Mail!PollRefused(f) PROVE MailInv'
      BY <1>4 DEF Mail!PollRefused, MailInv
<1>5. ASSUME NEW f \in flows,
             Mail!PollStopped(f) \/ Mail!PollTimesOut(f) \/ Mail!PollFails(f) \/ Mail!InfoEnd(f)
      PROVE  MailInv'
      BY <1>5, StagesAre, MailPolls DEF Mail!PollStopped, Mail!PollTimesOut, Mail!PollFails, Mail!InfoEnd,
         Mail!CleanedUp
<1>6. ASSUME NEW f \in flows, Mail!LinkOpened(f) PROVE MailInv'
  <2>2. CASE stopPolling
        BY <1>6, <2>2, StagesAre, MailPolls DEF Mail!LinkOpened, Mail!CleanedUp
  <2>3. CASE ~stopPolling
    <3>1. Mail!Goes(f, f.fn \o <<"keep">>) /\ f.fn \o <<"keep">> \in Seq(Stages)
          BY <1>6, <2>3 DEF Mail!LinkOpened, MailInv, Flow
    <3> QED  BY <1>6, <3>1, StagesAre, MailPolls DEF Mail!LinkOpened, Mail!CleanedUp
  <2> QED  BY <2>2, <2>3
<1>7. ASSUME NEW f \in flows, Mail!Keep(f) PROVE MailInv'
  <2> DEFINE new == [wrapped |-> FALSE, todo |-> <<"session">>, fn |-> <<>>]
             rest == After(f, <<>>, f.fn)
  <2>1. f \in Flow /\ f.todo # <<>> /\ f.todo[1] = "keep" /\ f.fn \in Seq(Stages)
        BY <1>7 DEF Mail!Keep, MailInv, Flow
  <2>2. flows' = Mail!Live((flows \ {f}) \cup {rest, new}) /\ UNCHANGED <<isWaiting, isUploading, threw>>
        BY <1>7, <2>1, TurnedIsAfter DEF Mail!Keep
  <2>3. new \in Flow /\ new.todo # <<>>
        BY DEF Flow
  <2>4. rest \in Flow /\ (Uploads(f) => Uploads(rest) /\ rest.todo # <<>>)
    <3>1. <<>> \in Seq(Stages) /\ f.todo[1] \notin {"send", "sent"}
          BY <2>1, StagesAre
    <3> QED  BY <2>1, <3>1, AfterKeeps
  <2> HIDE DEF new, rest
  <2>5. /\ flows' = (flows \ {f}) \cup {g \in {rest, new} : g.todo # <<>>}
        /\ \A g \in flows' : g \in Flow /\ g.todo # <<>>
        BY <2>2, <2>3, <2>4 DEF Mail!Live, MailInv
  <2>6. ASSUME isWaiting', ~threw' PROVE \E g \in flows' : g.todo[1] \in {"link", "poll"}
        BY <2>1, <2>2, <2>5, <2>6 DEF MailInv
  <2>7. ASSUME isUploading', ~threw' PROVE \E g \in flows' : Uploads(g)
        BY <2>2, <2>4, <2>5, <2>7 DEF MailInv
  <2> QED  BY <2>5, <2>6, <2>7 DEF MailInv
<1>8. ASSUME NEW f \in flows, Mail!Info(f) PROVE MailInv'
      BY <1>8, StagesAre, MailElse DEF Mail!Info
<1>9. ASSUME NEW f \in flows, Mail!Fetched(f) \/ Mail!FetchFails(f) PROVE MailInv'
  <2>1. f.todo[1] = "fetch" /\ UNCHANGED <<isWaiting, isUploading, threw>>
        BY <1>9 DEF Mail!Fetched, Mail!FetchFails
  <2> QED  BY <1>9, <2>1, StagesAre, MailElse DEF Mail!Fetched, Mail!FetchFails
<1>10. ASSUME NEW f \in flows, Mail!SessionArrives(f) PROVE MailInv'
       BY <1>10, StagesAre, MailElse DEF Mail!SessionArrives
<1>11. ASSUME NEW f \in flows, Mail!Upload(f) PROVE MailInv'
       BY <1>11, StagesAre, MailElse DEF Mail!Upload
<1>12. ASSUME NEW f \in flows, Mail!Secret(f) PROVE MailInv'
  <2>2. CASE ~stopPolling /\ magicKey
        BY <1>12, <2>2, StagesAre, MailUploads DEF Mail!Secret
  <2>3. CASE ~(~stopPolling /\ magicKey)
        BY <1>12, <2>3 DEF MailInv, Mail!Secret
  <2> QED  BY <2>2, <2>3
<1>13. ASSUME NEW f \in flows, Mail!Sent(f) \/ Mail!Rejected(f) PROVE MailInv'
       BY <1>13, StagesAre, MailUploads DEF Mail!Sent, Mail!Rejected
<1>14. ASSUME NEW f \in flows, Mail!UploadEnd(f) PROVE MailInv'
       BY <1>14, StagesAre, MailUploads DEF Mail!UploadEnd
<1>15. ASSUME NEW f \in flows, Mail!Sync(f) PROVE MailInv'
       BY <1>15, StagesAre, MailElse DEF Mail!Sync
<1>16. ASSUME NEW f \in flows, Mail!Fulfil(f) PROVE MailInv'
       BY <1>16, StagesAre, MailElse DEF Mail!Fulfil
<1>17. ASSUME NEW stages \in {<<"info">>, <<"upload">>, <<"info", "upload">>, <<"sync">>,
                              <<"info", "fulfil">>, <<"ask">>},
              NEW wrapped \in BOOLEAN, Mail!Begin(stages, wrapped)
       PROVE  MailInv'
  <2> DEFINE new == [wrapped |-> wrapped, todo |-> stages, fn |-> <<>>]
  <2>0. stages # <<>>
        BY <1>17
  <2>2. new \in Flow /\ new.todo # <<>>
        BY <1>17, <2>0, StagesAre DEF Flow
  <2>3. flows' = flows \cup {new} /\ UNCHANGED <<isWaiting, isUploading, threw>>
        BY <1>17 DEF Mail!Begin
  <2> HIDE DEF new
  <2> QED  BY <2>2, <2>3, MailBegins
<1>18. ASSUME \/ Mail!GetEmailVaultInfo \/ Mail!UploadKeyStoreSecret \/ Mail!RequestKeysSync
              \/ Mail!FulfillSyncRequests \/ Mail!HandleMagicLinkKey
       PROVE  MailInv'
      BY <1>17, <1>18 DEF Mail!GetEmailVaultInfo, Mail!UploadKeyStoreSecret, Mail!RequestKeysSync,
         Mail!FulfillSyncRequests, Mail!HandleMagicLinkKey
<1>19. ASSUME Mail!CancelEmailConfirmation \/ Mail!CleanMagicAndSessionKeys PROVE MailInv'
  <2>1. UNCHANGED <<flows, isUploading, threw>>
        BY <1>19 DEF Mail!CancelEmailConfirmation, Mail!CleanMagicAndSessionKeys
  <2>2. isWaiting' => isWaiting
        BY <1>19 DEF Mail!CancelEmailConfirmation, Mail!CleanMagicAndSessionKeys
  <2> QED  BY <2>1, <2>2 DEF MailInv
<1>20. ASSUME UNCHANGED mailVars PROVE MailInv'
      BY <1>20 DEF mailVars, MailInv
<1> QED  BY <1>1, <1>2, <1>3, <1>4, <1>5, <1>6, <1>7, <1>8, <1>9, <1>10, <1>11, <1>12, <1>13, <1>14,
            <1>15, <1>16, <1>18, <1>19, <1>20 DEF Mail!Next

\* What a method runs once it has a key is no longer than two steps.
MailTypes ==
    /\ {isWaiting, isUploading, stopPolling, magicKey, sessionKey, known, threw} \subseteq BOOLEAN
    /\ \A f \in flows : Len(f.fn) \in 0..2

\* At first no method runs.
LEMMA MailTypesInit == ASSUME Mail!Init PROVE MailTypes
BY DEF Mail!Init, MailTypes

\* A method goes on with what it runs then, or takes it up anew.
LEMMA MailTypesGoes ==
    ASSUME MailInv, MailTypes, NEW f \in flows,
           \/ \E stages \in Seq(Stages) : Mail!Goes(f, stages)
           \/ \E stages \in Seq(Stages), fn \in Seq(Stages) : Len(fn) \in 0..2 /\ Mail!Asks(f, fn, stages)
           \/ flows' \subseteq flows
    PROVE  \A g \in flows' : Len(g.fn) \in 0..2
<1>1. \A g \in flows : Len(g.fn) \in 0..2
      BY DEF MailTypes
<1>2. ASSUME NEW stages \in Seq(Stages), Mail!Goes(f, stages) PROVE \A g \in flows' : Len(g.fn) \in 0..2
      BY <1>1, <1>2, MailGoes DEF Mail!Live, After
<1>3. ASSUME NEW stages \in Seq(Stages), NEW fn \in Seq(Stages), Len(fn) \in 0..2, Mail!Asks(f, fn, stages)
      PROVE  \A g \in flows' : Len(g.fn) \in 0..2
  <2>1. PICK all : all = <<"ask">> \o stages
        OBVIOUS
  <2>2. flows' = (flows \ {f}) \cup Mail!Live({After(f, all, fn)}) /\ After(f, all, fn).fn = fn
        BY <1>3, <2>1, MailAsks DEF After
  <2> QED  BY <1>1, <1>3, <2>2 DEF Mail!Live
<1> QED  BY <1>1, <1>2, <1>3

\* The flags stay flags.
LEMMA MailFlags ==
    ASSUME MailTypes, [Mail!Next]_mailVars
    PROVE  {isWaiting', isUploading', stopPolling', magicKey', sessionKey', known', threw'} \subseteq BOOLEAN
<1> USE DEF Mail!Turn, Mail!At, Mail!flags, Mail!keys, Mail!CleanedUp, Mail!Throws
<1>1. {isWaiting, isUploading, stopPolling, magicKey, sessionKey, known, threw} \subseteq BOOLEAN
      BY DEF MailTypes
<1> USE <1>1
<1>2. ASSUME NEW f \in flows, \/ Mail!Ask(f) \/ Mail!LinkSent(f) \/ Mail!LinkFails(f) \/ Mail!PollRefused(f)
                              \/ Mail!PollStopped(f) \/ Mail!LinkOpened(f) \/ Mail!PollTimesOut(f)
                              \/ Mail!PollFails(f) \/ Mail!Keep(f) \/ Mail!Info(f) \/ Mail!Fetched(f)
                              \/ Mail!FetchFails(f) \/ Mail!InfoEnd(f)
      PROVE  {isWaiting', isUploading', stopPolling', magicKey', sessionKey', known', threw'} \subseteq BOOLEAN
      BY <1>2 DEF Mail!Ask, Mail!LinkSent, Mail!LinkFails, Mail!PollRefused, Mail!PollStopped, Mail!LinkOpened,
                  Mail!PollTimesOut, Mail!PollFails, Mail!Keep, Mail!Info, Mail!Fetched, Mail!FetchFails, Mail!InfoEnd
<1>3. ASSUME NEW f \in flows, \/ Mail!SessionFails(f) \/ Mail!Upload(f) \/ Mail!Sent(f) \/ Mail!Rejected(f)
                              \/ Mail!SendFails(f) \/ Mail!UploadEnd(f) \/ Mail!Sync(f) \/ Mail!Fulfil(f)
      PROVE  {isWaiting', isUploading', stopPolling', magicKey', sessionKey', known', threw'} \subseteq BOOLEAN
      BY <1>3 DEF Mail!SessionFails, Mail!Upload, Mail!Sent, Mail!Rejected, Mail!SendFails, Mail!UploadEnd,
                  Mail!Sync, Mail!Fulfil
<1>4. ASSUME NEW f \in flows, Mail!Secret(f) \/ Mail!SessionArrives(f)
      PROVE  {isWaiting', isUploading', stopPolling', magicKey', sessionKey', known', threw'} \subseteq BOOLEAN
      BY <1>4 DEF Mail!Secret, Mail!SessionArrives
<1>5. ASSUME \/ Mail!CancelEmailConfirmation \/ Mail!CleanMagicAndSessionKeys
             \/ \E stages, wrapped : Mail!Begin(stages, wrapped)
      PROVE  {isWaiting', isUploading', stopPolling', magicKey', sessionKey', known', threw'} \subseteq BOOLEAN
      BY <1>5 DEF Mail!CancelEmailConfirmation, Mail!CleanMagicAndSessionKeys, Mail!Begin
<1>6. CASE UNCHANGED mailVars
      BY <1>6 DEF mailVars
<1> QED  BY <1>2, <1>3, <1>4, <1>5, <1>6
         DEF Mail!Next, Mail!GetEmailVaultInfo, Mail!UploadKeyStoreSecret, Mail!RequestKeysSync,
             Mail!FulfillSyncRequests, Mail!HandleMagicLinkKey

\* What methods ask for a key to do is two steps at most.
LEMMA AskedSteps ==
    /\ <<>> \in Seq(Stages) /\ Len(<<>>) \in 0..2
    /\ <<"info">> \in Seq(Stages) /\ Len(<<"info">>) \in 0..2
    /\ <<"sync">> \in Seq(Stages) /\ Len(<<"sync">>) \in 0..2
    /\ <<"info", "fulfil">> \in Seq(Stages) /\ Len(<<"info", "fulfil">>) \in 0..2
<1> QED  BY StagesAre DEF Stages

\* Every method keeps to two steps.
LEMMA MailFlows == ASSUME MailInv, MailTypes, [Mail!Next]_mailVars PROVE \A g \in flows' : Len(g.fn) \in 0..2
<1> USE DEF Mail!At, Stages
<1>1. ASSUME NEW f \in flows, NEW stages \in Seq(Stages), Mail!Goes(f, stages)
      PROVE  \A g \in flows' : Len(g.fn) \in 0..2
      BY <1>1, MailTypesGoes
<1>2. ASSUME NEW f \in flows, NEW stages \in Seq(Stages), NEW fn \in {<<>>, <<"info">>, <<"sync">>, <<"info", "fulfil">>},
             Mail!Asks(f, fn, stages)
      PROVE  \A g \in flows' : Len(g.fn) \in 0..2
      BY <1>2, MailTypesGoes, AskedSteps
<1>3. ASSUME flows' \subseteq flows PROVE \A g \in flows' : Len(g.fn) \in 0..2
      BY <1>3 DEF MailTypes
<1>4. ASSUME NEW f \in flows, \/ Mail!Ask(f) \/ Mail!LinkSent(f) \/ Mail!PollStopped(f) \/ Mail!PollTimesOut(f)
                              \/ Mail!PollFails(f) \/ Mail!InfoEnd(f) \/ Mail!Fetched(f) \/ Mail!FetchFails(f)
                              \/ Mail!SessionArrives(f) \/ Mail!UploadEnd(f)
      PROVE  \A g \in flows' : Len(g.fn) \in 0..2
  <2>1. PICK stages \in {<<>>, <<"link">>, <<"poll">>, <<"session">>} : Mail!Goes(f, stages)
        BY <1>4 DEF Mail!Ask, Mail!LinkSent, Mail!PollStopped, Mail!PollTimesOut, Mail!PollFails, Mail!InfoEnd,
                    Mail!Fetched, Mail!FetchFails, Mail!SessionArrives, Mail!UploadEnd
  <2> QED  BY <1>1, <2>1, StagesAre
<1>5. ASSUME NEW f \in flows, Mail!LinkOpened(f) PROVE \A g \in flows' : Len(g.fn) \in 0..2
  <2>1. PICK stages : Mail!Goes(f, stages) /\ stages \in {<<>>, f.fn \o <<"keep">>}
        BY <1>5 DEF Mail!LinkOpened
  <2>2. f.fn \o <<"keep">> \in Seq(Stages) /\ <<>> \in Seq(Stages)
        BY StagesAre DEF MailInv, Flow
  <2> QED  BY <1>1, <2>1, <2>2
<1>6. ASSUME NEW f \in flows, Mail!Keep(f) PROVE \A g \in flows' : Len(g.fn) \in 0..2
  <2>2. Mail!Turned(f, <<>>).fn = f.fn
    <3>1. PICK none : none = <<>>
          OBVIOUS
    <3>3. Mail!Turned(f, none) = After(f, none, f.fn)
          BY <3>1, TurnedIsAfter, StagesAre DEF Flow, MailInv, MailTypes
    <3> QED  BY <3>1, <3>3 DEF After
  <2>3. PICK new : new = [wrapped |-> FALSE, todo |-> <<"session">>, fn |-> <<>>]
        OBVIOUS
  <2> QED  BY <1>6, <2>2, <2>3 DEF MailTypes, MailInv, Mail!Keep, Mail!Live
<1>7. ASSUME NEW f \in flows, Mail!Info(f) \/ Mail!Upload(f) \/ Mail!Sync(f) \/ Mail!Fulfil(f)
      PROVE  \A g \in flows' : Len(g.fn) \in 0..2
      BY <1>1, <1>2, <1>7, StagesAre DEF Mail!Info, Mail!Upload, Mail!Sync, Mail!Fulfil
<1>8. ASSUME NEW f \in flows, Mail!Secret(f) \/ Mail!Sent(f) \/ Mail!Rejected(f)
      PROVE  \A g \in flows' : Len(g.fn) \in 0..2
      BY <1>1, <1>3, <1>8, StagesAre DEF Mail!Secret, Mail!Sent, Mail!Rejected
<1>9. ASSUME NEW f \in flows, Mail!LinkFails(f) \/ Mail!SessionFails(f) \/ Mail!SendFails(f) \/ Mail!PollRefused(f)
      PROVE  \A g \in flows' : Len(g.fn) \in 0..2
      BY <1>3, <1>9 DEF Mail!LinkFails, Mail!SessionFails, Mail!SendFails, Mail!Throws, Mail!PollRefused
<1>10. ASSUME NEW stages, NEW wrapped, Mail!Begin(stages, wrapped) PROVE \A g \in flows' : Len(g.fn) \in 0..2
  <2>1. PICK new : new = [wrapped |-> wrapped, todo |-> stages, fn |-> <<>>]
        OBVIOUS
  <2> QED  BY <1>10, <2>1 DEF MailTypes, Mail!Begin
<1>11. ASSUME \/ Mail!CancelEmailConfirmation \/ Mail!CleanMagicAndSessionKeys \/ UNCHANGED mailVars
       PROVE  \A g \in flows' : Len(g.fn) \in 0..2
      BY <1>3, <1>11 DEF Mail!CancelEmailConfirmation, Mail!CleanMagicAndSessionKeys, mailVars
<1> QED  BY <1>4, <1>5, <1>6, <1>7, <1>8, <1>9, <1>10, <1>11
         DEF Mail!Next, Mail!GetEmailVaultInfo, Mail!UploadKeyStoreSecret, Mail!RequestKeysSync,
             Mail!FulfillSyncRequests, Mail!HandleMagicLinkKey

\* Both.
LEMMA MailTypesNext == ASSUME MailInv, MailTypes, [Mail!Next]_mailVars PROVE MailTypes'
BY MailFlags, MailFlows DEF MailTypes

\* The types that the module states.
LEMMA MailTypeOK == ASSUME MailInv, MailTypes PROVE Mail!TypeOK
BY DEF MailInv, MailTypes, Mail!TypeOK
=============================================================================
