--------------------------- MODULE AccountOpFees ---------------------------
(***************************************************************************)
(* EstimationController and GasPriceController under one                   *)
(* SignAccountOpController: how a fee is found for the calls while they    *)
(* change, and what is signed.  An estimation is known by the calls it is  *)
(* of and the fee tokens it offers; gas prices by being there; a speed by  *)
(* its place, of which the account's balance covers some.                  *)
(* Left out: the rates, sponsorship, replacement and accounts without a    *)
(* key.                                                                    *)
(***************************************************************************)
EXTENDS Integers

CONSTANTS
    Batches, FeeTokens,
    Covers,      \* Covers[b][t]: the fastest speed for the calls b that the balance of t pays for, or 0
    Turns,       \* bound: estimates, updates and signatures in one behaviour
    MaxLoops,    \* bound: gas price fetches at a time
    None

VARIABLES
    opCalls,        \* accountOp.calls
    estimation, estimationError, estimationStatus, hasEstimated,
    estimates,      \* estimate in progress: [n, of], of is None until getEstimation reads the calls
    thrown,         \* (history) the estimate that ended last threw before getEstimation
    gasPrices,      \* gasPrices # undefined
    gasFetches, gasWaits, stopRefetching,
    abandoned,      \* (history) a wait ended when the request to sign was not active
    feeToken,       \* feeTokenResult and paidBy
    speed,          \* selectedFeeSpeed
    option,         \* selectedOption: [of, token]
    speeds,         \* feeSpeeds: [of, options]
    payment,        \* accountOp.gasFeePayment: [of, token, speed]
    signing,        \* status
    userOp,         \* what is being signed: [payment, limits], limits is None until it is built
    recovered,      \* (history) a signature failed, and no update was made since
    turnsLeft
vars == <<opCalls, estimation, estimationError, estimationStatus, hasEstimated, estimates, thrown, gasPrices,
          gasFetches, gasWaits, stopRefetching, abandoned, feeToken, speed, option, speeds, payment, signing,
          userOp, recovered, turnsLeft>>
estimating == <<estimation, estimationError, estimationStatus, hasEstimated, estimates, thrown>>
gas == <<gasFetches, gasWaits, stopRefetching, abandoned>>
fee == <<speed, option, speeds, payment, signing, recovered>>

Slow == 1
Fast == 2

Turn == turnsLeft > 0 /\ turnsLeft' = turnsLeft - 1
\* noStateUpdateStatuses
Frozen == signing \in {"InProgress", "Done"}
Options(e) == IF e = None THEN {} ELSE e.options

OptionFor(est, status, token) ==
    IF status # "Success" \/ token = None THEN option
    ELSE IF token \in Options(est) THEN [of |-> est.of, token |-> token] ELSE None
HasSpeeds(opt, spds) == opt # None /\ spds # None /\ opt.token \in spds.options
\* setDefaultFeeSpeed, which looks at the speeds that there are before they are updated
DefaultSpeed(opt, chosen) ==
    IF option # None \/ ~HasSpeeds(opt, speeds) THEN chosen
    ELSE IF Covers[speeds.of][opt.token] = 0 THEN Slow ELSE Covers[speeds.of][opt.token]
PaymentOf(est, opt, spds, token, chosen) ==
    IF Options(est) = {} \/ ~HasSpeeds(opt, spds) THEN None
    ELSE [of |-> spds.of, token |-> token, speed |-> chosen]
BalanceIsLow(opt, pays) == opt # None /\ pays # None /\ pays.speed > Covers[pays.of][opt.token]
\* Mistake: the balance is not compared with the fee
ErrorsWithoutBalance(est, prices, opt, spds, pays, token) ==
    \/ Options(est) = {}
    \/ pays = None /\ token # None /\ HasSpeeds(opt, spds)
    \/ prices /\ opt # None /\ ~HasSpeeds(opt, spds)
\* errors, of an operation whose estimation has no error
HasErrors(est, prices, opt, spds, pays, token) ==
    \/ Options(est) = {} \/ BalanceIsLow(opt, pays)
    \/ pays = None /\ token # None /\ HasSpeeds(opt, spds)
    \/ prices /\ opt # None /\ ~HasSpeeds(opt, spds)
\* The end of update, for what it finds: selectedOption, updateFeeSpeeds, setGasFeePayment,
\* updateStatus.
UpdateFees(est, error, status, initialized, prices, token, chosen) ==
    IF Frozen THEN UNCHANGED fee
    ELSE LET opt  == OptionFor(est, status, token)
             pace == IF status = "Success" /\ token # None THEN DefaultSpeed(opt, chosen) ELSE chosen
             spds == IF status = "Success" /\ prices THEN [of |-> est.of, options |-> Options(est)] ELSE speeds
             pays == IF ~initialized \/ token = None THEN payment ELSE PaymentOf(est, opt, spds, token, pace)
         IN /\ option' = opt /\ speed' = pace /\ speeds' = spds /\ payment' = pays /\ recovered' = FALSE
            /\ signing' = IF error THEN "EstimationError"
                          ELSE IF ~initialized THEN None
                          ELSE IF HasErrors(est, prices, opt, spds, pays, token) THEN "UnableToSign"
                          ELSE IF pays # None THEN "ReadyToSign" ELSE None
UpdateWith(prices, token, chosen) ==
    /\ UpdateFees(estimation, estimationError, estimationStatus, hasEstimated, prices, token, chosen)
    /\ UNCHANGED <<estimation, estimationError, estimationStatus, hasEstimated, thrown>>

-----------------------------------------------------------------------------
(* EstimationController: estimates are not numbered and may overlap *)

StartEstimate ==
    /\ estimationStatus' = "Loading" /\ estimates' = estimates \cup {[n |-> turnsLeft, of |-> None]}
    /\ UNCHANGED <<estimation, estimationError, hasEstimated, thrown>>
    /\ UpdateFees(estimation, estimationError, "Loading", hasEstimated, gasPrices, feeToken, speed)
\* the loops of the screens, which go on while the user signs
Reestimate ==
    /\ Turn /\ estimationStatus # "Loading" /\ ~stopRefetching /\ StartEstimate
    /\ UNCHANGED <<opCalls, gasPrices, gas, feeToken, userOp>>
\* simulate, after a failed broadcast; with a new bundler there are other gas prices too
SimulateAgain ==
    /\ Turn /\ signing # None /\ ~Frozen /\ ~stopRefetching /\ StartEstimate
    /\ gasFetches' \in {gasFetches, gasFetches + 1} /\ gasFetches' + gasWaits <= MaxLoops
    /\ UNCHANGED <<opCalls, gasPrices, gasWaits, stopRefetching, abandoned, feeToken, userOp>>
\* The state and the portfolio are there.
AskEstimation(e) ==
    /\ e \in estimates /\ e.of = None /\ estimates' = (estimates \ {e}) \cup {[e EXCEPT !.of = opCalls]}
    /\ UNCHANGED <<estimation, estimationError, estimationStatus, hasEstimated, thrown, fee>>
    /\ UNCHANGED <<opCalls, gasPrices, gas, feeToken, userOp, turnsLeft>>
\* They are not, or make no base account: estimate throws, and simulate hears nothing of it.
EstimateThrows(e) ==
    /\ e \in estimates /\ e.of = None /\ estimates' = estimates \ {e} /\ thrown' = TRUE
    /\ UNCHANGED <<estimation, estimationError, estimationStatus, hasEstimated, fee>>
    /\ UNCHANGED <<opCalls, gasPrices, gas, feeToken, userOp, turnsLeft>>
EstimationArrives(e, options) ==
    /\ e \in estimates /\ e.of # None /\ estimates' = estimates \ {e}
    /\ estimation' = [of |-> e.of, options |-> options] /\ estimationError' = FALSE
    /\ estimationStatus' = "Success" /\ hasEstimated' = TRUE /\ thrown' = FALSE
    /\ UpdateFees([of |-> e.of, options |-> options], FALSE, "Success", TRUE, gasPrices, feeToken, speed)
    /\ UNCHANGED <<opCalls, gasPrices, gas, feeToken, userOp, turnsLeft>>
\* Mistake: the status is left to the next estimate
FailureKeepsStatus(e) ==
    /\ e \in estimates /\ e.of # None /\ estimates' = estimates \ {e}
    /\ estimation' = None /\ estimationError' = TRUE /\ UNCHANGED estimationStatus /\ hasEstimated' = TRUE
    /\ thrown' = FALSE
    /\ UpdateFees(None, TRUE, estimationStatus, TRUE, gasPrices, feeToken, speed)
    /\ UNCHANGED <<opCalls, gasPrices, gas, feeToken, userOp, turnsLeft>>
EstimationFails(e) ==
    /\ e \in estimates /\ e.of # None /\ estimates' = estimates \ {e}
    /\ estimation' = None /\ estimationError' = TRUE /\ estimationStatus' = "Error" /\ hasEstimated' = TRUE
    /\ thrown' = FALSE
    /\ UpdateFees(None, TRUE, "Error", TRUE, gasPrices, feeToken, speed)
    /\ UNCHANGED <<opCalls, gasPrices, gas, feeToken, userOp, turnsLeft>>

-----------------------------------------------------------------------------
(* GasPriceController: every fetch ends in the wait for the next one *)

GasPricesArrive(ok) ==
    /\ gasFetches > 0 /\ gasFetches' = gasFetches - 1 /\ gasWaits' = gasWaits + 1
    /\ gasPrices' = (gasPrices \/ (ok /\ ~Frozen)) /\ UpdateWith(gasPrices', feeToken, speed)
    /\ UNCHANGED <<opCalls, estimates, stopRefetching, abandoned, feeToken, userOp, turnsLeft>>
\* 12 seconds later; after an estimation that failed the wait begins again
Refetch ==
    /\ gasWaits > 0 /\ ~stopRefetching /\ estimationStatus # "Error"
    /\ gasWaits' = gasWaits - 1 /\ gasFetches' = gasFetches + 1
    /\ UNCHANGED <<opCalls, estimating, gasPrices, stopRefetching, abandoned, feeToken, fee, userOp, turnsLeft>>
\* after a reset, or with the request to sign out of the queue
RefetchEnds ==
    /\ gasWaits > 0 /\ gasWaits' = gasWaits - 1 /\ UNCHANGED <<gasFetches, stopRefetching>>
    /\ IF stopRefetching THEN UNCHANGED abandoned ELSE abandoned' = TRUE
    /\ UNCHANGED <<opCalls, estimating, gasPrices, feeToken, fee, userOp, turnsLeft>>

-----------------------------------------------------------------------------
(* SignAccountOpController *)

\* The same calls change nothing but the fees; what is frozen does not even change its calls.
UpdateCalls(calls) ==
    /\ Turn /\ ~stopRefetching /\ ~Frozen /\ calls # opCalls /\ opCalls' = calls /\ StartEstimate
    /\ UNCHANGED <<gasPrices, gas, feeToken, userOp>>
SelectFee(token) ==
    /\ Turn /\ ~stopRefetching /\ ~Frozen /\ feeToken' = token /\ UpdateWith(gasPrices, token, speed)
    /\ UNCHANGED <<opCalls, estimates, gasPrices, gas, userOp>>
SelectSpeed(s) ==
    /\ Turn /\ ~stopRefetching /\ ~Frozen /\ s # speed /\ hasEstimated /\ UpdateWith(gasPrices, feeToken, s)
    /\ UNCHANGED <<opCalls, estimates, gasPrices, gas, feeToken, userOp>>
SignFails == signing' = "ReadyToSign" /\ recovered' = TRUE
\* sign refuses what is not ready, and says that it is ready
Sign ==
    /\ Turn /\ ~Frozen /\ ~stopRefetching
    /\ IF signing = "ReadyToSign" /\ payment # None /\ option # None
       THEN signing' = "InProgress" /\ userOp' = [payment |-> payment, limits |-> None] /\ UNCHANGED recovered
       ELSE SignFails /\ UNCHANGED userOp
    /\ UNCHANGED <<opCalls, estimating, gasPrices, gas, feeToken, speed, option, speeds, payment>>
\* getInitialUserOp, after the signer and the hardware answered
BuildUserOp ==
    /\ signing = "InProgress" /\ userOp.limits = None
    /\ IF estimation = None THEN SignFails /\ userOp' = None
       ELSE UNCHANGED <<signing, recovered>> /\ userOp' = [userOp EXCEPT !.limits = estimation.of]
    /\ UNCHANGED <<opCalls, estimating, gasPrices, gas, feeToken, speed, option, speeds, payment, turnsLeft>>
SignEnds(ok) ==
    /\ signing = "InProgress" /\ userOp.limits # None
    /\ IF ok THEN signing' = "Done" /\ UNCHANGED <<userOp, recovered>> ELSE SignFails /\ userOp' = None
    /\ UNCHANGED <<opCalls, estimating, gasPrices, gas, feeToken, speed, option, speeds, payment, turnsLeft>>
\* throwBroadcastAccountOp
BroadcastFails ==
    /\ signing = "Done" /\ SignFails /\ userOp' = None
    /\ gasFetches' \in {gasFetches, gasFetches + 1} /\ gasFetches' + gasWaits <= MaxLoops
    /\ UNCHANGED <<opCalls, estimating, gasPrices, gasWaits, stopRefetching, abandoned, feeToken, speed, option,
                   speeds, payment, turnsLeft>>
\* reset, when the controller is destroyed; the estimates and loops that there are end by themselves
Reset ==
    /\ ~stopRefetching /\ stopRefetching' = TRUE /\ UNCHANGED <<gasFetches, gasWaits, abandoned>>
    /\ estimation' = None /\ estimationError' = FALSE /\ estimationStatus' = "Initial" /\ hasEstimated' = FALSE
    /\ gasPrices' = FALSE /\ feeToken' = None /\ speed' = Fast /\ signing' = None /\ userOp' = None
    /\ UNCHANGED <<opCalls, estimates, thrown, option, speeds, payment, recovered, turnsLeft>>

\* the constructor, which estimates and fetches the gas prices
Init ==
    /\ opCalls \in Batches /\ estimation = None /\ estimationError = FALSE /\ estimationStatus = "Loading"
    /\ hasEstimated = FALSE /\ estimates = {[n |-> 0, of |-> None]}
    /\ thrown = FALSE /\ gasPrices = FALSE /\ gasFetches = 1 /\ gasWaits = 0 /\ stopRefetching = FALSE
    /\ abandoned = FALSE
    /\ feeToken = None /\ speed = Fast /\ option = None /\ speeds = None /\ payment = None /\ signing = None /\ userOp = None
    /\ recovered = FALSE /\ turnsLeft = Turns
Next ==
    \/ Reestimate \/ SimulateAgain
    \/ \E e \in estimates :
          \/ AskEstimation(e) \/ EstimateThrows(e) \/ EstimationFails(e)
          \/ \E o \in SUBSET FeeTokens : EstimationArrives(e, o)
    \/ \E ok \in BOOLEAN : GasPricesArrive(ok) \/ SignEnds(ok)
    \/ Refetch \/ RefetchEnds
    \/ \E c \in Batches : UpdateCalls(c)
    \/ \E t \in FeeTokens : SelectFee(t)
    \/ \E s \in {Slow, Fast} : SelectSpeed(s)
    \/ Sign \/ BuildUserOp \/ BroadcastFails \/ Reset

Spec == Init /\ [][Next]_vars
-----------------------------------------------------------------------------
TypeOK ==
    /\ opCalls \in Batches /\ estimationStatus \in {"Initial", "Loading", "Success", "Error"}
    /\ estimationStatus = "Success" => estimation # None
    /\ gasFetches + gasWaits <= MaxLoops
    /\ signing \in {None, "EstimationError", "UnableToSign", "ReadyToSign", "InProgress", "Done"}
    /\ signing = "Done" => userOp.limits \in Batches

\* While the estimation says that it loads, an estimate is on the way, however estimates overlap and
\* answers or failures pass each other; but when the last of them threw before it asked for an
\* estimation, nothing ends the status until the calls change (estimation.ts:102-217,
\* signAccountOp.ts:749, transfer.ts:689).
FetchingIsCurrent == estimationStatus = "Loading" => estimates # {} \/ thrown

\* As long as the controller lives gas prices are fetched again, whatever failed before, unless a wait
\* ended while the request to sign was out of the queue (gasPrice.ts:56-76, 134-139).
GasPricesAreRefetched == ~stopRefetching => gasFetches + gasWaits > 0 \/ abandoned

\* The fee that is ready to be signed is one that the last estimation offers, computed from it for
\* the speed that is shown, whatever estimates, gas prices and choices came in which order, and the
\* fee that is signed is one that the balance covers.  Only after a failed signature it may be older,
\* and of another token if that was chosen while an estimate was awaited (signAccountOp.ts:891-961,
\* 1205-1216, 565-641).
FeeIsOffered ==
    /\ estimationStatus = "Success" /\ ~Frozen /\ ~recovered /\ payment # None /\ hasEstimated /\ feeToken # None =>
          /\ payment = [of |-> estimation.of, token |-> feeToken, speed |-> speed]
          /\ feeToken \in estimation.options
    /\ signing = "InProgress" /\ ~recovered /\ userOp.payment.token = option.token =>
          userOp.payment.speed <= Covers[userOp.payment.of][option.token]
=============================================================================
