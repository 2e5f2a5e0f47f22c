------------------------------ MODULE MCScreens ------------------------------
(***************************************************************************)
(* The components behind the user's screens, each by itself: part is the   *)
(* one that a behaviour is about.                                          *)
(***************************************************************************)
EXTENDS SwapQuote, TLC, Integers, Sequences

CONSTANTS
    PoolForms, Owners, Withdrawals, Steps, Holders, Indexes, Relays, Syncs, TransferChains, Sends,
    TransferUpdates, ListChains, Sessions, MaxChoices, Batches, FeeTokens, Covers, FeeTurns,
    MaxLoops, Messages, Presses, EmailTurns, Budgets, PoolTurns, Chains, Listed, Rare, ListTurns,
    Routes, Swaps, Attempts, Restarts, Blocks, Network, EthPrices, BundlerPrices, FeeOptions,
    MinTip, MinGas, RatioOne, MaxAttempts, Signatures,
    b1, b2, t1, t2, NotYet
VARIABLES
    part,
    owner, withdrawal, relayerQuote, updateQuoteId, drawn, updateQuoteStatus, fetches, refetching,
    shown, submitted, submits, pollOf, polls, saved, mined, steps,
    holder, defaultKeys, derivedKeys, deriving, shield, preparing, estimating, relayed, relays,
    tracked, history, syncs,
    transfer, signer, starting, looping, sending, latestSent, updates,
    fromChain, toChain, fromToken, toToken, toList, cachedLists, listStatus, recent, throttled,
    listCalls, sessions, choices,
    opCalls, estimation, estimationError, estimationStatus, hasEstimated, estimates, thrown, gasPrices,
    gasFetches, gasWaits, stopRefetching, abandoned, feeToken, speed, option, speeds, payment, signing, userOp,
    recovered, turnsLeft,
    messageToSign, signingKey, signedMessage, signJob, handlers, stored, answers, replaced, presses,
    isWaiting, isUploading, stopPolling, magicKey, sessionKey, known, flows, threw, emailTurns,
    selected, unlocked, current, instance, isInitialized, initError, init, wasm, balance, syncState,
    saves, tree, asked, op, inFlight, prepared, sent, recorded, shieldOp, making, reestimates,
    crossed, railLeft,
    ppv1Instance, failedInit, initialising, pendingUnshield, preparations, unshielding,
    latestUnshield, accepted, kept, notesState, readings, syncThrew, deposit, deposits, callsDrawn,
    poolTurns,
    tokenForm, tokenLists, updateToTokenListStatus, listFailed, listRecent, listThrottled,
    listFetches, listSelecting, adding, misfiled, dropped, listTurns,
    active, savedRoutes, routeOps, tellings, routePolls, untold, routeRestarts,
    attempts, recommended, bundlerGasPrices, feeSpeeds, paysWith, paceOfFee, gasFeePayment, feeCall,
    feePhase, paymasterCalls, signatures

poolsVars == <<owner, withdrawal, relayerQuote, updateQuoteId, drawn, updateQuoteStatus, fetches,
               refetching, shown, submitted, submits, pollOf, polls, saved, mined, steps>>
railVars == <<holder, defaultKeys, derivedKeys, deriving, shield, preparing, estimating, relayed,
              relays, tracked, history, syncs>>
sendVars == <<transfer, signer, starting, looping, sending, latestSent, updates>>
formVars == <<fromChain, toChain, fromToken, toToken, toList, cachedLists, listStatus, recent,
              throttled, listCalls, sessions, choices>>
feesVars == <<opCalls, estimation, estimationError, estimationStatus, hasEstimated, estimates,
              thrown, gasPrices, gasFetches, gasWaits, stopRefetching, abandoned, feeToken, speed, option, speeds,
              payment, signing, userOp, recovered, turnsLeft>>
msgVars == <<messageToSign, signingKey, signedMessage, signJob, handlers, stored, answers, replaced,
             presses>>
mailVars == <<isWaiting, isUploading, stopPolling, magicKey, sessionKey, known, flows, threw,
              emailTurns>>
pluginVars == <<selected, unlocked, current, instance, isInitialized, initError, init, wasm,
                balance, syncState, saves, tree, asked, op, inFlight, prepared, sent, recorded,
                shieldOp, making, reestimates, crossed, railLeft>>
pluginV1Vars == <<ppv1Instance, failedInit, initialising, pendingUnshield, preparations,
                  unshielding, latestUnshield, accepted, kept, notesState, readings, syncThrew,
                  deposit, deposits, callsDrawn, poolTurns>>
tokVars == <<tokenForm, tokenLists, updateToTokenListStatus, listFailed, listRecent, listThrottled,
             listFetches, listSelecting, adding, misfiled, dropped, listTurns>>
routeVars == <<active, savedRoutes, routeOps, tellings, routePolls, untold, routeRestarts>>
gasVars == <<attempts, recommended, bundlerGasPrices, feeSpeeds, paysWith, paceOfFee, gasFeePayment,
             feeCall, feePhase, paymasterCalls, signatures>>

Asks(from, amount) == [from |-> from, amount |-> amount, to |-> 1]
ThreeForms == {Asks(1, 1), Asks(1, 2), Asks(2, 1)}
Pools == INSTANCE PrivacyPools WITH
    Forms <- PoolForms
Rail == INSTANCE Railgun
Send == INSTANCE Transfer WITH
    Updates <- TransferUpdates
Form == INSTANCE TransactionForm
Coverage == [b \in {b1, b2} |-> IF b = b1 THEN (t1 :> 2 @@ t2 :> 1) ELSE (t1 :> 1 @@ t2 :> 0)]
Fees == INSTANCE AccountOpFees WITH
    Turns <- FeeTurns
Msg == INSTANCE MessageSigning
Mail == INSTANCE EmailConfirmation
TwoBudgets == {[turns |-> 3, ops |-> 1], [turns |-> 2, ops |-> 2]}
Plugin == INSTANCE RailgunPlugin
PluginV1 == INSTANCE PoolsPlugin
Tok == INSTANCE SwapTokens WITH
    Turns <- ListTurns, form <- tokenForm, cached <- tokenLists,
    status <- updateToTokenListStatus, failed <- listFailed, recent <- listRecent, throttled <- listThrottled,
    fetches <- listFetches, selecting <- listSelecting, turns <- listTurns
Route == INSTANCE SwapRoutes WITH
    saved <- savedRoutes, ops <- routeOps, restarts <- routeRestarts, polls <- routePolls
Block(base, used, tips, prices) ==
    [baseFee |-> base, gasTarget |-> 10, gasUsed |-> used, tips |-> tips, prices |-> prices]
BundlersAt(price) == [i \in 1..4 |-> [fee |-> price + i, tip |-> 2]]
Option(paidBy, token, tank, ratio, scale, added, available, how) ==
    [paidBy |-> paidBy, token |-> token, gasTank |-> tank, ratio |-> ratio, scale |-> scale, gas |-> 3,
     addedNative |-> added, available |-> available, how |-> how]
TwoBlocks == {Block(40, 16, <<9, 1, 30, 16, 9>>, <<>>), Block(0, 0, <<>>, <<7, 90, 3, 30, 8, 9>>)}
ByBlock == [minBaseFee |-> 0, predefined |-> FALSE, minIsLast |-> FALSE]
TwoBundlers == {BundlersAt(20), BundlersAt(9)}
ThreeOptions == <<Option("account", "usd", FALSE, 1, 100, 0, 3, "byBundler"),
                  Option("account", "eth", TRUE, 10, 1, 4, 400, "byRelayer"),
                  Option("key1", "eth", FALSE, 10, 1, 4, 60, "byOtherEOA")>>
Gas == INSTANCE GasSpeeds WITH
    phase <- feePhase
\* What the variables of the parts hold, and that None is none of it.
Statuses == {"Sent", "BroadcastButStuck", "Success", "Failure"}
Withdrawal == [by : Owners, status : Statuses]
PrivateOp == [at : {"balance", "prepare", "broadcast", "confirm", "record"}, own : BOOLEAN, tries : 0..2]
Initialisation == [at : {"storage", "plugin", "id"}, of : Holders \cup {None}]
Reading == [n : Nat, at : {"balance", "notes", "saving"}]
Unshielding == [at : {"broadcast", "sync", "recording"}, what : Nat, sync : Nat]
Withdrawn == [what : Nat, status : {"Broadcasted", "Success", "Failure"}]
Pairs == Chains \X Chains
ActiveRoute ==
    [status : {"ready", "in-progress", "waiting-approval-to-resolve", "completed", "refunded", "failed"},
     hash : Nat \cup {None}, error : BOOLEAN]
\* What a block, the bundler and an estimate give: amounts, a bundler's prices from slow to ape.
GoodOption(fee) ==
    /\ fee # None /\ fee.ratio \in (Nat \ {0}) \cup {None} /\ {fee.scale, fee.gas} \subseteq Nat \ {0}
    /\ {fee.addedNative, fee.available} \subseteq Nat /\ fee.how \in {"byOtherEOA", "byRelayer", "byBundler"}
GoodBundler(prices) ==
    /\ prices \in [1..4 -> [fee : Nat \ {0}, tip : Nat]]
    /\ \A i \in 2..4 : prices[i - 1].fee <= prices[i].fee
Offered == {FeeOptions[k] : k \in DOMAIN FeeOptions}
SignStatuses == {"EstimationError", "UnableToSign", "ReadyToSign", "InProgress", "Done"}
ASSUME ScreensAssumption ==
    /\ {Withdrawals, TransferUpdates, ListTurns, Attempts, Restarts} \subseteq Nat
    /\ None \notin Nat \cup Holders \cup Listed \cup Rare \cup {Tok!Nothing} \cup Tok!Token
    /\ None \notin Withdrawal \cup Statuses \cup PrivateOp \cup Initialisation \cup ActiveRoute
    /\ None \notin [by : Holders, state : Holders] \cup [chain : TransferChains, send : Sends]
    /\ None \notin Unshielding \cup Withdrawn \cup [tokens : SUBSET Tok!Token, old : BOOLEAN]
    /\ NotYet \notin Holders \cup {None} /\ Budgets \subseteq [turns : Nat, ops : Nat]
    /\ MaxLoops \in Nat \ {0} /\ FeeTurns \in Nat /\ Covers \in [Batches -> [FeeTokens -> Nat]]
    /\ None \notin Batches \cup FeeTokens \cup Messages \cup SignStatuses
    /\ None \notin [of : Batches, token : FeeTokens, speed : Nat] \cup [of : Batches, token : FeeTokens]
    /\ None \notin [of : Batches, options : SUBSET FeeTokens]
    /\ Blocks \subseteq [baseFee : Nat, gasTarget : Nat \ {0}, gasUsed : Nat, tips : Seq(Nat), prices : Seq(Nat)]
    /\ Network \in [minBaseFee : Nat, predefined : BOOLEAN, minIsLast : BOOLEAN]
    /\ EthPrices \subseteq (Nat \ {0}) \cup {None} /\ {MinTip, MinGas, RatioOne, MaxAttempts} \subseteq Nat \ {0}
    /\ FeeOptions = [k \in 1..Len(FeeOptions) |-> FeeOptions[k]] /\ Len(FeeOptions) \in Nat
    /\ \A k \in DOMAIN FeeOptions : GoodOption(FeeOptions[k])
    /\ None \notin BundlerPrices /\ \A prices \in BundlerPrices : GoodBundler(prices)
    /\ None \notin [option : Offered, speed : 1..4, amount : Nat, price : Nat]

\* The variables of the parts that a behaviour is not about are None, those of the
\* swap screen as they are at first.
PoolsIdle == /\ owner = None /\ withdrawal = None /\ relayerQuote = None /\ updateQuoteId = None
             /\ drawn = None /\ updateQuoteStatus = None /\ fetches = None /\ refetching = None
             /\ shown = None /\ submitted = None /\ submits = None /\ pollOf = None /\ polls = None
             /\ saved = None /\ mined = None /\ steps = None
RailIdle == /\ holder = None /\ defaultKeys = None /\ derivedKeys = None /\ deriving = None
            /\ shield = None /\ preparing = None /\ estimating = None /\ relayed = None
            /\ relays = None /\ tracked = None /\ history = None /\ syncs = None
SendIdle == /\ transfer = None /\ signer = None /\ starting = None /\ looping = None
            /\ sending = None /\ latestSent = None /\ updates = None
FormIdle == /\ fromChain = None /\ toChain = None /\ fromToken = None /\ toToken = None
            /\ toList = None /\ cachedLists = None /\ listStatus = None /\ recent = None
            /\ throttled = None /\ listCalls = None /\ sessions = None /\ choices = None
FeesIdle == /\ opCalls = None /\ estimation = None /\ estimationError = None
            /\ estimationStatus = None /\ hasEstimated = None /\ estimates = None
            /\ gasPrices = None /\ gasFetches = None /\ gasWaits = None /\ stopRefetching = None
            /\ thrown = None /\ abandoned = None
            /\ feeToken = None /\ speed = None /\ option = None /\ speeds = None /\ payment = None
            /\ signing = None /\ userOp = None /\ recovered = None /\ turnsLeft = None
MsgIdle == /\ messageToSign = None /\ signingKey = None /\ signedMessage = None /\ signJob = None
           /\ handlers = None /\ stored = None /\ answers = None /\ replaced = None
           /\ presses = None
MailIdle == /\ isWaiting = None /\ isUploading = None /\ stopPolling = None /\ magicKey = None
            /\ sessionKey = None /\ known = None /\ flows = None /\ threw = None
            /\ emailTurns = None
PluginIdle == /\ selected = None /\ unlocked = None /\ current = None /\ instance = None
              /\ isInitialized = None /\ initError = None /\ init = None /\ wasm = None
              /\ balance = None /\ syncState = None /\ saves = None /\ tree = None /\ asked = None
              /\ op = None /\ inFlight = None /\ prepared = None /\ sent = None /\ recorded = None
              /\ shieldOp = None /\ making = None /\ reestimates = None /\ crossed = None
              /\ railLeft = None
PluginV1Idle == /\ ppv1Instance = None /\ failedInit = None /\ initialising = None
                /\ pendingUnshield = None /\ preparations = None /\ unshielding = None
                /\ latestUnshield = None /\ accepted = None /\ kept = None /\ notesState = None
                /\ readings = None /\ syncThrew = None /\ deposit = None /\ deposits = None
                /\ callsDrawn = None /\ poolTurns = None
TokIdle == /\ tokenForm = None /\ tokenLists = None /\ updateToTokenListStatus = None
           /\ listFailed = None /\ listRecent = None /\ listThrottled = None /\ listFetches = None
           /\ listSelecting = None /\ adding = None /\ misfiled = None /\ dropped = None
           /\ listTurns = None
RouteIdle == /\ active = None /\ savedRoutes = None /\ routeOps = None /\ tellings = None
             /\ routePolls = None /\ untold = None /\ routeRestarts = None
GasIdle == /\ attempts = None /\ recommended = None /\ bundlerGasPrices = None /\ feeSpeeds = None
           /\ paysWith = None /\ paceOfFee = None /\ gasFeePayment = None /\ feeCall = None
           /\ feePhase = None /\ paymasterCalls = None /\ signatures = None
OthersIdle ==
    /\ SwapInit
    /\ IF part = "pools" THEN TRUE ELSE PoolsIdle
    /\ IF part = "railgun" THEN TRUE ELSE RailIdle
    /\ IF part = "transfer" THEN TRUE ELSE SendIdle
    /\ IF part = "form" THEN TRUE ELSE FormIdle
    /\ IF part = "fees" THEN TRUE ELSE FeesIdle
    /\ IF part = "message" THEN TRUE ELSE MsgIdle
    /\ IF part = "email" THEN TRUE ELSE MailIdle
    /\ IF part = "plugin" THEN TRUE ELSE PluginIdle
    /\ IF part = "pluginV1" THEN TRUE ELSE PluginV1Idle
    /\ IF part = "tokens" THEN TRUE ELSE TokIdle
    /\ IF part = "routes" THEN TRUE ELSE RouteIdle
    /\ IF part = "prices" THEN TRUE ELSE GasIdle
OthersUnchanged ==
    /\ UNCHANGED part
    /\ IF part = "swap" THEN TRUE ELSE UNCHANGED swapVars
    /\ IF part = "pools" THEN TRUE ELSE UNCHANGED poolsVars
    /\ IF part = "railgun" THEN TRUE ELSE UNCHANGED railVars
    /\ IF part = "transfer" THEN TRUE ELSE UNCHANGED sendVars
    /\ IF part = "form" THEN TRUE ELSE UNCHANGED formVars
    /\ IF part = "fees" THEN TRUE ELSE UNCHANGED feesVars
    /\ IF part = "message" THEN TRUE ELSE UNCHANGED msgVars
    /\ IF part = "email" THEN TRUE ELSE UNCHANGED mailVars
    /\ IF part = "plugin" THEN TRUE ELSE UNCHANGED pluginVars
    /\ IF part = "pluginV1" THEN TRUE ELSE UNCHANGED pluginV1Vars
    /\ IF part = "tokens" THEN TRUE ELSE UNCHANGED tokVars
    /\ IF part = "routes" THEN TRUE ELSE UNCHANGED routeVars
    /\ IF part = "prices" THEN TRUE ELSE UNCHANGED gasVars
Init ==
    \/ part = "swap" /\ SwapInit /\ OthersIdle
    \/ part = "pools" /\ Pools!Init /\ OthersIdle
    \/ part = "railgun" /\ Rail!Init /\ OthersIdle
    \/ part = "transfer" /\ Send!Init /\ OthersIdle
    \/ part = "form" /\ Form!Init /\ OthersIdle
    \/ part = "fees" /\ Fees!Init /\ OthersIdle
    \/ part = "message" /\ Msg!Init /\ OthersIdle
    \/ part = "email" /\ Mail!Init /\ OthersIdle
    \/ part = "plugin" /\ Plugin!Init /\ OthersIdle
    \/ part = "pluginV1" /\ PluginV1!Init /\ OthersIdle
    \/ part = "tokens" /\ Tok!Init /\ OthersIdle
    \/ part = "routes" /\ Route!Init /\ OthersIdle
    \/ part = "prices" /\ Gas!Init /\ OthersIdle
Next ==
    \/ part = "swap" /\ SwapNext /\ OthersUnchanged
    \/ part = "pools" /\ Pools!Next /\ OthersUnchanged
    \/ part = "railgun" /\ Rail!Next /\ OthersUnchanged
    \/ part = "transfer" /\ Send!Next /\ OthersUnchanged
    \/ part = "form" /\ Form!Next /\ OthersUnchanged
    \/ part = "fees" /\ Fees!Next /\ OthersUnchanged
    \/ part = "message" /\ Msg!Next /\ OthersUnchanged
    \/ part = "email" /\ Mail!Next /\ OthersUnchanged
    \/ part = "plugin" /\ Plugin!Next /\ OthersUnchanged
    \/ part = "pluginV1" /\ PluginV1!Next /\ OthersUnchanged
    \/ part = "tokens" /\ Tok!Next /\ OthersUnchanged
    \/ part = "routes" /\ Route!Next /\ OthersUnchanged
    \/ part = "prices" /\ Gas!Next /\ OthersUnchanged
vars == <<part, swapVars, poolsVars, railVars, sendVars, formVars, feesVars, msgVars, mailVars,
           pluginVars, pluginV1Vars, tokVars, routeVars, gasVars>>
Spec == Init /\ [][Next]_vars

\* The types of every part, and its properties, which its module explains.
ScreensTypeOK ==
    /\ SwapTypeOK
    /\ part = "pools" => Pools!TypeOK
    /\ part = "railgun" => Rail!TypeOK
    /\ part = "transfer" => Send!TypeOK
    /\ part = "form" => Form!TypeOK
    /\ part = "fees" => Fees!TypeOK
    /\ part = "message" => Msg!TypeOK
    /\ part = "email" => Mail!TypeOK
    /\ part = "plugin" => Plugin!TypeOK
    /\ part = "pluginV1" => PluginV1!TypeOK
    /\ part = "tokens" => Tok!TypeOK
    /\ part = "routes" => Route!TypeOK
    /\ part = "prices" => Gas!TypeOK

\* What leaves a screen is what it was for: the fee is paid with an option of the
\* present estimate and is the amount that was shown, a dapp gets the signature of its own message
\* (signAccountOp.ts, signMessage.ts), a private operation is what was asked for, by the instance of the
\* selected account (railgunV2.ts).
SignsWhatIsShown ==
    /\ part = "fees" => Fees!FeeIsOffered
    /\ part = "message" => Msg!AnswersAreVerified
    /\ part = "plugin" => Plugin!SendsWhatWasPrepared
    /\ part = "plugin" => Plugin!PluginIsOfTheAccount
    /\ part = "prices" => Gas!FasterIsDearer
    /\ part = "prices" => Gas!PaysWhatIsShown

\* What goes on by itself goes on, and what has ended is not waited for: the controller of a screen is
\* estimated again, gas prices are fetched again, and a vault that no method polls does not wait
\* (swapAndBridge.ts, transfer.ts, railgun.ts, railgunV2.ts, privacyPoolsV1.ts, gasPrice.ts,
\* emailVault.ts).
LoopsAreKept ==
    /\ ControllerIsReestimated
    /\ part = "railgun" => Rail!ControllerIsReestimated
    /\ part = "transfer" => Send!ControllerIsReestimated
    /\ part = "plugin" => Plugin!WaitsEnd
    /\ part = "pluginV1" => PluginV1!WaitsEnd
    /\ part = "fees" => Fees!GasPricesAreRefetched
    /\ part = "email" => Mail!QuietVaultIsReady

\* What is shown as loading is being fetched: a quote, a token list or an estimate that was overtaken,
\* debounced or made invalid leaves no status that waits for ever (swapAndBridge.ts, privacyPools.ts,
\* transactionFormState.ts, estimation.ts).
FetchingIsCurrent ==
    /\ QuoteIsFetched
    /\ part = "pools" => Pools!FetchingIsCurrent
    /\ part = "form" => Form!FetchingIsCurrent
    /\ part = "fees" => Fees!FetchingIsCurrent
    /\ part = "tokens" => Tok!FetchingIsCurrent

\* A relayed operation is not shown as successful before it is saved, and its saved status is what was
\* mined; none is sent twice (railgun.ts, railgunV2.ts, privacyPools.ts, privacyPoolsV1.ts). A route
\* of a swap shows the end that the history knows, after any restart (swapAndBridge.ts).
RelaysAreRecorded ==
    /\ part = "railgun" => Rail!SuccessIsSaved
    /\ part = "plugin" => Plugin!SuccessIsRecorded
    /\ part = "pluginV1" => PluginV1!SuccessIsRecorded
    /\ part = "pools" => Pools!SavedStatusIsMined
    /\ part = "routes" => Route!RoutesShowTheirEnd
=============================================================================
