----------------------------- MODULE GasSpeeds -----------------------------
(***************************************************************************)
(* What a fee costs: the gas prices that are recommended from a block, the *)
(* speeds that SignAccountOpController computes from them for every fee    *)
(* option, and the payment that it signs, as a call of the operation       *)
(* where a relayer or a paymaster wants one.  When estimates and fetches   *)
(* begin is in AccountOpFees.  Amounts are small integers: MinTip, MinGas  *)
(* and RatioOne stand for 100000 wei, 1 gwei and 1e18.                     *)
(* Left out: replacement, sponsors, delegations, the gas of an operation.  *)
(***************************************************************************)
EXTENDS Integers, Sequences, FiniteSetsExt, TLC

CONSTANTS
    Blocks,      \* [baseFee, gasTarget, gasUsed, tips, prices]; baseFee is 0 before EIP-1559
    Network,     \* [minBaseFee, predefined, minIsLast]
    EthPrices,   \* answers of eth_gasPrice, None when it fails
    BundlerPrices,  \* prices of a bundler, slow to ape: [fee, tip] each
    FeeOptions,  \* [paidBy, token, gasTank, ratio, scale, gas, addedNative, available, how]
    MinTip, MinGas, RatioOne,
    MaxAttempts, \* 5 in the code
    Signatures,  \* bound: calls of sign
    None

VARIABLES
    attempts,          \* counter of refetchBlock, None when nothing is fetched
    recommended,       \* gasPrices
    bundlerGasPrices, feeSpeeds,
    paysWith,          \* selectedOption
    paceOfFee,         \* selectedFeeSpeed
    gasFeePayment,     \* [option, speed, amount, price]
    feeCall,
    phase,             \* status
    paymasterCalls,    \* how often it refused this user operation, None before it is built
    signatures         \* calls of sign that are left
vars == <<attempts, recommended, bundlerGasPrices, feeSpeeds, paysWith, paceOfFee, gasFeePayment,
          feeCall, phase, paymasterCalls, signatures>>
fees == <<recommended, bundlerGasPrices, feeSpeeds, paysWith, paceOfFee, gasFeePayment>>

Speeds == 1..4
Ape == 4
AtLeast(a, b) == IF a >= b THEN a ELSE b
AtMost(a, b) == IF a <= b THEN a ELSE b
Total(s) == FoldFunction(+, 0, s)

-----------------------------------------------------------------------------
(* gasPrice.ts *)

\* the k-th of the sorted data
Ranked(data, k) ==
    CHOOSE x \in Range(data) : /\ Cardinality({i \in DOMAIN data : data[i] < x}) < k
                               /\ Cardinality({i \in DOMAIN data : data[i] <= x}) >= k
\* The sorted data, without those that are further from the middle half than one and a half of it.
FilterOutliers(data) ==
    IF data = <<>> THEN <<>>
    ELSE LET n      == Len(data)
             sorted == [k \in 1..n |-> Ranked(data, k)]
             q1     == sorted[n \div 4 + 1]
             q2     == sorted[AtMost((3 * n + 3) \div 4, n - 1) + 1]
             reach  == ((q2 - q1) * 15) \div 10
         IN SubSeq(sorted, Cardinality({i \in DOMAIN data : data[i] < q1 - reach}) + 1,
                   Cardinality({i \in DOMAIN data : data[i] <= q2 + reach}))
\* the i-th of four groups; the last has what remains
NthGroup(data, i) ==
    LET step == Len(data) \div 4
        at   == (i - 1) * step
    IN SubSeq(data, at + 1,
              IF i = Ape /\ Len(data) >= 4 THEN Len(data)
              ELSE AtMost(at + AtLeast(1, step), Len(data)))
Average(data) == IF data = <<>> THEN 0 ELSE Total(data) \div Len(data)

MinBaseFee(block) ==
    IF Network.minBaseFee > 0 THEN Network.minBaseFee
    ELSE IF Network.predefined /\ ~Network.minIsLast THEN 0 ELSE block.baseFee
\* An eighth more for every unit of target that is used above the target, and never less.
ExpectedBaseFee(block) ==
    LET above == block.gasUsed - block.gasTarget
        delta == (block.baseFee * above) \div (block.gasTarget * 8)
    IN AtLeast(MinBaseFee(block), block.baseFee + IF above > 0 THEN AtLeast(delta, 1) ELSE 0)
BaseFee(block, i) == ExpectedBaseFee(block) + (ExpectedBaseFee(block) * (i - 1) * 500) \div 10000
TipAfter(tips, i, previous) ==
    LET step == previous \div IF i = Ape THEN 2 ELSE 8
    IN AtLeast(AtLeast(Average(NthGroup(tips, i)), MinTip), previous + step)
Tips(tips) ==
    LET tip[i \in Speeds] == TipAfter(tips, i, IF i = 1 THEN 0 ELSE tip[i - 1])
    IN tip
\* getGasPriceRecommendations: what a unit of gas costs at each speed, and the tip in it
Recommendations(block, ethPrice) ==
    IF block.baseFee > 0
    THEN LET tips == Tips(FilterOutliers(block.tips))
         IN [i \in Speeds |-> [price |-> BaseFee(block, i) + tips[i], tip |-> tips[i]]]
    ELSE LET prices == FilterOutliers(block.prices)
             least  == IF ethPrice = None THEN MinGas ELSE ethPrice
         IN [i \in Speeds |->
                 [price |-> AtLeast(Average(NthGroup(prices, i)), least), tip |-> None]]

-----------------------------------------------------------------------------
(* The speeds of a fee option *)

\* addExtra, of the bundler's prices: 5, 7, 10 and 20 percent in whole parts of a hundred
Increased(prices) ==
    [i \in Speeds |-> [price |-> prices[i].fee + prices[i].fee \div <<20, 14, 10, 5>>[i],
                       tip |-> prices[i].tip + prices[i].tip \div <<20, 14, 10, 5>>[i]]]
\* getAmountAfterFeeTokenConvert; what is not nothing in wei is not nothing in a token
InFeeToken(wei, option) ==
    LET result == (wei * option.ratio) \div (RatioOne * option.scale)
    IN IF result = 0 /\ wei > 0 THEN 1 ELSE result
IncreaseFee(amount, divisor) == amount + amount \div divisor
Amount(option, price) ==
    LET wei == option.gas * price + option.addedNative
    IN CASE option.how = "byOtherEOA" -> wei
         [] option.how = "byRelayer"  -> IncreaseFee(InFeeToken(wei, option), 20)
         [] option.how = "byBundler"  -> IncreaseFee(InFeeToken(option.gas * price, option), 10)

\* getFeeSpeedIdentifier: accounts that pay with the native token share their speeds
Identifier(option) ==
    <<IF option.how = "byOtherEOA" THEN "EOA" ELSE option.paidBy, option.token, option.gasTank>>
SpeedsOf(option, prices, bundler) ==
    LET best == IF bundler = None THEN prices ELSE Increased(bundler)
    IN IF option.ratio = None \/ (option.how = "byBundler" /\ bundler = None) THEN <<>>
       ELSE [i \in Speeds |-> LET amount == Amount(option, best[i].price)
                              IN [amount |-> amount, price |-> best[i].price,
                                  disabled |-> option.available < amount]]
\* updateFeeSpeeds, for the first option that has an identifier
Shares(id) == {k \in DOMAIN FeeOptions : Identifier(FeeOptions[k]) = id}
FirstWith == [id \in {Identifier(FeeOptions[k]) : k \in DOMAIN FeeOptions} |-> FeeOptions[Min(Shares(id))]]
SpeedsFor(prices, bundler) ==
    IF prices = None THEN feeSpeeds
    ELSE [id \in DOMAIN FirstWith |-> SpeedsOf(FirstWith[id], prices, bundler)]
HasSpeedsOf(speeds, option) == speeds # None /\ option # None /\ speeds[Identifier(option)] # <<>>
\* setDefaultFeeSpeed: fast, or the fastest that the balance pays for
DefaultPace(option) ==
    LET enabled == {i \in Speeds : ~feeSpeeds[Identifier(option)][i].disabled}
    IN IF paysWith # None \/ ~HasSpeedsOf(feeSpeeds, option) THEN paceOfFee
       ELSE IF 3 \in enabled THEN 3 ELSE IF enabled = {} THEN 1 ELSE Max(enabled)
PaymentFor(speeds, option, i) ==
    IF ~HasSpeedsOf(speeds, option) THEN None
    ELSE LET speed == speeds[Identifier(option)][i]
         IN [option |-> option, speed |-> i, amount |-> speed.amount, price |-> speed.price]

\* update, which changes nothing while the user signs
IsFrozen == phase \in {"InProgress", "Done"}
Update(prices, bundler, option, pace) ==
    IF IsFrozen THEN UNCHANGED <<fees, phase>>
    ELSE LET speeds == SpeedsFor(prices, bundler)
         IN /\ recommended' = prices /\ bundlerGasPrices' = bundler
            /\ paysWith' = option /\ paceOfFee' = pace
            /\ feeSpeeds' = speeds /\ gasFeePayment' = PaymentFor(speeds, option, pace)
            /\ phase' = IF gasFeePayment' # None /\ option.available >= gasFeePayment'.amount
                        THEN "ReadyToSign" ELSE "UnableToSign"

-----------------------------------------------------------------------------
FetchGasPrices ==
    /\ attempts = None /\ attempts' = 0
    /\ UNCHANGED <<fees, feeCall, phase, paymasterCalls, signatures>>
\* refetchBlock gives up after its last attempt; the prices that there are stay
BlockFails ==
    /\ attempts # None /\ attempts' = IF attempts + 1 = MaxAttempts THEN None ELSE attempts + 1
    /\ UNCHANGED <<fees, feeCall, phase, paymasterCalls, signatures>>
BlockArrives(block, ethPrice) ==
    /\ attempts # None /\ attempts' = None
    /\ Update(Recommendations(block, ethPrice), bundlerGasPrices, paysWith, paceOfFee)
    /\ UNCHANGED <<feeCall, paymasterCalls, signatures>>
\* An estimation by the bundler, which has its prices.
EstimationByBundler(prices) ==
    /\ Update(recommended, prices, paysWith, paceOfFee)
    /\ UNCHANGED <<attempts, feeCall, paymasterCalls, signatures>>
SelectOption(option) ==
    /\ option # paysWith /\ Update(recommended, bundlerGasPrices, option, DefaultPace(option))
    /\ UNCHANGED <<attempts, feeCall, paymasterCalls, signatures>>
SelectPace(i) ==
    /\ i # paceOfFee /\ Update(recommended, bundlerGasPrices, paysWith, i)
    /\ UNCHANGED <<attempts, feeCall, paymasterCalls, signatures>>

\* addFeePayment
FeeCall ==
    [in |-> IF gasFeePayment.option.gasTank THEN "gasTank" ELSE gasFeePayment.option.token,
     amount |-> gasFeePayment.amount]
\* sign, before its awaits: the fee call of an earlier signature is deleted
SignFee ==
    /\ phase = "ReadyToSign" /\ signatures > 0 /\ signatures' = signatures - 1
    /\ phase' = "InProgress" /\ feeCall' = None /\ paymasterCalls' = None
    /\ UNCHANGED <<attempts, fees>>
\* the signature for a relayer, which the fee call is part of, or for an account that broadcasts
SignExecute ==
    /\ phase = "InProgress" /\ gasFeePayment.option.how # "byBundler" /\ phase' = "Done"
    /\ feeCall' = IF gasFeePayment.option.how = "byRelayer" THEN FeeCall ELSE feeCall
    /\ UNCHANGED <<attempts, fees, paymasterCalls, signatures>>
\* getInitialUserOp; a new estimate changes the prices of the user operation, not what the user pays
BuildForBundler(prices) ==
    /\ phase = "InProgress" /\ gasFeePayment.option.how = "byBundler" /\ paymasterCalls = None
    /\ feeCall' = FeeCall /\ paymasterCalls' = 0 /\ bundlerGasPrices' = prices
    /\ gasFeePayment' = IF prices = bundlerGasPrices THEN gasFeePayment
                        ELSE [gasFeePayment EXCEPT !.price = prices[paceOfFee].fee]
    /\ UNCHANGED <<attempts, recommended, feeSpeeds, paysWith, paceOfFee, phase, signatures>>
\* The paymaster of the wallet is asked once more, with a new estimate.
PaymasterRefuses(prices) ==
    /\ phase = "InProgress" /\ paymasterCalls # None
    /\ IF paymasterCalls = 0
       THEN /\ paymasterCalls' = 1 /\ bundlerGasPrices' = prices
            /\ gasFeePayment' = [gasFeePayment EXCEPT !.price = prices[paceOfFee].fee]
            /\ UNCHANGED phase
       ELSE /\ phase' = "ReadyToSign" /\ paymasterCalls' = None
            /\ UNCHANGED <<bundlerGasPrices, gasFeePayment>>
    /\ UNCHANGED <<attempts, recommended, feeSpeeds, paysWith, paceOfFee, feeCall, signatures>>
PaymasterPays ==
    /\ phase = "InProgress" /\ paymasterCalls # None /\ phase' = "Done"
    /\ UNCHANGED <<attempts, fees, feeCall, paymasterCalls, signatures>>
\* a signature or a broadcast that fails; update comes later
FeeIsNotPaid ==
    /\ IsFrozen /\ phase' = "ReadyToSign" /\ paymasterCalls' = None
    /\ UNCHANGED <<attempts, fees, feeCall, signatures>>

Init ==
    /\ attempts = 0 /\ recommended = None /\ bundlerGasPrices = None /\ feeSpeeds = None
    /\ paysWith = None /\ paceOfFee = 3 /\ gasFeePayment = None /\ feeCall = None /\ phase = None
    /\ paymasterCalls = None /\ signatures = Signatures
Next ==
    \/ FetchGasPrices \/ BlockFails \/ \E b \in Blocks, p \in EthPrices : BlockArrives(b, p)
    \/ \E p \in BundlerPrices : EstimationByBundler(p) \/ BuildForBundler(p) \/ PaymasterRefuses(p)
    \/ \E k \in DOMAIN FeeOptions : SelectOption(FeeOptions[k])
    \/ \E i \in Speeds : SelectPace(i)
    \/ SignFee \/ SignExecute \/ PaymasterPays \/ FeeIsNotPaid
Spec == Init /\ [][Next]_vars
-----------------------------------------------------------------------------
TypeOK ==
    /\ attempts \in {None} \cup 0..(MaxAttempts - 1) /\ paceOfFee \in Speeds
    /\ phase \in {None, "UnableToSign", "ReadyToSign", "InProgress", "Done"}
    /\ IsFrozen => gasFeePayment # None

\* A faster speed never costs less and is not offered where a slower one is too dear, the tip of the
\* next speed is an eighth more, and no fee is free because its token has few decimals
\* (gasPrice.ts:39-77, 184-213, signAccountOp.ts:1071-1115, 1204-1331).
FasterIsDearer ==
    /\ recommended # None => \A i \in 2..4 :
          /\ recommended[i].price >= recommended[i - 1].price
          /\ recommended[i].tip # None =>
                recommended[i].tip >= recommended[i - 1].tip + recommended[i - 1].tip \div 8
    /\ feeSpeeds # None => \A id \in DOMAIN feeSpeeds : \A i \in DOMAIN feeSpeeds[id] :
          /\ feeSpeeds[id][i].amount > 0
          /\ i > 1 => /\ feeSpeeds[id][i].amount >= feeSpeeds[id][i - 1].amount
                      /\ feeSpeeds[id][i - 1].disabled => feeSpeeds[id][i].disabled

\* What is signed pays the amount that was shown for the chosen speed, whatever prices came while
\* the user signed or the paymaster refused; and only a relayer or a paymaster is paid by a call of
\* the operation, whatever was tried before (signAccountOp.ts:1514-1562, 1646-1711, 1757-1767).
PaysWhatIsShown ==
    phase = "Done" =>
        /\ LET speeds == feeSpeeds[Identifier(gasFeePayment.option)]
           IN gasFeePayment.amount = speeds[gasFeePayment.speed].amount
        /\ IF gasFeePayment.option.how = "byOtherEOA" THEN feeCall = None
           ELSE feeCall.amount = gasFeePayment.amount
=============================================================================
