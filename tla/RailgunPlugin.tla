--------------------------- MODULE RailgunPlugin ----------------------------
(***************************************************************************)
(* RailgunControllerV2: the instance of the railgun library that is made   *)
(* for the selected account, the lock around its calls, the background     *)
(* synchronisation of its notes, and the private operation (an unshield or *)
(* a transfer) that is prepared and broadcast under that lock.             *)
(*                                                                         *)
(* The screen starts no second private operation while privateOpInFlight.  *)
(***************************************************************************)
EXTENDS Integers, Sequences

CONSTANTS
    Holders,    \* accounts
    Budgets,    \* bounds: turns (synchronisations, shields, switches and updates of the keystore)
                \* and private operations
    None, NotYet

VARIABLES
    selected, unlocked,  \* SelectedAccountController.account, KeystoreController.isUnlocked
    current,             \* #currentAccountAddr
    instance,            \* #instance: whose keys it has
    isInitialized, initError,
    init,                \* #initPromise: what #runInit waits for, and whose keys it has read
    wasm,                \* #wasmLock: the call that runs, and on which instance, and those that wait
    balance,             \* whose balance is shown
    syncState, saves,    \* saves: synchronisations that wait for the storage
    tree,                \* how often the library has read the chain
    asked,               \* how often it was called
    op,                  \* submitPrivateOp: what it waits for
    inFlight,            \* privateOpInFlight
    prepared,            \* pendingPrivateOperation
    sent,                \* latestBroadcastedAccountOp
    recorded,            \* what ActivityController was given
    shieldOp,            \* signAccountOpController, of a shield: whose
    making,              \* #initSignAccOp waits for the account state
    reestimates,         \* #reestimateAbortController is there
    crossed,             \* the account was switched during an initialisation or a call
    railLeft             \* what the bounds leave
inits == <<current, instance, isInitialized, initError, init>>
syncing == <<balance, syncState, saves, tree>>
private == <<asked, op, inFlight, prepared, sent, recorded>>
shielding == <<shieldOp, making, reestimates>>
vars == <<selected, unlocked, inits, wasm, syncing, private, shielding, crossed, railLeft>>

Turn == railLeft.turns > 0 /\ railLeft' = [railLeft EXCEPT !.turns = @ - 1]

\* #withWasmLock: a call reads this.#instance when the one before it has settled.
Call(queue, what) == Append(queue, [what |-> what, on |-> IF queue = <<>> THEN instance ELSE NotYet])
Rest == IF Len(wasm) = 1 THEN <<>> ELSE [Tail(wasm) EXCEPT ![1].on = instance]
Runs(what) == wasm # <<>> /\ wasm[1].what = what
Returns(what) == Runs(what) /\ wasm[1].on # None

\* reset and destroySignAccountOp
Reset ==
    /\ instance' = None /\ isInitialized' = FALSE /\ initError' = FALSE
    /\ prepared' = None /\ balance' = None /\ syncState' = "unsynced"
    /\ shieldOp' = None /\ reestimates' = FALSE
Kept == UNCHANGED <<instance, isInitialized, initError, prepared, balance, syncState, shieldOp, reestimates>>
\* init: joins the one that is under way, or #runInit up to its first await
InitOnce == init' = IF init = None THEN [at |-> "storage", of |-> None] ELSE init

\* the subscription to SelectedAccountController, which also reports other changes
SelectAccount(h) ==
    /\ Turn /\ selected' = h /\ current' = h
    /\ crossed' = (crossed \/ (h # selected /\ (init # None \/ wasm # <<>> \/ saves > 0 \/ op # None)))
    /\ IF h # current THEN Reset ELSE Kept
    /\ IF ~isInitialized' /\ ~initError' /\ unlocked THEN InitOnce ELSE UNCHANGED init
    /\ UNCHANGED <<unlocked, wasm, saves, tree, asked, op, inFlight, sent, recorded, making>>
\* the subscription to KeystoreController
KeystoreUpdates(open) ==
    /\ Turn /\ unlocked' = open
    /\ IF instance = None /\ open
       THEN InitOnce /\ IF init = None THEN Reset /\ current' = selected ELSE Kept /\ UNCHANGED current
       ELSE Kept /\ UNCHANGED <<current, init>>
    /\ UNCHANGED <<selected, wasm, saves, tree, asked, op, inFlight, sent, recorded, making, crossed>>

Initialising == UNCHANGED <<selected, unlocked, current, wasm, syncing, private, shielding, crossed, railLeft>>
\* #runInit: the storage is there, hostFactory takes the selected account ...
HostMade ==
    /\ init # None /\ init.at = "storage" /\ init' = [at |-> "plugin", of |-> selected]
    /\ UNCHANGED <<instance, isInitialized, initError>> /\ Initialising
PluginMade ==
    /\ init # None /\ init.at = "plugin" /\ init' = [init EXCEPT !.at = "id"]
    /\ instance' = init.of /\ UNCHANGED <<isInitialized, initError>> /\ Initialising
Initialised ==
    /\ init # None /\ init.at = "id" /\ init' = None
    /\ isInitialized' = TRUE /\ UNCHANGED <<instance, initError>> /\ Initialising
InitFails ==
    /\ init # None /\ init' = None /\ initError' = TRUE
    /\ UNCHANGED <<instance, isInitialized>> /\ Initialising

Others == UNCHANGED <<selected, unlocked, inits, crossed>>
MaySync == instance # None /\ syncState # "syncing" /\ ~inFlight
Sync ==
    /\ Turn /\ MaySync /\ syncState' = "syncing" /\ wasm' = Call(wasm, "sync")
    /\ UNCHANGED <<balance, saves, tree, private, shielding>> /\ Others
Synced ==
    /\ Returns("sync") /\ wasm' = Rest /\ tree' = tree + 1 /\ balance' = wasm[1].on /\ saves' = saves + 1
    /\ UNCHANGED <<syncState, private, shielding, railLeft>> /\ Others
SyncSaved ==
    /\ saves > 0 /\ saves' = saves - 1 /\ syncState' = "synced"
    /\ UNCHANGED <<wasm, balance, tree, private, shielding, railLeft>> /\ Others
SyncFails ==
    /\ \/ Runs("sync") /\ wasm' = Rest /\ UNCHANGED saves
       \/ saves > 0 /\ saves' = saves - 1 /\ UNCHANGED wasm
    /\ syncState' = "unsynced"
    /\ UNCHANGED <<balance, tree, private, shielding, railLeft>> /\ Others

\* prepareShield, and what syncSignAccountOp does with its calls
PrepareShield ==
    /\ Turn /\ instance # None /\ wasm' = Call(wasm, "shield")
    /\ UNCHANGED <<syncing, private, shielding>> /\ Others
ShieldPrepared ==
    /\ Returns("shield") /\ wasm' = Rest /\ making' = making + 1
    /\ shieldOp' = None /\ reestimates' = (reestimates /\ shieldOp = None)
    /\ UNCHANGED <<syncing, private, railLeft>> /\ Others
ShieldFails ==
    /\ Runs("shield") /\ wasm' = Rest
    /\ UNCHANGED <<syncing, private, shielding, railLeft>> /\ Others
\* #initSignAccOp after the account state; reestimate keeps a loop that is there
InitSignAccOp ==
    /\ making > 0 /\ making' = making - 1 /\ shieldOp' = selected /\ reestimates' = TRUE
    /\ UNCHANGED <<wasm, syncing, private, railLeft>> /\ Others
InitSignAccOpFails ==
    /\ making > 0 /\ making' = making - 1
    /\ UNCHANGED <<wasm, syncing, private, shieldOp, reestimates, railLeft>> /\ Others
DestroySignAccountOp ==
    /\ shieldOp # None /\ shieldOp' = None /\ reestimates' = FALSE
    /\ UNCHANGED <<wasm, syncing, private, making, railLeft>> /\ Others

\* submitPrivateOp: the finally, whatever was thrown
OpEnds == op' = None /\ inFlight' = FALSE
\* broadcastPrivateOp up to the lock; own is FALSE when what is prepared is not what was asked for
Broadcast(queue, n, own, pending) ==
    \/ /\ pending = None \/ instance = None
       /\ OpEnds /\ wasm' = queue
       /\ sent' = IF pending = None \/ sent = None THEN sent ELSE [sent EXCEPT !.status = "Failure"]
    \/ /\ pending # None /\ instance # None /\ UNCHANGED inFlight
       /\ op' = [at |-> "broadcast", own |-> own, tries |-> 0] /\ wasm' = Call(queue, "broadcast")
       /\ sent' = [n |-> n, by |-> selected, status |-> "Broadcasted"]
SubmitPrivateOp ==
    /\ op = None /\ asked < railLeft.ops /\ asked' = asked + 1
    /\ IF instance = None THEN Broadcast(wasm, asked + 1, FALSE, prepared)
       ELSE /\ op' = [at |-> "balance", own |-> TRUE, tries |-> 0] /\ inFlight' = TRUE
            /\ wasm' = Call(wasm, "balance") /\ UNCHANGED sent
    /\ UNCHANGED <<prepared, recorded, syncing, shielding, railLeft>> /\ Others
At(step) == op # None /\ op.at = step
Balanced ==
    /\ At("balance") /\ Returns("balance") /\ tree' = tree + 1 /\ balance' = wasm[1].on
    /\ IF instance = None THEN Broadcast(Rest, asked, FALSE, prepared)
       ELSE op' = [op EXCEPT !.at = "prepare"] /\ wasm' = Call(Rest, "prepare") /\ UNCHANGED <<inFlight, sent>>
    /\ UNCHANGED <<asked, prepared, recorded, syncState, saves, shielding, railLeft>> /\ Others
BalanceFails ==
    /\ At("balance") /\ Runs("balance") /\ wasm' = Rest /\ OpEnds
    /\ UNCHANGED <<asked, prepared, sent, recorded, syncing, shielding, railLeft>> /\ Others
\* prepareUnshield and prepareTransfer
Prepared ==
    /\ At("prepare") /\ Returns("prepare")
    /\ prepared' = [n |-> asked, of |-> wasm[1].on, tree |-> tree]
    /\ Broadcast(Rest, asked, TRUE, prepared')
    /\ UNCHANGED <<asked, recorded, syncing, shielding, railLeft>> /\ Others
PrepareFails ==
    /\ At("prepare") /\ Runs("prepare") /\ Broadcast(Rest, asked, FALSE, prepared)
    /\ UNCHANGED <<asked, prepared, recorded, syncing, shielding, railLeft>> /\ Others
BroadcastFailed == OpEnds /\ sent' = IF sent = None THEN None ELSE [sent EXCEPT !.status = "Failure"]
\* The balances are read up to three times until the funds have moved.
BroadcastReturns ==
    /\ At("broadcast") /\ Returns("broadcast") /\ prepared' = None
    /\ op' = [op EXCEPT !.at = "confirm"] /\ wasm' = Call(Rest, "confirm")
    /\ UNCHANGED <<asked, inFlight, sent, recorded, syncing, shielding, railLeft>> /\ Others
BroadcastRejects ==
    /\ At("broadcast") /\ Runs("broadcast") /\ wasm' = Rest /\ BroadcastFailed
    /\ UNCHANGED <<asked, prepared, recorded, syncing, shielding, railLeft>> /\ Others
\* addAccountOp is given what latestBroadcastedAccountOp is by then
Moved ==
    /\ op' = [op EXCEPT !.at = "record"] /\ UNCHANGED <<inFlight, sent>>
    /\ recorded' = recorded \cup {[n |-> asked, by |-> IF sent = None THEN None ELSE sent.by]}
Confirm(moved) ==
    /\ At("confirm") /\ Returns("confirm") /\ tree' = tree + 1 /\ balance' = wasm[1].on
    /\ IF moved THEN Moved /\ wasm' = Rest
       ELSE /\ UNCHANGED recorded
            /\ IF op.tries = 2 THEN BroadcastFailed /\ wasm' = Rest
               ELSE op' = [op EXCEPT !.tries = @ + 1] /\ wasm' = Call(Rest, "confirm") /\ UNCHANGED <<inFlight, sent>>
    /\ UNCHANGED <<asked, prepared, syncState, saves, shielding, railLeft>> /\ Others
ConfirmFails ==
    /\ At("confirm") /\ Runs("confirm") /\ wasm' = Rest /\ BroadcastFailed
    /\ UNCHANGED <<asked, prepared, recorded, syncing, shielding, railLeft>> /\ Others
Recorded ==
    /\ At("record") /\ OpEnds /\ sent' = IF sent = None THEN None ELSE [sent EXCEPT !.status = "Success"]
    /\ UNCHANGED <<asked, wasm, prepared, recorded, syncing, shielding, railLeft>> /\ Others
DestroyLatestBroadcastedAccountOp ==
    /\ sent # None /\ sent' = None
    /\ UNCHANGED <<wasm, asked, op, inFlight, prepared, recorded, syncing, shielding, railLeft>> /\ Others

Init ==
    /\ selected \in Holders /\ unlocked = FALSE /\ current = None
    /\ instance = None /\ isInitialized = FALSE /\ initError = FALSE /\ init = None /\ wasm = <<>>
    /\ balance = None /\ syncState = "unsynced" /\ saves = 0 /\ tree = 0
    /\ asked = 0 /\ op = None /\ inFlight = FALSE /\ prepared = None /\ sent = None /\ recorded = {}
    /\ shieldOp = None /\ making = 0 /\ reestimates = FALSE
    /\ crossed = FALSE /\ railLeft \in Budgets
Next ==
    \/ \E h \in Holders : SelectAccount(h)
    \/ \E open \in BOOLEAN : KeystoreUpdates(open)
    \/ HostMade \/ PluginMade \/ Initialised \/ InitFails
    \/ Sync \/ Synced \/ SyncSaved \/ SyncFails
    \/ PrepareShield \/ ShieldPrepared \/ ShieldFails
    \/ InitSignAccOp \/ InitSignAccOpFails \/ DestroySignAccountOp
    \/ SubmitPrivateOp \/ Balanced \/ BalanceFails \/ Prepared \/ PrepareFails
    \/ BroadcastReturns \/ BroadcastRejects \/ \E moved \in BOOLEAN : Confirm(moved)
    \/ ConfirmFails \/ Recorded \/ DestroyLatestBroadcastedAccountOp
Spec == Init /\ [][Next]_vars
-----------------------------------------------------------------------------
TypeOK ==
    /\ selected \in Holders /\ {current, instance, balance, shieldOp} \subseteq Holders \cup {None}
    /\ syncState \in {"unsynced", "syncing", "synced"} /\ making >= 0 /\ asked <= railLeft.ops
    /\ \A i \in 2..Len(wasm) : wasm[i].on = NotYet
    /\ wasm # <<>> => wasm[1].on # NotYet

\* What is broadcast is what the user has asked for last, and no synchronisation has moved the tree
\* since it was prepared (railgunV2.ts:298-299); unless the account was switched meanwhile, or its own
\* preparation failed and what an earlier broadcast left is sent (railgunV2.ts:557).
SendsWhatWasPrepared ==
    At("broadcast") /\ op.own /\ ~crossed => prepared = [n |-> asked, of |-> selected, tree |-> tree]

\* The plugin works for the selected account, whose keys it was made with, unless the account was
\* switched while the plugin was made or called (railgunV2.ts:182-196).
PluginIsOfTheAccount ==
    ~crossed => {instance, balance} \subseteq {selected, None} /\ (isInitialized => instance # None)

\* An operation that is shown as successful was recorded (railgunV2.ts:676-683).
SuccessIsRecorded == sent # None /\ sent.status = "Success" => sent.n \in {r.n : r \in recorded}

\* Nothing waits for what has ended: a synchronisation and a private operation are only under way as
\* long as a call is, and a shield is estimated again as long as it has a controller.
WaitsEnd ==
    /\ syncState = "syncing" => saves > 0 \/ \E i \in DOMAIN wasm : wasm[i].what = "sync"
    /\ inFlight <=> op # None
    /\ reestimates <=> shieldOp # None
=============================================================================
