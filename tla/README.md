# A TLA+ verification of the Kohaku wallet core

This directory models the controllers of `kohaku-commons` (the core of the
Ambire/Kohaku wallet, `src/src/`) in TLA+, checks them with TLC on small
instances and proves theorems about them with TLAPS. What ties the
modules to the code is `PROJECT.json`: `map` names the lines every definition
stands for, `runs` the model-checking runs, `theorems` the proved results,
`hazards` what makes this code hard to test, and `findings` the places where the
runs show that the code does not do what its documentation says.

## How the program works, and how it is modelled

The program is TypeScript on one event loop. A controller is an object that
keeps its state in memory, stores parts of it through `StorageController`, calls
other controllers directly or through callbacks given to its constructor, and
tells its listeners of changes (`EventEmitter.emitUpdate`). Nothing runs in
parallel; but every `await` hands over to whatever else is ready. So

* one action is what the code does between two awaits, with every call it makes;
* an asynchronous method in flight is a process: a record with a *stage*, which
  names the await it is in, and the locals it still needs;
* what an await resolves to (answers of the network, a device, the relayer) is a
  nondeterministic choice, failure included;
* the browser may be closed at any moment: where something is stored, an action
  `Restart` keeps the storage and loses the rest.

Data that no property tells apart is abstracted: an operation is its timestamp,
a transaction the operation and call it belongs to, a ciphertext the key that
opens it, an amount or a form field is nothing at all.

## Inventory

Paths are under `src/src/controllers/` unless they say otherwise. *Hard* names
what a unit test would hardly reach; *right when* is what makes the component
correct.

| Component | State | Operations and neighbours | Hard | Right when |
|---|---|---|---|---|
| **Activity** `activity/activity.ts`, `libs/accountOp/submittedAccountOp.ts` | operations per account and chain, newest first; filter sessions | `addAccountOp` (Main, privacy pools, railgun), `updateAccountsOpsStatuses` (a refresh loop, forced by the UI), `removeAccountData`, `hideBanner`, `filterAccountsOps` | a refresh holds list *positions* over up to five awaits; refreshes overlap; queued writes | lists bounded, newest kept; batches settle in order; a status is the operation's own; memory reaches storage |
| **Main: sign and broadcast** `main/main.ts` | `statuses.signAndBroadcastAccountOp`, `#signAndBroadcastCallId`, `feePayerKey` | `handleSignAndBroadcastAccountOp`, `broadcast…`, close handlers of three screens | one status is the lock of all screens; cancelled calls run on; nine awaits that can fail | one call at a time; the history is told what the network took; the lock is released |
| **SignAccountOp** `signAccountOp/` | signing status, choice of signer, payer, speed | `update`, `sign`, `reset`; created by Main, Transfer, Swap, privacy pools | late estimates while signing | nothing changes after the user committed |
| **Transfer** `transfer/` | form, its SignAccountOp | screen open and close | closing while signing | as above |
| **Swap and bridge** `swapAndBridge/` | form, quotes, token lists, active routes, its SignAccountOp | quote updates, `addActiveRoute`, route polling | late quotes and lists; a quote that fails while the user signs; restarts between history and route | the quote signed is the quote shown; a route shows how its operation ended |
| **Privacy pools** `privacyPools/` | form, relayer quote, relayed withdrawals, polls; the plugin's instance | quote updates, withdrawals recorded in Activity, polls of receipts | account switch, second withdrawal, aborted polls | a recorded status is what was mined |
| **Railgun** `railgun/` | keys, shield, relayed withdrawals; the plugin's instance per account, its lock | shield, unshield, transfer, background sync | account switch during an initialisation; a sync between prepare and broadcast | what is sent is what was asked for; success is recorded |
| **Keystore** `keystore/keystore.ts` | main key, secrets, keys, uid, keys that wait | unlock, lock, add/remove secret, change password, add/remove keys; called by the UI, EmailVault, Main | scrypt and storage awaited between check and use; locks and restarts in between | one main key; a stored key can always be read |
| **Email vault** `emailVault/` | session keys, the recovery secret in the relayer | `uploadKeyStoreSecret`, `recoverKeyStore`, confirmation polling | each step may fail or be refused silently | the secret in the vault unlocks the keystore |
| **Storage** `storage/storage.ts` | the browser's storage, a promise queue | `get`, `set`, migrations | writes hold references, not copies; a failed write is logged as done | what is set is stored, in order |
| **EventEmitter** `eventEmitter/eventEmitter.ts` | status per method | `withStatus`, `emitUpdate` | errors are swallowed; calls refused silently; per-call concurrency flag | a method that excludes others overlaps none |
| **Accounts** `accounts/accounts.ts` | accounts, states per network, load promises | `addAccounts`, `removeAccountData`, `updateAccountState…` | a caller joins a load that was started for others; selecting while removing | the selected account exists and has its state |
| **Requests** `requests/requests.ts` | queue of user requests | build, add, remove; waits for Accounts; makes actions | await between queueing a request and making its action; indices into another list | each request is in one action and is answered once |
| **Actions** `actions/actions.ts` | action queue, current action, window | open, focus, close the request window | promises that wait for each other | at most one window; it shows the current action |
| **Selected account** `selectedAccount/`, `libs/selectedAccount/` | account, aggregated portfolio, positions | `setAccount`, debounced recalculation | recalculates only what seems changed | what is shown comes from what is held now |
| **Networks, providers** `networks/`, `providers/` | networks, providers | add, update, remove, synchronize with the relayer | a snapshot merged after five seconds; probes that answer late | a provider asks the url its network selects |
| **Estimation, gas price** `estimation/`, `gasPrice/` | estimate, prices, refetch loop | `estimate`, `refetch` | overlapping estimates; loops that multiply | the fee that is signed is one the estimate offers and the balance covers |
| **Portfolio** `portfolio/portfolio.ts`, `libs/portfolio/` | portfolio per account and network, queue of updates, token preferences and hints | `updateSelectedAccount`, `toggleHideToken`, … | data read when queued, used later; loading marks | updates in order, nothing loads for ever, hints survive |
| **Sign message** `signMessage/` | the message, its signer | `init`, `sign`, `reset` | reset or init under an await | the signature belongs to the message |
| **Account picker** `accountPicker/` | session, page of derived accounts, selection | page, select, add | page, path or seed changes during a derivation or an addition | an account that is added has its key |
| **DeFi positions** `defiPositions/` | positions per account and network, networks with positions | update, removal | partial answers, removal meanwhile, restart | nothing loads for ever; networks are stored |
| **Transaction form** `transaction/` | chains, token, token list, cache | list updates, throttled | throttled, cached and late lists | a list loads only while it is fetched |
| **Address book, dapps, domains, phishing** | small lists with a load and writes | set, look up, store | loads and look-ups that overlap changes, failed loads | what the user set is kept |
| **Banners, feature flags, invite** | flags | set, get | – | – |
| **Libraries** `src/src/libs/` (humanizer, estimate, paymaster, userOperation, portfolio, …) | none | pure functions over large data | – | – |
| **Contracts** `src/contracts/` | privileges, nonce, timelocks; pool, shares, commitments | `execute…`, recovery; enter, leave, rage leave, vest | reentrancy, failing batches, rounding, sequences over days | an account is kept; shares keep their value |
| **v1, dist, audits, tests, vendored data** | – | – | – | not program code |

## Modules

| Module | What it is |
|---|---|
| `Activity`, `ActivityProofs` | the history and its refresh, with storage queue, privacy pools poll and account switch as it meets them |
| `SignAndBroadcast`, `SignAndBroadcastProofs` | the lock of Main, the screens that hold a SignAccountOpController, the calls |
| `StatusLock` | abstract: what `withStatus` promises of the methods under it |
| `Keystore`, `KeystoreProofs` | the keystore with withStatus, the storage queue and restarts; its calls implement `StatusLock` |
| `KeystoreRecovery` (proofs in `KeystoreProofs`) | extends `Keystore` with the email vault: two flows that call its methods, and the relayer |
| `ActionWindow` | ActionsController: the queue, the shown action, the window and its promises |
| `Requests`, `RequestsProofs` | extends `ActionWindow` with RequestsController and the handlers of Main that resolve, reject and switch; at its end the instance that the runs check |
| `Accounts`, `AccountPicker` | accounts, their states and the selected one; where accounts and keys come from |
| `Networks` | networks and the provider of each |
| `Portfolio`, `TokenHints`, `DefiPositions`, `SelectedAccount` | what an account holds, from the request to what is shown |
| `Storage`, `KeystoreSeeds` | StorageController: the write queue and what runs before it at a start; recovery phrases |
| `SwapQuote`, `SwapTokens`, `SwapRoutes` | the swap screen from the form to the controller; its lists; routes after signing |
| `Transfer`, `TransactionForm` | the transfer screen's controller; the newer form's lists |
| `AccountOpFees`, `GasSpeeds` | estimation, its loops and the choice of a fee; gas prices, speeds and the payment that is signed |
| `MessageSigning` | messages that a dapp wants signed |
| `EmailConfirmation` | the polling of the email vault and its shared flags |
| `PrivacyPools`, `PoolsPlugin` | quotes and relayed withdrawals; the plugin (V1 controller) |
| `Railgun`, `RailgunPlugin` | keys, shield, relayed withdrawals; the plugin (V2 controller) |
| `Dapps`, `AddressBook`, `Domains`, `Phishing` | small lists that are loaded, changed and stored |
| `StakingPool` | WALLET, its supply controller, xWALLET and stkWALLET |
| `AmbireAccount` | the account, its factory and the recovery by DKIM |
| `ServiceParts` | the instances of `MCServices` that say which networks, accounts, tokens and positions there are, with their assumptions |
| `MCServices`, `MCScreens` | instances of many components that do not share state; `MCServices` extends `ServiceParts` and the two contracts, `MCScreens` the swap screen |
| `ServicePartsProofs`, `ServicesProofs` | the proofs about `MCServices`: the invariants of `ServiceParts`, and those of the stores and the contracts with the theorems |
| `ScreenPartsProofs`, `ScreensProofs` | the proofs about `MCScreens`: the invariants of its parts, and the others with the theorems |

Components that interact are composed where the code lets one step of the one fall
between two of the other: `Requests` over `ActionWindow`, `KeystoreRecovery`
over `Keystore`, Main with the screens in `SignAndBroadcast`, the history with
the poll and the switch in `Activity`, Accounts with Main's handlers in
`Accounts`, the history with the routes in `SwapRoutes`. Elsewhere the neighbour
is an input: an answer, an event or a value that may change at any time.

`MCServices` and `MCScreens` hold one instance of each of their
components. A variable `part`, chosen at first and never changed, says which one
a behaviour is about; the variables of the others are `None`. An invariant of
these modules is a conjunction `part = "x" => X!P`, one conjunct for a property
of each component: the comments that explain P are in its own module. No
component sees another there, so checking them together is the same as checking
them one by one. `StakingPool`, `AmbireAccount` and `SwapQuote` are not
instances but extended, so that their properties are those of the theorems in
`ServicesProofs` and `ScreenPartsProofs`; elsewhere than in their own part they stay as they
are at first. Both leave the constants of their instances open and their `.cfg`
give them values, so that the theorems of `ServicesProofs` and `ScreensProofs` hold
for all values.

An operator preceded by a comment that begins with *Mistake* is not part of the
system: it is a plausible bug of the definition it stands beside, used to show
that a property can fail.

### Activity

`accountsOps[a][c]` is `#accountsOps`, `stored` the browser's storage, `unsaved`
a queued write, `view` a filter session. `StartRefresh` is the synchronous start
of `updateAccountsOpsStatuses`: it makes one *probe* for every unconfirmed
operation of the selected account. A probe has the operation's id and its
position in the list, as the closure of the code has, and moves through the
awaits of the function: `TxnIdFound`/`TxnIdNotFound` (fetchTxnId), `GotReceipt`,
`GotFrontRanTxnId`, `GotSecondReceipt`, `NoReceipt`, `DeclareStuck`, `GiveUp`.
Each answer is written *by position* (`WriteAt`) and passes `UpdateOpStatus`
(`updateOpStatus`), which settles one call of a batch at a time. `EndRefresh` is
the end of `Promise.all`, after which the history is stored and the sessions are
filtered again. `fetchTxnId` is awaited outside the `try` of the probe: `TxnIdFails`
is a bundler or relayer that fails there, and `Abort` what follows, also from a
position that is gone: `Promise.all` is rejected, so neither the write nor the
filtering happens, the statuses written so far stay in memory, and the other
probes go on as `Strays`. `AddAccountOp`,
`Trim`, `RemoveAccountData`, `HideBanner`, `FilterAccountsOps`, `PollEnds` and
`SelectAccount` are the other handlers; `Mine` is the network.

Abstractions: timestamps are distinct and serve as ids; "fifteen minutes have
passed" is a free choice; a record that arrives already confirmed stands for
every such kind; one privacy pools poll exists at a time, as its controller
allows; pagination, banner contents and signed messages are left out. `raced` is
a history variable: it records that a list changed under a probe or that
refreshes overlapped. The loop that starts refreshes is outside this repository,
so no liveness is claimed.

### SignAndBroadcast

`status`, `callId` and `feePayerKey` are the three variables of MainController;
`screens` says which SignAccountOpController (`ops`) each screen holds. A call
goes through `Start` (the guards and the claim of the lock), `BeginSign`,
`Signed`, `StateFetched`, then one of the three ways to send (`NonceFetched` and
a loop of `TxnSigned`, `TxnSent`; or `Submitted`), `Publish`, `RejectUnsent`,
`Record` (the history is told), `Resolve`, `Finish`, `Reset`; every await has its
failing twin (`…Failed`, `Throw`, `Catch`, `FinishFailed`). `CloseMain`, `Close`,
`CloseOneSession` and `Discard` are what closing a screen does; `Abort` is
`#abortHWTransactionSign`; `Update` is `SignAccountOpController.update`, which is
ignored while the status is one of the frozen ones.

Abstractions: what is signed is a *choice* (key types of signer and fee payer,
how it is sent, in how many transactions); fee speeds, warnings and errors are
one status `notReady`; `UpdatesPaused` is folded into `ready`; `initSignAccOp` is
a close followed by an open; the privacy pools and railgun screens sign as the
transfer screen does. The user may click at any time, in any window. `cancelled`
is a history variable.

### StatusLock, Keystore and KeystoreRecovery

`mainKey`, `secrets`, `keys`, `uid`, `ready` and `waiting` are the fields of
KeystoreController; a main key is a number, and a secret or an encrypted private
key has the number that it wraps or is encrypted with. `calls[m]` is the call of
method `m` in flight; `Start` is the guard of `withStatus`, which refuses a call
without telling the caller, and `End`/`Return` its SUCCESS or ERROR, both alike
to the caller. `queue` and `disk` are StorageController; because the list of
secrets is pushed to in place, a queued write of it is *live* until a removal
replaces the list (`Detached`). `changeKeystorePassword` is `CheckOldPassword`,
`RemoveOldPassword`, `StoredRemoval`, `Wrapped`, `StoredSecret`, with scrypt and
storage awaited in between. `Lock` and `Restart` may come anywhere.

`StatusLock` is the lock that `withStatus` promises: three states per method,
an exclusive method starts only when all others rest, and an outcome is shown
before the method is free. `ImplementsStatusLock` maps the stage of each call to
that status and is checked as a refinement, restarts included.

`KeystoreRecovery` adds `uploadKeyStoreSecret` (`StartUpload`, `Confirmed`,
`Uploaded`) and `recoverKeyStore` (`StartRecover`, `Retrieved`, `RemovePassword`,
`SetPassword`): each step calls a keystore method, and goes on when it returns,
fails or is refused. `removeSecret` (`BeginRemove`) has no other caller in the
repository, so it is a step of this module only.

`disturbed` is a history variable: a lock or a restart fell into a change of the
password (or the vault came with a secret the keystore does not know). Most
properties speak of behaviours that are not disturbed; what happens in the others
is what the run `keystore_lock` shows.

Abstractions: loading is atomic; which of two entries with the same id is found
is left open; key preferences, export and `getSigner` are left out. Failed writes
and the migration of the keys are in `Storage`, seeds in `KeystoreSeeds`.

### ActionWindow and Requests

A handler that runs is a stack of frames, its top frame first (`stack[t]`): the
methods call and await one another, and a frame is what is left to do of one of
them. `running` names the handler in the middle of a synchronous stretch; `Quiet`
says that none is, so that microtasks come before anything the browser or the
user does, as on an event loop. `queue`, `current`, `window` are
`actionsQueue`, `currentAction`, `actionWindow` with its pending promises
(`open`, `focus`, `close`); `windows` and `closed` are the browser's. The window
is opened (`Opened`), focused, closed (`CloseDone`) or closes by itself
(`WindowCloses`, then `WindowRemoved`).

`Requests` adds `userRequests`, the requests that wait for a switch, and the main
screen's controller. `User` begins a call of a dapp or of the screens (`Send`,
`BuildTransfer`, `BuildSwapAndBridge`, `BuildClaim`, `Resolve`, `Reject…`,
`SelectAccount`), `Handlers` goes on with what a call still has to do, `Answers`
is what comes from outside: `addUserRequests` goes through its requests one by
one (`EachCalls`, `EachOther`), awaits the state of an account (`Fetched`), and
queues all actions that it made at its end (`EachDone`). `userRequests` is a list
and an account op that a handler holds may be the queued object itself (`same`),
as in the code: what happens to that one, the handler sees, until it leaves the
queue (`Freed`). `Removal` and the steps `Remove…` are `removeUserRequests`,
which rebatches (`Rebatch`) the calls of the requests that are left. `Sign`,
`SignFails`, `SignOneClick` are what the screens sign. `Together` bounds which
accounts, requests and screens meet in one behaviour. `overtaken` is a history
variable: a request was removed while a handler held an action made of it.

Left out: messages shown in the window, `removeAccountData` of the actions; the
privacy pools' requests are treated as the other internal ones.

### Accounts, AccountPicker and Networks

`Accounts` has `states` (pairs of account and network), `loading` (which accounts
a network's one load is for) and `selecting`, the calls of `#selectAccount` past
their first check. `UpdateAccountStates` is the background refresh, which skips
when a load runs; `LoadArrives`/`LoadFails` answer all who joined. `SelectAccount`,
`RemoveAccount`, `AddAccounts` are Main's, each with its awaits
(`ActionWindowCloses`, `SelectedIsStored`, `ActivityIsRemoved`, `AddedAreStored`).
`missed` and `overtaken` are history variables for what is legitimately absent.

`AccountPicker` is a session (`source`, `path`, `page`), the derivations in
progress (`pageCalls`), the selection and one addition (`AddAccounts`,
`KeystoreIsReady`, `IdentitiesCreated`, `AccountsAdded`, `KeysAdded`); `Open` and
`Left` begin and end a session under any of these awaits, and `LockKeystore` may lock
the keystore. It refuses the keys then (`KeysRefused`, and `SeedRefused` for those that are
derived from a seed that it is to store, which leaves the addition "stuck" until a reset):
the accounts are there without them, and `refused` remembers which. The screen does not ask for a page while
`isPageLocked`, nor adds twice at once. `crossed` records that a session ended
while a page of it was derived. Linked accounts' content, email accounts and
hardware set-up are left out.

`Networks` follows `#load` through storage, relayer and providers, the probes
(`infos`), `AddNetwork`, `UpdateNetworks` and their storing, and
`synchronizeNetworks` (`StartSync`, `SyncMerged`), which works on a snapshot:
`held` says which object `#networks` a call goes on from, `torn` that an overlap
put an older one back. Budgets choose the mode;
Main constructs the controller in mode "testnet" (`main.ts:270`), where
the synchronisation does nothing. `removeNetwork` is deprecated and has no caller.

### Portfolio, TokenHints, DefiPositions, SelectedAccount

`Portfolio` has one account: `queue[c]` holds the updates of a network in the
order of their calls, each with the operations that it read when it was *called* and
with what is simulated of them (`sim`: nothing without the account's state);
`StartUpdate`, `GetAnswers`/`GetFails` for the latest and the pending part, and
`EndUpdate` follow one, or `RetryUpdate`, the queue's catch, which runs it once more.
With a light client (`light`) the pending part is asked for with the block tag latest
and written over the latest state. `object` numbers the state object that a removal replaces
while answers are on their way; the gas tank is `tankOf`, and `TankThrows` an answer of the
relayer that `#getAdditionalPortfolio` cannot read, which leaves its mark (`unusual`). `TokenHints` is what an update
asks for: `toBeLearned`, `learned` with the stamp of the last balance, `custom`,
`hidden`, and when each is stored. `DefiPositions` follows updates through
`DebankAnswers`, `CustomAnswers`, `PricesAnswer`, `ReadNetworks`, `SaveNetworks`, of which
the last leaves out networks whose provider is absent or down (`leftOut`).
`SelectedAccount` recalculates (`RunPortfolio`, `RunDefi`, debounced to the next
task) only the networks whose inputs seem changed, and `QuietShownIsCurrent`
compares what is shown with a calculation from scratch.

Contents are left out: a state is the operations or the block that it came from,
positions are where they come from. Sessions, cashback, banners, totals, NFTs
and temporary tokens are left out too.

### Storage, KeystoreSeeds

`Storage` has two sets of actions. `MigrationsNext` is a start: every stored item
has a format, `Migrate` runs the next migration over what is stored; its writes
(`unwritten`) are made one by one and in any order, `Restart` may come between
them, and the migration of the accounts may throw, after which that start runs no more
of them. `cut` has the migrations that were cut short in one of these ways; the property
asks of an item that it is in the last format as soon as the migrations that it goes through
are over, unless one of *these* was cut short.
`QueueNext` is the write queue afterwards, with a failing write and the one
migration that passes it by (`MigrationReads`, `MigrationWrites`). `MCServices`
checks each by itself, as a part of its own: no write is queued before the
migrations are done. `KeystoreSeeds` has the temporary seed, the stored ones and
the four methods that store under `withStatus`.

### SwapQuote, SwapTokens, SwapRoutes, Transfer, TransactionForm

`SwapQuote`: every call of `updateQuote` draws an id (`quoteId`, `ids`); after
each await it is dropped if the id moved on (`QuoteObsolete`). `QuoteArrives`
selects a route; `StartRoute`, `RouteStarts` make the controller after another
await; `Visible` is the getter that gives it out; an estimation that fails
tries the next route. The form's checks are whether it is `None`.
In this build `initForm` returns early (557-569), but the component's other operations
are public and alive. `SwapTokens` and `TransactionForm` have the 500 ms throttle, the caches per
pair of chains and lists that arrive late. `SwapRoutes` follows a route from its
operation in Main (`Broadcast`, `AddAccountOp`) over the history (`Refresh`,
`Refreshed`) to what the routes are told (`CheckForNextUserTx`) and polled
(`StatusArrives`); the provider is Li.Fi (`main.ts:408`). `Transfer` makes its
controller after `AccountStateArrives`, and destroys it with the loop.

### AccountOpFees, GasSpeeds, MessageSigning, EmailConfirmation

`AccountOpFees`: an estimate reads the calls after it has started
(`AskEstimation`), so overlapping ones may be of different calls; `option` is
`selectedOption`, `payment` what `gasFeePayment` was computed from. What `estimate()`
awaits before it asks for the estimation may throw outside any catch
(`EstimateThrows`, `thrown`), which its caller swallows. `Refetch` is
the gas price loop, which one flag (`stopRefetching`) is to stop and which also ends at a tick
at which the request to sign is out of the queue (`RefetchEnds`, `abandoned`). Rates,
sponsorship, replacement by fee and accounts without a key are left out.
`GasSpeeds` is the arithmetic under it: the prices that are recommended from a
block (`FilterOutliers`, groups of tips, the base fee of the next block), the
speeds computed of them for every fee option, the payment of the chosen one and
the call that pays a relayer, over several attempts of a paymaster. Amounts are
small integers, and the ratios and divisions are those of the code.
`MessageSigning`: `handleSignMessage` of Main over one controller into which
another message may be put at each await. `EmailConfirmation`: a method is the
sequence of what it still awaits; five methods share two flags.

### PrivacyPools, PoolsPlugin, Railgun, RailgunPlugin

`PrivacyPools`: quotes as in `SwapQuote`, and for each withdrawal the relayer's
answer, the record, and a poll (`AskReceipt`, `ReceiptArrives`, `PollStops`) that
may outlive its page and its account. `Railgun` likewise without polls. The
plugins: `init` (`HostMade`, `PluginMade`, `Initialised`) that a switch of the
account joins or restarts, calls queued behind a lock (`wasm`), and one private
operation from `SubmitPrivateOp` to `Recorded`. Proofs, notes, keys of the
libraries, deposits of `PrivacyPools` and the form of `Railgun` are left out. The
screens start no second private operation while one is in flight.

### Dapps, AddressBook, Domains, Phishing

Each is a list, its load at the start, its changes and its write, with ghosts that
record what the user asked for (`agreed`, `asked`, `resolved`). The setters of the dapps and of
the contacts do not wait for their writes: these queue (`writes`, `Write`, `WriteFails`), and a
restart loses the queue, so that the ghosts go back to what was asked for by the last
write that was done (`kept`).

### StakingPool and AmbireAccount

In `StakingPool` a transaction is one step: `enter`, `leave`, `rageLeave`,
`withdraw`, vesting, claims, wrapping and the parameters of governance, with the
division of the code. In `AmbireAccount` a transaction is a stack of `frames`,
since a batch may call the account again: `Execute`, `ExecuteBySender`,
`TryCatch` push one, `End` and `Fail` pop it, and `Fail` restores the state at its
start. A user operation is two steps, `ValidateUserOp`, which wants a signer with a privilege,
and `ExecuteUserOp`, a frame of the entry point; several may be accepted before the first is
executed. The entry point itself is nobody who can sign (`InControl`). What a batch calls is open, so every interleaving of inner calls is there.
`StartTimelock` and `Recover` are the recovery's two ways.

## What the runs check

| Run | Instance | Shows |
|---|---|---|
| `activity_history` | one account and the private account, one chain, one refresh, three operations, trim limit 2 | `HistoryBounded`, `TrimKeepsNewest`, `QuietHistoryIsStored`, `ViewIsCurrent`, `OnlyConfirmedBannersAreHidden` |
| `activity_races` | two overlapping refreshes, trim limit 1, batches of two, user operations and relayed ones | `BatchSettlesInOrder` under any race; `RacelessStatusIsOwn` without |
| `sign_hardware` | three screens, two controllers, two calls; a hardware wallet with a batch of two, a hot wallet with a bundler | `WorkingHoldsTheLock`, `HistoryMatchesNetwork`, `OneCallPerController`, `CommittedIsFrozen`, `CancelledSendsNoMore` |
| `sign_hot` | two screens, hot wallet, every await settles | `LockIsReleased` (liveness) |
| `sign_cancelled` | transfer screen, hardware wallet | finding: `CancelledBeforeSending` is violated |
| `keystore_calls` | one password and a wrong one, a hot key and a device key, two calls of the user at a time, two main keys | `OneMainKey`, `KeysSurviveRestart`, `QuietKeystoreOpens`, and `ImplementsStatusLock` (refinement) |
| `keystore_recovery` | the same with the email vault and one recovery secret | `QuietKeystoreOpens` while the vault's flows run |
| `keystore_lock` | as before, disturbed behaviours too | finding: `MainKeyEncryptsAllKeys` is violated |
| `requests` | two accounts, two handlers at a time, one window, six combinations of seven requests | `CallsAreAsked`, `WaitersWait`, `QuietWindowIsOpen`, `QuietActionIsAsked` |
| `requests_closed` | two accounts, a message and a transaction that wait for a switch | finding: `RejectedMessageIsNotAsked` is violated |
| `services` | fourteen components that keep data and the two contracts (two stakers; two keys, entry point and recovery), each by itself | `QuietSelectionServes`, `QuietPortfolioIsCurrent`, `StoreIsTrue`, `PoolIsSound`, `AccountIsKept`, `ShareValueNeverFalls` |
| `screens` | thirteen components behind the screens, each by itself | `SubmitsTheQuote`, `SignsWhatIsShown`, `LoopsAreKept`, `RelaysAreRecorded`, `FetchingIsCurrent` |

The properties of the last two, by component:

| Property | Conjuncts |
|---|---|
| `QuietSelectionServes` | `Networks` QuietProvidersServe; `Accounts` QuietSelectedIsAdded, QuietSelectedHasState; `AccountPicker` AddedHaveTheirKeys, QuietPageIsShown |
| `QuietPortfolioIsCurrent` | `Portfolio` QuietPendingIsAsked, QuietNothingLoads; `DefiPositions` QuietPositionsAreLoaded; `SelectedAccount` QuietShownIsCurrent; `TokenHints` QuietHintsAreUsed |
| `StoreIsTrue` | `Storage` QuietKeysAreStored, ReachedMeansMigrated; `Dapps` ConnectionsAreKept; `AddressBook` BookIsKept; `Phishing` QuietBlacklistIsKept; `Domains` LookupsAreShown; `KeystoreSeeds` SeedsAreKept |
| `SignsWhatIsShown` | `AccountOpFees` FeeIsOffered; `MessageSigning` AnswersAreVerified; `RailgunPlugin` SendsWhatWasPrepared, PluginIsOfTheAccount; `GasSpeeds` FasterIsDearer, PaysWhatIsShown |
| `LoopsAreKept` | `SwapQuote`, `Railgun`, `Transfer` ControllerIsReestimated; `RailgunPlugin`, `PoolsPlugin` WaitsEnd; `AccountOpFees` GasPricesAreRefetched; `EmailConfirmation` QuietVaultIsReady |
| `RelaysAreRecorded` | `Railgun` SuccessIsSaved; `RailgunPlugin`, `PoolsPlugin` SuccessIsRecorded; `PrivacyPools` SavedStatusIsMined; `SwapRoutes` RoutesShowTheirEnd |
| `FetchingIsCurrent` | `SwapQuote` QuoteIsFetched; `PrivacyPools`, `TransactionForm`, `AccountOpFees`, `SwapTokens` FetchingIsCurrent |
| `PoolIsSound` | `StakingPool` SharesAreBacked, BooksBalance |
| `AccountIsKept` | `AmbireAccount` NotBricked, RecoveryWaits |

The types of every module are checked by one of its runs. Deadlock is not
checked: every counter of a model is bounded, so a behaviour may legitimately
come to an end.

Many properties are stated for the moment at which nothing is in flight (*Quiet*).
They are the safety part of "it settles in the right state": no fairness is
needed, and a state that waits with nothing left to wait for violates them. Where
the code has a known hole, a history variable (`raced`, `rejected`, `disturbed`, `crossed`,
`missed`, `refused`, `overtaken`, `overlapped`, `replaced`, `cut`, `torn`, `untold`,
`threw`, `thrown`, `abandoned`, `doubled`, `spoiled`, `early`, `misfiled`, `dropped`,
`unusual`, `leftOut`, `waived`) names the exact circumstance, its comment the place, and the
property speaks of the rest; the holes are listed under *Observations*.

**Why the bounds are enough.** The trim needs one more operation than its limit
(3 against 2, and 2 against 1), a stale position needs two operations in one
list, and a batch that can settle out of order two calls; races need two
refreshes. The lock needs two calls, one of them stale, and two controllers, so
that a call can outlive its own. A second call of a keystore method together with
the first is what withStatus and the queue must cope with; a third
(`MaxTogether = 3`, 2.4 million states) and a second password (4.6 million) were
tried and showed nothing new. Two main keys are one too many: any behaviour that
makes a second violates `OneMainKey`. Bounds on behaviours, as against the code,
are `MaxOps`, `Closable`, `Viewable` (Activity), the sizes of `Ops` and `Calls`
(SignAndBroadcast), `MaxMainKeys` and `MaxTogether` (Keystore; calls of the vault
do not count). Runs with `CONSTRAINT Undisturbed` stop at a disturbed state,
where their properties hold trivially. Symmetry is used for the names of
controllers, of calls and of handlers: no definition tells them apart.

In the newer modules every constant marked *bound* limits how often the user, a
timer or the outside starts something (`Turns`, `Moves`, `Asks`, `Loads`,
`Updates`, `Steps`, `Presses`, `Edits`, `Changes`, `Restarts`, `Stops`, ...);
answers to what was started are never limited. Races need two of what can overlap
and one event between them, which is three starts; with two values of everything
that can be confused (accounts, forms, sources, chains, messages) each instance
reaches them. Where three are out of reach (`Portfolio`, `DefiPositions`,
`Accounts`, `EmailConfirmation`), it is two overlapping calls of the user, beside
removals, restarts and loads that are counted apart. `SelectedAccount` has two
networks, one of which may wait for the other's positions, and three loads, or two
loads and one change of the account.
`Requests` is bounded by `Together`, the combinations of requests
whose code paths meet (calls that are batched, a swap's own request, a request
behind an account switch, dapp requests over one window), and by one window ever
opened (`MaxWindows`): a closed window is reopened in the code by the same steps.
`StakingPool` has four transactions in three seconds with parts of two: a
penalty, a commitment and its withdrawal fit, and rounding shows with amounts of
one and two. `AmbireAccount` nests two calls, signs twice and has one user operation at a
time between its validation and its execution, with all time locks of one second. `Dapps` and
`AddressBook` have two changes, so that the writes of two may be on their way when the extension
stops or one of them fails.

**Fairness.** Only `sign_hot` assumes any: weak fairness of each call's next step
(`FairSpec`). A request to a node, a bundler or the relayer answers or times out,
and a hot wallet signs without the user. For a hardware wallet this would say
that a user confirms or rejects, which nothing guarantees; it is not assumed
there. No other action is fair: nobody has to click.

## What is proved

All theorems hold for every value of the constants that satisfies the named
assumption of the module (`ActivityAssumption`, `SignAssumption`,
`KeystoreAssumption`, `WindowAssumption`, `RequestsAssumption`,
`AccountAssumption`, `StakingAssumption`, `SwapAssumption`, `ServicesAssumption`,
`ScreensAssumption`, and one for each part of `ServiceParts`, from `NetAssumed` to
`HintAssumed`), which TLC evaluates in the
runs: disjointness of the markers, positive limits, finite sets of users, accounts,
chains, tokens and routes, networks that are stored under their ids, and rates that
are not above the whole. Eight modules hold them.

* `ActivityProofs`. The invariant `Inv` (`GoodLists` for memory and storage,
  `GoodRest` for all else) says that both copies of the history hold well-formed,
  bounded lists; it needs nothing about probes but their types, since a probe may
  write anywhere and what it writes is well-formed. It gives `TypeCorrect`,
  `HistoryIsBounded` and, with the lemma `CallToUpdateIsNext` (the call an answer
  settles is the first unconfirmed one), `BatchesSettleInOrder`. `HistoryInv` adds
  that ids fall within a list and differ between lists (`Ordered`): so a session
  can be compared with the lists, and what a trim drops is the oldest
  (`SessionIsCurrent`, `TrimmingKeepsNewest`, `BannersAreShown`). `RaceInv` adds
  what holds until refreshes race: every probe is aimed at the operation it was
  started for (`AimedAt`), no two at the same one (`Apart`), the poll of the
  privacy pools waits for one transaction of its own (`Polling`), and, while no write
  is queued, the storage has each operation as memory has it or as unconfirmed, the latter only while a
  refresh runs or after one was rejected half way. The
  statuses of `RacelessHistoryIsOwn` and the storage of `QuietHistoryIsKept`
  depend on each other through restarts, which is why one invariant proves both.
* `SignAndBroadcastProofs`. `LockInv` adds to `WorkingHoldsTheLock` (`LockIsHeld`)
  that a call which nothing cancelled is current until its result is shown and
  that a cancelled one is not: without the second half a cancelled call could
  free the lock of its successor. `Accounted` says, stage by stage, how much of
  what was sent is recorded; `Supplied` and `ScreensUsed` say that a call keeps
  its controller and a controller its screen (`HistoryIsFaithful`). `ControllerInv`
  adds that a screen shows its own controllers (`OnOwnScreen`), that a close which
  cancels a call takes its controller off the screen (`ClosedIsGone`), and that the
  controller of a call is frozen or gone (`CommittedHolds`); from it follow
  `OneCallWorks` and the action properties `CommitmentHolds` and
  `CancelledIsSilent`.
* `KeystoreProofs`. None of the properties is inductive: a second main key does
  its damage only after it went through a call, a queued write and the storage.
  `OneKey`, `GoodWrite` and `GoodCall` extend "depends on the last main key made"
  to all of these. What makes it inductive is the order in which things come to
  exist (`Backed`, `Founded`, `InOrder`): nothing is on its way to the storage
  before a secret is in memory, and nothing but secrets before one is stored. So
  a call that finds no secret finds nothing else either and may make a main key
  (`NothingYet`). For `OneMainKeyOnly` and `KeysAreSafe` that is enough;
  `QuietKeystoreIsStored` needs of every part of the storage that the last queued
  write, or the storage if there is none, has what the memory has (`CaughtUp`).
  `KeystoreImplementsStatusLock` is the refinement, by the map from stages to
  statuses, step by step. With the email vault (`KeystoreRecovery`) the same five
  are proved again: the vault's flows start methods as the user does, except that
  they remove the password, and they do so only while their own secret is in
  memory (`Recoverable`).
* `RequestsProofs`. The invariant is of five parts. `Typed` has the types of the
  arguments of every frame of every stack. `StackInv` links the stacks to the
  window: a promise of the window belongs to a handler at the call of the browser
  that settles it, who waits waits for such a handler, and a window that is gone
  is known to be or some handler is about to say so; from it follow
  `NobodyWaitsForever` and `KnownWindowIsOpen`. `AskedInv` says of the queued
  actions what `CallsHaveRequests` and `QuietActionsAreAsked` state, except for
  the requests whose actions the running handler is about to remove (`Going`);
  it is kept only because the actions that handlers hold across an await ask for
  listed requests as well, or are the queue's own objects (`HeldInv`). `CanGoOn`
  says that a handler in the middle of a synchronous stretch can go on. Each part
  is an operator of the values it speaks of, so that one lemma serves all steps
  that replace a stack.
* `ServicePartsProofs`, with the theorems in `ServicesProofs`: `SelectionServes`
  (`QuietSelectionServes`), `PortfolioIsCurrent` (`QuietPortfolioIsCurrent`) and
  `ServicesAreTyped` (`ServicesTypeOK`). What is to hold once nothing runs is not
  inductive: each invariant says which step, still to come, makes good what is not
  right yet. A network has the provider of its url unless an update that changes it
  has not called back (`NetInv`). A selected account that is gone is being removed or
  replaced, and its state is there, is loading, or waits for a selection to be stored
  (`AccInv`). An account of the picker is of the session and page that is shown, and
  is added only with keys that are added next (`PickInv`). In `Portfolio` it is the
  queue of each network: the last call in it asks for what was asked for last, unless
  it may skip because that is what it saw; a state loads while the first call asks for
  it, of the object that is there (`PfInv`). Positions are remembered or an update
  will save them (`DefiInv`); what an update of the hints marks is what the
  preferences say unless one changed after it read them (`HintInv`). `SelInv` says
  that what is shown is what a calculation from scratch gives, unless a recalculation
  is due or the positions of some network load. The attempt to prove it with more
  than one network failed, rightly: the portfolio waits for the positions of *all*
  networks (`selectedAccount.ts:204`), and `QuietShownIsCurrent` had asked for those
  of the network itself, which is the same only where there is one. The property now says what
  the code does, and the run has two networks.
* `ServicesProofs`: `StoreStaysTrue` (`StoreIsTrue`), by one invariant for each of the
  seven stores. Four say what the writes to come will leave: the last queued write of the keys has
  what is in memory (`StoreInv`); each queued list of phrases has what the running calls
  added to it, so that the next call to end finds its own (`SeedInv`); what a load of
  the dapps has read agrees with what the user agreed to as long as nothing changed
  before it (`DapInv`); the stored contacts are what the user asked for, with whatever
  was added twice left open, and are the ones shown unless a load failed (`BookInv`). As
  long as updates of the blacklist do not overlap, each works on the stored one, and
  LOADING means that one is on its way (`PhishInv`); an address loads while it is looked
  up, once, and a name that was resolved stays (`DomInv`). For the migrations it is what
  the storage will be once the writes that began are done (`MigInv`): every item is in
  the format of the last migration that passed, and those pass in their order, unless one that it
  goes through was cut short. Dapps and contacts: what is stored and each write on its way agree with
  what was asked for at the time (`kept`, `writes`), so that any of them may be the last one done.
  About the account: `AccountIsTyped`, `AccountIsSafe`
  (`AccountIsKept`). A failure restores the chain that a frame saved, so whatever
  is said of the chain (`Sound`: what recovered and when it may) is said of all the saved
  ones. Between calls of a batch the account may have nobody in control; what
  counts is that the outermost frame was entered from a chain under control and
  is left only by one who still has a privilege (`Bottom`). If that is a key, a key is in
  control; if it is the entry point or a recovery, nothing follows, which is why `waived` is there.
  About the pool: `PoolIsTyped`, `PoolStaysSound` (`PoolIsSound`) and the
  action property `SharesKeepTheirValue` (`ShareValueNeverFalls`). The balances of
  single users are not enough: that a transfer or a mint stays within the supply
  follows only from the sum over all holders (`Money`), and that a withdrawal
  finds its shares from the sum over a user's commitments (`Committed`). The
  arithmetic of a deposit and of a payout, with the rounding of the code's
  divisions, is in `Buying` and `Selling`.
* `ScreenPartsProofs`, about the swap screen: `SubmittedIsQuoted` (`SubmitsTheQuote`), `QuotesAreFetched`
  and `LoopServesController` (conjuncts of `FetchingIsCurrent` and `LoopsAreKept`),
  `SwapIsTyped`. An id is not of one quote: the call that holds it fetches, and only
  then routes are started under it. While that call is pending nothing carries its
  id (`PendingFirst`), so whatever carries the id when it has ended was started from the
  quote that it left (`OfTheQuote`). A route that fails narrows the quote and may
  start the next, but never changes what was asked for (`Narrowed`).
* `ScreensProofs`: `LoadingIsFetched` (`FetchingIsCurrent`), `LoopsGoOn`
  (`LoopsAreKept`), `RelaysStayRecorded` (`RelaysAreRecorded`), `WhatIsShownIsSigned`
  (`SignsWhatIsShown`) and `ScreensTypesHold` (`ScreensTypeOK`), by one invariant for each
  component, most of them in `ScreenPartsProofs`. For four of them (`RailInv`, `SendInv`, `FeesInv` and the transaction form)
  the properties need little but types. The others need what explains them. A poll of
  the privacy pools waits for a withdrawal that is recorded, and a recorded outcome is
  what was mined (`PoolsInv`). A token list loads while the list that was asked for last
  is coming, for the form that is there or to find it changed (`TokInv`). An email flow
  waits while the methods on its stack still have to poll or to end the upload, although
  they share two flags (`MailInv`). A private operation is at exactly one of its steps and
  a synchronisation has a call left that ends it (`PluginInv`, `PluginV1Inv`), so nothing
  is sent or recorded twice; and what it sends is what was prepared, because every
  step of it carries the plan that it was asked with (`PluginOwn`). What is ready to be signed is covered
  by what the option holds, for the calls that there are (`FeesOwn`). A signature of a message is
  kept with what it is of, unless another message was put in while it was checked, and a handler
  waits for it (`MsgInv`). The payment of a fee is what the chosen speed was
  last shown to cost, and the call that pays it has that amount (`GasInv`);
  that a faster speed is not cheaper goes back to the means of the sorted tips
  (`Ranked`) and, for the bundler, to prices that come in order, which `ScreensAssumption`
  asks of the inputs. For the
  routes the invariant says how far the operation of a route has come in the network, in
  the history and in what the routes were told (`RouteInv`): a message to the routes is a
  walk over the calls of an operation (`Told`), unfolded for its one or two calls. The
  attempt to prove it showed an error of the model, which had given every rebuilt route
  the number of its first attempt.

The sums of `StakingPool` and the lists of `Requests` are folds and choices over
finite sets. The library's induction cannot be used for them (its theorems take an
operator as a parameter); the lemmas `SumSplits` and `NatMin` and those that follow
from them are proved by a smallest counterexample instead, which well-founded
relations give without one.

Every invariant and every action property of the passing runs is stated by a
theorem. Only model-checked: `LockIsReleased`. Liveness under fairness and ENABLED are
out of the provers' reach and stay with TLC, as would RECURSIVE operators; the models
use none. The runs that end in a violation are TLC's as well.

## What the runs found

1. `main.ts:992`: closing a screen while a signed transaction of a hardware
   wallet is being sent cancels the call. The transaction is on the chain and
   not in the history (`sign_cancelled`).
2. `keystore.ts:946`: a lock during a change of the password makes the change
   generate a second main key, which opens none of the keys (`keystore_lock`).
3. `requests.ts:338`: when the window closes while the state of an account is
   fetched, a message that waited with a transaction for a switch of the account
   is rejected, and then the user is asked to sign it (`requests_closed`).

### Observations

Behaviours of the code met while modelling, which no run counts as a finding. The
models contain them; where a property would not hold because of one, its comment
names the exception.

* Activity, signing. A refresh writes its answers at the position the operation
  had before the awaits (`activity.ts:656`), so that an operation submitted
  meanwhile gets the status of the older one's receipt. A `fetchTxnId` that fails (595) rejects the
  whole refresh: what its other probes found is in memory, but it is stored and shown in the
  sessions only by a later write. A cancelled call whose
  nonce request fails leaves the status at ERROR, and nothing can be signed until
  a restart (`main.ts:2226`). A fee token that is chosen before a re-estimate
  has succeeded is paid for with the amount computed for the token before
  (`signAccountOp.ts:891-917`). An estimation may be replaced while the
  user operation is built, although the comment at 823-829 excludes it
  (`signAccountOp.ts:1563-1600`). Accounts that pay with the native token share one
  speed identifier, although what is disabled is computed from the balance of
  the first of them (`signAccountOp/helper.ts:34-38`). After a sponsorship is
  given up, the first option is selected while payer and token stay, so that
  until the next update the token and the amount of a payment may be of different
  options (`signAccountOp.ts:935-945`). The percentages of `addExtra` are
  whole parts of a hundred: seven per cent are a fourteenth. An `estimate()` that throws before it
  asks for the estimation (`estimation.ts:103-137`) leaves the status Loading until the calls change,
  since `simulate()` swallows it (`signAccountOp.ts:749`); the same throw ends the loop of the
  transfer screen (`transfer.ts:691`). The loop of the gas prices ends at a tick at which the request
  is out of the queue (`gasPrice.ts:64`) and is not begun again if the request comes back. Another message that is put in while a
  signature is verified is answered with the signature of the first
  (`signMessage.ts:240`).
* Accounts. They are added before their keys (`main.ts:706-726`): when the keystore is locked
  meanwhile the keys are refused, `withStatus` swallows the error, and the account stays without
  its key; when it is the seed that is refused, `addAccountsStatus` stays LOADING until a reset.
* Keystore, vault, storage. A recovery secret that the keystore refused is
  uploaded all the same (`emailVault.ts:355`). A temporary seed that is set while
  another is persisted is dropped (`keystore.ts:481-486`); equal seeds are not
  recognised, since an encrypted passphrase is compared with a plain one and
  null with undefined (497-500). The vault's methods leave their
  flags set when they throw. An extension that is stopped between
  two writes of one migration does not repeat it; the migration of the seed
  writes keys back that it read before (`storage.ts:504-592`). The migration of account preferences
  throws where there are any (122); since it is caught (61-63), items that later migrations have
  not reached are read in that start (472).
* Swap. A token list fetched for chains that are no longer chosen is cached under
  the new ones (`swapAndBridge.ts:986-990`), one that arrives after a change of
  the chains leaves the status LOADING (1008-1010), and a token that is added by address goes to whatever
  list is shown when the answer arrives (1094-1107). An active route is pushed
  without being stored (1742). After a restart between the history's answer and
  the message to the routes, a bridge whose transaction failed stays
  'in-progress' and a swap that failed is polled as completed. Two starts of routes of
  one quote may end in the other order, so that the controller has a route other than the
  one selected last (2056-2139): what is submitted is of the quote, but not always of
  that route. With
  `isAutoSelectRouteDisabled` the getter shows a controller of the form before (473-474).
* Privacy. A switch of the account during an initialisation of the railgun plugin
  joins it (`railgunV2.ts:185-216`); a preparation that fails leaves an older one
  to be broadcast (593). A failure after the broadcast is shown as a failure, and
  what was broadcast is not recorded (`railgunV2.ts`, `privacyPoolsV1.ts:508`). A
  synchronisation of the pools that throws leaves 'syncing' for ever
  (`privacyPoolsV1.ts:233-249`), and a switch of the account does not reset them
  (162-171).
* Portfolio. Once fifty learned tokens have a timestamp, a newly learned one is
  pruned at once (`portfolio.ts:978-988`). A hidden token is found whatever
  the case of its address, but only removed where the case is the same
  (`toggleHideToken`, 284-298). After a restart the networks with positions are not
  loaded into memory, so that the first save drops those of other accounts
  (`defiPositions.ts:128-144`).
* Small stores. A contact may be added a second time while the account of the
  same address is selected (`addressBook.ts:98`), and a change after a failed
  load overwrites what is stored (76-90). Neither its writes nor those of the dapps are awaited
  (`dapps.ts:63-67`): a change that the user sees done is lost if the extension stops before its
  write, or the write fails. A change of the dapps before they are
  loaded is lost (`dapps.ts:35`). Overlapping updates may put back an older
  blacklist, and a first fetch that fails is not repeated before a restart
  (`phishing.ts:158-171`). A lookup in flight overwrites a name that was saved
  meanwhile (`domains.ts:92-105`).
* Contracts. The check at the end of `executeBySender` is that the caller still has a privilege
  (`AmbireAccount.sol:187-191`). For a user operation the caller is the entry point, so that an
  operation may take the last key's privilege, after which no signer passes `validateUserOp`
  (304-321). A recovery may leave the same, if the privilege it gives its own address is one
  that nobody signs with. `setPenaltyBps` compares the old value with the maximum instead of the new
  one (`SupplyController.sol:106`); the model assumes penalties that are not above the whole.
* Networks. Two synchronisations that overlap, and a probed chain id that is not
  the network's own, put networks back or write one into another.

## Plan

Done: all components of the inventory but those under *Not modelled*, a
refinement, liveness of the sign lock, and the theorems above.

What could follow: an abstract specification of `addUserRequests` and its actions, for
`Requests` to implement as `Keystore` implements `StatusLock`; the wait of a call in
`ActionWindow` under fairness, once the code says which promises of the browser
settle; sessions and cashback in `Portfolio`; allowances and permits of the contracts.

## Not modelled

* **Banners, feature flags, invite**: flags and lists without interleavings of
  their own. The one there is, a verification of an invitation that stores
  without updating its state, is the hazard of a queued write.
* **Libraries** (`src/src/libs/` humanizer, estimate, user operations, errors,
  portfolio's batching): pure functions over large data, where unit tests do
  better than a state space. What the controllers do with their answers is
  modelled, the answers are inputs.
* **Contracts**: allowances and permits, signature modes, the headers and DNSSEC
  records of the DKIM validator, RecoverySigValidator, AmbireAccount7702, the
  paymaster, the migrator and NFTs.
* **MainController**: `traceCall` and its timeout, light clients, the wrappers
  around portfolio updates. A crash between a broadcast and its record: nothing
  is stored before the broadcast, so the program promises nothing there.
* **v1, dist, audits, tests, vendored data**: superseded, generated or not
  program code.
* In every modelled component, the contents of messages, amounts and layouts; the
  sections above say for each what else is left out.
