------------------------------ MODULE Activity ------------------------------
(***************************************************************************)
(* ActivityController: the history of submitted account operations of each *)
(* account and chain, and the refresh that looks up what became of them.   *)
(*                                                                         *)
(* The code is single threaded: one action is what runs between two        *)
(* awaits.  A refresh (updateAccountsOpsStatuses) starts one "probe" for   *)
(* every unconfirmed operation of the selected account; a probe remembers  *)
(* the operation object it was started for AND its position in the list,   *)
(* asks the network, and writes each answer at that position.              *)
(***************************************************************************)
EXTENDS Naturals, Sequences, FiniteSets

CONSTANTS
    Accounts,        \* account addresses
    NoAccount,       \* "no account is selected", "no session is open"
    PrivateAccount,  \* zeroAddress: its operations show in every session
    Chains,          \* chain ids
    Kinds,           \* the AccountOpIdentifiedBy types that are submitted
    MaxItems,        \* the trim limit (1000 in the code)
    BannerWindow,    \* how many of the latest operations get banners (10)
    BatchSizes,      \* numbers of calls of a MultipleTxns operation
    MaxCalls,        \* the largest of BatchSizes
    Refreshes,       \* names of refreshes that may be in flight together
    MaxOps,          \* bound: operations submitted in a behaviour
    Closable,        \* bound: the operations whose banner the user may close
    Viewable         \* bound: the accounts a session may be opened for

VARIABLES
    accountsOps,  \* accountsOps[a][c]: the operations, newest first
    stored,       \* the value of "accountsOps" in the browser's storage
    unsaved,      \* a storage.set("accountsOps") is waiting for its turn
    selected,     \* the selected account
    view,         \* the filter session that is open, and what it lists
    runs,         \* refreshes whose Promise.all is still pending
    probes,       \* the per-operation lookups in flight
    polled,       \* the operation PrivacyPoolsController polls, or 0
    receipts,     \* the network: the receipts of the mined transactions
    nextId,       \* the timestamp of the next operation
    raced,        \* history: a list changed under a probe, or refreshes overlapped
    rejected      \* history: a refresh was rejected, and what its probes learned
                  \* is not all stored yet

memory == <<accountsOps, view>>
refresh == <<runs, probes>>
vars == <<accountsOps, stored, unsaved, selected, view, runs, probes, polled,
          receipts, nextId, raced, rejected>>

-----------------------------------------------------------------------------
(* Types *)

Sent == "broadcasted-but-not-confirmed"
Statuses == {Sent, "success", "failure", "rejected", "broadcast-but-stuck"}
Confirmed == {"success"}
OpKinds == {"Transaction", "UserOperation", "Relayer", "MultipleTxns",
            "PrivacyPoolsRelayer", "ImportedAccount"}

ASSUME ActivityAssumption ==
    /\ PrivateAccount \in Accounts
    /\ NoAccount \notin Accounts
    /\ Kinds \subseteq OpKinds
    /\ MaxItems \in Nat \ {0}
    /\ MaxCalls \in Nat \ {0}
    /\ BatchSizes \subseteq 1..MaxCalls

\* An operation is named by its timestamp.  txn is the operation whose
\* transaction id it records (0: none); calls holds the status of each call of
\* a MultipleTxns operation; hidden is flags.hideActivityBanner.
Op == [id: Nat, kind: OpKinds, status: Statuses, calls: Seq(Statuses),
       txn: Nat, hidden: BOOLEAN]

\* What a probe awaits: fetchTxnId, getTransactionReceipt, fetchFrontRanTxnId,
\* the receipt of the front-running transaction, getTransaction.
Stages == {"txnId", "receipt", "frontRan", "secondReceipt", "txn"}
Probe == [run: Refreshes, acct: Accounts, chain: Chains, idx: Nat \ {0},
          id: Nat, kind: OpKinds, call: Nat, stage: Stages]

Receipt == [id: Nat, call: Nat, status: {"success", "failure"}]
Lists == [Accounts -> [Chains -> Seq(Op)]]

TypeOK ==
    /\ accountsOps \in Lists
    /\ stored \in Lists
    /\ unsaved \in BOOLEAN
    /\ selected \in Accounts \cup {NoAccount}
    /\ view \in [account: Accounts \cup {NoAccount}, items: SUBSET Nat]
    /\ runs \subseteq Refreshes
    /\ probes \subseteq Probe
    /\ polled \in Nat
    /\ receipts \subseteq Receipt
    /\ nextId \in Nat \ {0}
    /\ raced \in BOOLEAN
    /\ rejected \in BOOLEAN

-----------------------------------------------------------------------------
(* Operators on lists and operations *)

NoOps == [c \in Chains |-> <<>>]
Entries(list) == {list[i] : i \in DOMAIN list}
Ids(list) == {list[i].id : i \in DOMAIN list}
OpsOf(lists, a) == UNION {Entries(lists[a][c]) : c \in Chains}

\* The oldest operation is last; one is dropped when the list is too long.
\* Mistake: a limit that is off by one.
TrimOneLate(list) ==
    IF Len(list) > MaxItems + 1 THEN SubSeq(list, 1, Len(list) - 1) ELSE list
\* Mistake: the newest is dropped.
TrimNewest(list) == IF Len(list) > MaxItems THEN Tail(list) ELSE list
Trim(list) == IF Len(list) > MaxItems THEN SubSeq(list, 1, Len(list) - 1) ELSE list

Unconfirmed(op) == {i \in DOMAIN op.calls : op.calls[i] = Sent}

\* getMultipleBroadcastUnconfirmedCallOrLast: the first unconfirmed call.
\* Mistake: the last unconfirmed one.
LastUnconfirmed(op) ==
    IF Unconfirmed(op) = {} THEN Len(op.calls)
    ELSE CHOOSE i \in Unconfirmed(op) : \A j \in Unconfirmed(op) : j <= i
CallToUpdate(op) ==
    IF Unconfirmed(op) = {} THEN Len(op.calls)
    ELSE CHOOSE i \in Unconfirmed(op) : \A j \in Unconfirmed(op) : i <= j

\* updateOpStatus: a MultipleTxns operation takes the status of its last call
\* when that call gets one, and keeps its own until then.
UpdateOpStatus(op, status) ==
    IF op.kind = "MultipleTxns"
    THEN LET i == CallToUpdate(op) IN
         [op EXCEPT !.calls = [op.calls EXCEPT ![i] = status],
                    !.status = IF i = Len(op.calls) THEN status ELSE op.status]
    ELSE [op EXCEPT !.status = status]

\* The latest operations of an account over all chains are the ones that
\* hideBannersOfConfirmedAccountOps and the banners look at.
IsLatest(lists, a, op) ==
    Cardinality({o \in OpsOf(lists, a) : o.id > op.id}) < BannerWindow

HidesBanner(lists, a, op) ==
    a = selected /\ op.status \in Confirmed /\ IsLatest(lists, a, op)

\* hideBannersOfConfirmedAccountOps.
HideConfirmed(lists) ==
    [a \in Accounts |-> [c \in Chains |-> [i \in DOMAIN lists[a][c] |->
        IF HidesBanner(lists, a, lists[a][c][i])
        THEN [lists[a][c][i] EXCEPT !.hidden = TRUE] ELSE lists[a][c][i]]]]

\* filterAccountsOps: a session lists the operations of its account and of the
\* private account.
Filtered(lists, a) ==
    IF a = NoAccount THEN {}
    ELSE {o.id : o \in OpsOf(lists, a) \cup OpsOf(lists, PrivateAccount)}

\* syncFilteredAccountsOps.
Synced(lists) == [view EXCEPT !.items = Filtered(lists, view.account)]

WriteAt(lists, p, op) ==
    [lists EXCEPT ![p.acct] = [lists[p.acct] EXCEPT
        ![p.chain] = [lists[p.acct][p.chain] EXCEPT ![p.idx] = op]]]

\* The operation a probe writes to: whatever is at its position by now.
HasTarget(p) == p.idx \in DOMAIN accountsOps[p.acct][p.chain]
Target(p) == accountsOps[p.acct][p.chain][p.idx]
ProbesOf(r) == {p \in probes : p.run = r}

\* Probes whose refresh was rejected: nobody waits for them, and they go on.
Strays == {p \in probes : p.run \notin runs}

ReceiptsFor(p) == {t \in receipts : t.id = p.id /\ t.call = p.call}

-----------------------------------------------------------------------------
(* Submitting, removing, hiding *)

\* Imports and relayed withdrawals are recorded when they are done: the kind
\* "ImportedAccount" stands for every record that arrives with status success.
\* Mistake: an operation recorded before it has a status of the broadcast.
NewOpPending(kind, n) ==
    [id |-> nextId, kind |-> kind, status |-> "pending", calls |-> <<>>,
     txn |-> nextId, hidden |-> FALSE]
NewOp(kind, n) ==
    [id |-> nextId, kind |-> kind,
     status |-> IF kind = "ImportedAccount" THEN "success" ELSE Sent,
     calls |-> IF kind = "MultipleTxns" THEN [i \in 1..n |-> Sent] ELSE <<>>,
     txn |-> IF kind \in {"UserOperation", "MultipleTxns"} THEN 0 ELSE nextId,
     hidden |-> FALSE]

\* addAccountOp: hide the confirmed banners, put the operation first, trim,
\* sync the session and queue the write to storage.  PrivacyPoolsController then
\* polls its operation instead of the one before; the other controllers that
\* submit operations of that kind do not poll.
AddAccountOp(a, c, kind, n) ==
    LET kept == HideConfirmed(accountsOps)
        added == Trim(<<NewOp(kind, n)>> \o kept[a][c])
        lists == [kept EXCEPT ![a] = [kept[a] EXCEPT ![c] = added]]
    IN  /\ nextId <= MaxOps
        /\ a = PrivateAccount => kind = "ImportedAccount"
        /\ accountsOps' = lists
        /\ view' = Synced(lists)
        /\ unsaved' = TRUE
        /\ nextId' = nextId + 1
        /\ raced' = (raced \/ probes # {})
        /\ polled' \in IF kind = "PrivacyPoolsRelayer" THEN {nextId, polled} ELSE {polled}
        /\ UNCHANGED <<stored, selected, refresh, receipts, rejected>>

\* Mistake: the open session is not updated.
RemoveAccountDataUnsynced(a) ==
    /\ accountsOps[a] # NoOps
    /\ accountsOps' = [accountsOps EXCEPT ![a] = NoOps]
    /\ unsaved' = TRUE
    /\ raced' = (raced \/ probes # {})
    /\ UNCHANGED <<stored, selected, view, refresh, polled, receipts, nextId, rejected>>

\* removeAccountData.
RemoveAccountData(a) ==
    /\ accountsOps[a] # NoOps
    /\ accountsOps' = [accountsOps EXCEPT ![a] = NoOps]
    /\ view' = Synced(accountsOps')
    /\ unsaved' = TRUE
    /\ raced' = (raced \/ probes # {})
    /\ UNCHANGED <<stored, selected, refresh, polled, receipts, nextId, rejected>>

\* hideBanner: the user closes the banner of the operation with a timestamp.
HideBanner(a, c, i) ==
    /\ i \in DOMAIN accountsOps[a][c]
    /\ accountsOps[a][c][i].id \in Closable
    /\ ~accountsOps[a][c][i].hidden
    /\ accountsOps' = [accountsOps EXCEPT ![a] = [accountsOps[a] EXCEPT
           ![c] = [accountsOps[a][c] EXCEPT
           ![i] = [accountsOps[a][c][i] EXCEPT !.hidden = TRUE]]]]
    /\ unsaved' = TRUE
    /\ UNCHANGED <<stored, selected, view, refresh, polled, receipts, nextId, raced, rejected>>

\* updateAccountOpStatus: the poll of PrivacyPoolsController saw the receipt of
\* its operation or gave up after 15 minutes.  It names the account that is
\* selected by then.
UpdateAccountOpStatus(a, c, i, status) ==
    LET list == accountsOps[a][c]
        kept == IF status \in Confirmed THEN HideConfirmed(accountsOps) ELSE accountsOps
        op == UpdateOpStatus(kept[a][c][i], status)
        lists == [kept EXCEPT ![a] = [kept[a] EXCEPT ![c] = [kept[a][c] EXCEPT ![i] = op]]]
        known == {t.status : t \in {r \in receipts : r.id = polled}}
    IN  /\ a = selected
        /\ i \in DOMAIN list
        /\ list[i].txn = polled
        /\ polled # 0
        /\ status \in known \cup {"broadcast-but-stuck"}
        /\ accountsOps' = lists
        /\ view' = Synced(lists)
        /\ unsaved' = TRUE
        /\ polled' = 0
        /\ UNCHANGED <<stored, selected, refresh, receipts, nextId, raced, rejected>>

\* The poll ends without an operation to write to: another account is selected,
\* or the user dismissed the operation.
PollEnds ==
    /\ polled # 0
    /\ polled' = 0
    /\ UNCHANGED <<memory, stored, unsaved, selected, refresh, receipts, nextId, raced, rejected>>

-----------------------------------------------------------------------------
(* updateAccountsOpsStatuses: one refresh of the selected account *)

\* Operations of these kinds are polled elsewhere or are not transactions.
NeedsProbe(op) ==
    /\ op.status = Sent
    /\ op.kind \notin {"PrivacyPoolsRelayer", "ImportedAccount"}

\* The call whose transaction fetchTxnId names.
\* Mistake: the last one, as when fetchTxnId is not given the operation.
ProbedLastCall(op) == IF op.kind = "MultipleTxns" THEN Len(op.calls) ELSE 1
ProbedCall(op) == IF op.kind = "MultipleTxns" THEN CallToUpdate(op) ELSE 1

\* The probes a refresh starts in one go: each captures the object, its index
\* and, for a MultipleTxns operation, the call whose transaction it asks about.
NewProbe(r, c, i) ==
    LET op == accountsOps[selected][c][i] IN
    [run |-> r, acct |-> selected, chain |-> c, idx |-> i, id |-> op.id,
     kind |-> op.kind, call |-> ProbedCall(op), stage |-> "txnId"]

Pending == {x \in Chains \X (1..MaxItems) :
               /\ x[2] \in DOMAIN accountsOps[selected][x[1]]
               /\ NeedsProbe(accountsOps[selected][x[1]][x[2]])}
NewProbes(r) == {NewProbe(r, x[1], x[2]) : x \in Pending}

StartRefresh(r) ==
    /\ selected \in Accounts
    /\ r \notin runs
    /\ ProbesOf(r) = {}
    /\ NewProbes(r) # {}
    /\ runs' = runs \cup {r}
    /\ probes' = probes \cup NewProbes(r)
    /\ raced' = (raced \/ probes # {})
    /\ UNCHANGED <<memory, stored, unsaved, selected, polled, receipts, nextId, rejected>>

MoveTo(p, stage) == probes' = (probes \ {p}) \cup {[p EXCEPT !.stage = stage]}
Finish(p) == probes' = probes \ {p}
OnlyProbes == UNCHANGED <<memory, stored, unsaved, selected, runs, polled, receipts, nextId, raced, rejected>>

\* What throws before the try block rejects the whole refresh: the statuses it
\* has written stay in memory and are not stored, and its other probes go on.
Abort(p) ==
    /\ Finish(p)
    /\ runs' = runs \ {p.run}
    /\ rejected' = TRUE
    /\ UNCHANGED <<memory, stored, unsaved, selected, polled, receipts, nextId, raced>>

\* fetchTxnId is awaited outside the try block: the request to the bundler fails,
\* or the relayer's answer has no data.
TxnIdFails(p) ==
    /\ p.stage = "txnId"
    /\ p.kind \in {"UserOperation", "Relayer"}
    /\ Abort(p)

Write(p, lists) ==
    /\ accountsOps' = lists
    /\ UNCHANGED <<stored, unsaved, selected, view, runs, polled, receipts, nextId, raced, rejected>>

\* fetchTxnId answered 'rejected' (every bundler was asked), or 'not_found' for
\* an operation submitted more than 15 minutes ago.
DeclareUnsent(p, status) ==
    /\ p.stage = "txnId"
    /\ \/ p.kind = "UserOperation" /\ status = "rejected" /\ ReceiptsFor(p) = {}
       \/ p.kind \in {"UserOperation", "Relayer"} /\ status = "broadcast-but-stuck"
    /\ IF HasTarget(p)
       THEN Finish(p) /\ Write(p, WriteAt(accountsOps, p, UpdateOpStatus(Target(p), status)))
       ELSE Abort(p)

\* 'not_found', submitted recently.
TxnIdNotFound(p) ==
    /\ p.stage = "txnId"
    /\ p.kind \in {"UserOperation", "Relayer"}
    /\ Finish(p)
    /\ OnlyProbes

\* 'success': the transaction id is recorded and its receipt asked for.
TxnIdFound(p) ==
    /\ p.stage = "txnId"
    /\ IF HasTarget(p)
       THEN /\ MoveTo(p, "receipt")
            /\ Write(p, WriteAt(accountsOps, p, [Target(p) EXCEPT !.txn = p.id]))
       ELSE Abort(p)

\* The receipt decides the operation: confirmed banners are hidden first, then
\* the status is written.  A position that is gone throws inside the try block,
\* which only logs, after the banners were hidden.
\* Mistake: hiding after the status is written.
SettleThenHide(p, status) ==
    LET wrote == WriteAt(accountsOps, p, UpdateOpStatus(Target(p), status)) IN
    /\ Finish(p)
    /\ Write(p, HideConfirmed(IF HasTarget(p) THEN wrote ELSE accountsOps))
Settle(p, status) ==
    LET kept == HideConfirmed(accountsOps)
        op == UpdateOpStatus(kept[p.acct][p.chain][p.idx], status)
    IN  /\ Finish(p)
        /\ Write(p, IF HasTarget(p) THEN WriteAt(kept, p, op) ELSE kept)

GotReceipt(p) ==
    /\ p.stage = "receipt"
    /\ \E t \in ReceiptsFor(p) :
           /\ ~(p.kind = "UserOperation" /\ t.status = "failure")
           /\ Settle(p, t.status)

\* A user operation whose transaction failed may have been front-run: the
\* bundler is asked for the transaction that carried it in the end.
GotFrontRunReceipt(p) ==
    /\ p.stage = "receipt"
    /\ p.kind = "UserOperation"
    /\ MoveTo(p, "frontRan")
    /\ OnlyProbes

GotFrontRanTxnId(p) ==
    /\ p.stage = "frontRan"
    /\ IF HasTarget(p)
       THEN /\ MoveTo(p, "secondReceipt")
            /\ Write(p, WriteAt(accountsOps, p, [Target(p) EXCEPT !.txn = p.id]))
       ELSE Finish(p) /\ OnlyProbes

\* The second receipt settles it.  When the bundler kept naming the failed
\* transaction, its receipt does, and the operation is a failure.
GotSecondReceipt(p) ==
    /\ p.stage = "secondReceipt"
    /\ \/ Settle(p, "failure")
       \/ \E t \in ReceiptsFor(p) : t.status = "success" /\ Settle(p, "success")

\* There is no receipt yet: is there a transaction?
NoReceipt(p) ==
    /\ p.stage = "receipt"
    /\ ReceiptsFor(p) = {}
    /\ MoveTo(p, "txn")
    /\ OnlyProbes

\* No transaction either, and 15 minutes have passed.
DeclareStuck(p) ==
    /\ p.stage = "txn"
    /\ IF HasTarget(p)
       THEN /\ Finish(p)
            /\ Write(p, WriteAt(accountsOps, p,
                                UpdateOpStatus(Target(p), "broadcast-but-stuck")))
       ELSE Finish(p) /\ OnlyProbes

\* The transaction exists or is recent, a second receipt is missing, or the
\* RPC failed: the probe ends and writes nothing.
GiveUp(p) ==
    /\ p.stage # "txnId"
    /\ Finish(p)
    /\ OnlyProbes

Advance(p) ==
    \/ \E status \in {"rejected", "broadcast-but-stuck"} : DeclareUnsent(p, status)
    \/ TxnIdNotFound(p) \/ TxnIdFound(p) \/ TxnIdFails(p)
    \/ GotReceipt(p) \/ NoReceipt(p) \/ DeclareStuck(p) \/ GiveUp(p)
    \/ GotFrontRunReceipt(p) \/ GotFrontRanTxnId(p) \/ GotSecondReceipt(p)

\* Mistake: the answers are published and not stored.
EndRefreshUnsaved(r) ==
    /\ r \in runs
    /\ ProbesOf(r) = {}
    /\ runs' = runs \ {r}
    /\ view' = Synced(accountsOps)
    /\ UNCHANGED <<accountsOps, stored, unsaved, selected, probes, polled, receipts, nextId, raced, rejected>>

\* Every probe of the refresh has ended: store and publish.
EndRefresh(r) ==
    /\ r \in runs
    /\ ProbesOf(r) = {}
    /\ runs' = runs \ {r}
    /\ stored' = accountsOps
    /\ unsaved' = FALSE
    /\ rejected' = (Strays # {})
    /\ view' = Synced(accountsOps)
    /\ UNCHANGED <<accountsOps, selected, probes, polled, receipts, nextId, raced>>

-----------------------------------------------------------------------------
(* Storage, sessions, the account switch, the network, a restart *)

\* The storage queue reaches the queued storage.set: it writes what the history
\* is by then.
SaveAccountsOps ==
    /\ unsaved
    /\ stored' = accountsOps
    /\ unsaved' = FALSE
    /\ rejected' = (Strays # {})
    /\ UNCHANGED <<memory, selected, refresh, polled, receipts, nextId, raced>>

\* filterAccountsOps opens the session, resetAccountsOpsFilters closes it.
FilterAccountsOps(a) ==
    /\ a \in Viewable \cup {NoAccount}
    /\ view.account # a
    /\ view' = [account |-> a, items |-> Filtered(accountsOps, a)]
    /\ UNCHANGED <<accountsOps, stored, unsaved, selected, refresh, polled, receipts, nextId, raced, rejected>>

SelectAccount(a) ==
    /\ a \notin {selected, PrivateAccount}
    /\ selected' = a
    /\ UNCHANGED <<memory, stored, unsaved, refresh, polled, receipts, nextId, raced, rejected>>

\* The network includes the transaction of a call of an operation.
Mine(a, c, i, call, status) ==
    LET op == accountsOps[a][c][i] IN
    /\ i \in DOMAIN accountsOps[a][c]
    /\ call \in 1..(IF op.kind = "MultipleTxns" THEN Len(op.calls) ELSE 1)
    /\ op.kind # "ImportedAccount"
    /\ ~\E t \in receipts : t.id = op.id /\ t.call = call
    /\ receipts' = receipts \cup {[id |-> op.id, call |-> call, status |-> status]}
    /\ UNCHANGED <<memory, stored, unsaved, selected, refresh, polled, nextId, raced, rejected>>

\* The extension is closed at any point and loads the stored history again.
Restart ==
    /\ accountsOps' = stored
    /\ view' = [account |-> NoAccount, items |-> {}]
    /\ unsaved' = FALSE
    /\ runs' = {}
    /\ probes' = {}
    /\ polled' = 0
    /\ rejected' = FALSE
    /\ UNCHANGED <<stored, selected, receipts, nextId, raced>>

-----------------------------------------------------------------------------
Init ==
    /\ accountsOps = [a \in Accounts |-> NoOps]
    /\ stored = accountsOps
    /\ unsaved = FALSE
    /\ selected = NoAccount
    /\ view = [account |-> NoAccount, items |-> {}]
    /\ runs = {}
    /\ probes = {}
    /\ polled = 0
    /\ receipts = {}
    /\ nextId = 1
    /\ raced = FALSE
    /\ rejected = FALSE

UserStep(a) ==
    \/ \E c \in Chains, kind \in Kinds, n \in BatchSizes : AddAccountOp(a, c, kind, n)
    \/ RemoveAccountData(a)
    \/ FilterAccountsOps(a)
    \/ SelectAccount(a)
    \/ \E c \in Chains, i \in 1..MaxItems : HideBanner(a, c, i)

NetworkStep(a) ==
    \E c \in Chains, i \in 1..MaxItems :
        \/ \E status \in Statuses : UpdateAccountOpStatus(a, c, i, status)
        \/ \E call \in 1..MaxCalls, status \in {"success", "failure"} :
               Mine(a, c, i, call, status)

Next ==
    \/ \E a \in Accounts : UserStep(a) \/ NetworkStep(a)
    \/ FilterAccountsOps(NoAccount)
    \/ \E r \in Refreshes : StartRefresh(r) \/ EndRefresh(r)
    \/ \E p \in probes : Advance(p)
    \/ PollEnds
    \/ SaveAccountsOps
    \/ Restart

Spec == Init /\ [][Next]_vars

-----------------------------------------------------------------------------
(* Properties *)

\* "Items per account and network are limited to 1000": no list, in memory or
\* in storage, ever holds more than MaxItems operations, whatever the order in
\* which submissions, refreshes, removals and restarts happen.
HistoryBounded ==
    \A a \in Accounts, c \in Chains :
        /\ Len(accountsOps[a][c]) <= MaxItems
        /\ Len(stored[a][c]) <= MaxItems

\* "Older items are trimmed, keeping the most recent ones": an operation that is
\* submitted is recorded, and what it pushes out of a list is older than
\* everything that stays.
TrimKeepsNewest ==
    [][nextId' # nextId =>
          /\ \E a \in Accounts, c \in Chains : nextId \in Ids(accountsOps'[a][c])
          /\ \A a \in Accounts, c \in Chains :
                 \A x \in Ids(accountsOps[a][c]) \ Ids(accountsOps'[a][c]),
                    y \in Ids(accountsOps'[a][c]) : x < y]_vars

\* The transactions of a MultipleTxns operation settle in the order they were
\* sent, and the operation has the status of its last call: it never reads
\* success, failure or stuck while a transaction of it is still unconfirmed.
\* This holds even when probes race and write to the wrong operation.
SettlesInOrder(op) ==
    op.kind = "MultipleTxns" =>
        /\ op.calls # <<>>
        /\ op.status = op.calls[Len(op.calls)]
        /\ \E k \in 0..Len(op.calls) :
               \A i \in DOMAIN op.calls : (op.calls[i] = Sent) <=> (i > k)

BatchSettlesInOrder ==
    \A a \in Accounts, c \in Chains :
        /\ \A i \in DOMAIN accountsOps[a][c] : SettlesInOrder(accountsOps[a][c][i])
        /\ \A i \in DOMAIN stored[a][c] : SettlesInOrder(stored[a][c][i])

\* Success and failure come from the operation's own receipt.  A failed user
\* operation is exempt: the failing receipt may be the front-runner's.
StatusIsOwn(op) ==
    LET has(call, status) == [id |-> op.id, call |-> call, status |-> status] \in receipts IN
    /\ \A i \in DOMAIN op.calls :
           op.calls[i] \in {"success", "failure"} => has(i, op.calls[i])
    /\ op.kind \in {"Transaction", "UserOperation", "Relayer", "PrivacyPoolsRelayer"} =>
           /\ op.status = "success" => has(1, "success")
           /\ op.status = "failure" /\ op.kind # "UserOperation" => has(1, "failure")

\* As long as no list changes under a probe and no two refreshes overlap, the
\* status and the transaction id of an operation are its own, across trims,
\* account switches and restarts.
RacelessStatusIsOwn ==
    ~raced => \A a \in Accounts : \A op \in OpsOf(accountsOps, a) :
                  StatusIsOwn(op) /\ op.txn \in {0, op.id}

\* Storage has an operation as memory has it, but for a hidden banner, or it has
\* it unconfirmed: then a refresh after a restart asks for it again.
KeptAs(old, new) ==
    /\ new.id = old.id /\ new.kind = old.kind
    /\ \/ old.status = Sent
       \/ new.status = old.status /\ new.calls = old.calls /\ new.txn = old.txn

Keeps(old, new) == \A a \in Accounts, c \in Chains :
    /\ DOMAIN new[a][c] = DOMAIN old[a][c]
    /\ \A i \in DOMAIN old[a][c] : KeptAs(old[a][c][i], new[a][c][i])

\* Without such races, while no write is queued, storage has every operation
\* that memory has, and what became of it, or has it as unconfirmed: whatever
\* refreshes are rejected half way, a restart loses nothing that a refresh does
\* not find again.  Once no refresh is running either, storage has all that
\* memory has, unless a refresh was rejected after the last write: the statuses
\* its other probes wrote stay in memory until the next one.
QuietHistoryIsStored ==
    ~raced /\ ~unsaved =>
        /\ Keeps(stored, accountsOps)
        /\ runs = {} /\ ~rejected => stored = accountsOps

\* The open session always lists exactly the operations of its account and of
\* the private account: every change of a list is followed by a sync.
ViewIsCurrent == view.items = Filtered(accountsOps, view.account)

\* "Banners of failed transactions are not hidden", and the status a receipt
\* brings must not hide the operation's own banner: unless the user closes it,
\* a banner is only hidden when its operation was already confirmed before the
\* step.
OnlyConfirmedBannersAreHidden ==
    [][\/ Restart
       \/ \E a \in Accounts, c \in Chains, i \in 1..MaxItems : HideBanner(a, c, i)
       \/ \A a \in Accounts :
              \A op \in OpsOf(accountsOps, a), new \in OpsOf(accountsOps', a) :
                  new.id = op.id /\ new.hidden /\ ~op.hidden => op.status \in Confirmed]_vars
=============================================================================
