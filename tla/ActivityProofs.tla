--------------------------- MODULE ActivityProofs ---------------------------
(***************************************************************************)
(* Theorems about Activity, for every set of accounts, chains and          *)
(* refreshes and every limit.                                              *)
(*                                                                         *)
(* The inductive invariants build on one another.  Inv: both copies of the *)
(* history, in memory and in storage, are well-formed and bounded; each    *)
(* operator that yields a history preserves this, so each action does.     *)
(* HistoryInv: the ids of a history are ordered and the open session lists *)
(* what it should.  RaceInv: as long as no refreshes race, each probe is   *)
(* aimed at the operation it was started for, no two at the same one, and  *)
(* what memory knows better than storage is unconfirmed in storage.        *)
(***************************************************************************)
EXTENDS Activity, SequenceTheorems, TLAPS

\* A history that has the right type, is bounded and in which every
\* MultipleTxns operation settles in order.
GoodOp(op) == op \in Op /\ SettlesInOrder(op)
GoodList(list) ==
    /\ list \in Seq(Op)
    /\ Len(list) <= MaxItems
    /\ \A i \in DOMAIN list : SettlesInOrder(list[i])
GoodLists(lists) ==
    /\ lists \in Lists
    /\ \A a \in Accounts, c \in Chains : GoodList(lists[a][c])

GoodRest ==
    /\ unsaved \in BOOLEAN
    /\ selected \in Accounts \cup {NoAccount}
    /\ view \in [account: Accounts \cup {NoAccount}, items: SUBSET Nat]
    /\ runs \subseteq Refreshes
    /\ probes \subseteq Probe
    /\ polled \in Nat
    /\ receipts \subseteq Receipt
    /\ nextId \in Nat \ {0}
    /\ raced \in BOOLEAN
    /\ rejected \in BOOLEAN

Inv == GoodLists(accountsOps) /\ GoodLists(stored) /\ GoodRest

-----------------------------------------------------------------------------
(* Operations *)

\* While a call is unconfirmed, CallToUpdate names the first such call; after
\* that it names the last call.
LEMMA CallToUpdateIsNext ==
    ASSUME NEW op \in Op, op.calls # <<>>, NEW k \in 0..Len(op.calls),
           \A i \in DOMAIN op.calls : (op.calls[i] = Sent) <=> (i > k)
    PROVE  CallToUpdate(op) = IF k = Len(op.calls) THEN k ELSE k + 1
<1> DEFINE n == Len(op.calls)
<1>1. op.calls \in Seq(Statuses) /\ n \in Nat /\ DOMAIN op.calls = 1..n
  BY DEF Op
<1>2. Unconfirmed(op) = (k + 1)..n
  BY <1>1 DEF Unconfirmed
<1>3. CASE k = n
  BY <1>1, <1>2, <1>3 DEF CallToUpdate
<1>4. CASE k # n
  <2>1. k + 1 \in Unconfirmed(op) /\ \A j \in Unconfirmed(op) : k + 1 <= j
    BY <1>1, <1>2, <1>4
  <2>2. \A i \in Unconfirmed(op) :
            (\A j \in Unconfirmed(op) : i <= j) => i = k + 1
    BY <1>1, <1>2, <2>1
  <2>3. (CHOOSE i \in Unconfirmed(op) : \A j \in Unconfirmed(op) : i <= j) = k + 1
    BY <2>1, <2>2
  <2> QED
    BY <1>4, <2>1, <2>3 DEF CallToUpdate
<1> QED
  BY <1>3, <1>4

\* A status that a refresh or a poll writes keeps an operation good.
LEMMA UpdateKeepsGood ==
    ASSUME NEW op, GoodOp(op), NEW status \in Statuses \ {Sent}
    PROVE  GoodOp(UpdateOpStatus(op, status))
<1> DEFINE new == UpdateOpStatus(op, status)
<1>1. CASE op.kind # "MultipleTxns"
  BY <1>1 DEF GoodOp, Op, SettlesInOrder, UpdateOpStatus
<1>2. CASE op.kind = "MultipleTxns"
  <2> DEFINE n == Len(op.calls)
             i == CallToUpdate(op)
  <2>1. op \in Op /\ op.calls \in Seq(Statuses) /\ op.calls # <<>>
    BY <1>2 DEF GoodOp, Op, SettlesInOrder
  <2>2. n \in Nat /\ n > 0 /\ DOMAIN op.calls = 1..n
    BY <2>1
  <2>3. PICK k \in 0..n : \A j \in DOMAIN op.calls : (op.calls[j] = Sent) <=> (j > k)
    BY <1>2 DEF GoodOp, SettlesInOrder
  <2>4. i = IF k = n THEN k ELSE k + 1
    BY <2>1, <2>3, CallToUpdateIsNext
  <2>5. i \in 1..n
    BY <2>2, <2>4
  <2>6. /\ new = [op EXCEPT !.calls = [op.calls EXCEPT ![i] = status],
                            !.status = IF i = n THEN status ELSE op.status]
        /\ new.calls = [op.calls EXCEPT ![i] = status]
        /\ new.status = IF i = n THEN status ELSE op.status
        /\ new.kind = op.kind
    BY <1>2, <2>1 DEF UpdateOpStatus, Op
  <2>7. new.calls \in Seq(Statuses) /\ Len(new.calls) = n /\ DOMAIN new.calls = 1..n
    BY <2>1, <2>2, <2>5, <2>6
  <2>8. new \in Op
    BY <2>1, <2>6, <2>7 DEF Op
  <2>9. \A j \in 1..n : new.calls[j] = IF j = i THEN status ELSE op.calls[j]
    BY <2>2, <2>6
  <2>10. \A j \in DOMAIN new.calls : (new.calls[j] = Sent) <=> (j > i)
    BY <2>2, <2>3, <2>4, <2>7, <2>9
  <2>11. new.status = new.calls[n]
    BY <1>2, <2>2, <2>6, <2>9 DEF GoodOp, SettlesInOrder
  <2>12. new.calls # <<>>
    BY <2>2, <2>7
  <2> QED
    BY <2>5, <2>7, <2>8, <2>10, <2>11, <2>12 DEF GoodOp, SettlesInOrder
<1> QED
  BY <1>1, <1>2

-----------------------------------------------------------------------------
(* Histories *)

\* A function on 1..n with values in a set is a sequence over the set.
LEMMA SeqOfFunction ==
    ASSUME NEW S, NEW n \in Nat, NEW f, f = [i \in 1..n |-> f[i]],
           \A i \in 1..n : f[i] \in S
    PROVE  f \in Seq(S) /\ Len(f) = n
<1>1. f \in [1..n -> S]
  OBVIOUS
<1>2. f \in Seq(S)
  BY <1>1, SeqDef
<1> QED
  BY <1>1, <1>2, LenProperties

\* Lists that are good are typed: the first consequence of the invariant.
LEMMA GoodListsTyped ==
    ASSUME NEW lists, GoodLists(lists), NEW a \in Accounts, NEW c \in Chains,
           NEW i \in DOMAIN lists[a][c]
    PROVE  /\ lists[a][c] \in Seq(Op)
           /\ i \in 1..Len(lists[a][c])
           /\ GoodOp(lists[a][c][i])
BY DEF GoodLists, GoodList, GoodOp, Lists

\* Replacing one list of a history by a good list.
LEMMA ReplaceList ==
    ASSUME NEW lists, GoodLists(lists), NEW a \in Accounts, NEW c \in Chains,
           NEW list, GoodList(list)
    PROVE  GoodLists([lists EXCEPT ![a] = [lists[a] EXCEPT ![c] = list]])
<1> DEFINE new == [lists EXCEPT ![a] = [lists[a] EXCEPT ![c] = list]]
<1>1. lists \in [Accounts -> [Chains -> Seq(Op)]] /\ list \in Seq(Op)
  BY DEF GoodLists, GoodList, Lists
<1>2. new \in Lists
  BY <1>1 DEF Lists
<1>3. \A b \in Accounts, d \in Chains :
          new[b][d] = IF b = a /\ d = c THEN list ELSE lists[b][d]
  BY <1>1
<1> QED
  BY <1>2, <1>3 DEF GoodLists

\* Replacing one operation of a list by a good operation.
LEMMA ReplaceOp ==
    ASSUME NEW list, GoodList(list), NEW i \in DOMAIN list, NEW op, GoodOp(op)
    PROVE  GoodList([list EXCEPT ![i] = op])
BY DEF GoodList, GoodOp

\* Hiding a banner changes no list for the worse.
LEMMA HideKeepsGood ==
    ASSUME NEW op, GoodOp(op)
    PROVE  GoodOp([op EXCEPT !.hidden = TRUE])
<1> DEFINE new == [op EXCEPT !.hidden = TRUE]
<1>1. new \in Op /\ new.kind = op.kind /\ new.calls = op.calls /\ new.status = op.status
  BY DEF GoodOp, Op
<1> QED
  BY <1>1 DEF GoodOp, SettlesInOrder

\* Hiding the banners of confirmed operations leaves statuses and calls alone.
LEMMA HideConfirmedKeepsGood ==
    ASSUME NEW lists, GoodLists(lists)
    PROVE  /\ GoodLists(HideConfirmed(lists))
           /\ \A a \in Accounts, c \in Chains :
                 DOMAIN HideConfirmed(lists)[a][c] = DOMAIN lists[a][c]
<1> DEFINE new == HideConfirmed(lists)
<1> SUFFICES ASSUME NEW a \in Accounts, NEW c \in Chains
             PROVE  GoodList(new[a][c]) /\ DOMAIN new[a][c] = DOMAIN lists[a][c]
  <2>1. \A a \in Accounts, c \in Chains : GoodList(new[a][c])
    OBVIOUS
  <2>2. new = [a \in Accounts |-> [c \in Chains |-> new[a][c]]]
    BY DEF HideConfirmed
  <2>3. new \in Lists
    BY <2>1, <2>2 DEF Lists, GoodList
  <2> QED
    BY <2>1, <2>3 DEF GoodLists
<1> DEFINE old == lists[a][c]
           hide(i) == HidesBanner(lists, a, old[i])
<1>1. new[a][c] = [i \in DOMAIN old |->
                      IF hide(i) THEN [old[i] EXCEPT !.hidden = TRUE] ELSE old[i]]
  BY DEF HideConfirmed
<1>2. old \in Seq(Op) /\ Len(old) <= MaxItems /\ \A i \in DOMAIN old : GoodOp(old[i])
  BY DEF GoodLists, GoodList, GoodOp
<1>3. \A i \in DOMAIN old : GoodOp([old[i] EXCEPT !.hidden = TRUE])
  BY <1>2, HideKeepsGood
<1> HIDE DEF hide
<1>4. \A i \in DOMAIN old : GoodOp(new[a][c][i])
  BY <1>1, <1>2, <1>3
<1>5. DOMAIN new[a][c] = 1..Len(old) /\ Len(old) \in Nat
  BY <1>1, <1>2
<1>6. new[a][c] = [i \in 1..Len(old) |-> new[a][c][i]]
  BY <1>1, <1>5
<1>7. \A i \in 1..Len(old) : new[a][c][i] \in Op
  BY <1>2, <1>4, <1>5 DEF GoodOp
<1> HIDE DEF new
<1>8. new[a][c] \in Seq(Op) /\ Len(new[a][c]) = Len(old)
  BY <1>5, <1>6, <1>7, SeqOfFunction
<1> QED
  BY <1>2, <1>4, <1>5, <1>8 DEF GoodList, GoodOp

\* A submission at the front, trimmed to the limit.
LEMMA SubmitKeepsGood ==
    ASSUME NEW list, GoodList(list), NEW op, GoodOp(op)
    PROVE  GoodList(Trim(<<op>> \o list))
<1> DEFINE longer == <<op>> \o list
<1>1. list \in Seq(Op) /\ op \in Op /\ Len(list) \in Nat /\ Len(list) <= MaxItems
  BY DEF GoodList, GoodOp
<1>2. longer \in Seq(Op) /\ Len(longer) = Len(list) + 1
  BY <1>1
<1>3. \A i \in 1..Len(longer) : longer[i] = IF i = 1 THEN op ELSE list[i - 1]
  BY <1>1
<1>4. \A i \in 1..Len(longer) : SettlesInOrder(longer[i])
  <2> TAKE i \in 1..Len(longer)
  <2>1. CASE i = 1
    BY <1>3, <2>1 DEF GoodOp
  <2>2. CASE i # 1
    <3>1. i - 1 \in DOMAIN list
      BY <1>1, <1>2, <2>2
    <3> QED
      BY <1>3, <2>2, <3>1 DEF GoodList
  <2> QED
    BY <2>1, <2>2
<1>5. CASE Len(longer) > MaxItems
  <2> DEFINE short == SubSeq(longer, 1, Len(longer) - 1)
  <2>1. short \in Seq(Op) /\ Len(short) = Len(list)
    BY <1>1, <1>2
  <2>2. \A i \in DOMAIN short : i \in 1..Len(longer) /\ short[i] = longer[i]
    BY <1>1, <1>2, <2>1
  <2> QED
    BY <1>1, <1>4, <1>5, <2>1, <2>2 DEF GoodList, Trim
<1>6. CASE ~(Len(longer) > MaxItems)
  BY <1>1, <1>2, <1>4, <1>6, ActivityAssumption DEF GoodList, Trim
<1> QED
  BY <1>5, <1>6

\* A probe's write of a good operation at a position that exists.
LEMMA WriteAtKeepsGood ==
    ASSUME NEW lists, GoodLists(lists), NEW p \in Probe,
           p.idx \in DOMAIN lists[p.acct][p.chain], NEW op, GoodOp(op)
    PROVE  GoodLists(WriteAt(lists, p, op))
<1>1. p.acct \in Accounts /\ p.chain \in Chains
  BY DEF Probe
<1>2. GoodList(lists[p.acct][p.chain])
  BY <1>1 DEF GoodLists
<1> QED
  BY <1>1, <1>2, ReplaceOp, ReplaceList DEF WriteAt

\* What a session lists is a set of operations.
LEMMA FilteredTyped ==
    ASSUME NEW lists, GoodLists(lists), NEW a \in Accounts \cup {NoAccount}
    PROVE  Filtered(lists, a) \subseteq Nat
<1>1. \A b \in Accounts : \A o \in OpsOf(lists, b) : o.id \in Nat
  BY GoodListsTyped DEF OpsOf, Entries, GoodOp, Op
<1> QED
  BY <1>1, ActivityAssumption DEF Filtered

\* What the views are refreshed to is a page of the history.
LEMMA SyncedTyped ==
    ASSUME NEW lists, GoodLists(lists), GoodRest
    PROVE  Synced(lists) \in [account: Accounts \cup {NoAccount}, items: SUBSET Nat]
<1>1. view \in [account: Accounts \cup {NoAccount}, items: SUBSET Nat]
  BY DEF GoodRest
<1>2. Filtered(lists, view.account) \subseteq Nat
  BY <1>1, FilteredTyped
<1> QED
  BY <1>1, <1>2 DEF Synced

\* A new operation is consistent, whatever way it was broadcast.
LEMMA NewOpGood ==
    ASSUME nextId \in Nat, NEW kind \in Kinds, NEW n \in BatchSizes
    PROVE  GoodOp(NewOp(kind, n))
<1> DEFINE op == NewOp(kind, n)
           calls == IF kind = "MultipleTxns" THEN [i \in 1..n |-> Sent] ELSE <<>>
           status == IF kind = "ImportedAccount" THEN "success" ELSE Sent
<1>1. n \in Nat /\ n > 0 /\ kind \in OpKinds
  BY ActivityAssumption
<1>2. [i \in 1..n |-> Sent] \in Seq(Statuses) /\ Len([i \in 1..n |-> Sent]) = n
  BY <1>1 DEF Statuses
<1>3. calls \in Seq(Statuses) /\ status \in Statuses
  BY <1>2 DEF Statuses
<1>4. /\ op.kind = kind /\ op.calls = calls /\ op.status = status
      /\ op \in Op
  BY <1>1, <1>3 DEF NewOp, Op
<1>5. ASSUME kind = "MultipleTxns"
      PROVE  SettlesInOrder(op)
  <2>1. op.calls = [i \in 1..n |-> Sent] /\ Len(op.calls) = n /\ op.status = Sent
    BY <1>2, <1>4, <1>5
  <2>2. op.calls # <<>> /\ op.status = op.calls[n] /\ 0 \in 0..n
    BY <1>1, <2>1
  <2>3. \A i \in DOMAIN op.calls : (op.calls[i] = Sent) <=> (i > 0)
    BY <1>1, <2>1
  <2> QED
    BY <2>1, <2>2, <2>3 DEF SettlesInOrder
<1> QED
  BY <1>4, <1>5 DEF GoodOp, SettlesInOrder

\* The probes of a refresh are typed.
LEMMA NewProbesTyped ==
    ASSUME Inv, selected \in Accounts, NEW r \in Refreshes
    PROVE  NewProbes(r) \subseteq Probe
<1> SUFFICES ASSUME NEW x \in Pending
             PROVE  NewProbe(r, x[1], x[2]) \in Probe
  BY DEF NewProbes
<1> DEFINE c == x[1]
           i == x[2]
           op == accountsOps[selected][c][i]
<1>1. c \in Chains /\ i \in 1..MaxItems /\ i \in DOMAIN accountsOps[selected][c]
  BY DEF Pending
<1>2. GoodOp(op)
  BY <1>1, GoodListsTyped DEF Inv
<1> HIDE DEF op
<1>3. ProbedCall(op) \in Nat
  <2>1. CASE op.kind = "MultipleTxns"
    <3>1. op \in Op /\ op.calls \in Seq(Statuses) /\ op.calls # <<>>
      BY <1>2, <2>1 DEF GoodOp, SettlesInOrder, Op
    <3>2. PICK k \in 0..Len(op.calls) :
              \A j \in DOMAIN op.calls : (op.calls[j] = Sent) <=> (j > k)
      BY <1>2, <2>1 DEF GoodOp, SettlesInOrder
    <3>3. CallToUpdate(op) \in Nat
      BY <3>1, <3>2, CallToUpdateIsNext
    <3> QED
      BY <2>1, <3>3 DEF ProbedCall
  <2>2. CASE op.kind # "MultipleTxns"
    BY <2>2 DEF ProbedCall
  <2> QED
    BY <2>1, <2>2
<1>4. i \in Nat \ {0} /\ op.id \in Nat /\ op.kind \in OpKinds
  BY <1>1, <1>2, ActivityAssumption DEF GoodOp, Op
<1> QED
  BY <1>1, <1>3, <1>4 DEF NewProbe, Probe, Stages, op

-----------------------------------------------------------------------------
(* The invariant *)

\* The empty history satisfies the invariant.
LEMMA InitGood == Init => Inv
<1> SUFFICES ASSUME Init PROVE Inv
  OBVIOUS
<1>1. <<>> \in Seq(Op) /\ Len(<<>>) = 0 /\ DOMAIN <<>> = {}
  OBVIOUS
<1>2. GoodList(<<>>)
  BY <1>1, ActivityAssumption DEF GoodList
<1>3. accountsOps = [a \in Accounts |-> [c \in Chains |-> <<>>]] /\ stored = accountsOps
  BY DEF Init, NoOps
<1>4. GoodLists(accountsOps)
  BY <1>1, <1>2, <1>3 DEF GoodLists, Lists
<1>5. view \in [account: Accounts \cup {NoAccount}, items: SUBSET Nat]
  BY DEF Init
<1>6. nextId \in Nat \ {0}
  BY DEF Init
<1>7. GoodRest
  BY <1>5, <1>6, Zenon DEF Init, GoodRest
<1> QED
  BY <1>3, <1>4, <1>7 DEF Inv

\* Adding an operation trims the list and keeps it good.
LEMMA AddAccountOpGood ==
    ASSUME Inv, NEW a \in Accounts, NEW c \in Chains, NEW kind \in Kinds,
           NEW n \in BatchSizes, AddAccountOp(a, c, kind, n)
    PROVE  Inv'
<1> DEFINE kept == HideConfirmed(accountsOps)
           added == Trim(<<NewOp(kind, n)>> \o kept[a][c])
           lists == [kept EXCEPT ![a] = [kept[a] EXCEPT ![c] = added]]
<1>1. GoodLists(kept)
  BY HideConfirmedKeepsGood DEF Inv
<1>2. GoodOp(NewOp(kind, n))
  BY NewOpGood DEF Inv, GoodRest
<1> HIDE DEF kept
<1>3. GoodList(added)
  BY <1>1, <1>2, SubmitKeepsGood DEF GoodLists
<1> HIDE DEF added
<1>4. GoodLists(lists)
  BY <1>1, <1>3, ReplaceList
<1>5. accountsOps' = lists /\ view' = Synced(lists)
  BY DEF AddAccountOp, kept, added
<1> HIDE DEF lists
<1>6. view' \in [account: Accounts \cup {NoAccount}, items: SUBSET Nat]
  BY <1>4, <1>5, SyncedTyped DEF Inv
<1>7. /\ unsaved' = TRUE /\ nextId' = nextId + 1 /\ raced' \in BOOLEAN
      /\ polled' \in {nextId, polled}
      /\ UNCHANGED <<stored, selected, runs, probes, receipts, rejected>>
  BY DEF AddAccountOp, refresh, Inv, GoodRest
<1>8. GoodRest'
  BY <1>6, <1>7 DEF Inv, GoodRest
<1> QED
  BY <1>4, <1>5, <1>7, <1>8 DEF Inv

\* Removing an account only empties lists.
LEMMA RemoveAccountDataGood ==
    ASSUME Inv, NEW a \in Accounts, RemoveAccountData(a)
    PROVE  Inv'
<1> DEFINE lists == [accountsOps EXCEPT ![a] = NoOps]
<1>1. <<>> \in Seq(Op) /\ Len(<<>>) = 0 /\ DOMAIN <<>> = {}
  OBVIOUS
<1>2. GoodList(<<>>)
  BY <1>1, ActivityAssumption DEF GoodList
<1>3. accountsOps \in [Accounts -> [Chains -> Seq(Op)]] /\ NoOps \in [Chains -> Seq(Op)]
  BY <1>1 DEF Inv, GoodLists, Lists, NoOps
<1>4. lists \in Lists
  BY <1>3 DEF Lists
<1>5. \A b \in Accounts, c \in Chains :
          lists[b][c] = IF b = a THEN <<>> ELSE accountsOps[b][c]
  BY <1>3 DEF NoOps
<1>6. GoodLists(lists)
  BY <1>2, <1>4, <1>5 DEF Inv, GoodLists
<1>7. accountsOps' = lists /\ view' = Synced(lists)
  BY DEF RemoveAccountData
<1> HIDE DEF lists
<1>8. view' \in [account: Accounts \cup {NoAccount}, items: SUBSET Nat]
  BY <1>6, <1>7, SyncedTyped DEF Inv
<1> QED
  BY <1>6, <1>7, <1>8 DEF Inv, GoodRest, RemoveAccountData, refresh

\* Closing a banner keeps the invariant.
LEMMA HideBannerGood ==
    ASSUME Inv, NEW a \in Accounts, NEW c \in Chains, NEW i \in Nat, HideBanner(a, c, i)
    PROVE  Inv'
<1> DEFINE op == [accountsOps[a][c][i] EXCEPT !.hidden = TRUE]
           list == [accountsOps[a][c] EXCEPT ![i] = op]
<1>1. i \in DOMAIN accountsOps[a][c]
  BY DEF HideBanner
<1>2. GoodList(accountsOps[a][c]) /\ GoodOp(accountsOps[a][c][i])
  BY <1>1, GoodListsTyped DEF Inv, GoodLists
<1>3. GoodOp(op)
  BY <1>2, HideKeepsGood
<1>4. GoodList(list)
  BY <1>1, <1>2, <1>3, ReplaceOp
<1>5. GoodLists([accountsOps EXCEPT ![a] = [accountsOps[a] EXCEPT ![c] = list]])
  BY <1>4, ReplaceList DEF Inv
<1>6. GoodLists(accountsOps')
  BY <1>5 DEF HideBanner
<1> QED
  BY <1>6 DEF Inv, GoodRest, HideBanner, refresh

\* A status that the poll of PrivacyPoolsController brings keeps the invariant.
LEMMA UpdateAccountOpStatusGood ==
    ASSUME Inv, NEW a \in Accounts, NEW c \in Chains, NEW i \in Nat,
           NEW status, UpdateAccountOpStatus(a, c, i, status)
    PROVE  Inv'
<1> DEFINE kept == IF status \in Confirmed THEN HideConfirmed(accountsOps) ELSE accountsOps
           op == UpdateOpStatus(kept[a][c][i], status)
           list == [kept[a][c] EXCEPT ![i] = op]
           lists == [kept EXCEPT ![a] = [kept[a] EXCEPT ![c] = list]]
<1>1. i \in DOMAIN accountsOps[a][c] /\ receipts \subseteq Receipt
  BY DEF UpdateAccountOpStatus, Inv, GoodRest
<1>2. status \in Statuses \ {Sent}
  BY <1>1 DEF UpdateAccountOpStatus, Receipt, Statuses, Sent
<1>3. GoodLists(kept) /\ i \in DOMAIN kept[a][c]
  BY <1>1, HideConfirmedKeepsGood DEF Inv
<1>4. accountsOps' = lists /\ view' = Synced(lists)
  BY DEF UpdateAccountOpStatus
<1> HIDE DEF kept
<1>5. GoodList(kept[a][c]) /\ GoodOp(kept[a][c][i])
  BY <1>3, GoodListsTyped DEF GoodLists
<1>6. GoodList(list)
  BY <1>2, <1>3, <1>5, UpdateKeepsGood, ReplaceOp
<1> HIDE DEF list
<1>7. GoodLists(lists)
  BY <1>3, <1>6, ReplaceList
<1> HIDE DEF lists
<1>8. view' \in [account: Accounts \cup {NoAccount}, items: SUBSET Nat]
  BY <1>4, <1>7, SyncedTyped DEF Inv
<1> QED
  BY <1>4, <1>7, <1>8 DEF Inv, GoodRest, UpdateAccountOpStatus, refresh

\* A refresh that starts sets out with typed probes.
LEMMA StartRefreshGood ==
    ASSUME Inv, NEW r \in Refreshes, StartRefresh(r)
    PROVE  Inv'
<1>1. NewProbes(r) \subseteq Probe
  BY NewProbesTyped DEF StartRefresh
<1>2. /\ runs' \subseteq Refreshes /\ probes' \subseteq Probe /\ raced' \in BOOLEAN
      /\ UNCHANGED <<accountsOps, view, stored, unsaved, selected, polled, receipts, nextId,
                     rejected>>
  BY <1>1 DEF StartRefresh, Inv, GoodRest, memory
<1> QED
  BY <1>2 DEF Inv, GoodRest

-----------------------------------------------------------------------------
(* The steps of a probe.  Each ends it or moves it on, and leaves the history *)
(* alone, writes one good operation, or does so after hiding banners.          *)

\* A probe that goes on to its next request keeps the invariant.
LEMMA ProbeStepGood ==
    ASSUME Inv, NEW p \in probes, Finish(p) \/ (\E s \in Stages : MoveTo(p, s)),
           GoodLists(accountsOps'), runs' \subseteq runs,
           UNCHANGED <<stored, unsaved, selected, view, polled, receipts, nextId, raced>>,
           UNCHANGED rejected \/ rejected' = TRUE
    PROVE  Inv'
<1>1. p \in Probe /\ \A s \in Stages : [p EXCEPT !.stage = s] \in Probe
  BY DEF Inv, GoodRest, Probe
<1>2. probes' \subseteq Probe
  BY <1>1 DEF Inv, GoodRest, Finish, MoveTo
<1> QED
  BY <1>2 DEF Inv, GoodRest

\* A write of a new status or of a transaction id to the target is good.
LEMMA TargetGood ==
    ASSUME Inv, NEW p \in probes, HasTarget(p)
    PROVE  /\ \A status \in Statuses \ {Sent} :
                 GoodLists(WriteAt(accountsOps, p, UpdateOpStatus(Target(p), status)))
           /\ GoodLists(WriteAt(accountsOps, p, [Target(p) EXCEPT !.txn = p.id]))
<1>1. p \in Probe /\ p.acct \in Accounts /\ p.chain \in Chains /\ p.id \in Nat
  BY DEF Inv, GoodRest, Probe
<1>2. GoodOp(Target(p))
  BY <1>1, GoodListsTyped DEF Inv, HasTarget, Target
<1>3. GoodOp([Target(p) EXCEPT !.txn = p.id])
  <2> DEFINE op == Target(p)
             new == [op EXCEPT !.txn = p.id]
  <2> HIDE DEF op
  <2>1. GoodOp(op)
    BY <1>2 DEF op
  <2>2. new \in Op /\ new.kind = op.kind /\ new.calls = op.calls /\ new.status = op.status
    BY <1>1, <2>1 DEF GoodOp, Op
  <2>3. GoodOp(new)
    BY <2>1, <2>2 DEF GoodOp, SettlesInOrder
  <2> QED
    BY <2>3 DEF op
<1>4. \A status \in Statuses \ {Sent} : GoodOp(UpdateOpStatus(Target(p), status))
  BY <1>2, UpdateKeepsGood
<1> QED
  BY <1>1, <1>3, <1>4, WriteAtKeepsGood DEF Inv, HasTarget

\* An answer that settles a call or an operation keeps the invariant.
LEMMA SettleGood ==
    ASSUME Inv, NEW p \in probes, NEW status \in {"success", "failure"}, Settle(p, status)
    PROVE  Inv'
<1> DEFINE kept == HideConfirmed(accountsOps)
           op == UpdateOpStatus(kept[p.acct][p.chain][p.idx], status)
<1>1. p \in Probe /\ p.acct \in Accounts /\ p.chain \in Chains
  BY DEF Inv, GoodRest, Probe
<1>2. GoodLists(kept) /\ (HasTarget(p) => p.idx \in DOMAIN kept[p.acct][p.chain])
  BY <1>1, HideConfirmedKeepsGood DEF Inv, HasTarget
<1>3. /\ accountsOps' = IF HasTarget(p) THEN WriteAt(kept, p, op) ELSE kept
      /\ Finish(p)
      /\ UNCHANGED <<stored, unsaved, selected, view, runs, polled, receipts,
                     nextId, raced, rejected>>
  BY DEF Settle, Write
<1> HIDE DEF kept
<1>4. ASSUME HasTarget(p) PROVE GoodLists(WriteAt(kept, p, op))
  <2>1. GoodOp(kept[p.acct][p.chain][p.idx])
    BY <1>1, <1>2, <1>4, GoodListsTyped
  <2>2. GoodOp(op)
    BY <2>1, UpdateKeepsGood DEF Statuses, Sent
  <2> HIDE DEF op
  <2> QED
    BY <1>1, <1>2, <1>4, <2>2, WriteAtKeepsGood
<1>5. GoodLists(accountsOps')
  BY <1>2, <1>3, <1>4
<1> QED
  BY <1>3, <1>5, ProbeStepGood

\* A refresh that goes on or ends keeps the invariant.
LEMMA AdvanceGood ==
    ASSUME Inv, NEW p \in probes, Advance(p)
    PROVE  Inv'
<1>1. GoodLists(accountsOps) /\ receipts \subseteq Receipt
  BY DEF Inv, GoodRest
<1>2. ASSUME NEW status \in {"rejected", "broadcast-but-stuck"}, DeclareUnsent(p, status)
      PROVE  Inv'
  <2>1. CASE HasTarget(p)
    BY <1>2, <2>1, TargetGood, ProbeStepGood DEF DeclareUnsent, Write, Statuses, Sent
  <2>2. CASE ~HasTarget(p)
    BY <1>1, <1>2, <2>2, ProbeStepGood DEF DeclareUnsent, Abort, memory
  <2> QED
    BY <2>1, <2>2
<1>3. CASE TxnIdNotFound(p) \/ TxnIdFails(p)
  BY <1>1, <1>3, ProbeStepGood DEF TxnIdNotFound, TxnIdFails, Abort, OnlyProbes, memory
<1>4. CASE TxnIdFound(p)
  <2>1. CASE HasTarget(p)
    BY <1>4, <2>1, TargetGood, ProbeStepGood DEF TxnIdFound, Write, Stages
  <2>2. CASE ~HasTarget(p)
    BY <1>1, <1>4, <2>2, ProbeStepGood DEF TxnIdFound, Abort, memory
  <2> QED
    BY <2>1, <2>2
<1>5. CASE GotReceipt(p)
  <2>1. PICK t \in ReceiptsFor(p) : Settle(p, t.status)
    BY <1>5 DEF GotReceipt
  <2>2. t.status \in {"success", "failure"}
    BY <1>1 DEF ReceiptsFor, Receipt
  <2> QED
    BY <2>1, <2>2, SettleGood
<1>6. CASE NoReceipt(p)
  BY <1>1, <1>6, ProbeStepGood DEF NoReceipt, OnlyProbes, memory, Stages
<1>7. CASE DeclareStuck(p)
  <2>1. CASE HasTarget(p)
    BY <1>7, <2>1, TargetGood, ProbeStepGood DEF DeclareStuck, Write, Statuses, Sent
  <2>2. CASE ~HasTarget(p)
    BY <1>1, <1>7, <2>2, ProbeStepGood DEF DeclareStuck, OnlyProbes, memory
  <2> QED
    BY <2>1, <2>2
<1>8. CASE GiveUp(p)
  BY <1>1, <1>8, ProbeStepGood DEF GiveUp, OnlyProbes, memory
<1>9. CASE GotFrontRunReceipt(p)
  BY <1>1, <1>9, ProbeStepGood DEF GotFrontRunReceipt, OnlyProbes, memory, Stages
<1>10. CASE GotFrontRanTxnId(p)
  <2>1. CASE HasTarget(p)
    BY <1>10, <2>1, TargetGood, ProbeStepGood DEF GotFrontRanTxnId, Write, Stages
  <2>2. CASE ~HasTarget(p)
    BY <1>1, <1>10, <2>2, ProbeStepGood DEF GotFrontRanTxnId, OnlyProbes, memory
  <2> QED
    BY <2>1, <2>2
<1>11. CASE GotSecondReceipt(p)
  BY <1>11, SettleGood DEF GotSecondReceipt
<1> QED
  BY <1>2, <1>3, <1>4, <1>5, <1>6, <1>7, <1>8, <1>9, <1>10, <1>11 DEF Advance

\* The other steps copy a good history from storage to memory or back, or leave
\* both alone.
LEMMA OtherStepsGood ==
    ASSUME Inv,
           \/ \E r \in Refreshes : EndRefresh(r)
           \/ \E a \in Accounts \cup {NoAccount} : FilterAccountsOps(a)
           \/ \E a \in Accounts : SelectAccount(a)
           \/ \E a \in Accounts, c \in Chains, i \in Nat, call \in Nat,
                 status \in {"success", "failure"} : Mine(a, c, i, call, status)
           \/ PollEnds
           \/ SaveAccountsOps
           \/ Restart
           \/ UNCHANGED vars
    PROVE  Inv'
<1> USE DEF memory, refresh
<1>1. ASSUME NEW r \in Refreshes, EndRefresh(r) PROVE Inv'
  <2>1. view' = Synced(accountsOps) /\ runs' = runs \ {r} /\ stored' = accountsOps
    BY <1>1 DEF EndRefresh
  <2>2. view' \in [account: Accounts \cup {NoAccount}, items: SUBSET Nat]
    BY <2>1, SyncedTyped DEF Inv
  <2> QED
    BY <1>1, <2>1, <2>2 DEF EndRefresh, Inv, GoodRest
<1>2. ASSUME NEW a \in Accounts \cup {NoAccount}, FilterAccountsOps(a) PROVE Inv'
  BY <1>2, FilteredTyped DEF FilterAccountsOps, Inv, GoodRest
<1>3. ASSUME NEW a \in Accounts, SelectAccount(a) PROVE Inv'
  BY <1>3 DEF SelectAccount, Inv, GoodRest
<1>4. ASSUME NEW a \in Accounts, NEW c \in Chains, NEW i \in Nat, NEW call \in Nat,
             NEW status \in {"success", "failure"}, Mine(a, c, i, call, status)
      PROVE  Inv'
  <2>1. accountsOps[a][c][i].id \in Nat
    BY <1>4, GoodListsTyped DEF Mine, Inv, GoodOp, Op
  <2>2. receipts' \subseteq Receipt
    <3>1. [id |-> accountsOps[a][c][i].id, call |-> call, status |-> status] \in Receipt
      BY <2>1 DEF Receipt
    <3> QED
      BY <1>4, <3>1 DEF Mine, Inv, GoodRest
  <2> QED
    BY <1>4, <2>2 DEF Mine, Inv, GoodRest
<1>5. CASE SaveAccountsOps
  BY <1>5 DEF SaveAccountsOps, Inv, GoodRest
<1>6. CASE Restart
  <2>1. view' \in [account: Accounts \cup {NoAccount}, items: SUBSET Nat]
    BY <1>6 DEF Restart
  <2> QED
    BY <1>6, <2>1 DEF Restart, Inv, GoodRest
<1>7. CASE PollEnds
  BY <1>7 DEF PollEnds, Inv, GoodRest
<1>8. CASE UNCHANGED vars
  BY <1>8 DEF vars, Inv, GoodRest
<1> QED
  BY <1>1, <1>2, <1>3, <1>4, <1>5, <1>6, <1>7, <1>8

\* The invariant is inductive.
LEMMA NextGood == Inv /\ [Next]_vars => Inv'
<1> SUFFICES ASSUME Inv, [Next]_vars PROVE Inv'
  OBVIOUS
<1>1. 1..MaxItems \subseteq Nat /\ 1..MaxCalls \subseteq Nat
  BY ActivityAssumption
<1>2. ASSUME NEW a \in Accounts, UserStep(a) PROVE Inv'
  BY <1>1, <1>2, AddAccountOpGood, RemoveAccountDataGood, HideBannerGood, OtherStepsGood
     DEF UserStep
<1>3. ASSUME NEW a \in Accounts, NetworkStep(a) PROVE Inv'
  BY <1>1, <1>3, UpdateAccountOpStatusGood, OtherStepsGood DEF NetworkStep
<1>4. ASSUME NEW p \in probes, Advance(p) PROVE Inv'
  BY <1>4, AdvanceGood
<1>5. ASSUME NEW r \in Refreshes, StartRefresh(r) PROVE Inv'
  BY <1>5, StartRefreshGood
<1>6. ASSUME NEW r \in Refreshes, EndRefresh(r) PROVE Inv'
  BY <1>6, OtherStepsGood
<1>7. ASSUME \/ FilterAccountsOps(NoAccount) \/ PollEnds \/ SaveAccountsOps
             \/ Restart \/ UNCHANGED vars
      PROVE  Inv'
  BY <1>7, OtherStepsGood
<1> QED
  BY <1>2, <1>3, <1>4, <1>5, <1>6, <1>7 DEF Next

\* The invariant holds in every reachable state.
LEMMA GoodInvariant == Spec => []Inv
  BY InitGood, NextGood, PTL DEF Spec

-----------------------------------------------------------------------------
(* The theorems *)

\* Every variable of the history, of the refreshes and of the sessions keeps
\* its type, in every interleaving of ActivityController's operations.
THEOREM TypeCorrect == Spec => []TypeOK
<1>1. Inv => TypeOK
  BY DEF Inv, GoodLists, GoodRest, TypeOK
<1> QED
  BY <1>1, GoodInvariant, PTL

\* The history of an account on a chain never outgrows the trim limit, in
\* memory or in storage, for every limit (1000 in activity.ts).
THEOREM HistoryIsBounded == Spec => []HistoryBounded
<1>1. Inv => HistoryBounded
  BY DEF Inv, GoodLists, GoodList, HistoryBounded
<1> QED
  BY <1>1, GoodInvariant, PTL

\* A MultipleTxns operation of any size settles call by call and takes a final
\* status only with its last call, even when refreshes race.
THEOREM BatchesSettleInOrder == Spec => []BatchSettlesInOrder
<1>1. Inv => BatchSettlesInOrder
  BY DEF Inv, GoodLists, GoodList, BatchSettlesInOrder
<1> QED
  BY <1>1, GoodInvariant, PTL

-----------------------------------------------------------------------------
(* Histories that hold the same operations *)

SameOp(op, new) == new.id = op.id /\ new.kind = op.kind
AlikeOp(op, new) ==
    SameOp(op, new) /\ new.calls = op.calls /\ new.status = op.status /\ new.txn = op.txn

Same(lists, new) == \A a \in Accounts, c \in Chains :
    /\ DOMAIN new[a][c] = DOMAIN lists[a][c]
    /\ \A i \in DOMAIN lists[a][c] : SameOp(lists[a][c][i], new[a][c][i])

\* Only the operation at one place has another status, other calls, another
\* transaction; elsewhere at most a banner is hidden.
AlikeBut(lists, new, b, d, j) == \A a \in Accounts, c \in Chains :
    \A i \in DOMAIN lists[a][c] :
        ~(a = b /\ c = d /\ i = j) => AlikeOp(lists[a][c][i], new[a][c][i])

\* Only banners of confirmed operations are hidden.
Hides(lists, new) == \A a \in Accounts, c \in Chains :
    \A i \in DOMAIN lists[a][c] :
        new[a][c][i].hidden /\ ~lists[a][c][i].hidden => lists[a][c][i].status \in Confirmed

\* hideBannersOfConfirmedAccountOps changes nothing but flags.
LEMMA HideAlike ==
    ASSUME NEW lists, GoodLists(lists)
    PROVE  /\ Same(lists, HideConfirmed(lists))
           /\ \A a \in Accounts, c \in Chains : \A i \in DOMAIN lists[a][c] :
                  AlikeOp(lists[a][c][i], HideConfirmed(lists)[a][c][i])
           /\ Hides(lists, HideConfirmed(lists))
<1> DEFINE new == HideConfirmed(lists)
<1> SUFFICES ASSUME NEW a \in Accounts, NEW c \in Chains
             PROVE  /\ DOMAIN new[a][c] = DOMAIN lists[a][c]
                    /\ \A i \in DOMAIN lists[a][c] :
                           /\ AlikeOp(lists[a][c][i], new[a][c][i])
                           /\ new[a][c][i].hidden /\ ~lists[a][c][i].hidden
                                  => lists[a][c][i].status \in Confirmed
  BY DEF Same, Hides, AlikeOp
<1>1. DOMAIN new[a][c] = DOMAIN lists[a][c]
  BY HideConfirmedKeepsGood
<1>2. ASSUME NEW i \in DOMAIN lists[a][c]
      PROVE  /\ AlikeOp(lists[a][c][i], new[a][c][i])
             /\ new[a][c][i].hidden /\ ~lists[a][c][i].hidden
                    => lists[a][c][i].status \in Confirmed
  <2> DEFINE op == lists[a][c][i]
  <2>1. op \in Op
    BY GoodListsTyped DEF GoodOp
  <2>2. new[a][c][i] = IF HidesBanner(lists, a, op) THEN [op EXCEPT !.hidden = TRUE] ELSE op
    BY DEF HideConfirmed
  <2>3. HidesBanner(lists, a, op) => op.status \in Confirmed
    BY DEF HidesBanner
  <2> HIDE DEF op, new
  <2> QED
    BY <2>1, <2>2, <2>3 DEF Op, AlikeOp, SameOp, op
<1> QED
  BY <1>1, <1>2

\* A status leaves the name, the transaction and the flag of an operation alone.
LEMMA UpdateKeepsName ==
    ASSUME NEW op \in Op, NEW status
    PROVE  LET new == UpdateOpStatus(op, status) IN
           /\ SameOp(op, new) /\ new.txn = op.txn /\ new.hidden = op.hidden
           /\ op.kind # "MultipleTxns" => new.calls = op.calls /\ new.status = status
           /\ op.kind = "MultipleTxns" =>
                  new.calls = [op.calls EXCEPT ![CallToUpdate(op)] = status]
BY DEF Op, UpdateOpStatus, SameOp

\* Writing an operation back at its place changes no other.
Puts(lists, new, a, c, i, op) ==
    new = [lists EXCEPT ![a] = [lists[a] EXCEPT ![c] = [lists[a][c] EXCEPT ![i] = op]]]
PutEffect(lists, new, a, c, i, op) ==
    /\ Same(lists, new)
    /\ AlikeBut(lists, new, a, c, i)
    /\ new[a][c][i] = op
    /\ \A b \in Accounts, d \in Chains : \A j \in DOMAIN lists[b][d] :
           ~(b = a /\ d = c /\ j = i) => new[b][d][j] = lists[b][d][j]

\* The effect of a write that keeps the name of the operation.
LEMMA WriteBack ==
    ASSUME NEW lists, GoodLists(lists), NEW a \in Accounts, NEW c \in Chains,
           NEW i \in DOMAIN lists[a][c], NEW op, SameOp(lists[a][c][i], op),
           NEW new, Puts(lists, new, a, c, i, op)
    PROVE  PutEffect(lists, new, a, c, i, op)
<1>1. lists \in [Accounts -> [Chains -> Seq(Op)]]
  BY DEF GoodLists, Lists
<1>2. \A b \in Accounts, d \in Chains :
          new[b][d] = IF b = a /\ d = c THEN [lists[a][c] EXCEPT ![i] = op] ELSE lists[b][d]
  BY <1>1 DEF Puts
<1>3. \A b \in Accounts, d \in Chains : lists[b][d] \in Seq(Op)
  BY <1>1
<1>4. \A b \in Accounts, d \in Chains : DOMAIN new[b][d] = DOMAIN lists[b][d]
  BY <1>2
<1>5. \A b \in Accounts, d \in Chains : \A j \in DOMAIN lists[b][d] :
          new[b][d][j] = IF b = a /\ d = c /\ j = i THEN op ELSE lists[b][d][j]
  BY <1>2
<1> QED
  BY <1>4, <1>5 DEF PutEffect, Same, AlikeBut, AlikeOp, SameOp

\* What a history lists for an account, place by place.
LEMMA OpsOfPlaces ==
    ASSUME NEW lists, NEW a, NEW o
    PROVE  o \in OpsOf(lists, a) <=>
               \E c \in Chains : \E i \in DOMAIN lists[a][c] : o = lists[a][c][i]
BY DEF OpsOf, Entries

\* A session lists the same for two histories of the same operations.
LEMMA SameFiltered ==
    ASSUME NEW lists, NEW new, Same(lists, new), NEW a \in Accounts \cup {NoAccount}
    PROVE  Filtered(new, a) = Filtered(lists, a)
<1>1. ASSUME NEW b \in Accounts, NEW x
      PROVE  (\E o \in OpsOf(new, b) : x = o.id) <=> (\E o \in OpsOf(lists, b) : x = o.id)
  <2>1. ASSUME NEW l PROVE (\E o \in OpsOf(l, b) : x = o.id) <=>
            \E c \in Chains : \E i \in DOMAIN l[b][c] : x = l[b][c][i].id
    BY OpsOfPlaces
  <2> QED
    BY <2>1 DEF Same, SameOp
<1>2. \A l : \A x : x \in Filtered(l, a) <=>
          /\ a # NoAccount
          /\ (\E o \in OpsOf(l, a) : x = o.id) \/ (\E o \in OpsOf(l, PrivateAccount) : x = o.id)
  BY DEF Filtered
<1>3. \A x : x \in Filtered(new, a) <=> x \in Filtered(lists, a)
  BY <1>1, <1>2, ActivityAssumption
<1> QED
  BY <1>3

-----------------------------------------------------------------------------
(* The order of a history *)

\* The ids of a history are older than n, differ from list to list, and fall
\* within a list.
Ordered(lists, n) ==
    /\ \A a \in Accounts, c \in Chains : \A i \in DOMAIN lists[a][c] :
           lists[a][c][i].id < n
    /\ \A a \in Accounts, c \in Chains : \A i, j \in DOMAIN lists[a][c] :
           i < j => lists[a][c][i].id > lists[a][c][j].id
    /\ \A a, b \in Accounts, c, d \in Chains :
           \A i \in DOMAIN lists[a][c], j \in DOMAIN lists[b][d] :
               lists[a][c][i].id = lists[b][d][j].id => a = b /\ c = d

HistoryInv ==
    /\ Inv
    /\ Ordered(accountsOps, nextId)
    /\ Ordered(stored, nextId)
    /\ ViewIsCurrent

\* Histories of the same operations are ordered alike.
LEMMA SameOrdered ==
    ASSUME NEW lists, NEW new, NEW n, Same(lists, new), Ordered(lists, n)
    PROVE  Ordered(new, n)
BY DEF Same, SameOp, Ordered

\* In an ordered history an id names one place.
LEMMA OrderedNames ==
    ASSUME NEW lists, GoodLists(lists), NEW n, Ordered(lists, n),
           NEW a \in Accounts, NEW c \in Chains, NEW d \in Chains,
           NEW i \in DOMAIN lists[a][c], NEW j \in DOMAIN lists[a][d],
           lists[a][c][i].id = lists[a][d][j].id
    PROVE  c = d /\ i = j
<1>1. c = d
  BY DEF Ordered
<1>2. i \in Nat /\ j \in Nat /\ lists[a][c][i].id \in Nat
  BY <1>1, GoodListsTyped DEF GoodOp, Op
<1>3. ~(i < j) /\ ~(j < i)
  BY <1>1, <1>2 DEF Ordered
<1> QED
  BY <1>1, <1>2, <1>3

\* What a trimmed list holds: the new operation, and the others one place
\* further on, except perhaps the last.
LEMMA TrimmedEntries ==
    ASSUME NEW list, GoodList(list), NEW op \in Op
    PROVE  LET t == Trim(<<op>> \o list) IN
           /\ 1 \in DOMAIN t /\ t[1] = op
           /\ \A j \in DOMAIN t \ {1} : j - 1 \in DOMAIN list /\ t[j] = list[j - 1]
           /\ \A i \in DOMAIN list :
                  i + 1 \in DOMAIN t \/ \A j \in DOMAIN t \ {1} : j - 1 < i
<1> DEFINE longer == <<op>> \o list
           t == Trim(longer)
           goal == /\ 1 \in DOMAIN t /\ t[1] = op
                   /\ \A j \in DOMAIN t \ {1} : j - 1 \in DOMAIN list /\ t[j] = list[j - 1]
                   /\ \A i \in DOMAIN list :
                          i + 1 \in DOMAIN t \/ \A j \in DOMAIN t \ {1} : j - 1 < i
<1>1. list \in Seq(Op) /\ Len(list) \in Nat /\ Len(list) <= MaxItems /\ DOMAIN list = 1..Len(list)
  BY DEF GoodList
<1>2. /\ longer \in Seq(Op) /\ Len(longer) = Len(list) + 1
      /\ DOMAIN longer = 1..(Len(list) + 1)
      /\ longer[1] = op
      /\ \A j \in 2..(Len(list) + 1) : longer[j] = list[j - 1]
  BY <1>1
<1> HIDE DEF longer
<1>3. ASSUME Len(longer) > MaxItems PROVE goal
  <2>1. t = SubSeq(longer, 1, Len(list))
    BY <1>1, <1>2, <1>3 DEF Trim
  <2>2. Len(list) >= 1
    BY <1>1, <1>2, <1>3, ActivityAssumption
  <2>3. DOMAIN t = 1..Len(list) /\ \A j \in 1..Len(list) : t[j] = longer[j]
    BY <1>1, <1>2, <2>1, <2>2
  <2> HIDE DEF t
  <2> QED
    BY <1>1, <1>2, <2>2, <2>3
<1>4. ASSUME ~(Len(longer) > MaxItems) PROVE goal
  <2>1. t = longer
    BY <1>4 DEF Trim
  <2> HIDE DEF t
  <2> QED
    BY <1>1, <1>2, <2>1
<1>5. goal
  BY <1>3, <1>4
<1> QED
  BY <1>5 DEF longer

-----------------------------------------------------------------------------
(* What is an operation's own *)

\* StatusIsOwn for the receipts that were seen, and the transaction id.
OwnOp(op, seen) ==
    LET has(call, status) == [id |-> op.id, call |-> call, status |-> status] \in seen IN
    /\ \A i \in DOMAIN op.calls :
           op.calls[i] \in {"success", "failure"} => has(i, op.calls[i])
    /\ op.kind \in {"Transaction", "UserOperation", "Relayer", "PrivacyPoolsRelayer"} =>
           /\ op.status = "success" => has(1, "success")
           /\ op.status = "failure" /\ op.kind # "UserOperation" => has(1, "failure")
    /\ op.txn \in {0, op.id}

OwnLists(lists, seen) ==
    \A a \in Accounts, c \in Chains : \A i \in DOMAIN lists[a][c] : OwnOp(lists[a][c][i], seen)

\* What an operation owns it keeps when more receipts are seen.
LEMMA OwnAlike ==
    ASSUME NEW op, NEW new, AlikeOp(op, new), NEW seen, NEW later, seen \subseteq later,
           OwnOp(op, seen)
    PROVE  OwnOp(new, later)
BY DEF AlikeOp, SameOp, OwnOp

\* A status that comes from the receipt of the call to update is its own.
LEMMA OwnUpdate ==
    ASSUME NEW op \in Op, NEW seen, OwnOp(op, seen), NEW status,
           status \in {"success", "failure"} =>
               \/ [id |-> op.id, call |-> ProbedCall(op), status |-> status] \in seen
               \/ op.kind = "UserOperation" /\ status = "failure"
    PROVE  OwnOp(UpdateOpStatus(op, status), seen)
<1> DEFINE new == UpdateOpStatus(op, status)
<1>1. CASE op.kind # "MultipleTxns"
  <2>1. /\ new.id = op.id /\ new.kind = op.kind /\ new.txn = op.txn
        /\ new.calls = op.calls /\ new.status = status
        /\ ProbedCall(op) = 1
    BY <1>1, UpdateKeepsName DEF SameOp, ProbedCall
  <2> HIDE DEF new
  <2>2. OwnOp(new, seen)
    BY <2>1 DEF OwnOp
  <2> QED
    BY <2>2 DEF new
<1>2. CASE op.kind = "MultipleTxns"
  <2> DEFINE k == CallToUpdate(op)
  <2>1. /\ new.id = op.id /\ new.kind = op.kind /\ new.txn = op.txn
        /\ new.calls = [op.calls EXCEPT ![k] = status]
        /\ ProbedCall(op) = k
    BY <1>2, UpdateKeepsName DEF SameOp, ProbedCall
  <2> HIDE DEF new, k
  <2>2. ASSUME NEW i \in DOMAIN new.calls, new.calls[i] \in {"success", "failure"}
        PROVE  [id |-> new.id, call |-> i, status |-> new.calls[i]] \in seen
    <3>1. i \in DOMAIN op.calls /\ new.calls[i] = IF i = k THEN status ELSE op.calls[i]
      BY <2>1, <2>2 DEF Op
    <3> QED
      BY <1>2, <2>1, <2>2, <3>1 DEF OwnOp
  <2>3. OwnOp(new, seen)
    BY <1>2, <2>1, <2>2 DEF OwnOp
  <2> QED
    BY <2>3 DEF new
<1> QED
  BY <1>1, <1>2

-----------------------------------------------------------------------------
(* What the step of a probe does *)

\* A probe is aimed at the operation it was started for, which is unconfirmed, and
\* asks about the call that is still the next one to settle.
AimedAt(p, lists) ==
    /\ p.idx \in DOMAIN lists[p.acct][p.chain]
    /\ SameOp(p, lists[p.acct][p.chain][p.idx])
    /\ lists[p.acct][p.chain][p.idx].status = Sent
    /\ p.kind # "PrivacyPoolsRelayer"
    /\ p.call = ProbedCall(lists[p.acct][p.chain][p.idx])
    /\ p.stage \in {"frontRan", "secondReceipt"} => p.kind = "UserOperation"

ProbeEffect(p) ==
    /\ Same(accountsOps, accountsOps')
    /\ AlikeBut(accountsOps, accountsOps', p.acct, p.chain, p.idx)
    /\ Hides(accountsOps, accountsOps')
    /\ UNCHANGED <<stored, unsaved, selected, view, polled, receipts, nextId, raced>>
    /\ \/ Finish(p)
       \/ \E s \in Stages :
              /\ MoveTo(p, s)
              /\ AimedAt(p, accountsOps) =>
                     /\ s \in {"frontRan", "secondReceipt"} => p.kind = "UserOperation"
                     /\ accountsOps'[p.acct][p.chain][p.idx].calls = Target(p).calls
                     /\ accountsOps'[p.acct][p.chain][p.idx].status = Target(p).status
    /\ UNCHANGED <<runs, rejected>> \/ rejected' = TRUE
    /\ AimedAt(p, accountsOps) =>
           (OwnOp(Target(p), receipts) =>
                  OwnOp(accountsOps'[p.acct][p.chain][p.idx], receipts))

\* A probe that writes nothing.
LEMMA QuietProbe ==
    ASSUME Inv, NEW p \in probes, UNCHANGED accountsOps,
           UNCHANGED <<stored, unsaved, selected, view, polled, receipts, nextId, raced>>,
           \/ Finish(p)
           \/ \E s \in Stages : MoveTo(p, s) /\
                  (AimedAt(p, accountsOps) /\ s \in {"frontRan", "secondReceipt"}
                       => p.kind = "UserOperation"),
           UNCHANGED <<runs, rejected>> \/ rejected' = TRUE
    PROVE  ProbeEffect(p)
<1>1. /\ Same(accountsOps, accountsOps')
      /\ AlikeBut(accountsOps, accountsOps', p.acct, p.chain, p.idx)
      /\ Hides(accountsOps, accountsOps')
  BY DEF Same, AlikeBut, SameOp, AlikeOp, Hides
<1> QED
  BY <1>1 DEF ProbeEffect, Target

\* A probe that writes an operation back to its place.
LEMMA WritingProbe ==
    ASSUME Inv, NEW p \in probes, HasTarget(p),
           NEW op, SameOp(Target(p), op), op.hidden = Target(p).hidden,
           Write(p, WriteAt(accountsOps, p, op)),
           \/ Finish(p)
           \/ \E s \in Stages : MoveTo(p, s) /\ op.calls = Target(p).calls /\
                  op.status = Target(p).status /\
                  (AimedAt(p, accountsOps) /\ s \in {"frontRan", "secondReceipt"}
                       => p.kind = "UserOperation"),
           AimedAt(p, accountsOps) /\ OwnOp(Target(p), receipts) => OwnOp(op, receipts)
    PROVE  ProbeEffect(p)
<1>1. p.acct \in Accounts /\ p.chain \in Chains /\ GoodLists(accountsOps)
  BY DEF Inv, GoodRest, Probe
<1>2. /\ Same(accountsOps, accountsOps')
      /\ AlikeBut(accountsOps, accountsOps', p.acct, p.chain, p.idx)
      /\ accountsOps'[p.acct][p.chain][p.idx] = op
      /\ \A b \in Accounts, d \in Chains : \A j \in DOMAIN accountsOps[b][d] :
             ~(b = p.acct /\ d = p.chain /\ j = p.idx) =>
                 accountsOps'[b][d][j] = accountsOps[b][d][j]
  <2>1. Puts(accountsOps, accountsOps', p.acct, p.chain, p.idx, op)
    BY DEF Write, WriteAt, Puts
  <2>2. /\ p.idx \in DOMAIN accountsOps[p.acct][p.chain]
        /\ SameOp(accountsOps[p.acct][p.chain][p.idx], op)
    BY DEF HasTarget, Target
  <2> QED
    BY <1>1, <2>1, <2>2, WriteBack DEF PutEffect
<1>3. Hides(accountsOps, accountsOps')
  BY <1>2 DEF Hides, Target
<1> QED
  BY <1>2, <1>3 DEF ProbeEffect, Write

\* A probe that settles its operation hides the banners of the confirmed ones first.
LEMMA SettlingProbe ==
    ASSUME Inv, NEW p \in probes, NEW status, Settle(p, status),
           AimedAt(p, accountsOps) =>
               \/ [id |-> p.id, call |-> p.call, status |-> status] \in receipts
               \/ p.kind = "UserOperation" /\ status = "failure"
    PROVE  ProbeEffect(p)
<1> DEFINE kept == HideConfirmed(accountsOps)
           old == kept[p.acct][p.chain][p.idx]
           op == UpdateOpStatus(old, status)
<1>1. p.acct \in Accounts /\ p.chain \in Chains /\ GoodLists(accountsOps) /\ GoodLists(kept)
  BY HideConfirmedKeepsGood DEF Inv, GoodRest, Probe
<1>2. /\ Same(accountsOps, kept) /\ Hides(accountsOps, kept)
      /\ \A a \in Accounts, c \in Chains : \A i \in DOMAIN accountsOps[a][c] :
             AlikeOp(accountsOps[a][c][i], kept[a][c][i])
  BY <1>1, HideAlike
<1>3. /\ Finish(p)
      /\ accountsOps' = IF HasTarget(p) THEN WriteAt(kept, p, op) ELSE kept
      /\ UNCHANGED <<stored, unsaved, selected, view, runs, polled, receipts, nextId, raced,
                     rejected>>
  BY DEF Settle, Write
<1> HIDE DEF kept
<1>4. CASE ~HasTarget(p)
  <2>1. /\ AlikeBut(accountsOps, kept, p.acct, p.chain, p.idx)
        /\ ~AimedAt(p, accountsOps)
    BY <1>2, <1>4 DEF AlikeBut, AimedAt, HasTarget
  <2> QED
    BY <1>2, <1>3, <1>4, <2>1 DEF ProbeEffect
<1>5. CASE HasTarget(p)
  <2>1. p.idx \in DOMAIN kept[p.acct][p.chain] /\ AlikeOp(Target(p), old)
    BY <1>1, <1>2, <1>5 DEF HasTarget, Target, Same
  <2>2. old \in Op
    BY <1>1, <2>1, GoodListsTyped DEF GoodOp
  <2>3. SameOp(old, op) /\ op.hidden = old.hidden
    BY <2>2, UpdateKeepsName
  <2>4. accountsOps' = WriteAt(kept, p, op)
    BY <1>3, <1>5
  <2> HIDE DEF op
  <2>5. /\ Same(kept, accountsOps')
        /\ accountsOps'[p.acct][p.chain][p.idx] = op
        /\ \A b \in Accounts, d \in Chains : \A j \in DOMAIN kept[b][d] :
               ~(b = p.acct /\ d = p.chain /\ j = p.idx) =>
                   accountsOps'[b][d][j] = kept[b][d][j]
    <3>1. Puts(kept, accountsOps', p.acct, p.chain, p.idx, op)
      BY <2>4 DEF WriteAt, Puts
    <3> QED
      BY <1>1, <2>1, <2>3, <3>1, WriteBack DEF PutEffect
  <2>6. Same(accountsOps, accountsOps')
    BY <1>2, <2>5 DEF Same, SameOp
  <2>7. AlikeBut(accountsOps, accountsOps', p.acct, p.chain, p.idx)
    BY <1>2, <2>5 DEF AlikeBut, Same
  <2>8. Hides(accountsOps, accountsOps')
    BY <1>2, <2>3, <2>5 DEF Hides, Same
  <2>9. ASSUME AimedAt(p, accountsOps), OwnOp(Target(p), receipts)
        PROVE  OwnOp(op, receipts)
    <3>1. OwnOp(old, receipts)
      BY <2>1, <2>9, OwnAlike
    <3>2. ProbedCall(old) = ProbedCall(Target(p))
      BY <2>1 DEF AlikeOp, SameOp, ProbedCall, CallToUpdate, Unconfirmed
    <3>3. old.id = p.id /\ old.kind = p.kind /\ ProbedCall(old) = p.call
      BY <2>1, <2>9, <3>2 DEF AimedAt, AlikeOp, SameOp, Target
    <3> HIDE DEF old
    <3> QED
      BY <2>2, <2>9, <3>1, <3>3, OwnUpdate DEF op
  <2> QED
    BY <1>3, <2>5, <2>6, <2>7, <2>8, <2>9 DEF ProbeEffect
<1> QED
  BY <1>4, <1>5

\* A status that no receipt brings is not one that needs a receipt.
LEMMA DeclaringProbe ==
    ASSUME Inv, NEW p \in probes, HasTarget(p), Finish(p),
           NEW status \in {"rejected", "broadcast-but-stuck"},
           Write(p, WriteAt(accountsOps, p, UpdateOpStatus(Target(p), status)))
    PROVE  ProbeEffect(p)
<1> DEFINE op == UpdateOpStatus(Target(p), status)
<1>1. Target(p) \in Op
  <2>1. p.acct \in Accounts /\ p.chain \in Chains /\ GoodLists(accountsOps)
    BY DEF Inv, GoodRest, Probe
  <2> QED
    BY <2>1, GoodListsTyped DEF HasTarget, Target, GoodOp
<1>2. SameOp(Target(p), op) /\ op.hidden = Target(p).hidden
  BY <1>1, UpdateKeepsName
<1>3. OwnOp(Target(p), receipts) => OwnOp(op, receipts)
  BY <1>1, OwnUpdate
<1> HIDE DEF op
<1>4. Write(p, WriteAt(accountsOps, p, op))
  BY DEF op
<1> QED
  BY <1>2, <1>3, <1>4, WritingProbe

\* The transaction id that a probe writes is the one of its own operation.
LEMMA NamingProbe ==
    ASSUME Inv, NEW p \in probes, HasTarget(p), NEW s \in Stages, MoveTo(p, s),
           AimedAt(p, accountsOps) /\ s \in {"frontRan", "secondReceipt"}
               => p.kind = "UserOperation",
           Write(p, WriteAt(accountsOps, p, [Target(p) EXCEPT !.txn = p.id]))
    PROVE  ProbeEffect(p)
<1> DEFINE op == [Target(p) EXCEPT !.txn = p.id]
<1>1. Target(p) \in Op
  <2>1. p.acct \in Accounts /\ p.chain \in Chains /\ GoodLists(accountsOps)
    BY DEF Inv, GoodRest, Probe
  <2> QED
    BY <2>1, GoodListsTyped DEF HasTarget, Target, GoodOp
<1>2. /\ SameOp(Target(p), op) /\ op.hidden = Target(p).hidden
      /\ op.calls = Target(p).calls /\ op.status = Target(p).status /\ op.txn = p.id
  BY <1>1 DEF Op, SameOp
<1> HIDE DEF op
<1>3. AimedAt(p, accountsOps) /\ OwnOp(Target(p), receipts) => OwnOp(op, receipts)
  BY <1>2 DEF AimedAt, SameOp, OwnOp, Target
<1>4. Write(p, WriteAt(accountsOps, p, op))
  BY DEF op
<1> QED
  BY <1>2, <1>3, <1>4, WritingProbe

\* Every step of a probe has these effects and no others.
LEMMA AdvanceHasEffect ==
    ASSUME Inv, NEW p \in probes, Advance(p)
    PROVE  ProbeEffect(p)
<1> USE DEF memory, OnlyProbes, Abort
<1>1. ASSUME NEW status \in {"rejected", "broadcast-but-stuck"}, DeclareUnsent(p, status)
      PROVE  ProbeEffect(p)
  BY <1>1, QuietProbe, DeclaringProbe DEF DeclareUnsent
<1>2. CASE TxnIdNotFound(p) \/ TxnIdFails(p) \/ GiveUp(p)
  BY <1>2, QuietProbe DEF TxnIdNotFound, TxnIdFails, GiveUp
<1>3. CASE TxnIdFound(p)
  BY <1>3, QuietProbe, NamingProbe DEF TxnIdFound, Stages
<1>4. CASE GotReceipt(p)
  <2>1. PICK t \in ReceiptsFor(p) : Settle(p, t.status)
    BY <1>4 DEF GotReceipt
  <2>2. [id |-> p.id, call |-> p.call, status |-> t.status] \in receipts
    BY DEF ReceiptsFor, Inv, GoodRest, Receipt
  <2> QED
    BY <2>1, <2>2, SettlingProbe
<1>5. CASE NoReceipt(p) \/ GotFrontRunReceipt(p)
  BY <1>5, QuietProbe DEF NoReceipt, GotFrontRunReceipt, Stages
<1>6. CASE DeclareStuck(p)
  BY <1>6, QuietProbe, DeclaringProbe DEF DeclareStuck
<1>7. CASE GotFrontRanTxnId(p)
  <2>1. AimedAt(p, accountsOps) => p.kind = "UserOperation"
    BY <1>7 DEF GotFrontRanTxnId, AimedAt
  <2> QED
    BY <1>7, <2>1, QuietProbe, NamingProbe DEF GotFrontRanTxnId, Stages
<1>8. CASE GotSecondReceipt(p)
  <2>1. CASE Settle(p, "failure")
    <3>1. AimedAt(p, accountsOps) => p.kind = "UserOperation"
      BY <1>8 DEF GotSecondReceipt, AimedAt
    <3> QED
      BY <2>1, <3>1, SettlingProbe
  <2>2. ASSUME NEW t \in ReceiptsFor(p), t.status = "success", Settle(p, "success")
        PROVE  ProbeEffect(p)
    <3>1. [id |-> p.id, call |-> p.call, status |-> "success"] \in receipts
      BY <2>2 DEF ReceiptsFor, Inv, GoodRest, Receipt
    <3> QED
      BY <2>2, <3>1, SettlingProbe
  <2> QED
    BY <1>8, <2>1, <2>2 DEF GotSecondReceipt
<1> QED
  BY <1>1, <1>2, <1>3, <1>4, <1>5, <1>6, <1>7, <1>8 DEF Advance

-----------------------------------------------------------------------------
(* Submitting *)

\* An operation comes first on its list; the others move up by one place, and at
\* most the last of them is dropped.
Added(kept, new, a, c, op) ==
    /\ \A b \in Accounts, d \in Chains : ~(b = a /\ d = c) => new[b][d] = kept[b][d]
    /\ 1 \in DOMAIN new[a][c] /\ new[a][c][1] = op
    /\ \A j \in DOMAIN new[a][c] \ {1} :
           j - 1 \in DOMAIN kept[a][c] /\ new[a][c][j] = kept[a][c][j - 1]
    /\ \A i \in DOMAIN kept[a][c] :
           \/ i + 1 \in DOMAIN new[a][c]
           \/ \A j \in DOMAIN new[a][c] \ {1} : j - 1 < i

\* What addAccountOp does to the history.
LEMMA AddEffect ==
    ASSUME Inv, NEW a \in Accounts, NEW c \in Chains, NEW kind \in Kinds,
           NEW n \in BatchSizes, AddAccountOp(a, c, kind, n)
    PROVE  Added(HideConfirmed(accountsOps), accountsOps', a, c, NewOp(kind, n))
<1> DEFINE kept == HideConfirmed(accountsOps)
           op == NewOp(kind, n)
           added == Trim(<<op>> \o kept[a][c])
<1>1. GoodLists(kept)
  BY HideConfirmedKeepsGood DEF Inv
<1>2. op \in Op
  BY NewOpGood DEF Inv, GoodRest, GoodOp
<1>3. accountsOps' = [kept EXCEPT ![a] = [kept[a] EXCEPT ![c] = added]]
  BY DEF AddAccountOp
<1> HIDE DEF kept, op
<1>4. /\ 1 \in DOMAIN added /\ added[1] = op
      /\ \A j \in DOMAIN added \ {1} :
             j - 1 \in DOMAIN kept[a][c] /\ added[j] = kept[a][c][j - 1]
      /\ \A i \in DOMAIN kept[a][c] :
             i + 1 \in DOMAIN added \/ \A j \in DOMAIN added \ {1} : j - 1 < i
  BY <1>1, <1>2, TrimmedEntries DEF GoodLists
<1> HIDE DEF added
<1>5. \A b \in Accounts, d \in Chains :
          accountsOps'[b][d] = IF b = a /\ d = c THEN added ELSE kept[b][d]
  BY <1>1, <1>3 DEF GoodLists, Lists
<1>6. Added(kept, accountsOps', a, c, op)
  BY <1>4, <1>5 DEF Added
<1> QED
  BY <1>6 DEF kept, op

\* The new operation keeps the order.
LEMMA AddedOrdered ==
    ASSUME NEW kept, GoodLists(kept), NEW n \in Nat, Ordered(kept, n),
           NEW new, GoodLists(new), NEW a \in Accounts, NEW c \in Chains,
           NEW op, op.id = n, Added(kept, new, a, c, op)
    PROVE  Ordered(new, n + 1)
<1>1. \A b \in Accounts, d \in Chains : \A i \in DOMAIN kept[b][d] :
          i \in Nat \ {0} /\ kept[b][d][i].id \in Nat /\ kept[b][d][i].id < n
  <2> TAKE b \in Accounts, d \in Chains
  <2> TAKE i \in DOMAIN kept[b][d]
  <2> QED
    BY GoodListsTyped DEF GoodOp, Op, Ordered
<1>2. \A i \in DOMAIN new[a][c] : i \in Nat \ {0}
  BY GoodListsTyped
<1>3. \A b \in Accounts, d \in Chains : \A i \in DOMAIN new[b][d] :
          new[b][d][i].id < n + 1
  BY <1>1 DEF Added
<1>4. \A b \in Accounts, d \in Chains : \A i, j \in DOMAIN new[b][d] :
          i < j => new[b][d][i].id > new[b][d][j].id
  <2> SUFFICES ASSUME NEW b \in Accounts, NEW d \in Chains, NEW i \in DOMAIN new[b][d],
                      NEW j \in DOMAIN new[b][d], i < j
               PROVE  new[b][d][i].id > new[b][d][j].id
    OBVIOUS
  <2>1. CASE ~(b = a /\ d = c)
    BY <2>1 DEF Added, Ordered
  <2>2. CASE b = a /\ d = c
    <3>1. j # 1 /\ j - 1 \in DOMAIN kept[a][c] /\ new[a][c][j] = kept[a][c][j - 1]
      BY <1>2, <2>2 DEF Added
    <3>2. CASE i = 1
      BY <1>1, <2>2, <3>1, <3>2 DEF Added
    <3>3. CASE i # 1
      <4>1. i - 1 \in DOMAIN kept[a][c] /\ new[a][c][i] = kept[a][c][i - 1]
        BY <2>2, <3>3 DEF Added
      <4>2. i - 1 < j - 1
        BY <1>2, <2>2
      <4> QED
        BY <2>2, <3>1, <4>1, <4>2 DEF Ordered
    <3> QED
      BY <3>2, <3>3
  <2> QED
    BY <2>1, <2>2
<1>5. \A b, e \in Accounts, d, f \in Chains :
          \A i \in DOMAIN new[b][d], j \in DOMAIN new[e][f] :
              new[b][d][i].id = new[e][f][j].id => b = e /\ d = f
  <2>1. \A b \in Accounts, d \in Chains : \A i \in DOMAIN new[b][d] :
            \/ b = a /\ d = c /\ new[b][d][i].id = n
            \/ \E k \in DOMAIN kept[b][d] : new[b][d][i].id = kept[b][d][k].id
    BY DEF Added
  <2> SUFFICES ASSUME NEW b \in Accounts, NEW e \in Accounts, NEW d \in Chains,
                      NEW f \in Chains, NEW i \in DOMAIN new[b][d], NEW j \in DOMAIN new[e][f],
                      new[b][d][i].id = new[e][f][j].id
               PROVE  b = e /\ d = f
    OBVIOUS
  <2>2. CASE new[b][d][i].id = n
    <3>1. b = a /\ d = c
      <4>1. ~(\E k \in DOMAIN kept[b][d] : new[b][d][i].id = kept[b][d][k].id)
        BY <1>1, <2>2
      <4> QED
        BY <2>1, <4>1
    <3>2. e = a /\ f = c
      <4>1. ~(\E k \in DOMAIN kept[e][f] : new[e][f][j].id = kept[e][f][k].id)
        BY <1>1, <2>2
      <4> QED
        BY <2>1, <4>1
    <3> QED
      BY <3>1, <3>2
  <2>3. CASE new[b][d][i].id # n
    <3>1. PICK k \in DOMAIN kept[b][d] : new[b][d][i].id = kept[b][d][k].id
      BY <2>1, <2>3
    <3>2. PICK l \in DOMAIN kept[e][f] : new[e][f][j].id = kept[e][f][l].id
      BY <2>1, <2>3
    <3>3. kept[b][d][k].id = kept[e][f][l].id
      BY <3>1, <3>2
    <3> QED
      BY <3>3 DEF Ordered
  <2> QED
    BY <2>2, <2>3
<1> QED
  BY <1>3, <1>4, <1>5 DEF Ordered

\* A history is ordered for every later id.
LEMMA OrderedLater ==
    ASSUME NEW lists, GoodLists(lists), NEW n \in Nat, Ordered(lists, n)
    PROVE  Ordered(lists, n + 1)
<1>1. \A a \in Accounts, c \in Chains : \A i \in DOMAIN lists[a][c] : lists[a][c][i].id \in Nat
  BY GoodListsTyped DEF GoodOp, Op
<1> QED
  BY <1>1 DEF Ordered

-----------------------------------------------------------------------------
(* The order and the view in every state *)

\* A step that writes no other operations.
LEMMA SameStep ==
    ASSUME HistoryInv, Inv', Same(accountsOps, accountsOps'), nextId' = nextId,
           stored' \in {stored, accountsOps},
           UNCHANGED view \/ view'.items = Filtered(accountsOps', view'.account)
    PROVE  HistoryInv'
<1>1. Ordered(accountsOps, nextId)' /\ Ordered(stored, nextId)'
  BY SameOrdered DEF HistoryInv
<1>2. view.account \in Accounts \cup {NoAccount} /\ view.items = Filtered(accountsOps, view.account)
  BY DEF HistoryInv, Inv, GoodRest, ViewIsCurrent
<1>3. Filtered(accountsOps', view.account) = Filtered(accountsOps, view.account)
  BY <1>2, SameFiltered
<1>4. view'.items = Filtered(accountsOps', view'.account)
  BY <1>2, <1>3
<1> QED
  BY <1>1, <1>4 DEF HistoryInv, ViewIsCurrent

\* A session that was synced lists what the history holds.
LEMMA SyncedIsCurrent ==
    ASSUME Inv, NEW lists
    PROVE  Synced(lists).items = Filtered(lists, Synced(lists).account)
BY DEF Synced, Inv, GoodRest

\* A history is the same as itself.
LEMMA SameItself ==
    ASSUME NEW lists
    PROVE  Same(lists, lists)
BY DEF Same, SameOp

\* A submission keeps the order and the view.
LEMMA AddKeepsHistory ==
    ASSUME HistoryInv, Inv', NEW a \in Accounts, NEW c \in Chains, NEW kind \in Kinds,
           NEW n \in BatchSizes, AddAccountOp(a, c, kind, n)
    PROVE  HistoryInv'
<1> DEFINE kept == HideConfirmed(accountsOps)
<1>1. GoodLists(kept) /\ Same(accountsOps, kept)
  BY HideConfirmedKeepsGood, HideAlike DEF HistoryInv, Inv
<1>2. Added(kept, accountsOps', a, c, NewOp(kind, n)) /\ NewOp(kind, n).id = nextId
  BY AddEffect DEF HistoryInv, NewOp
<1>3. nextId \in Nat /\ GoodLists(accountsOps') /\ GoodLists(stored)
  BY DEF HistoryInv, Inv, GoodRest
<1> HIDE DEF kept
<1>4. Ordered(kept, nextId)
  BY <1>1, SameOrdered DEF HistoryInv
<1>5. Ordered(accountsOps', nextId + 1) /\ Ordered(stored, nextId + 1)
  BY <1>1, <1>2, <1>3, <1>4, AddedOrdered, OrderedLater DEF HistoryInv
<1>6. nextId' = nextId + 1 /\ stored' = stored /\ view' = Synced(accountsOps')
  BY DEF AddAccountOp
<1>7. view'.items = Filtered(accountsOps', view'.account)
  BY <1>6, SyncedIsCurrent DEF HistoryInv
<1> QED
  BY <1>5, <1>6, <1>7 DEF HistoryInv, ViewIsCurrent

\* So does removing an account.
LEMMA RemoveKeepsHistory ==
    ASSUME HistoryInv, Inv', NEW a \in Accounts, RemoveAccountData(a)
    PROVE  HistoryInv'
<1>1. \A b \in Accounts, d \in Chains :
          accountsOps'[b][d] = IF b = a THEN <<>> ELSE accountsOps[b][d]
  BY DEF RemoveAccountData, NoOps, HistoryInv, Inv, GoodLists, Lists
<1>2. \A b \in Accounts, d \in Chains : \A i \in DOMAIN accountsOps'[b][d] :
          i \in DOMAIN accountsOps[b][d] /\ accountsOps'[b][d][i] = accountsOps[b][d][i]
  BY <1>1
<1>3. Ordered(accountsOps', nextId)
  BY <1>2 DEF HistoryInv, Ordered
<1>4. nextId' = nextId /\ stored' = stored /\ view' = Synced(accountsOps')
  BY DEF RemoveAccountData
<1>5. view'.items = Filtered(accountsOps', view'.account)
  BY <1>4, SyncedIsCurrent DEF HistoryInv
<1> QED
  BY <1>3, <1>4, <1>5 DEF HistoryInv, ViewIsCurrent

\* Closing a banner changes nothing but its flag.
LEMMA CloseEffect ==
    ASSUME Inv, NEW a \in Accounts, NEW c \in Chains, NEW i \in Nat, HideBanner(a, c, i)
    PROVE  /\ Same(accountsOps, accountsOps')
           /\ \A b \in Accounts, d \in Chains : \A j \in DOMAIN accountsOps[b][d] :
                  AlikeOp(accountsOps[b][d][j], accountsOps'[b][d][j])
<1> DEFINE op == accountsOps[a][c][i]
           new == [op EXCEPT !.hidden = TRUE]
<1>1. i \in DOMAIN accountsOps[a][c] /\ GoodLists(accountsOps)
  BY DEF HideBanner, Inv
<1>2. op \in Op
  BY <1>1, GoodListsTyped DEF GoodOp
<1>3. AlikeOp(op, new)
  BY <1>2 DEF Op, AlikeOp, SameOp
<1>4. Puts(accountsOps, accountsOps', a, c, i, new)
  BY DEF HideBanner, Puts
<1> HIDE DEF new
<1>5. PutEffect(accountsOps, accountsOps', a, c, i, new)
  BY <1>1, <1>3, <1>4, WriteBack DEF AlikeOp
<1> QED
  BY <1>3, <1>5 DEF PutEffect, AlikeOp, SameOp

\* What the poll of PrivacyPoolsController writes.
PollEffect(a, c, i) ==
    /\ i \in DOMAIN accountsOps[a][c]
    /\ accountsOps[a][c][i].txn = polled
    /\ polled # 0
    /\ Same(accountsOps, accountsOps')
    /\ AlikeBut(accountsOps, accountsOps', a, c, i)
    /\ Hides(accountsOps, accountsOps')
    /\ OwnOp(accountsOps[a][c][i], receipts)
       /\ accountsOps[a][c][i].id = polled
       /\ accountsOps[a][c][i].kind = "PrivacyPoolsRelayer"
       /\ (\A t \in receipts : t.id = polled => t.call = 1)
           => OwnOp(accountsOps'[a][c][i], receipts)

LEMMA PollHasEffect ==
    ASSUME Inv, NEW a \in Accounts, NEW c \in Chains, NEW i \in Nat, NEW status,
           UpdateAccountOpStatus(a, c, i, status)
    PROVE  PollEffect(a, c, i)
<1> DEFINE kept == IF status \in Confirmed THEN HideConfirmed(accountsOps) ELSE accountsOps
           old == accountsOps[a][c][i]
           op == kept[a][c][i]
           new == UpdateOpStatus(op, status)
<1>1. /\ i \in DOMAIN accountsOps[a][c] /\ old.txn = polled /\ polled # 0
      /\ GoodLists(accountsOps)
  BY DEF UpdateAccountOpStatus, Inv
<1>2. /\ GoodLists(kept) /\ Same(accountsOps, kept) /\ Hides(accountsOps, kept)
      /\ \A b \in Accounts, d \in Chains : \A j \in DOMAIN accountsOps[b][d] :
             AlikeOp(accountsOps[b][d][j], kept[b][d][j])
  <2>1. CASE status \in Confirmed
    BY <1>1, <2>1, HideAlike, HideConfirmedKeepsGood
  <2>2. CASE status \notin Confirmed
    BY <1>1, <2>2 DEF Same, SameOp, AlikeOp, Hides
  <2> QED
    BY <2>1, <2>2
<1>3. Puts(kept, accountsOps', a, c, i, new)
  BY DEF UpdateAccountOpStatus, Puts
<1>4. ASSUME status \in {"success", "failure"}
      PROVE  \E t \in receipts : t.id = polled /\ t.status = status
  BY <1>4 DEF UpdateAccountOpStatus
<1> HIDE DEF kept
<1>5. i \in DOMAIN kept[a][c] /\ op \in Op
  BY <1>1, <1>2, GoodListsTyped DEF Same, GoodOp
<1>6. SameOp(op, new) /\ new.hidden = op.hidden
  BY <1>5, UpdateKeepsName
<1> HIDE DEF new
<1>7. PutEffect(kept, accountsOps', a, c, i, new)
  BY <1>2, <1>3, <1>5, <1>6, WriteBack
<1>8. Same(accountsOps, accountsOps') /\ accountsOps'[a][c][i] = new
  BY <1>2, <1>7 DEF Same, SameOp, PutEffect
<1>9. AlikeBut(accountsOps, accountsOps', a, c, i)
  BY <1>2, <1>7 DEF AlikeBut, Same, PutEffect
<1>10. Hides(accountsOps, accountsOps')
  BY <1>2, <1>6, <1>7 DEF Hides, Same, PutEffect
<1>11. ASSUME OwnOp(old, receipts), old.id = polled, old.kind = "PrivacyPoolsRelayer",
              \A t \in receipts : t.id = polled => t.call = 1
       PROVE  OwnOp(new, receipts)
  <2>1. AlikeOp(old, op)
    BY <1>1, <1>2
  <2>2. OwnOp(op, receipts) /\ op.id = polled /\ op.kind = "PrivacyPoolsRelayer"
    BY <1>11, <2>1, OwnAlike DEF AlikeOp, SameOp
  <2>3. ProbedCall(op) = 1
    BY <2>2 DEF ProbedCall
  <2>4. ASSUME status \in {"success", "failure"}
        PROVE  [id |-> op.id, call |-> ProbedCall(op), status |-> status] \in receipts
    <3>1. PICK t \in receipts : t.id = polled /\ t.status = status
      BY <1>4, <2>4
    <3>2. t = [id |-> polled, call |-> 1, status |-> status]
      BY <1>11, <3>1 DEF Inv, GoodRest, Receipt
    <3> QED
      BY <2>2, <2>3, <3>1, <3>2
  <2> HIDE DEF op
  <2> QED
    BY <1>5, <2>2, <2>4, OwnUpdate DEF new
<1> QED
  BY <1>1, <1>8, <1>9, <1>10, <1>11 DEF PollEffect

\* The order and the view survive every step.
LEMMA HistoryInductive ==
    HistoryInv /\ [Next]_vars => HistoryInv'
<1> SUFFICES ASSUME HistoryInv, [Next]_vars PROVE HistoryInv'
  OBVIOUS
<1> USE DEF memory, refresh
<1>1. Inv /\ Inv' /\ Same(accountsOps, accountsOps)
  BY NextGood, SameItself DEF HistoryInv
<1>2. 1..MaxItems \subseteq Nat /\ 1..MaxCalls \subseteq Nat
  BY ActivityAssumption
<1>3. ASSUME NEW a \in Accounts, NEW c \in Chains, NEW kind \in Kinds, NEW n \in BatchSizes,
             AddAccountOp(a, c, kind, n)
      PROVE  HistoryInv'
  BY <1>1, <1>3, AddKeepsHistory
<1>4. ASSUME NEW a \in Accounts, RemoveAccountData(a) PROVE HistoryInv'
  BY <1>1, <1>4, RemoveKeepsHistory
<1>5. ASSUME NEW a \in Accounts \cup {NoAccount}, FilterAccountsOps(a) PROVE HistoryInv'
  BY <1>1, <1>5, SameStep DEF FilterAccountsOps
<1>6. ASSUME NEW a \in Accounts, SelectAccount(a) PROVE HistoryInv'
  BY <1>1, <1>6, SameStep DEF SelectAccount
<1>7. ASSUME NEW a \in Accounts, NEW c \in Chains, NEW i \in 1..MaxItems, HideBanner(a, c, i)
      PROVE  HistoryInv'
  <2>1. Same(accountsOps, accountsOps')
    BY <1>1, <1>2, <1>7, CloseEffect
  <2> QED
    BY <1>1, <1>7, <2>1, SameStep DEF HideBanner
<1>8. ASSUME NEW a \in Accounts, NEW c \in Chains, NEW i \in 1..MaxItems, NEW status,
             UpdateAccountOpStatus(a, c, i, status)
      PROVE  HistoryInv'
  <2>1. Same(accountsOps, accountsOps')
    BY <1>1, <1>2, <1>8, PollHasEffect DEF PollEffect
  <2>2. view' = Synced(accountsOps') /\ nextId' = nextId /\ stored' = stored
    BY <1>8 DEF UpdateAccountOpStatus
  <2>3. view'.items = Filtered(accountsOps', view'.account)
    BY <1>1, <2>2, SyncedIsCurrent
  <2> QED
    BY <1>1, <2>1, <2>2, <2>3, SameStep
<1>9. ASSUME NEW a, NEW c, NEW i, NEW call, NEW status, Mine(a, c, i, call, status)
      PROVE  HistoryInv'
  BY <1>1, <1>9, SameStep DEF Mine
<1>10. ASSUME NEW r, StartRefresh(r) PROVE HistoryInv'
  BY <1>1, <1>10, SameStep DEF StartRefresh
<1>11. ASSUME NEW r, EndRefresh(r) PROVE HistoryInv'
  <2>1. /\ view' = Synced(accountsOps') /\ nextId' = nextId /\ stored' = accountsOps
        /\ UNCHANGED accountsOps
    BY <1>11 DEF EndRefresh
  <2>2. view'.items = Filtered(accountsOps', view'.account)
    BY <1>1, <2>1, SyncedIsCurrent
  <2> QED
    BY <1>1, <2>1, <2>2, SameStep
<1>12. ASSUME NEW p \in probes, Advance(p) PROVE HistoryInv'
  BY <1>1, <1>12, AdvanceHasEffect, SameStep DEF ProbeEffect
<1>13. CASE PollEnds
  BY <1>1, <1>13, SameStep DEF PollEnds
<1>14. CASE SaveAccountsOps
  BY <1>1, <1>14, SameStep DEF SaveAccountsOps
<1>15. CASE Restart
  <2>1. /\ accountsOps' = stored /\ stored' = stored /\ nextId' = nextId
        /\ view'.account = NoAccount /\ view'.items = {}
    BY <1>15 DEF Restart
  <2> QED
    BY <1>1, <2>1 DEF HistoryInv, ViewIsCurrent, Filtered
<1>16. CASE UNCHANGED vars
  BY <1>1, <1>16, SameStep DEF vars
<1> QED
  BY <1>3, <1>4, <1>5, <1>6, <1>7, <1>8, <1>9, <1>10, <1>11, <1>12, <1>13, <1>14, <1>15,
     <1>16 DEF Next, UserStep, NetworkStep

\* The empty history is ordered, and no session is open.
LEMMA InitHistory ==
    Init => HistoryInv
<1> SUFFICES ASSUME Init PROVE HistoryInv
  OBVIOUS
<1>1. Inv
  BY InitGood
<1>2. \A a \in Accounts, c \in Chains : DOMAIN accountsOps[a][c] = {}
  BY DEF Init, NoOps
<1>3. Ordered(accountsOps, nextId) /\ stored = accountsOps
  BY <1>2 DEF Init, Ordered
<1>4. ViewIsCurrent
  BY DEF Init, ViewIsCurrent, Filtered
<1> QED
  BY <1>1, <1>3, <1>4 DEF HistoryInv

\* The history is ordered and the view current in every reachable state.
LEMMA HistoryInvariant ==
    Spec => []HistoryInv
BY InitHistory, HistoryInductive, PTL DEF Spec

\* Whatever changes a list, the open session shows it.
THEOREM SessionIsCurrent ==
    Spec => []ViewIsCurrent
<1>1. HistoryInv => ViewIsCurrent
  BY DEF HistoryInv
<1> QED
  BY <1>1, HistoryInvariant, PTL

\* A submission is recorded, and drops nothing but the oldest operation.
LEMMA AddTrimsOldest ==
    ASSUME HistoryInv, NEW a \in Accounts, NEW c \in Chains, NEW kind \in Kinds,
           NEW n \in BatchSizes, AddAccountOp(a, c, kind, n)
    PROVE  /\ nextId \in Ids(accountsOps'[a][c])
           /\ \A b \in Accounts, d \in Chains :
                  \A x \in Ids(accountsOps[b][d]) \ Ids(accountsOps'[b][d]),
                     y \in Ids(accountsOps'[b][d]) : x < y
<1> DEFINE kept == HideConfirmed(accountsOps)
<1>1. Inv /\ GoodLists(kept) /\ Same(accountsOps, kept)
  BY HideConfirmedKeepsGood, HideAlike DEF HistoryInv, Inv
<1>2. Added(kept, accountsOps', a, c, NewOp(kind, n)) /\ NewOp(kind, n).id = nextId
  BY <1>1, AddEffect DEF NewOp
<1> HIDE DEF kept
<1>3. nextId \in Ids(accountsOps'[a][c])
  BY <1>2 DEF Added, Ids
<1>4. Ordered(kept, nextId)
  BY <1>1, SameOrdered DEF HistoryInv
<1>5. \A b \in Accounts, d \in Chains : Ids(kept[b][d]) = Ids(accountsOps[b][d])
  BY <1>1 DEF Same, SameOp, Ids
<1>6. ASSUME NEW b \in Accounts, NEW d \in Chains,
             NEW x \in Ids(accountsOps[b][d]) \ Ids(accountsOps'[b][d]),
             NEW y \in Ids(accountsOps'[b][d])
      PROVE  x < y
  <2>1. b = a /\ d = c
    BY <1>2, <1>5, <1>6 DEF Added
  <2>2. PICK i \in DOMAIN kept[a][c] : x = kept[a][c][i].id
    <3>1. x \in Ids(kept[a][c])
      BY <1>5, <2>1
    <3> QED
      BY <3>1 DEF Ids
  <2>3. PICK j \in DOMAIN accountsOps'[a][c] : y = accountsOps'[a][c][j].id
    BY <2>1 DEF Ids
  <2>4. i \in Nat \ {0}
    BY <1>1, GoodListsTyped
  <2>5. i + 1 \notin DOMAIN accountsOps'[a][c]
    <3> SUFFICES ASSUME i + 1 \in DOMAIN accountsOps'[a][c] PROVE FALSE
      OBVIOUS
    <3>1. i + 1 # 1 /\ (i + 1) - 1 = i
      BY <2>4
    <3>2. accountsOps'[a][c][i + 1] = kept[a][c][i]
      BY <1>2, <3>1 DEF Added
    <3> QED
      BY <1>6, <2>1, <2>2, <3>2 DEF Ids
  <2>6. CASE j = 1
    BY <1>2, <1>4, <2>2, <2>3, <2>6 DEF Added, Ordered
  <2>7. CASE j # 1
    <3>1. /\ j - 1 < i /\ j - 1 \in DOMAIN kept[a][c]
          /\ accountsOps'[a][c][j] = kept[a][c][j - 1]
      BY <1>2, <2>5, <2>7 DEF Added
    <3>2. kept[a][c][j - 1].id > kept[a][c][i].id
      BY <1>4, <3>1 DEF Ordered
    <3>3. kept[a][c][j - 1].id \in Nat /\ kept[a][c][i].id \in Nat
      BY <1>1, <3>1, GoodListsTyped DEF GoodOp, Op
    <3> QED
      BY <2>2, <2>3, <3>1, <3>2, <3>3
  <2> QED
    BY <2>6, <2>7
<1> QED
  BY <1>3, <1>6

\* A submitted operation is recorded, and what it pushes out is older than all
\* that stays, whatever the limit.
THEOREM TrimmingKeepsNewest ==
    Spec => TrimKeepsNewest
<1>1. HistoryInv /\ [Next]_vars =>
          [nextId' # nextId =>
             /\ \E a \in Accounts, c \in Chains : nextId \in Ids(accountsOps'[a][c])
             /\ \A a \in Accounts, c \in Chains :
                    \A x \in Ids(accountsOps[a][c]) \ Ids(accountsOps'[a][c]),
                       y \in Ids(accountsOps'[a][c]) : x < y]_vars
  <2> SUFFICES ASSUME HistoryInv, Next, nextId' # nextId
               PROVE  /\ \E a \in Accounts, c \in Chains : nextId \in Ids(accountsOps'[a][c])
                      /\ \A a \in Accounts, c \in Chains :
                             \A x \in Ids(accountsOps[a][c]) \ Ids(accountsOps'[a][c]),
                                y \in Ids(accountsOps'[a][c]) : x < y
    BY DEF vars
  <2>1. PICK a \in Accounts, c \in Chains, kind \in Kinds, n \in BatchSizes :
            AddAccountOp(a, c, kind, n)
    <3>1. ~\E p \in probes : Advance(p)
      BY AdvanceHasEffect DEF HistoryInv, ProbeEffect
    <3>2. \A a : ~FilterAccountsOps(a)
      BY DEF FilterAccountsOps
    <3>3. \A r : ~StartRefresh(r) /\ ~EndRefresh(r)
      BY DEF StartRefresh, EndRefresh
    <3>4. ~PollEnds /\ ~SaveAccountsOps /\ ~Restart
      BY DEF PollEnds, SaveAccountsOps, Restart
    <3>5. \A a : ~NetworkStep(a)
      <4>1. \A a, c, i, status : ~UpdateAccountOpStatus(a, c, i, status)
        BY DEF UpdateAccountOpStatus
      <4>2. \A a, c, i, call, status : ~Mine(a, c, i, call, status)
        BY DEF Mine
      <4> QED
        BY <4>1, <4>2 DEF NetworkStep
    <3>6. \A a : UserStep(a) =>
              \E c \in Chains, kind \in Kinds, n \in BatchSizes : AddAccountOp(a, c, kind, n)
      BY DEF UserStep, RemoveAccountData, FilterAccountsOps, SelectAccount, HideBanner
    <3> QED
      BY <3>1, <3>2, <3>3, <3>4, <3>5, <3>6 DEF Next
  <2> QED
    BY <2>1, AddTrimsOldest
<1> QED
  BY <1>1, HistoryInvariant, PTL DEF Spec, TrimKeepsNewest

-----------------------------------------------------------------------------
(* The banners *)

\* A step that keeps the operations in their places hides what Hides allows.
LEMMA SameHides ==
    ASSUME HistoryInv, Inv', Same(accountsOps, accountsOps'), Hides(accountsOps, accountsOps'),
           NEW a \in Accounts, NEW op \in OpsOf(accountsOps, a),
           NEW new \in OpsOf(accountsOps', a), new.id = op.id, new.hidden, ~op.hidden
    PROVE  op.status \in Confirmed
<1>1. PICK c \in Chains : \E i \in DOMAIN accountsOps[a][c] : op = accountsOps[a][c][i]
  BY OpsOfPlaces
<1>2. PICK i \in DOMAIN accountsOps[a][c] : op = accountsOps[a][c][i]
  BY <1>1
<1>3. PICK d \in Chains : \E j \in DOMAIN accountsOps'[a][d] : new = accountsOps'[a][d][j]
  BY OpsOfPlaces
<1>4. PICK j \in DOMAIN accountsOps'[a][d] : new = accountsOps'[a][d][j]
  BY <1>3
<1>5. j \in DOMAIN accountsOps[a][d] /\ accountsOps[a][d][j].id = accountsOps[a][c][i].id
  BY <1>2, <1>4 DEF Same, SameOp
<1>6. c = d /\ i = j
  BY <1>5, OrderedNames DEF HistoryInv, Inv
<1> QED
  BY <1>2, <1>4, <1>6 DEF Hides

\* A submission hides what hideBannersOfConfirmedAccountOps hides.
LEMMA AddHides ==
    ASSUME HistoryInv, NEW b \in Accounts, NEW e \in Chains, NEW kind \in Kinds,
           NEW n \in BatchSizes, AddAccountOp(b, e, kind, n),
           NEW a \in Accounts, NEW op \in OpsOf(accountsOps, a),
           NEW new \in OpsOf(accountsOps', a), new.id = op.id, new.hidden, ~op.hidden
    PROVE  op.status \in Confirmed
<1> DEFINE kept == HideConfirmed(accountsOps)
<1>1. Inv /\ GoodLists(kept) /\ Same(accountsOps, kept) /\ Hides(accountsOps, kept)
  BY HideConfirmedKeepsGood, HideAlike DEF HistoryInv, Inv
<1>2. Added(kept, accountsOps', b, e, NewOp(kind, n)) /\ NewOp(kind, n).id = nextId
  BY <1>1, AddEffect DEF NewOp
<1> HIDE DEF kept
<1>3. PICK c \in Chains : \E i \in DOMAIN accountsOps[a][c] : op = accountsOps[a][c][i]
  BY OpsOfPlaces
<1>4. PICK i \in DOMAIN accountsOps[a][c] : op = accountsOps[a][c][i]
  BY <1>3
<1>5. op.id \in Nat /\ op.id < nextId
  BY <1>1, <1>4, GoodListsTyped DEF HistoryInv, Ordered, Inv, GoodOp, Op
<1>6. PICK d \in Chains : \E j \in DOMAIN accountsOps'[a][d] : new = accountsOps'[a][d][j]
  BY OpsOfPlaces
<1>7. PICK j \in DOMAIN accountsOps'[a][d] : new = accountsOps'[a][d][j]
  BY <1>6
<1>8. PICK k \in DOMAIN kept[a][d] : new = kept[a][d][k]
  <2>1. new # NewOp(kind, n)
    BY <1>2, <1>5
  <2> QED
    BY <1>2, <1>7, <2>1 DEF Added
<1>9. k \in DOMAIN accountsOps[a][d] /\ accountsOps[a][d][k].id = accountsOps[a][c][i].id
  BY <1>1, <1>4, <1>8 DEF Same, SameOp
<1>10. c = d /\ i = k
  BY <1>9, OrderedNames DEF HistoryInv, Inv
<1> QED
  BY <1>1, <1>4, <1>8, <1>10 DEF Hides

\* Unless the user closes it, a banner is only hidden when its operation was
\* confirmed before: a receipt never hides the banner of its own operation.
THEOREM BannersAreShown ==
    Spec => OnlyConfirmedBannersAreHidden
<1> DEFINE Shows ==
        \A a \in Accounts :
            \A op \in OpsOf(accountsOps, a), new \in OpsOf(accountsOps', a) :
                new.id = op.id /\ new.hidden /\ ~op.hidden => op.status \in Confirmed
<1>1. HistoryInv /\ [Next]_vars =>
          [\/ Restart
           \/ \E a \in Accounts, c \in Chains, i \in 1..MaxItems : HideBanner(a, c, i)
           \/ Shows]_vars
  <2> SUFFICES ASSUME HistoryInv, Next, ~Restart,
                      ~\E a \in Accounts, c \in Chains, i \in 1..MaxItems : HideBanner(a, c, i)
               PROVE  Shows
    BY DEF vars
  <2>1. Inv /\ Inv' /\ 1..MaxItems \subseteq Nat
    BY NextGood, ActivityAssumption DEF HistoryInv
  <2>2. Same(accountsOps, accountsOps') /\ Hides(accountsOps, accountsOps') => Shows
    BY <2>1, SameHides
  <2>3. UNCHANGED accountsOps => Shows
    <3>1. Same(accountsOps, accountsOps) /\ Hides(accountsOps, accountsOps)
      BY DEF Same, SameOp, Hides
    <3> QED
      BY <2>2, <3>1
  <2>4. ASSUME NEW a \in Accounts, NEW c \in Chains, NEW kind \in Kinds, NEW n \in BatchSizes,
               AddAccountOp(a, c, kind, n)
        PROVE  Shows
    BY <2>4, AddHides
  <2>5. ASSUME NEW a \in Accounts, RemoveAccountData(a) PROVE Shows
    <3>1. \A b \in Accounts, d \in Chains : \A i \in DOMAIN accountsOps'[b][d] :
              i \in DOMAIN accountsOps[b][d] /\ accountsOps'[b][d][i] = accountsOps[b][d][i]
      <4>1. \A b \in Accounts, d \in Chains :
                accountsOps'[b][d] = IF b = a THEN <<>> ELSE accountsOps[b][d]
        BY <2>1, <2>5 DEF RemoveAccountData, NoOps, Inv, GoodLists, Lists
      <4> QED
        BY <4>1
    <3> SUFFICES ASSUME NEW b \in Accounts, NEW op \in OpsOf(accountsOps, b),
                        NEW new \in OpsOf(accountsOps', b), new.id = op.id, new.hidden,
                        ~op.hidden
                 PROVE  op.status \in Confirmed
      OBVIOUS
    <3>2. new \in OpsOf(accountsOps, b)
      BY <3>1, OpsOfPlaces
    <3>3. PICK c \in Chains : \E i \in DOMAIN accountsOps[b][c] : op = accountsOps[b][c][i]
      BY OpsOfPlaces
    <3>4. PICK i \in DOMAIN accountsOps[b][c] : op = accountsOps[b][c][i]
      BY <3>3
    <3>5. PICK d \in Chains : \E j \in DOMAIN accountsOps[b][d] : new = accountsOps[b][d][j]
      BY <3>2, OpsOfPlaces
    <3>6. PICK j \in DOMAIN accountsOps[b][d] : new = accountsOps[b][d][j]
      BY <3>5
    <3>7. c = d /\ i = j
      BY <3>4, <3>6, OrderedNames DEF HistoryInv, Inv
    <3> QED
      BY <3>4, <3>6, <3>7
  <2>6. ASSUME NEW a \in Accounts, NEW c \in Chains, NEW i \in 1..MaxItems, NEW status,
               UpdateAccountOpStatus(a, c, i, status)
        PROVE  Shows
    BY <2>1, <2>2, <2>6, PollHasEffect DEF PollEffect
  <2>7. ASSUME NEW p \in probes, Advance(p) PROVE Shows
    BY <2>1, <2>2, <2>7, AdvanceHasEffect DEF ProbeEffect
  <2> USE DEF memory, refresh
  <2>8. (\E a : FilterAccountsOps(a) \/ SelectAccount(a)) => UNCHANGED accountsOps
    BY DEF FilterAccountsOps, SelectAccount
  <2>9. (\E a, c, i, call, status : Mine(a, c, i, call, status)) => UNCHANGED accountsOps
    BY DEF Mine
  <2>10. (\E r : StartRefresh(r) \/ EndRefresh(r)) => UNCHANGED accountsOps
    BY DEF StartRefresh, EndRefresh
  <2>11. PollEnds \/ SaveAccountsOps => UNCHANGED accountsOps
    BY DEF PollEnds, SaveAccountsOps
  <2> HIDE DEF Shows
  <2>12. ASSUME NEW a \in Accounts, UserStep(a) PROVE Shows
    BY <2>3, <2>4, <2>5, <2>8, <2>12 DEF UserStep
  <2>13. ASSUME NEW a \in Accounts, NetworkStep(a) PROVE Shows
    BY <2>3, <2>6, <2>9, <2>13 DEF NetworkStep
  <2> QED
    BY <2>3, <2>7, <2>8, <2>10, <2>11, <2>12, <2>13 DEF Next
<1> QED
  BY <1>1, HistoryInvariant, PTL DEF Spec, OnlyConfirmedBannersAreHidden

-----------------------------------------------------------------------------
(* The poll of PrivacyPoolsController *)

\* It waits for the one transaction of one operation.
PollsOne(lists, n) ==
    \A a \in Accounts, c \in Chains : \A i \in DOMAIN lists[a][c] :
        lists[a][c][i].id = n => lists[a][c][i].kind = "PrivacyPoolsRelayer"

Polling ==
    /\ polled < nextId
    /\ \A t \in receipts : t.id < nextId
    /\ polled # 0 =>
           /\ PollsOne(accountsOps, polled)
           /\ PollsOne(stored, polled)
           /\ \A t \in receipts : t.id = polled => t.call = 1

\* Histories of the same operations are polled alike.
LEMMA SamePolled ==
    ASSUME NEW lists, NEW new, NEW n, Same(lists, new), PollsOne(lists, n)
    PROVE  PollsOne(new, n)
BY DEF Same, SameOp, PollsOne

\* A step that keeps the operations in their places and sees no receipt.
LEMMA SamePolling ==
    ASSUME HistoryInv, Polling, Same(accountsOps, accountsOps'), nextId' = nextId,
           stored' \in {stored, accountsOps}, receipts' = receipts, polled' \in {polled, 0}
    PROVE  Polling'
<1>1. 0 < nextId
  BY DEF HistoryInv, Inv, GoodRest
<1>2. polled # 0 => PollsOne(accountsOps', polled) /\ PollsOne(stored', polled)
  BY SamePolled DEF Polling
<1> QED
  BY <1>1, <1>2 DEF Polling

\* A new operation is not the one that is polled, unless it is a private one.
LEMMA AddPolling ==
    ASSUME HistoryInv, Polling, NEW a \in Accounts, NEW c \in Chains, NEW kind \in Kinds,
           NEW n \in BatchSizes, AddAccountOp(a, c, kind, n)
    PROVE  Polling'
<1> DEFINE kept == HideConfirmed(accountsOps)
           op == NewOp(kind, n)
<1>1. Inv /\ GoodLists(kept) /\ Same(accountsOps, kept)
  BY HideConfirmedKeepsGood, HideAlike DEF HistoryInv, Inv
<1>2. Added(kept, accountsOps', a, c, op) /\ op.id = nextId /\ op.kind = kind
  BY <1>1, AddEffect DEF NewOp
<1>3. /\ nextId' = nextId + 1 /\ stored' = stored /\ receipts' = receipts
      /\ polled' = polled \/ (polled' = nextId /\ kind = "PrivacyPoolsRelayer")
  BY DEF AddAccountOp
<1>4. nextId \in Nat \ {0} /\ polled \in Nat /\ \A t \in receipts : t.id \in Nat
  BY <1>1 DEF Inv, GoodRest, Receipt
<1> HIDE DEF kept, op
<1>5. \A b \in Accounts, d \in Chains : \A i \in DOMAIN accountsOps'[b][d] :
          \/ accountsOps'[b][d][i] = op
          \/ \E j \in DOMAIN kept[b][d] : accountsOps'[b][d][i] = kept[b][d][j]
  BY <1>2 DEF Added
<1>6. Ordered(kept, nextId) /\ Ordered(stored, nextId)
  BY <1>1, SameOrdered DEF HistoryInv
<1>7. CASE polled' = polled
  <2>1. polled # 0 => PollsOne(kept, polled)
    BY <1>1, SamePolled DEF Polling
  <2>2. polled # 0 => PollsOne(accountsOps', polled)
    BY <1>2, <1>4, <1>5, <2>1 DEF PollsOne, Polling
  <2> QED
    BY <1>3, <1>4, <1>7, <2>2 DEF Polling
<1>8. CASE polled' = nextId /\ kind = "PrivacyPoolsRelayer"
  <2>1. \A b \in Accounts, d \in Chains : \A j \in DOMAIN kept[b][d] : kept[b][d][j].id < nextId
    BY <1>6 DEF Ordered
  <2>2. PollsOne(accountsOps', nextId)
    BY <1>2, <1>4, <1>5, <1>8, <2>1 DEF PollsOne
  <2>3. PollsOne(stored, nextId)
    BY <1>4, <1>6 DEF PollsOne, Ordered
  <2> QED
    BY <1>3, <1>4, <1>8, <2>2, <2>3 DEF Polling
<1> QED
  BY <1>3, <1>7, <1>8

\* Every other step keeps what is polled.
LEMMA PollingKept ==
    ASSUME HistoryInv, Polling, [Next]_vars
    PROVE  Polling'
<1> USE DEF memory, refresh
<1>1. Inv /\ Same(accountsOps, accountsOps) /\ 1..MaxItems \subseteq Nat
  BY SameItself, ActivityAssumption DEF HistoryInv
<1>2. ASSUME NEW a \in Accounts, RemoveAccountData(a) PROVE Polling'
  <2>1. \A b \in Accounts, d \in Chains :
            accountsOps'[b][d] = IF b = a THEN <<>> ELSE accountsOps[b][d]
    BY <1>1, <1>2 DEF RemoveAccountData, NoOps, Inv, GoodLists, Lists
  <2>2. polled # 0 => PollsOne(accountsOps', polled)
    BY <2>1 DEF PollsOne, Polling
  <2> QED
    BY <1>2, <2>2 DEF RemoveAccountData, Polling
<1>3. ASSUME NEW a, FilterAccountsOps(a) \/ SelectAccount(a) PROVE Polling'
  BY <1>1, <1>3, SamePolling DEF FilterAccountsOps, SelectAccount
<1>4. ASSUME NEW a \in Accounts, NEW c \in Chains, NEW i \in 1..MaxItems, HideBanner(a, c, i)
      PROVE  Polling'
  <2>1. Same(accountsOps, accountsOps')
    BY <1>1, <1>4, CloseEffect
  <2> QED
    BY <1>4, <2>1, SamePolling DEF HideBanner
<1>5. ASSUME NEW a \in Accounts, NEW c \in Chains, NEW i \in 1..MaxItems, NEW status,
             UpdateAccountOpStatus(a, c, i, status)
      PROVE  Polling'
  <2>1. Same(accountsOps, accountsOps')
    BY <1>1, <1>5, PollHasEffect DEF PollEffect
  <2> QED
    BY <1>5, <2>1, SamePolling DEF UpdateAccountOpStatus
<1>6. ASSUME NEW a \in Accounts, NEW c \in Chains, NEW i, NEW call, NEW status,
             Mine(a, c, i, call, status)
      PROVE  Polling'
  <2> DEFINE op == accountsOps[a][c][i]
  <2>1. /\ i \in DOMAIN accountsOps[a][c]
        /\ call \in 1..(IF op.kind = "MultipleTxns" THEN Len(op.calls) ELSE 1)
        /\ receipts' = receipts \cup {[id |-> op.id, call |-> call, status |-> status]}
        /\ UNCHANGED <<accountsOps, stored, polled, nextId>>
    BY <1>6 DEF Mine
  <2>2. op.id < nextId
    BY <2>1 DEF HistoryInv, Ordered
  <2>3. polled # 0 /\ op.id = polled => call = 1
    BY <2>1 DEF Polling, PollsOne
  <2> QED
    BY <2>1, <2>2, <2>3 DEF Polling
<1>7. ASSUME NEW r, StartRefresh(r) \/ EndRefresh(r) PROVE Polling'
  BY <1>1, <1>7, SamePolling DEF StartRefresh, EndRefresh
<1>8. ASSUME NEW p \in probes, Advance(p) PROVE Polling'
  BY <1>1, <1>8, AdvanceHasEffect, SamePolling DEF ProbeEffect
<1>9. CASE PollEnds \/ SaveAccountsOps \/ UNCHANGED vars
  BY <1>1, <1>9, SamePolling DEF PollEnds, SaveAccountsOps, vars
<1>10. CASE Restart
  BY <1>10 DEF Restart, Polling, HistoryInv, Inv, GoodRest
<1> QED
  BY <1>2, <1>3, <1>4, <1>5, <1>6, <1>7, <1>8, <1>9, <1>10, AddPolling
     DEF Next, UserStep, NetworkStep

-----------------------------------------------------------------------------
(* Without races *)

\* As long as no list changed under a probe and no refreshes overlapped, every
\* status is its operation's own, every probe is aimed at a different operation,
\* and memory differs from storage only while something is going to be stored or
\* after a rejection, and then only in operations that are unconfirmed in storage.
Apart(aimed) ==
    \A p, q \in aimed : p.acct = q.acct /\ p.chain = q.chain /\ p.idx = q.idx => p = q

Raceless ==
    /\ OwnLists(accountsOps, receipts)
    /\ OwnLists(stored, receipts)
    /\ \A p \in probes : AimedAt(p, accountsOps)
    /\ Apart(probes)
    /\ Strays # {} => rejected
    /\ ~unsaved => Keeps(stored, accountsOps)
    /\ ~unsaved /\ runs = {} /\ ~rejected => stored = accountsOps

RaceInv == HistoryInv /\ Polling /\ (~raced => Raceless)

\* A probe stays aimed while its operation keeps its name, its calls and its status.
LEMMA AimedStays ==
    ASSUME NEW p \in Probe, NEW lists, NEW new, AimedAt(p, lists), Same(lists, new),
           new[p.acct][p.chain][p.idx].calls = lists[p.acct][p.chain][p.idx].calls,
           new[p.acct][p.chain][p.idx].status = lists[p.acct][p.chain][p.idx].status
    PROVE  AimedAt(p, new)
<1> DEFINE op == lists[p.acct][p.chain][p.idx]
           now == new[p.acct][p.chain][p.idx]
<1>1. p.acct \in Accounts /\ p.chain \in Chains
  BY DEF Probe
<1>2. p.idx \in DOMAIN new[p.acct][p.chain] /\ SameOp(op, now) /\ now.calls = op.calls
      /\ now.status = Sent
  BY <1>1 DEF AimedAt, Same
<1>3. ProbedCall(now) = ProbedCall(op)
  BY <1>2 DEF SameOp, ProbedCall, CallToUpdate, Unconfirmed
<1> HIDE DEF op, now
<1>4. SameOp(p, op) /\ p.call = ProbedCall(op)
  BY DEF AimedAt, op
<1>5. SameOp(p, now) /\ p.call = ProbedCall(now)
  BY <1>2, <1>3, <1>4 DEF SameOp
<1> QED
  BY <1>2, <1>5 DEF AimedAt, now

\* What the histories own they keep when more receipts are seen.
LEMMA OwnLater ==
    ASSUME NEW lists, NEW seen, NEW later, seen \subseteq later, OwnLists(lists, seen)
    PROVE  OwnLists(lists, later)
<1>1. ASSUME NEW op, OwnOp(op, seen) PROVE OwnOp(op, later)
  BY <1>1, OwnAlike DEF AlikeOp, SameOp
<1> QED
  BY <1>1 DEF OwnLists

\* A step that leaves the histories and the refreshes alone.
LEMMA StillRaceless ==
    ASSUME Raceless, UNCHANGED <<accountsOps, stored, unsaved, runs, probes, rejected>>,
           receipts \subseteq receipts'
    PROVE  Raceless'
<1>1. OwnLists(accountsOps, receipts') /\ OwnLists(stored, receipts')
  BY OwnLater DEF Raceless
<1> QED
  BY <1>1 DEF Raceless, Strays

\* A new operation has nothing that is not its own.
LEMMA NewOpOwn ==
    ASSUME NEW kind \in Kinds, NEW n \in BatchSizes, NEW seen
    PROVE  OwnOp(NewOp(kind, n), seen)
<1> DEFINE op == NewOp(kind, n)
<1>1. /\ op.kind = kind /\ op.id = nextId /\ op.txn \in {0, nextId}
      /\ op.status = IF kind = "ImportedAccount" THEN "success" ELSE Sent
      /\ \A i \in DOMAIN op.calls : op.calls[i] = Sent
  BY DEF NewOp
<1> HIDE DEF op
<1>2. OwnOp(op, seen)
  BY <1>1 DEF OwnOp, Sent
<1> QED
  BY <1>2 DEF op

\* A submission without a probe in flight.
LEMMA AddRaceless ==
    ASSUME Inv, Raceless, NEW a \in Accounts, NEW c \in Chains, NEW kind \in Kinds,
           NEW n \in BatchSizes, AddAccountOp(a, c, kind, n), ~raced'
    PROVE  Raceless'
<1> DEFINE kept == HideConfirmed(accountsOps)
           op == NewOp(kind, n)
<1>1. /\ Same(accountsOps, kept)
      /\ \A b \in Accounts, d \in Chains : \A i \in DOMAIN accountsOps[b][d] :
             AlikeOp(accountsOps[b][d][i], kept[b][d][i])
  BY HideAlike DEF Inv
<1>2. Added(kept, accountsOps', a, c, op)
  BY AddEffect
<1>3. OwnOp(op, receipts)
  BY NewOpOwn
<1>4. unsaved' = TRUE /\ UNCHANGED <<stored, runs, probes, receipts>> /\ probes = {}
  BY DEF AddAccountOp, refresh
<1> HIDE DEF kept, op
<1>5. OwnLists(kept, receipts)
  BY <1>1, OwnAlike DEF OwnLists, Same, Raceless
<1>6. OwnLists(accountsOps', receipts)
  BY <1>2, <1>3, <1>5 DEF OwnLists, Added
<1> QED
  BY <1>4, <1>6 DEF Raceless, Apart, Strays

\* A refresh that starts while nothing else is in flight aims every probe.
LEMMA StartRaceless ==
    ASSUME Inv, Raceless, NEW r \in Refreshes, StartRefresh(r), ~raced'
    PROVE  Raceless'
<1>1. /\ probes' = NewProbes(r) /\ runs' = runs \cup {r}
      /\ selected \in Accounts
      /\ UNCHANGED <<accountsOps, stored, receipts, unsaved, rejected>>
  BY DEF StartRefresh, memory
<1>2. ASSUME NEW x \in Pending
      PROVE  AimedAt(NewProbe(r, x[1], x[2]), accountsOps)
  <2> DEFINE op == accountsOps[selected][x[1]][x[2]]
  <2>1. x[2] \in DOMAIN accountsOps[selected][x[1]] /\ op.kind # "PrivacyPoolsRelayer"
       /\ op.status = Sent
    BY DEF Pending, NeedsProbe
  <2> QED
    BY <1>1, <2>1 DEF AimedAt, NewProbe, SameOp
<1>3. Apart(NewProbes(r))
  <2>1. \A x, y \in Pending : x[1] = y[1] /\ x[2] = y[2] => x = y
    BY DEF Pending
  <2> QED
    BY <2>1 DEF Apart, NewProbes, NewProbe
<1>4. Strays' = {}
  <2>1. \A p \in NewProbes(r) : p.run = r
    BY DEF NewProbes, NewProbe
  <2> QED
    BY <1>1, <2>1 DEF Strays
<1>5. \A p \in probes' : AimedAt(p, accountsOps')
  BY <1>1, <1>2 DEF NewProbes
<1>6. runs' # {}
  BY <1>1
<1> QED
  BY <1>1, <1>3, <1>4, <1>5, <1>6 DEF Raceless

\* The step of a probe that is aimed leaves the others aimed.
LEMMA AdvanceRaceless ==
    ASSUME Inv, Raceless, NEW p \in probes, ProbeEffect(p)
    PROVE  Raceless'
<1>1. /\ probes \subseteq Probe
      /\ p.acct \in Accounts /\ p.chain \in Chains
      /\ AimedAt(p, accountsOps) /\ p.idx \in DOMAIN accountsOps[p.acct][p.chain]
  BY DEF Inv, GoodRest, Probe, Raceless, AimedAt
<1>2. /\ Same(accountsOps, accountsOps')
      /\ AlikeBut(accountsOps, accountsOps', p.acct, p.chain, p.idx)
      /\ UNCHANGED <<stored, unsaved, receipts>>
      /\ UNCHANGED <<runs, rejected>> \/ rejected' = TRUE
  BY <1>1 DEF ProbeEffect
<1>3. OwnLists(accountsOps', receipts)
  <2>1. OwnOp(accountsOps[p.acct][p.chain][p.idx], receipts)
    BY <1>1 DEF Raceless, OwnLists
  <2>2. OwnOp(accountsOps'[p.acct][p.chain][p.idx], receipts)
    BY <1>1, <2>1 DEF ProbeEffect, Target
  <2> SUFFICES ASSUME NEW a \in Accounts, NEW c \in Chains, NEW i \in DOMAIN accountsOps'[a][c]
               PROVE  OwnOp(accountsOps'[a][c][i], receipts)
    BY DEF OwnLists
  <2>3. CASE a = p.acct /\ c = p.chain /\ i = p.idx
    BY <2>2, <2>3
  <2>4. CASE ~(a = p.acct /\ c = p.chain /\ i = p.idx)
    <3>1. i \in DOMAIN accountsOps[a][c] /\ OwnOp(accountsOps[a][c][i], receipts)
      BY <1>2 DEF Same, Raceless, OwnLists
    <3>2. AlikeOp(accountsOps[a][c][i], accountsOps'[a][c][i])
      BY <1>2, <2>4, <3>1 DEF AlikeBut
    <3> QED
      BY <3>1, <3>2, OwnAlike
  <2> QED
    BY <2>3, <2>4
<1>4. ASSUME NEW q \in probes, q # p
      PROVE  AimedAt(q, accountsOps')
  <2>1. /\ q \in Probe /\ q.acct \in Accounts /\ q.chain \in Chains
        /\ AimedAt(q, accountsOps) /\ q.idx \in DOMAIN accountsOps[q.acct][q.chain]
    BY <1>1 DEF Probe, Raceless, AimedAt
  <2>2. ~(q.acct = p.acct /\ q.chain = p.chain /\ q.idx = p.idx)
    BY <1>4 DEF Raceless, Apart
  <2>3. AlikeOp(accountsOps[q.acct][q.chain][q.idx], accountsOps'[q.acct][q.chain][q.idx])
    BY <1>2, <2>1, <2>2 DEF AlikeBut
  <2> QED
    BY <1>2, <2>1, <2>3, AimedStays DEF AlikeOp
<1>5. (\A q \in probes' : AimedAt(q, accountsOps')) /\ Apart(probes')
  <2>1. CASE Finish(p)
    BY <1>4, <2>1 DEF Finish, Raceless, Apart
  <2>2. ASSUME NEW s \in Stages, MoveTo(p, s),
               s \in {"frontRan", "secondReceipt"} => p.kind = "UserOperation",
               accountsOps'[p.acct][p.chain][p.idx].calls = Target(p).calls,
               accountsOps'[p.acct][p.chain][p.idx].status = Target(p).status
        PROVE  (\A q \in probes' : AimedAt(q, accountsOps')) /\ Apart(probes')
    <3> DEFINE next == [p EXCEPT !.stage = s]
    <3>1. /\ next.run = p.run /\ next.acct = p.acct /\ next.chain = p.chain
          /\ next.idx = p.idx /\ next.id = p.id /\ next.kind = p.kind /\ next.call = p.call
          /\ next.stage = s
      BY <1>1 DEF Probe
    <3>2. probes' = (probes \ {p}) \cup {next}
      BY <2>2 DEF MoveTo
    <3> HIDE DEF next
    <3>3. AimedAt(p, accountsOps')
      BY <1>1, <1>2, <2>2, AimedStays DEF Target, AimedAt
    <3>4. AimedAt(next, accountsOps')
      BY <2>2, <3>1, <3>3 DEF AimedAt, SameOp
    <3>5. Apart(probes')
      BY <3>1, <3>2 DEF Raceless, Apart
    <3> QED
      BY <1>4, <3>2, <3>4, <3>5
  <2> QED
    BY <1>1, <2>1, <2>2 DEF ProbeEffect
<1>6. ~unsaved' => Keeps(stored', accountsOps')
  <2> SUFFICES ASSUME ~unsaved, NEW a \in Accounts, NEW c \in Chains,
                      NEW i \in DOMAIN stored[a][c]
               PROVE  KeptAs(stored[a][c][i], accountsOps'[a][c][i])
    BY <1>2 DEF Keeps, Same, Raceless
  <2>1. i \in DOMAIN accountsOps[a][c] /\ KeptAs(stored[a][c][i], accountsOps[a][c][i])
    BY DEF Raceless, Keeps
  <2>2. SameOp(accountsOps[a][c][i], accountsOps'[a][c][i])
    BY <1>2, <2>1 DEF Same
  <2>3. CASE a = p.acct /\ c = p.chain /\ i = p.idx
    BY <1>1, <2>1, <2>2, <2>3 DEF AimedAt, KeptAs, SameOp
  <2>4. CASE ~(a = p.acct /\ c = p.chain /\ i = p.idx)
    BY <1>2, <2>1, <2>4 DEF AlikeBut, AlikeOp, KeptAs, SameOp
  <2> QED
    BY <2>3, <2>4
<1>7. Strays' # {} => rejected'
  <2>1. \A q \in probes' : q = p \/ q \in probes \/ q.run = p.run
    BY <1>1 DEF ProbeEffect, Finish, MoveTo, Probe
  <2>2. \A q \in probes : q.run \in runs \/ rejected
    BY DEF Raceless, Strays
  <2> QED
    BY <1>2, <2>1, <2>2 DEF Strays
<1>8. runs # {} \/ rejected
  BY DEF Raceless, Strays
<1> QED
  BY <1>2, <1>3, <1>5, <1>6, <1>7, <1>8 DEF Raceless

\* The poll writes to an operation that no probe is aimed at.
LEMMA PollRaceless ==
    ASSUME Inv, Polling, Raceless, NEW a \in Accounts, NEW c \in Chains, NEW i \in Nat,
           NEW status, UpdateAccountOpStatus(a, c, i, status)
    PROVE  Raceless'
<1> DEFINE op == accountsOps[a][c][i]
<1>1. PollEffect(a, c, i)
  BY PollHasEffect
<1>2. /\ i \in DOMAIN accountsOps[a][c] /\ op.txn = polled /\ polled # 0
      /\ Same(accountsOps, accountsOps')
      /\ AlikeBut(accountsOps, accountsOps', a, c, i)
  BY <1>1 DEF PollEffect
<1>3. OwnOp(op, receipts) /\ op.id = polled
  BY <1>2 DEF Raceless, OwnLists, OwnOp
<1>4. op.kind = "PrivacyPoolsRelayer" /\ \A t \in receipts : t.id = polled => t.call = 1
  BY <1>2, <1>3 DEF Polling, PollsOne
<1>5. OwnOp(accountsOps'[a][c][i], receipts)
  BY <1>1, <1>3, <1>4 DEF PollEffect
<1>6. unsaved' = TRUE /\ UNCHANGED <<stored, runs, probes, receipts, rejected>>
  BY DEF UpdateAccountOpStatus, refresh
<1>7. OwnLists(accountsOps', receipts)
  <2> SUFFICES ASSUME NEW b \in Accounts, NEW d \in Chains, NEW j \in DOMAIN accountsOps'[b][d]
               PROVE  OwnOp(accountsOps'[b][d][j], receipts)
    BY DEF OwnLists
  <2>1. CASE b = a /\ d = c /\ j = i
    BY <1>5, <2>1
  <2>2. CASE ~(b = a /\ d = c /\ j = i)
    <3>1. j \in DOMAIN accountsOps[b][d] /\ OwnOp(accountsOps[b][d][j], receipts)
      BY <1>2 DEF Same, Raceless, OwnLists
    <3>2. AlikeOp(accountsOps[b][d][j], accountsOps'[b][d][j])
      BY <1>2, <2>2, <3>1 DEF AlikeBut
    <3> QED
      BY <3>1, <3>2, OwnAlike
  <2> QED
    BY <2>1, <2>2
<1>8. ASSUME NEW q \in probes
      PROVE  AimedAt(q, accountsOps')
  <2>1. /\ q \in Probe /\ q.acct \in Accounts /\ q.chain \in Chains
        /\ AimedAt(q, accountsOps) /\ q.idx \in DOMAIN accountsOps[q.acct][q.chain]
    BY DEF Inv, GoodRest, Probe, Raceless, AimedAt
  <2>2. ~(q.acct = a /\ q.chain = c /\ q.idx = i)
    BY <1>4, <2>1 DEF AimedAt, SameOp
  <2>3. AlikeOp(accountsOps[q.acct][q.chain][q.idx], accountsOps'[q.acct][q.chain][q.idx])
    BY <1>2, <2>1, <2>2 DEF AlikeBut
  <2> QED
    BY <1>2, <2>1, <2>3, AimedStays DEF AlikeOp
<1> QED
  BY <1>6, <1>7, <1>8 DEF Raceless, Strays

\* Removing an account takes its operations away and nothing else.
LEMMA RemoveRaceless ==
    ASSUME Inv, Raceless, NEW a \in Accounts, RemoveAccountData(a), ~raced'
    PROVE  Raceless'
<1>1. /\ unsaved' = TRUE /\ probes = {}
      /\ UNCHANGED <<stored, runs, probes, receipts, rejected>>
      /\ accountsOps' = [accountsOps EXCEPT ![a] = NoOps]
  BY DEF RemoveAccountData, refresh
<1>2. \A b \in Accounts, d \in Chains :
          accountsOps'[b][d] = IF b = a THEN <<>> ELSE accountsOps[b][d]
  BY <1>1 DEF NoOps, Inv, GoodLists, Lists
<1>3. OwnLists(accountsOps', receipts)
  BY <1>2 DEF Raceless, OwnLists
<1> QED
  BY <1>1, <1>3 DEF Raceless, Apart, Strays

\* Closing a banner changes no status.
LEMMA CloseRaceless ==
    ASSUME Inv, Raceless, NEW a \in Accounts, NEW c \in Chains, NEW i \in Nat,
           HideBanner(a, c, i)
    PROVE  Raceless'
<1>1. /\ Same(accountsOps, accountsOps')
      /\ \A b \in Accounts, d \in Chains : \A j \in DOMAIN accountsOps[b][d] :
             AlikeOp(accountsOps[b][d][j], accountsOps'[b][d][j])
  BY CloseEffect
<1>2. unsaved' = TRUE /\ UNCHANGED <<stored, runs, probes, receipts, rejected>>
  BY DEF HideBanner, refresh
<1>3. OwnLists(accountsOps', receipts)
  BY <1>1, OwnAlike DEF Raceless, OwnLists, Same
<1>4. ASSUME NEW q \in probes
      PROVE  AimedAt(q, accountsOps')
  <2>1. /\ q \in Probe /\ q.acct \in Accounts /\ q.chain \in Chains
        /\ AimedAt(q, accountsOps) /\ q.idx \in DOMAIN accountsOps[q.acct][q.chain]
    BY DEF Inv, GoodRest, Probe, Raceless, AimedAt
  <2> QED
    BY <1>1, <2>1, AimedStays DEF AlikeOp
<1> QED
  BY <1>2, <1>3, <1>4 DEF Raceless, Strays

\* A history keeps itself.
LEMMA KeepsItself == \A lists : Keeps(lists, lists)
BY DEF Keeps, KeptAs

\* A refresh ends when none of its probes is left, and stores what it learned.
LEMMA EndRaceless ==
    ASSUME Raceless, NEW r, EndRefresh(r)
    PROVE  Raceless'
<1>1. /\ \A p \in probes : p.run # r
      /\ runs' = runs \ {r} /\ stored' = accountsOps /\ rejected' = (Strays # {})
      /\ UNCHANGED <<accountsOps, probes, receipts>>
  BY DEF EndRefresh, ProbesOf
<1>2. Strays' = Strays
  BY <1>1 DEF Strays
<1> QED
  BY <1>1, <1>2, KeepsItself DEF Raceless

\* What is written to storage, or read from it, was its own before.
LEMMA StoreRaceless ==
    ASSUME Raceless, SaveAccountsOps \/ Restart
    PROVE  Raceless'
<1>1. CASE SaveAccountsOps
  BY <1>1, KeepsItself DEF SaveAccountsOps, Raceless, Strays, memory, refresh
<1>2. CASE Restart
  BY <1>2, KeepsItself DEF Restart, Raceless, Strays, Apart
<1> QED
  BY <1>1, <1>2

\* A race is not forgotten.
LEMMA RaceRemembered ==
    ASSUME Inv, [Next]_vars, raced
    PROVE  raced'
<1> USE DEF memory, refresh
<1>1. ASSUME NEW p \in probes, Advance(p) PROVE raced'
  BY <1>1, AdvanceHasEffect DEF ProbeEffect
<1>2. ASSUME NEW a \in Accounts, UserStep(a) PROVE raced'
  BY <1>2 DEF UserStep, AddAccountOp, RemoveAccountData, FilterAccountsOps, SelectAccount,
              HideBanner
<1>3. ASSUME NEW a \in Accounts, NetworkStep(a) PROVE raced'
  BY <1>3 DEF NetworkStep, UpdateAccountOpStatus, Mine
<1>4. ASSUME NEW r, StartRefresh(r) \/ EndRefresh(r) PROVE raced'
  BY <1>4 DEF StartRefresh, EndRefresh
<1>5. CASE FilterAccountsOps(NoAccount) \/ PollEnds \/ SaveAccountsOps \/ Restart
  BY <1>5 DEF FilterAccountsOps, PollEnds, SaveAccountsOps, Restart
<1> QED
  BY <1>1, <1>2, <1>3, <1>4, <1>5 DEF Next, vars

\* Nothing but a race takes what is own away.
LEMMA StaysRaceless ==
    ASSUME Inv, Polling, Raceless, [Next]_vars, ~raced'
    PROVE  Raceless'
<1> USE DEF memory, refresh
<1>1. 1..MaxItems \subseteq Nat
  BY ActivityAssumption
<1>2. ASSUME NEW a \in Accounts, UserStep(a) PROVE Raceless'
  <2>1. CASE FilterAccountsOps(a) \/ SelectAccount(a)
    BY <2>1, StillRaceless DEF FilterAccountsOps, SelectAccount
  <2>2. ASSUME NEW c \in Chains, NEW i \in 1..MaxItems, HideBanner(a, c, i)
        PROVE  Raceless'
    BY <1>1, <2>2, CloseRaceless
  <2> QED
    BY <1>2, <2>1, <2>2, AddRaceless, RemoveRaceless DEF UserStep
<1>3. ASSUME NEW a \in Accounts, NetworkStep(a) PROVE Raceless'
  <2>1. ASSUME NEW c \in Chains, NEW i \in 1..MaxItems, NEW status,
               UpdateAccountOpStatus(a, c, i, status)
        PROVE  Raceless'
    BY <1>1, <2>1, PollRaceless
  <2>2. ASSUME NEW c, NEW i, NEW call, NEW status, Mine(a, c, i, call, status)
        PROVE  Raceless'
    BY <2>2, StillRaceless DEF Mine
  <2> QED
    BY <1>3, <2>1, <2>2 DEF NetworkStep
<1>4. ASSUME NEW p \in probes, Advance(p) PROVE Raceless'
  BY <1>4, AdvanceHasEffect, AdvanceRaceless
<1>5. CASE FilterAccountsOps(NoAccount) \/ PollEnds \/ UNCHANGED vars
  BY <1>5, StillRaceless DEF FilterAccountsOps, PollEnds, vars
<1> QED
  BY <1>2, <1>3, <1>4, <1>5, StartRaceless, EndRaceless, StoreRaceless DEF Next

\* The invariant of a history without races.
LEMMA RaceInvariant ==
    Spec => []RaceInv
<1>1. Init => RaceInv
  <2> SUFFICES ASSUME Init PROVE RaceInv
    OBVIOUS
  <2>1. HistoryInv
    BY InitHistory
  <2>2. \A a \in Accounts, c \in Chains : DOMAIN accountsOps[a][c] = {}
    BY DEF Init, NoOps
  <2>3. Polling
    BY DEF Init, Polling
  <2>4. Raceless
    BY <2>2, KeepsItself DEF Init, Raceless, OwnLists, Apart, Strays
  <2> QED
    BY <2>1, <2>3, <2>4 DEF RaceInv
<1>2. RaceInv /\ [Next]_vars => RaceInv'
  <2> SUFFICES ASSUME RaceInv, [Next]_vars PROVE RaceInv'
    OBVIOUS
  <2>1. HistoryInv /\ Polling /\ Inv
    BY DEF RaceInv, HistoryInv
  <2>2. HistoryInv' /\ Polling'
    BY <2>1, HistoryInductive, PollingKept
  <2>3. raced => raced'
    BY <2>1, RaceRemembered
  <2>4. ASSUME ~raced' PROVE Raceless'
    BY <2>1, <2>3, <2>4, StaysRaceless DEF RaceInv
  <2> QED
    BY <2>2, <2>4 DEF RaceInv
<1> QED
  BY <1>1, <1>2, PTL DEF Spec

\* Without races the status and the transaction id of every operation are its
\* own, whatever is trimmed, selected, removed or restarted in between.
THEOREM RacelessHistoryIsOwn ==
    Spec => []RacelessStatusIsOwn
<1>1. ASSUME RaceInv, ~raced, NEW a \in Accounts, NEW op \in OpsOf(accountsOps, a)
      PROVE  StatusIsOwn(op) /\ op.txn \in {0, op.id}
  <2>1. OwnOp(op, receipts)
    BY <1>1, OpsOfPlaces DEF RaceInv, Raceless, OwnLists
  <2> QED
    BY <2>1 DEF OwnOp, StatusIsOwn
<1>2. RaceInv => RacelessStatusIsOwn
  BY <1>1 DEF RacelessStatusIsOwn
<1> QED
  BY <1>2, RaceInvariant, PTL

\* Without races a restart loses nothing that a refresh does not find again, and
\* a refresh that ended without a rejection has stored all its answers.
THEOREM QuietHistoryIsKept ==
    Spec => []QuietHistoryIsStored
<1>1. RaceInv => QuietHistoryIsStored
  BY DEF RaceInv, Raceless, QuietHistoryIsStored
<1> QED
  BY <1>1, RaceInvariant, PTL
=============================================================================
