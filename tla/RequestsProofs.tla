-------------------------- MODULE RequestsProofs ---------------------------
(***************************************************************************)
(* Theorems about Requests, for every set of accounts, requests and        *)
(* handlers.                                                               *)
(*                                                                         *)
(* The inductive invariant has five parts: the types, with those of every  *)
(* frame (Typed); the shape of the stacks and their links to the window    *)
(* (Linked); what the actions that handlers hold ask for (AllHeld); what   *)
(* the queued actions ask for (AllAsked); and that the running handler can *)
(* go on (CanGoOn).  Each is an operator of the values it speaks of, so    *)
(* that a lemma about one of them serves every step that replaces a stack. *)
(***************************************************************************)
EXTENDS Requests, FiniteSetTheorems, SequenceTheorems, WellFoundedInduction, TLAPS

-----------------------------------------------------------------------------
(* The helpers on lists *)

\* Every set of naturals has a least element.
LEMMA NatMin ==
    ASSUME NEW T, T \subseteq Nat, T # {}
    PROVE  \E m \in T : \A k \in T : m <= k
<1> DEFINE Below == {0..m : m \in T}
<1>1. \A m \in Nat : IsFiniteSet(0..m)
  BY FS_Interval
<1>2. Below \subseteq FiniteSubsetsOf(Nat) /\ Below # {}
  <2>1. PICK n \in T : n \in Nat
    OBVIOUS
  <2>2. \A m \in T : 0..m \subseteq Nat
    OBVIOUS
  <2> QED
    BY <1>1, <2>1, <2>2 DEF FiniteSubsetsOf
<1>3. PICK b \in Below : \A c \in Below : ~(<<c, b>> \in StrictSubsetOrdering(Nat))
  <2> HIDE DEF Below
  <2> QED BY <1>2, WFMin, FS_StrictSubsetOrderingWellFounded
<1>4. PICK m \in T : b = 0..m
  BY <1>3
<1>5. ASSUME NEW k \in T, k < m PROVE FALSE
  <2>1. 0..k \in Below /\ 0..k # 0..m /\ 0..k \subseteq 0..m
    BY <1>5, <1>4
  <2>2. <<0..k, 0..m>> \in StrictSubsetOrdering(Nat)
    BY <2>1, <1>1 DEF StrictSubsetOrdering
  <2> QED
    BY <2>1, <2>2, <1>3, <1>4
<1> QED
  BY <1>5, <1>4

\* Min of a set of naturals that is not empty is in it.
LEMMA MinIs ==
    ASSUME NEW T, T \subseteq Nat, T # {}
    PROVE  Min(T) \in T
BY NatMin DEF Min

\* IndexOfId finds an item with the id when there is one.
LEMMA IndexIs ==
    ASSUME NEW S, NEW q \in Seq(S), NEW id, HasId(q, id)
    PROVE  /\ IndexOfId(q, id) \in 1..Len(q)
           /\ q[IndexOfId(q, id)].id = id
<1> DEFINE I == {i \in 1..Len(q) : q[i].id = id}
<1>1. I # {} /\ I \subseteq Nat
  BY DEF HasId
<1>2. IndexOfId(q, id) = Min(I)
  BY <1>1 DEF IndexOfId, SelectInSeq
<1>3. Min(I) \in I
  <2> HIDE DEF I
  <2> QED BY <1>1, MinIs
<1> QED
  BY <1>2, <1>3

\* So does WithId.
LEMMA WithIdIs ==
    ASSUME NEW S, NEW q \in Seq(S), NEW id, HasId(q, id)
    PROVE  \E i \in DOMAIN q : WithId(q, id) = q[i] /\ q[i].id = id
BY IndexIs DEF WithId

\* Every place has a rank among the places, and Kth finds it.
LEMMA KthIs ==
    ASSUME NEW n \in Nat, NEW places \in SUBSET (1..n)
    PROVE  /\ Cardinality(places) \in Nat
           /\ \A k \in 1..Cardinality(places) : Kth(places, k) \in places
           /\ \A i \in places : \E k \in 1..Cardinality(places) : Kth(places, k) = i
<1> DEFINE upTo(i) == {j \in places : j <= i}
           rank == [i \in places |-> Cardinality(upTo(i))]
           c == Cardinality(places)
<1>1. IsFiniteSet(1..n)
  BY FS_Interval
<1>2. IsFiniteSet(places) /\ c \in Nat
  BY <1>1, FS_Subset, FS_CardinalityType
<1>3. \A i \in places : IsFiniteSet(upTo(i)) /\ Cardinality(upTo(i)) \in Nat
                        /\ Cardinality(upTo(i)) <= c
  BY <1>2, FS_Subset, FS_CardinalityType
<1>4. \A i \in places : Cardinality(upTo(i)) # 0
  BY <1>3, FS_EmptySet
<1>5. \A i, j \in places : i < j => Cardinality(upTo(i)) # Cardinality(upTo(j))
  <2> SUFFICES ASSUME NEW i \in places, NEW j \in places, i < j
               PROVE  Cardinality(upTo(i)) # Cardinality(upTo(j))
    OBVIOUS
  <2>1. upTo(i) \subseteq upTo(j) /\ j \in upTo(j) /\ j \notin upTo(i)
    <3>1. i \in Nat /\ j \in Nat /\ \A k \in places : k \in Nat
      OBVIOUS
    <3>2. \A k \in places : k <= i => k <= j
      BY <3>1
    <3>3. j <= j /\ ~(j <= i)
      BY <3>1
    <3> HIDE <3>1
    <3> QED BY <3>2, <3>3
  <2>2. upTo(i) # upTo(j)
    BY <2>1
  <2> HIDE DEF upTo
  <2> QED
    BY <2>1, <2>2, <1>3, FS_Subset
<1>6. rank \in [places -> 1..c]
  BY <1>2, <1>3, <1>4
<1>7. \A i, j \in places : i # j => rank[i] # rank[j]
  <2> SUFFICES ASSUME NEW i \in places, NEW j \in places, i # j PROVE rank[i] # rank[j]
    OBVIOUS
  <2>1. i < j \/ j < i
    OBVIOUS
  <2> QED
    BY <2>1, <1>5
<1>8. rank \in Injection(places, 1..c)
  <2> HIDE DEF rank
  <2> QED BY <1>6, <1>7 DEF Injection, IsInjective
<1>9. IsFiniteSet(1..c) /\ Cardinality(1..c) = c
  BY <1>2, FS_Interval
<1>10. rank \in Surjection(places, 1..c)
  <2> HIDE DEF rank, c
  <2>1. IsFiniteSet(1..c) /\ Cardinality(1..c) = Cardinality(places)
    BY <1>9 DEF c
  <2> QED BY <1>8, <2>1, FS_Injection
<1>11. \A k \in 1..c : \E i \in places : rank[i] = k
  <2> HIDE DEF rank
  <2> QED BY <1>10 DEF Surjection
<1>12. \A k \in 1..c : \E i \in places : Cardinality({j \in places : j <= i}) = k
  BY <1>11
<1>13. \A k \in 1..c : Kth(places, k) \in places /\ rank[Kth(places, k)] = k
  BY <1>12 DEF Kth
<1>14. \A i \in places : Kth(places, rank[i]) = i
  <2> HIDE DEF rank
  <2> QED BY <1>6, <1>7, <1>13
<1> QED
  BY <1>2, <1>6, <1>13, <1>14

\* Keep yields a list of exactly the items at the places.
LEMMA KeepIs ==
    ASSUME NEW S, NEW list \in Seq(S), NEW places \in SUBSET DOMAIN list
    PROVE  /\ Keep(list, places) \in Seq(S)
           /\ \A k \in DOMAIN Keep(list, places) :
                 \E i \in places : Keep(list, places)[k] = list[i]
           /\ \A i \in places :
                 \E k \in DOMAIN Keep(list, places) : Keep(list, places)[k] = list[i]
<1> DEFINE c == Cardinality(places)
           kept == Keep(list, places)
<1>1. Len(list) \in Nat /\ places \in SUBSET (1..Len(list))
  OBVIOUS
<1>2. /\ c \in Nat
      /\ \A k \in 1..c : Kth(places, k) \in places
      /\ \A i \in places : \E k \in 1..c : Kth(places, k) = i
  <2> HIDE DEF c
  <2> QED BY <1>1, KthIs DEF c
<1>3. kept = [k \in 1..c |-> list[Kth(places, k)]]
  BY DEF Keep
<1>4. \A k \in 1..c : list[Kth(places, k)] \in S
  BY <1>1, <1>2
<1> HIDE DEF kept, c
<1>5. kept \in [1..c -> S]
  BY <1>3, <1>4
<1>6. kept \in Seq(S)
  BY <1>2, <1>5
<1> QED
  BY <1>2, <1>3, <1>5, <1>6 DEF kept

\* First is one of the items at the places, or None.
LEMMA FirstIs ==
    ASSUME NEW S, NEW list \in Seq(S), NEW places \in SUBSET DOMAIN list
    PROVE  First(list, places) = None \/ \E i \in places : First(list, places) = list[i]
<1>1. CASE places = {}
  BY <1>1 DEF First
<1>2. CASE places # {}
  <2>1. Min(places) \in places
    BY <1>2, MinIs
  <2> QED
    BY <1>2, <2>1 DEF First
<1> QED
  BY <1>1, <1>2

\* RemoveAt keeps the other items.
LEMMA RemoveAtIs ==
    ASSUME NEW S, NEW q \in Seq(S), NEW n \in DOMAIN q
    PROVE  /\ RemoveAt(q, n) \in Seq(S)
           /\ \A i \in DOMAIN q : i # n =>
                 \E k \in DOMAIN RemoveAt(q, n) : RemoveAt(q, n)[k] = q[i]
           /\ \A k \in DOMAIN RemoveAt(q, n) : \E i \in DOMAIN q : RemoveAt(q, n)[k] = q[i]
<1> DEFINE left == SubSeq(q, 1, n - 1)
           right == SubSeq(q, n + 1, Len(q))
           new == left \o right
<1>1. n \in 1..Len(q) /\ Len(q) \in Nat
  OBVIOUS
<1>2. left \in Seq(S) /\ Len(left) = n - 1 /\ \A k \in 1..(n - 1) : left[k] = q[k]
  BY <1>1
<1>3. right \in Seq(S) /\ Len(right) = Len(q) - n /\ \A k \in 1..(Len(q) - n) : right[k] = q[n + k]
  BY <1>1
<1> HIDE DEF left, right
<1>4. new \in Seq(S) /\ Len(new) = Len(q) - 1
  BY <1>1, <1>2, <1>3
<1>5. \A k \in 1..(Len(q) - 1) : new[k] = IF k < n THEN left[k] ELSE right[k - n + 1]
  BY <1>1, <1>2, <1>3
<1> HIDE DEF new
<1>6. \A k \in 1..(Len(q) - 1) : new[k] = IF k < n THEN q[k] ELSE q[k + 1]
  <2> SUFFICES ASSUME NEW k \in 1..(Len(q) - 1)
               PROVE  new[k] = IF k < n THEN q[k] ELSE q[k + 1]
    OBVIOUS
  <2>1. CASE k < n
    BY <2>1, <1>1, <1>2, <1>5
  <2>2. CASE ~(k < n)
    <3>1. k - n + 1 \in 1..(Len(q) - n) /\ n + (k - n + 1) = k + 1
      BY <2>2, <1>1
    <3> QED BY <2>2, <3>1, <1>3, <1>5
  <2> QED BY <2>1, <2>2
<1>7. DOMAIN new = 1..(Len(q) - 1) /\ DOMAIN q = 1..Len(q)
  BY <1>4, <1>1
<1>8. ASSUME NEW i \in DOMAIN q, i # n PROVE \E k \in DOMAIN new : new[k] = q[i]
  <2>1. CASE i < n
    BY <2>1, <1>1, <1>6, <1>7, <1>8
  <2>2. CASE i > n
    <3>1. i - 1 \in 1..(Len(q) - 1) /\ ~(i - 1 < n) /\ (i - 1) + 1 = i
      BY <2>2, <1>1, <1>7
    <3> QED BY <3>1, <1>6, <1>7
  <2> QED BY <2>1, <2>2, <1>1, <1>7, <1>8
<1>9. \A k \in 1..(Len(q) - 1) : \E i \in DOMAIN q : new[k] = q[i]
  BY <1>1, <1>6, <1>7
<1>10. RemoveAt(q, n) = new
  BY DEF RemoveAt, new, left, right
<1> QED
  BY <1>4, <1>7, <1>8, <1>9, <1>10

\* The items of q and a, in some order.
Adds(new, q, a) ==
    /\ \A k \in DOMAIN new : new[k] = a \/ \E i \in DOMAIN q : new[k] = q[i]
    /\ \A i \in DOMAIN q : \E k \in DOMAIN new : new[k] = q[i]
    /\ \E k \in DOMAIN new : new[k] = a

\* Insert adds one item.
LEMMA InsertIs ==
    ASSUME NEW S, NEW q \in Seq(S), NEW a \in S, NEW pos
    PROVE  Insert(q, a, pos) \in Seq(S) /\ Adds(Insert(q, a, pos), q, a)
<1>1. CASE pos = "first"
  <2> DEFINE new == <<a>> \o q
  <2>1. new \in Seq(S) /\ Len(new) = Len(q) + 1 /\ new[1] = a
    OBVIOUS
  <2>2. \A i \in 1..Len(q) : new[i + 1] = q[i]
    OBVIOUS
  <2>3. DOMAIN new = 1..(Len(q) + 1) /\ DOMAIN q = 1..Len(q) /\ Len(q) \in Nat
    BY <2>1
  <2>4. Insert(q, a, pos) = new
    BY <1>1 DEF Insert
  <2> HIDE DEF new
  <2>5. ASSUME NEW k \in DOMAIN new PROVE new[k] = a \/ \E i \in DOMAIN q : new[k] = q[i]
    <3>1. CASE k = 1
      BY <2>1, <3>1
    <3>2. CASE k # 1
      <4>1. k - 1 \in 1..Len(q) /\ (k - 1) + 1 = k
        BY <3>2, <2>3
      <4> QED BY <4>1, <2>2, <2>3
    <3> QED BY <3>1, <3>2
  <2>6. \A i \in DOMAIN q : i + 1 \in DOMAIN new /\ new[i + 1] = q[i]
    BY <2>2, <2>3
  <2>7. 1 \in DOMAIN new
    BY <2>3
  <2>8. Adds(new, q, a)
    BY <2>1, <2>5, <2>6, <2>7 DEF Adds
  <2> QED
    BY <2>1, <2>4, <2>8
<1>2. CASE pos # "first"
  BY <1>2 DEF Insert, Adds
<1> QED
  BY <1>1, <1>2

\* Put puts an item at the place of the one with its id, or adds it.
LEMMA PutIs ==
    ASSUME NEW S, NEW q \in Seq(S), NEW a \in S, NEW pos
    PROVE  /\ Put(q, a, pos) \in Seq(S)
           /\ \A k \in DOMAIN Put(q, a, pos) :
                 Put(q, a, pos)[k] = a \/ \E i \in DOMAIN q : Put(q, a, pos)[k] = q[i]
           /\ \A id : HasId(q, id) => HasId(Put(q, a, pos), id)
<1>1. CASE HasId(q, a.id)
  <2> DEFINE n == IndexOfId(q, a.id)
             new == [q EXCEPT ![n] = a]
  <2>1. n \in 1..Len(q) /\ q[n].id = a.id
    BY <1>1, IndexIs
  <2>2. Put(q, a, pos) = new
    BY <1>1 DEF Put, ReplaceAt
  <2> HIDE DEF n
  <2>3. new \in Seq(S) /\ DOMAIN new = DOMAIN q
    BY <2>1
  <2>4. \A k \in DOMAIN q : new[k] = IF k = n THEN a ELSE q[k]
    BY <2>1
  <2> HIDE DEF new
  <2> QED
    BY <2>1, <2>2, <2>3, <2>4 DEF HasId
<1>2. CASE ~HasId(q, a.id)
  <2>1. Put(q, a, pos) = Insert(q, a, pos)
    BY <1>2 DEF Put
  <2>2. Insert(q, a, pos) \in Seq(S) /\ Adds(Insert(q, a, pos), q, a)
    BY InsertIs
  <2> QED
    BY <2>1, <2>2 DEF HasId, Adds
<1> QED
  BY <1>1, <1>2

-----------------------------------------------------------------------------
(* Types.  A request that asks for something of a dapp is one of Reqs; an      *)
(* action is named after its account when, and only when, it is an account     *)
(* op, and only such an action is shared between a handler and the queue.      *)

Ids == Reqs \cup Accts \cup {SwitchId, BenzinId, OneClickId}
DappTypes == {"signMessage", "dappRequest"}

RequestSet ==
    {r \in [id: Reqs \cup {SwitchId, BenzinId}, kind: Kinds \cup {"benzin", "switch"},
            acct: Accts, asks: Reqs \cup {None}] :
        r.kind \in Kinds => r.id \in Reqs /\ r.kind = Kind[r.id]}
ActionSet ==
    {a \in [id: Ids, type: ActionTypes, acct: Accts, calls: SUBSET Reqs, same: BOOLEAN] :
        /\ (a.id \in Accts) <=> (a.type = "accountOp")
        /\ a.type = "accountOp" => a.id = a.acct
        /\ a.type \in DappTypes => a.id \in Reqs /\ Kind[a.id] # "calls"
        /\ a.same => a.type = "accountOp"}
QueuedSet == {a \in ActionSet : ~a.same}
SignerSet == [action: Accts, calls: SUBSET Reqs]

\* The argument of a frame, by what the frame does.
Position == {"first", "last"}
Execution == {"queue", "queued", "open"}
RemoveArgs == [ids: SUBSET Ids, openNext: BOOLEAN]
UpdateArgs == {f \in [actions: Seq(ActionSet), pos: Position, exec: Execution,
                      skipFocus: BOOLEAN] : f.actions # <<>>}
PutArgs == [actions: Seq(ActionSet), shows: Ids, pos: Position, exec: Execution,
            skipFocus: BOOLEAN]
EachArgs == [reqs: Seq(RequestSet), actions: Seq(ActionSet), pos: Position, exec: Execution,
             skipFocus: BOOLEAN]
MakeArgs == {f \in EachArgs : f.reqs # <<>> /\ f.reqs[1].kind = "calls"}
RemovalArgs == [ids: Seq(Ids), openNext: BOOLEAN, add: Seq(RequestSet),
                actions: Seq(ActionSet), remove: SUBSET Ids]
RejectArgs == [ids: Seq(Ids), openNext: BOOLEAN]

Names == {"close", "focus", "open"}
Bare == {"close", "notify", "noneWait", "state", "next", "unlock", "leaveSwap", "store"}
Frames ==
    UNION {{"await"} \X Seq(Names), {"waiting"} \X Tasks,
           {"open", "focus", "opening", "focusing"} \X BOOLEAN,
           {"popup"} \X [next: {"opening", "focusing"}, reopen: BOOLEAN],
           {"closing", "handleClose"} \X (1..MaxWindows),
           {"onClose"} \X (Nat \ {0}), Bare \X {None},
           {"update"} \X UpdateArgs, {"put"} \X PutArgs, {"remove"} \X RemoveArgs,
           {"guard", "drop"} \X (Reqs \cup {None}),
           {"each"} \X EachArgs, {"fetch", "make"} \X MakeArgs,
           {"removeReqs"} \X RemovalArgs, {"reject"} \X RejectArgs,
           {"settle", "confirm"} \X SUBSET Ids,
           {"build", "built"} \X Reqs, {"select"} \X Accts}

Typed ==
    /\ selected \in Accts
    /\ queue \in Seq(QueuedSet)
    /\ current \in ActionSet \cup {None}
    /\ window \in [id: (1..MaxWindows) \cup {None}, close: Tasks \cup {None},
                   focus: Tasks \cup {None}, open: Tasks \cup {None}]
    /\ windows \in [open: SUBSET (1..MaxWindows), last: 0..MaxWindows]
    /\ windows.open \cup closed \subseteq 1..windows.last
    /\ running \in Tasks \cup {None}
    /\ userRequests \in Seq(RequestSet)
    /\ waiting \in Seq(RequestSet)
    /\ promise \in [Reqs -> Promises]
    /\ timers \subseteq Reqs
    /\ signer \in SignerSet \cup {None}
    /\ signed \in SignerSet \cup {None}
    /\ busy \in {"no", "main", "oneClick"}
    /\ overtaken \in BOOLEAN

-----------------------------------------------------------------------------
(* The other parts of the invariant *)

PromiseOps == {"opening", "focusing", "closing"}
PromiseOp(name) ==
    IF name = "open" THEN "opening" ELSE IF name = "focus" THEN "focusing" ELSE "closing"
TopIs(s, op) == s # <<>> /\ Head(s)[1] = op
TopIn(s, ops) == s # <<>> /\ Head(s)[1] \in ops

\* Only the top frame waits for the browser or for another handler, and a
\* handler that must handle a closed window does nothing before but wait.
Proper(s) ==
    /\ s \in Seq(Frames)
    /\ \A i \in DOMAIN s :
          /\ i > 1 => s[i][1] \notin PromiseOps \cup {"waiting"}
          /\ s[i][1] = "handleClose" =>
                \A j \in DOMAIN s : j < i => s[j][1] \in {"await", "waiting"}

\* A promise of the window is that of a handler at the call that settles it; a
\* handler that waits, waits for one at such a call; a window that is gone is
\* known to be, or some handler is about to handle that.
ByTheirCalls(stk, win) ==
    /\ \A n \in Names : win[n] # None =>
          win[n] \in Tasks /\ TopIs(stk[win[n]], PromiseOp(n))
    /\ \A t \in Tasks : TopIs(stk[t], "waiting") =>
          Head(stk[t])[2] \in Tasks /\ TopIn(stk[Head(stk[t])[2]], PromiseOps)
Closing(stk, w) == \E t \in Tasks : \E i \in DOMAIN stk[t] : stk[t][i] = <<"handleClose", w>>
Tracked(stk, win, open, gone) ==
    win.id # None => win.id \in open \/ win.id \in gone \/ Closing(stk, win.id)
Linked(stk, win, open, gone) ==
    /\ stk \in [Tasks -> Seq(Frames)]
    /\ \A t \in Tasks : Proper(stk[t])
    /\ ByTheirCalls(stk, win)
    /\ Tracked(stk, win, open, gone)

\* What an action asks for is asked for by requests that are listed.
Asked(a, reqs) ==
    /\ a.type = "accountOp" => a.calls \subseteq BatchCalls(reqs, a.acct)
    /\ a.type \in DappTypes => HasId(reqs, a.id)

\* An action in a handler's hand is the queue's, or asks for what is listed.
HeldOK(a, q, reqs, late) ==
    /\ a.same => HasId(q, a.id)
    /\ ~a.same /\ ~late => Asked(a, reqs)
CarriesOK(f, q, reqs, late) ==
    f[1] \in Holders => \A j \in DOMAIN f[2].actions : HeldOK(f[2].actions[j], q, reqs, late)
CarryOK(s, q, reqs, late) == \A i \in DOMAIN s : CarriesOK(s[i], q, reqs, late)
AllHeld(stk, q, reqs, late) == \A t \in Tasks : CarryOK(stk[t], q, reqs, late)

\* The requests that were just removed and whose actions the running handler
\* removes before anybody else is heard.
Going(stk, run) ==
    IF run = None THEN {}
    ELSE IF TopIs(stk[run], "removeReqs") THEN Head(stk[run])[2].remove
    ELSE IF TopIs(stk[run], "remove") THEN Head(stk[run])[2].ids ELSE {}
AllAsked(q, reqs, late, going) ==
    ~late => \A i \in DOMAIN q :
        /\ q[i].type = "accountOp" => q[i].calls \subseteq BatchCalls(reqs, q[i].acct)
        /\ q[i].type \in DappTypes => HasId(reqs, q[i].id) \/ q[i].id \in going

CanGoOn(stk, run) == run # None => stk[run] # <<>> /\ Head(stk[run])[1] \notin Blocking

StackInv == Linked(stack, window, windows.open, closed)
HeldInv == AllHeld(stack, queue, userRequests, overtaken)
AskedInv == AllAsked(queue, userRequests, overtaken, Going(stack, running))
Inv == Typed /\ StackInv /\ HeldInv /\ AskedInv /\ CanGoOn(stack, running)

-----------------------------------------------------------------------------
(* Stacks *)

\* The argument of a frame has the type that its name tells.
LEMMA FrameArgs ==
    ASSUME NEW f \in Frames
    PROVE  /\ f = <<f[1], f[2]>>
           /\ f[1] = "await" => f[2] \in Seq(Names)
           /\ f[1] = "waiting" => f[2] \in Tasks
           /\ f[1] \in {"open", "focus", "opening", "focusing"} => f[2] \in BOOLEAN
           /\ f[1] = "popup" => f[2] \in [next: {"opening", "focusing"}, reopen: BOOLEAN]
           /\ f[1] \in {"closing", "handleClose"} => f[2] \in 1..MaxWindows
           /\ f[1] = "onClose" => f[2] \in Nat \ {0}
           /\ f[1] = "update" => f[2] \in UpdateArgs
           /\ f[1] = "put" => f[2] \in PutArgs
           /\ f[1] = "remove" => f[2] \in RemoveArgs
           /\ f[1] \in {"guard", "drop"} => f[2] \in Reqs \cup {None}
           /\ f[1] = "each" => f[2] \in EachArgs
           /\ f[1] \in {"fetch", "make"} => f[2] \in MakeArgs
           /\ f[1] = "removeReqs" => f[2] \in RemovalArgs
           /\ f[1] = "reject" => f[2] \in RejectArgs
           /\ f[1] \in {"settle", "confirm"} => f[2] \in SUBSET Ids
           /\ f[1] \in {"build", "built"} => f[2] \in Reqs
           /\ f[1] = "select" => f[2] \in Accts
BY DEF Frames, Bare

\* What is below the top of a stack is still there.
Below(s, new) == \A j \in DOMAIN s : j > 1 => \E i \in DOMAIN new : new[i] = s[j]

\* What replaces the top frame of a stack.
LEMMA PushIs ==
    ASSUME NEW F, NEW s \in Seq(F), s # <<>>, NEW fr \in Seq(F)
    PROVE  /\ fr \o Tail(s) \in Seq(F)
           /\ \A i \in DOMAIN (fr \o Tail(s)) :
                 \/ i \in DOMAIN fr /\ (fr \o Tail(s))[i] = fr[i]
                 \/ \E j \in DOMAIN s : /\ j = i - Len(fr) + 1 /\ j > 1
                                        /\ (fr \o Tail(s))[i] = s[j]
           /\ Below(s, fr \o Tail(s))
           /\ fr # <<>> => fr \o Tail(s) # <<>> /\ Head(fr \o Tail(s)) = Head(fr)
           /\ fr \o Tail(s) # <<>> => \/ fr # <<>> /\ Head(fr \o Tail(s)) = Head(fr)
                                      \/ 2 \in DOMAIN s /\ Head(fr \o Tail(s)) = s[2]
<1> DEFINE rest == Tail(s)
           new == fr \o rest
<1>1. Len(s) \in Nat /\ Len(s) > 0 /\ DOMAIN s = 1..Len(s)
  OBVIOUS
<1>2. rest \in Seq(F) /\ Len(rest) = Len(s) - 1 /\ \A i \in 1..(Len(s) - 1) : rest[i] = s[i + 1]
  BY <1>1
<1> HIDE DEF rest
<1>3. Len(fr) \in Nat /\ DOMAIN fr = 1..Len(fr)
  OBVIOUS
<1>4. new \in Seq(F) /\ Len(new) = Len(fr) + (Len(s) - 1)
  <2>1. new \in Seq(F) /\ Len(new) = Len(fr) + Len(rest)
    <3>1. rest \in Seq(F)
      BY <1>2
    <3> QED BY <3>1
  <2> HIDE DEF new
  <2> QED BY <2>1, <1>2
<1>5. DOMAIN new = 1..(Len(fr) + (Len(s) - 1))
  BY <1>4
<1>6. \A i \in DOMAIN new : new[i] = IF i <= Len(fr) THEN fr[i] ELSE rest[i - Len(fr)]
  BY <1>1, <1>2, <1>3, <1>5
<1> HIDE DEF new
<1>7. ASSUME NEW i \in DOMAIN new
      PROVE  \/ i \in DOMAIN fr /\ new[i] = fr[i]
             \/ \E j \in DOMAIN s : j = i - Len(fr) + 1 /\ j > 1 /\ new[i] = s[j]
  <2>1. CASE i <= Len(fr)
    BY <2>1, <1>3, <1>5, <1>6
  <2>2. CASE ~(i <= Len(fr))
    <3> DEFINE k == i - Len(fr)
    <3>1. k \in 1..(Len(s) - 1) /\ k + 1 \in DOMAIN s /\ k + 1 > 1
      BY <2>2, <1>1, <1>3, <1>5
    <3>2. new[i] = s[k + 1]
      BY <2>2, <3>1, <1>2, <1>6
    <3> QED BY <3>1, <3>2
  <2> QED BY <2>1, <2>2
<1>8. ASSUME NEW j \in DOMAIN s, j > 1 PROVE \E i \in DOMAIN new : new[i] = s[j]
  <2> DEFINE i == Len(fr) + j - 1
  <2>1. i \in DOMAIN new /\ ~(i <= Len(fr)) /\ i - Len(fr) = j - 1
    BY <1>1, <1>3, <1>5, <1>8
  <2>2. j - 1 \in 1..(Len(s) - 1) /\ (j - 1) + 1 = j
    BY <1>1, <1>8
  <2>3. new[i] = rest[j - 1]
    BY <2>1, <1>6
  <2> QED BY <2>1, <2>2, <2>3, <1>2
<1>9. new # <<>> => 1 \in DOMAIN new /\ Head(new) = new[1]
  BY <1>4
<1>10. fr # <<>> => 1 \in DOMAIN fr /\ Head(fr) = fr[1] /\ new # <<>>
  BY <1>1, <1>3, <1>4
<1>11. fr # <<>> => Head(new) = Head(fr)
  BY <1>3, <1>6, <1>9, <1>10
<1>12. ASSUME new # <<>>, fr = <<>> PROVE 2 \in DOMAIN s /\ Head(new) = s[2]
  <2>1. Len(fr) = 0
    BY <1>12
  <2>2. PICK j \in DOMAIN s : j = 1 - Len(fr) + 1 /\ new[1] = s[j]
    BY <1>7, <1>9, <1>12, <2>1, <1>3
  <2> QED BY <2>1, <2>2, <1>9, <1>12
<1>13. Below(s, new)
  BY <1>8 DEF Below
<1> QED
  BY <1>4, <1>7, <1>10, <1>11, <1>12, <1>13 DEF new, rest

\* Frames that a step of a handler leaves above the rest of its stack.
Plain(fr) ==
    /\ fr \in Seq(Frames)
    /\ \A i \in DOMAIN fr : fr[i][1] \notin PromiseOps \cup {"waiting", "handleClose"}

\* A handler whose top frame does not wait has no close to handle below that.
LEMMA NothingBelow ==
    ASSUME NEW s, Proper(s), ~TopIn(s, {"await", "waiting"})
    PROVE  \A i \in DOMAIN s : i > 1 => s[i][1] # "handleClose"
<1> SUFFICES ASSUME NEW i \in DOMAIN s, i > 1, s[i][1] = "handleClose" PROVE FALSE
  OBVIOUS
<1>1. s \in Seq(Frames) /\ 1 \in DOMAIN s /\ 1 < i /\ s # <<>> /\ Head(s) = s[1]
  BY DEF Proper
<1>2. s[1][1] \in {"await", "waiting"}
  BY <1>1 DEF Proper
<1> QED BY <1>1, <1>2 DEF TopIn

\* Nor above, when that is not its own frame.
LEMMA NothingToHandle ==
    ASSUME NEW s, Proper(s), ~TopIn(s, {"await", "waiting", "handleClose"})
    PROVE  \A i \in DOMAIN s : s[i][1] # "handleClose"
<1> SUFFICES ASSUME NEW i \in DOMAIN s, s[i][1] = "handleClose" PROVE FALSE
  OBVIOUS
<1>1. s \in Seq(Frames) /\ 1 \in DOMAIN s /\ i >= 1 /\ s # <<>> /\ Head(s) = s[1]
  BY DEF Proper
<1>2. ~TopIn(s, {"await", "waiting"}) /\ i # 1
  BY <1>1 DEF TopIn
<1> QED BY <1>1, <1>2, NothingBelow

\* Pushing such frames keeps the shape of a stack.
LEMMA PushProper ==
    ASSUME NEW s, Proper(s), s # <<>>, ~TopIn(s, {"await", "waiting"}),
           NEW fr, Plain(fr)
    PROVE  Proper(fr \o Tail(s)) /\ ~TopIs(fr \o Tail(s), "waiting")
<1> DEFINE new == fr \o Tail(s)
<1>1. s \in Seq(Frames) /\ fr \in Seq(Frames)
  BY DEF Proper, Plain
<1>2. /\ new \in Seq(Frames)
      /\ \A i \in DOMAIN new :
            \/ i \in DOMAIN fr /\ new[i] = fr[i]
            \/ \E j \in DOMAIN s : j > 1 /\ new[i] = s[j]
  BY <1>1, PushIs
<1> HIDE DEF new
<1>3. \A i \in DOMAIN new : new[i][1] \notin PromiseOps \cup {"waiting", "handleClose"}
  <2> SUFFICES ASSUME NEW i \in DOMAIN new
               PROVE  new[i][1] \notin PromiseOps \cup {"waiting", "handleClose"}
    OBVIOUS
  <2>1. CASE i \in DOMAIN fr /\ new[i] = fr[i]
    BY <2>1 DEF Plain
  <2>2. ASSUME NEW j \in DOMAIN s, j > 1, new[i] = s[j]
        PROVE  new[i][1] \notin PromiseOps \cup {"waiting", "handleClose"}
    BY <2>2, NothingBelow DEF Proper
  <2> QED BY <2>1, <2>2, <1>2
<1>4. Proper(new)
  BY <1>2, <1>3 DEF Proper
<1>5. ~TopIs(new, "waiting")
  <2>1. new # <<>> => 1 \in DOMAIN new /\ Head(new) = new[1]
    BY <1>2
  <2> QED BY <2>1, <1>3 DEF TopIs
<1> QED BY <1>4, <1>5 DEF new

\* Frames alone are a stack.
LEMMA PlainProper ==
    ASSUME NEW fr, Plain(fr)
    PROVE  Proper(fr) /\ ~TopIs(fr, "waiting")
<1>1. Proper(fr)
  BY DEF Plain, Proper
<1>2. fr # <<>> => 1 \in DOMAIN fr /\ Head(fr) = fr[1]
  BY DEF Plain
<1> QED BY <1>1, <1>2 DEF TopIs, Plain

\* A handler that is not at a promise of the window, and has no close to handle,
\* may change its stack.
LEMMA ReplaceLinked ==
    ASSUME NEW stk, NEW win, NEW open, NEW gone, Linked(stk, win, open, gone),
           NEW t \in Tasks,
           ~TopIn(stk[t], PromiseOps \cup {"await", "waiting", "handleClose"}),
           NEW new, Proper(new), ~TopIs(new, "waiting")
    PROVE  Linked([stk EXCEPT ![t] = new], win, open, gone)
<1> DEFINE stk2 == [stk EXCEPT ![t] = new]
<1>1. stk \in [Tasks -> Seq(Frames)] /\ \A u \in Tasks : Proper(stk[u])
  BY DEF Linked
<1>2. stk2 \in [Tasks -> Seq(Frames)] /\ \A u \in Tasks : Proper(stk2[u])
  BY <1>1 DEF Proper
<1>3. \A u \in Tasks : stk2[u] = IF u = t THEN new ELSE stk[u]
  BY <1>1
<1> HIDE DEF stk2
<1>4. ~TopIn(stk[t], PromiseOps) /\ ~TopIn(stk[t], {"await", "waiting", "handleClose"})
  BY DEF TopIn
<1>5. \A n \in Names : ~TopIs(stk[t], PromiseOp(n))
  BY <1>4 DEF TopIn, TopIs, PromiseOp, PromiseOps
<1>6. ByTheirCalls(stk2, win)
  BY <1>3, <1>4, <1>5 DEF ByTheirCalls, Linked
<1>7. \A i \in DOMAIN stk[t] : stk[t][i][1] # "handleClose"
  BY <1>1, <1>4, NothingToHandle
<1>8. ASSUME NEW w, Closing(stk, w) PROVE Closing(stk2, w)
  <2>1. PICK u \in Tasks : \E i \in DOMAIN stk[u] : stk[u][i] = <<"handleClose", w>>
    BY <1>8 DEF Closing
  <2>2. u # t
    BY <2>1, <1>7
  <2> QED BY <2>1, <2>2, <1>3 DEF Closing
<1>9. Tracked(stk2, win, open, gone)
  BY <1>8 DEF Tracked, Linked
<1> QED BY <1>2, <1>6, <1>9 DEF Linked, stk2

\* The step of a handler that replaces its top frame by such frames.
LEMMA PushLinked ==
    ASSUME NEW stk, NEW win, NEW open, NEW gone, Linked(stk, win, open, gone),
           NEW t \in Tasks, stk[t] # <<>>,
           Head(stk[t])[1] \notin PromiseOps \cup {"await", "waiting", "handleClose"},
           NEW fr, Plain(fr)
    PROVE  Linked([stk EXCEPT ![t] = fr \o Tail(@)], win, open, gone)
<1>1. ~TopIn(stk[t], PromiseOps \cup {"await", "waiting", "handleClose"})
      /\ ~TopIn(stk[t], {"await", "waiting"})
  BY DEF TopIn
<1>2. Proper(stk[t]) /\ stk \in [Tasks -> Seq(Frames)]
  BY DEF Linked
<1>3. Proper(fr \o Tail(stk[t])) /\ ~TopIs(fr \o Tail(stk[t]), "waiting")
  BY <1>1, <1>2, PushProper
<1>4. Linked([stk EXCEPT ![t] = fr \o Tail(stk[t])], win, open, gone)
  BY <1>1, <1>3, ReplaceLinked
<1>5. [stk EXCEPT ![t] = fr \o Tail(@)] = [stk EXCEPT ![t] = fr \o Tail(stk[t])]
  BY <1>2
<1> QED BY <1>4, <1>5

\* A free slot is given to a handler.
LEMMA StartLinked ==
    ASSUME NEW stk, NEW win, NEW open, NEW gone, Linked(stk, win, open, gone),
           NEW t \in Tasks, stk[t] = <<>>, NEW fr, Plain(fr)
    PROVE  Linked([stk EXCEPT ![t] = fr], win, open, gone)
BY PlainProper, ReplaceLinked DEF TopIn

\* What a handler carries after it replaced its top frame.
LEMMA PushHeld ==
    ASSUME NEW stk \in [Tasks -> Seq(Frames)], NEW q, NEW reqs, NEW late,
           AllHeld(stk, q, reqs, late),
           NEW t \in Tasks, stk[t] # <<>>, NEW fr \in Seq(Frames), CarryOK(fr, q, reqs, late)
    PROVE  AllHeld([stk EXCEPT ![t] = fr \o Tail(@)], q, reqs, late)
<1> DEFINE new == fr \o Tail(stk[t])
<1>1. \A i \in DOMAIN new :
         \/ i \in DOMAIN fr /\ new[i] = fr[i]
         \/ \E j \in DOMAIN stk[t] : j > 1 /\ new[i] = stk[t][j]
  BY PushIs
<1>2. \A u \in Tasks : [stk EXCEPT ![t] = fr \o Tail(@)][u] = IF u = t THEN new ELSE stk[u]
  OBVIOUS
<1> HIDE DEF new
<1>3. CarryOK(new, q, reqs, late)
  BY <1>1 DEF CarryOK, AllHeld
<1> QED BY <1>2, <1>3 DEF AllHeld

\* What a handler carries when it begins, or ends at once.
LEMMA ReplaceHeld ==
    ASSUME NEW stk \in [Tasks -> Seq(Frames)], NEW q, NEW reqs, NEW late,
           AllHeld(stk, q, reqs, late),
           NEW t \in Tasks, NEW new, CarryOK(new, q, reqs, late)
    PROVE  AllHeld([stk EXCEPT ![t] = new], q, reqs, late)
BY DEF AllHeld

-----------------------------------------------------------------------------
(* Requests, and the actions made of them *)

\* Requests are added, none is removed.
Grows(reqs, more) ==
    /\ \A id : HasId(reqs, id) => HasId(more, id)
    /\ \A a : BatchCalls(reqs, a) \subseteq BatchCalls(more, a)
\* No account op leaves the queue.
KeepsOps(q, q2) == \A a \in Accts : HasId(q, a) => HasId(q2, a)

\* The calls of a batch are requests.
LEMMA BatchIs ==
    ASSUME NEW reqs \in Seq(RequestSet), NEW a
    PROVE  BatchCalls(reqs, a) \subseteq Reqs
BY DEF BatchCalls, RequestSet, Kinds

\* A list grows by what is inserted.
LEMMA InsertGrows ==
    ASSUME NEW reqs \in Seq(RequestSet), NEW r \in RequestSet, NEW pos
    PROVE  Grows(reqs, Insert(reqs, r, pos))
<1>1. Adds(Insert(reqs, r, pos), reqs, r)
  BY InsertIs
<1> QED BY <1>1 DEF Adds, Grows, HasId, BatchCalls

\* What asked for other things than a request still does when that is removed.
LEMMA RemoveAsked ==
    ASSUME NEW reqs \in Seq(RequestSet), NEW n \in DOMAIN reqs, NEW a, Asked(a, reqs),
           a.type = "accountOp" => reqs[n].id \notin a.calls,
           a.type \in DappTypes => reqs[n].id # a.id
    PROVE  Asked(a, RemoveAt(reqs, n))
<1>1. \A i \in DOMAIN reqs : i # n =>
         \E k \in DOMAIN RemoveAt(reqs, n) : RemoveAt(reqs, n)[k] = reqs[i]
  BY RemoveAtIs
<1>2. a.type = "accountOp" => a.calls \subseteq BatchCalls(RemoveAt(reqs, n), a.acct)
  <2> SUFFICES ASSUME a.type = "accountOp", NEW c \in a.calls
               PROVE  c \in BatchCalls(RemoveAt(reqs, n), a.acct)
    OBVIOUS
  <2>1. PICK j \in DOMAIN reqs : reqs[j].id = c /\ reqs[j].kind = "calls" /\ reqs[j].acct = a.acct
    BY DEF Asked, BatchCalls
  <2>2. j # n
    BY <2>1
  <2> QED BY <2>1, <2>2, <1>1 DEF BatchCalls
<1>3. a.type \in DappTypes => HasId(RemoveAt(reqs, n), a.id)
  BY <1>1 DEF Asked, HasId
<1> QED BY <1>2, <1>3 DEF Asked

\* Rebatch changes the calls of one account's op, to what is listed.
LEMMA RebatchIs ==
    ASSUME NEW q \in Seq(QueuedSet), NEW reqs \in Seq(RequestSet), NEW a \in Accts
    PROVE  /\ Rebatch(q, reqs, a) \in Seq(QueuedSet)
           /\ DOMAIN Rebatch(q, reqs, a) = DOMAIN q
           /\ \A i \in DOMAIN q :
                 /\ Rebatch(q, reqs, a)[i].id = q[i].id
                 /\ Rebatch(q, reqs, a)[i].type = q[i].type
                 /\ Rebatch(q, reqs, a)[i].acct = q[i].acct
                 /\ Rebatch(q, reqs, a)[i].calls =
                       IF q[i].id = a THEN BatchCalls(reqs, a) ELSE q[i].calls
           /\ \A id : HasId(Rebatch(q, reqs, a), id) <=> HasId(q, id)
<1> DEFINE new == Rebatch(q, reqs, a)
           item(i) == IF q[i].id = a THEN [q[i] EXCEPT !.calls = BatchCalls(reqs, a)] ELSE q[i]
<1>1. new = [i \in DOMAIN q |-> item(i)]
  BY DEF Rebatch
<1>2. BatchCalls(reqs, a) \subseteq Reqs
  BY BatchIs
<1>3. ASSUME NEW i \in DOMAIN q
      PROVE  /\ item(i) \in QueuedSet
             /\ item(i).id = q[i].id /\ item(i).type = q[i].type /\ item(i).acct = q[i].acct
             /\ item(i).calls = IF q[i].id = a THEN BatchCalls(reqs, a) ELSE q[i].calls
  <2>1. q[i] \in QueuedSet
    OBVIOUS
  <2> QED BY <2>1, <1>2 DEF QueuedSet, ActionSet
<1> HIDE DEF item, new
<1>4. DOMAIN q = 1..Len(q) /\ Len(q) \in Nat
  OBVIOUS
<1>5. new \in Seq(QueuedSet)
  BY <1>1, <1>3, <1>4
<1> QED BY <1>1, <1>3, <1>5 DEF HasId, new

\* Going may only excuse more.
LEMMA AskedMore ==
    ASSUME NEW q, NEW reqs, NEW late, NEW going, NEW more,
           AllAsked(q, reqs, late, going), going \subseteq more
    PROVE  AllAsked(q, reqs, late, more)
BY DEF AllAsked

\* The actions of a handler's frames.
LEMMA HolderArgs ==
    ASSUME NEW f \in Frames, f[1] \in Holders
    PROVE  f[2].actions \in Seq(ActionSet)
BY FrameArgs DEF Holders, UpdateArgs, PutArgs, EachArgs, MakeArgs, RemovalArgs

\* What is held stays asked for when requests are added and no op leaves the queue.
LEMMA HeldGrows ==
    ASSUME NEW stk \in [Tasks -> Seq(Frames)], NEW q, NEW reqs, NEW late,
           AllHeld(stk, q, reqs, late), NEW q2, NEW more, KeepsOps(q, q2), Grows(reqs, more)
    PROVE  AllHeld(stk, q2, more, late)
<1> SUFFICES ASSUME NEW t \in Tasks, NEW i \in DOMAIN stk[t], stk[t][i][1] \in Holders,
                    NEW j \in DOMAIN stk[t][i][2].actions
             PROVE  HeldOK(stk[t][i][2].actions[j], q2, more, late)
  BY DEF AllHeld, CarryOK, CarriesOK
<1> DEFINE a == stk[t][i][2].actions[j]
<1>1. a \in ActionSet
  <2>1. stk[t][i] \in Frames
    OBVIOUS
  <2> QED BY <2>1, HolderArgs
<1>2. HeldOK(a, q, reqs, late)
  BY DEF AllHeld, CarryOK, CarriesOK
<1> HIDE DEF a
<1>3. a.same => a.id \in Accts
  BY <1>1 DEF ActionSet
<1>4. HeldOK(a, q2, more, late)
  BY <1>2, <1>3 DEF HeldOK, Asked, Grows, KeepsOps
<1> QED BY <1>4 DEF a

\* What is held stays asked for when a request is removed, or that is recorded
\* in the history.
LEMMA HeldRemoves ==
    ASSUME stack \in [Tasks -> Seq(Frames)], NEW q, NEW reqs \in Seq(RequestSet), NEW late,
           AllHeld(stack, q, reqs, late), NEW n \in DOMAIN reqs
    PROVE  /\ late \in BOOLEAN =>
                 AllHeld(stack, q, RemoveAt(reqs, n), late \/ HeldElsewhere(reqs[n].id))
           /\ reqs[n].id \notin Reqs => AllHeld(stack, q, RemoveAt(reqs, n), late)
<1> DEFINE ok(a, late2) == HeldOK(a, q, RemoveAt(reqs, n), late2)
<1> SUFFICES ASSUME NEW t \in Tasks, NEW i \in DOMAIN stack[t], stack[t][i][1] \in Holders,
                    NEW j \in DOMAIN stack[t][i][2].actions
             PROVE  /\ late \in BOOLEAN => ok(stack[t][i][2].actions[j],
                                              late \/ HeldElsewhere(reqs[n].id))
                    /\ reqs[n].id \notin Reqs => ok(stack[t][i][2].actions[j], late)
  BY DEF AllHeld, CarryOK, CarriesOK
<1> DEFINE a == stack[t][i][2].actions[j]
<1>1. a \in ActionSet
  <2>1. stack[t][i] \in Frames
    OBVIOUS
  <2> QED BY <2>1, HolderArgs
<1>2. HeldOK(a, q, reqs, late)
  BY DEF AllHeld, CarryOK, CarriesOK
<1>3. ~a.same /\ reqs[n].id \in {a.id} \cup a.calls => HeldElsewhere(reqs[n].id)
  BY DEF HeldElsewhere
<1> HIDE DEF a
<1>4. reqs[n].id \notin Reqs =>
         reqs[n].id \notin a.calls /\ (a.type \in DappTypes => reqs[n].id # a.id)
  BY <1>1 DEF ActionSet
<1>5. Asked(a, reqs) /\ reqs[n].id \notin a.calls /\ (a.type \in DappTypes => reqs[n].id # a.id)
      => Asked(a, RemoveAt(reqs, n))
  BY RemoveAsked
<1>6. late \in BOOLEAN => ok(a, late \/ HeldElsewhere(reqs[n].id))
  <2> HIDE DEF HeldElsewhere
  <2> QED BY <1>2, <1>3, <1>5 DEF HeldOK
<1>7. reqs[n].id \notin Reqs => ok(a, late)
  BY <1>2, <1>4, <1>5 DEF HeldOK
<1> QED BY <1>6, <1>7 DEF a

\* What a handler holds as the queue's is the queue's account op.
LEMMA HeldIs ==
    ASSUME queue \in Seq(QueuedSet), NEW reqs, NEW late, NEW going,
           AllAsked(queue, reqs, late, going),
           NEW a \in ActionSet, HeldOK(a, queue, reqs, late)
    PROVE  /\ Held(a) \in QueuedSet
           /\ Held(a).id = a.id
           /\ ~late => Asked(Held(a), reqs)
<1>1. CASE ~a.same
  BY <1>1 DEF Held, HeldOK, QueuedSet
<1>2. CASE a.same
  <2>1. HasId(queue, a.id) /\ a.id \in Accts
    BY <1>2 DEF HeldOK, ActionSet
  <2>2. PICK i \in DOMAIN queue : WithId(queue, a.id) = queue[i] /\ queue[i].id = a.id
    BY <2>1, WithIdIs
  <2>3. Held(a) = queue[i] /\ queue[i] \in QueuedSet
    BY <1>2, <2>2 DEF Held
  <2>4. queue[i].type = "accountOp"
    BY <2>1, <2>2, <2>3 DEF QueuedSet, ActionSet
  <2>5. ~late => queue[i].calls \subseteq BatchCalls(reqs, queue[i].acct)
    BY <2>4 DEF AllAsked
  <2> QED BY <2>2, <2>3, <2>4, <2>5 DEF Asked, DappTypes
<1> QED BY <1>1, <1>2

\* Letting go of the queue's actions changes only what frames hold.
LEMMA FreedIs ==
    ASSUME queue \in Seq(QueuedSet), NEW reqs, NEW late, NEW going,
           AllAsked(queue, reqs, late, going),
           NEW f \in Frames, CarriesOK(f, queue, reqs, late), NEW ids
    PROVE  /\ Freed(f, ids) \in Frames
           /\ Freed(f, ids)[1] = f[1]
           /\ f[1] = "handleClose" \/ f[1] = "waiting" => Freed(f, ids) = f
           /\ f[1] \in Holders =>
                 /\ DOMAIN Freed(f, ids)[2].actions = DOMAIN f[2].actions
                 /\ \A j \in DOMAIN f[2].actions :
                       Freed(f, ids)[2].actions[j] = LetGo(f[2].actions[j], ids)
           /\ f[1] = "removeReqs" => Freed(f, ids)[2].remove = f[2].remove
           /\ f[1] = "remove" => Freed(f, ids) = f
<1>1. CASE f[1] \notin Holders
  BY <1>1 DEF Freed, Holders
<1>2. CASE f[1] \in Holders
  <2> DEFINE acts == f[2].actions
             new == [i \in DOMAIN acts |-> LetGo(acts[i], ids)]
             arg == [f[2] EXCEPT !.actions = new]
  <2>1. acts \in Seq(ActionSet)
    BY <1>2, HolderArgs
  <2>2. f = <<f[1], f[2]>>
    BY FrameArgs
  <2>3. Freed(f, ids) = <<f[1], arg>>
    BY <1>2, <2>2 DEF Freed
  <2>4. ASSUME NEW i \in DOMAIN acts PROVE LetGo(acts[i], ids) \in ActionSet
    <3>1. acts[i] \in ActionSet /\ HeldOK(acts[i], queue, reqs, late)
      BY <2>1, <1>2 DEF CarriesOK
    <3>2. Held(acts[i]) \in QueuedSet
      BY <3>1, HeldIs
    <3> QED BY <3>1, <3>2 DEF LetGo, QueuedSet
  <2>5. new \in Seq(ActionSet) /\ DOMAIN new = DOMAIN acts /\ (acts # <<>> => new # <<>>)
    <3>1. DOMAIN acts = 1..Len(acts) /\ Len(acts) \in Nat
      BY <2>1
    <3>2. new \in [1..Len(acts) -> ActionSet]
      BY <2>4, <3>1
    <3>3. new \in Seq(ActionSet) /\ Len(new) = Len(acts)
      <4> HIDE DEF new
      <4> QED BY <3>1, <3>2, LenProperties
    <3>4. acts # <<>> => Len(acts) # 0
      BY <2>1
    <3> HIDE DEF new
    <3> QED BY <3>1, <3>2, <3>3, <3>4
  <2>6. \A j \in DOMAIN acts : new[j] = LetGo(acts[j], ids)
    OBVIOUS
  <2> HIDE DEF new
  <2>7. CASE f[1] = "update"
    <3>1. f[2] \in UpdateArgs
      BY <2>7, FrameArgs
    <3>2. arg \in UpdateArgs /\ arg.actions = new
      BY <3>1, <2>5 DEF UpdateArgs
    <3> HIDE DEF arg
    <3> QED BY <2>3, <2>5, <2>6, <2>7, <3>2 DEF Frames
  <2>8. CASE f[1] = "put"
    <3>1. f[2] \in PutArgs
      BY <2>8, FrameArgs
    <3>2. arg \in PutArgs /\ arg.actions = new
      BY <3>1, <2>5 DEF PutArgs
    <3> HIDE DEF arg
    <3> QED BY <2>3, <2>5, <2>6, <2>8, <3>2 DEF Frames
  <2>9. CASE f[1] = "each"
    <3>1. f[2] \in EachArgs
      BY <2>9, FrameArgs
    <3>2. arg \in EachArgs /\ arg.actions = new
      BY <3>1, <2>5 DEF EachArgs
    <3> HIDE DEF arg
    <3> QED BY <2>3, <2>5, <2>6, <2>9, <3>2 DEF Frames
  <2>10. CASE f[1] \in {"fetch", "make"}
    <3>1. f[2] \in MakeArgs
      BY <2>10, FrameArgs
    <3>2. arg \in MakeArgs /\ arg.actions = new
      BY <3>1, <2>5 DEF MakeArgs, EachArgs
    <3> HIDE DEF arg
    <3>3. <<f[1], arg>> \in Frames
      BY <2>10, <3>2 DEF Frames
    <3> QED BY <2>3, <2>5, <2>6, <2>10, <3>2, <3>3
  <2>11. CASE f[1] = "removeReqs"
    <3>1. f[2] \in RemovalArgs
      BY <2>11, FrameArgs
    <3>2. arg \in RemovalArgs /\ arg.actions = new /\ arg.remove = f[2].remove
      BY <3>1, <2>5 DEF RemovalArgs
    <3> HIDE DEF arg
    <3> QED BY <2>3, <2>5, <2>6, <2>11, <3>2 DEF Frames
  <2> QED BY <1>2, <2>7, <2>8, <2>9, <2>10, <2>11 DEF Holders
<1> QED BY <1>1, <1>2

\* What a handler holds after the queue's actions with some ids were let go.
LEMMA FreedHeld ==
    ASSUME queue \in Seq(QueuedSet), NEW reqs, NEW late, NEW going,
           AllAsked(queue, reqs, late, going),
           NEW f \in Frames, CarriesOK(f, queue, reqs, late), NEW ids,
           NEW q2, \A a \in Accts \ ids : HasId(queue, a) => HasId(q2, a)
    PROVE  CarriesOK(Freed(f, ids), q2, reqs, late)
<1> SUFFICES ASSUME f[1] \in Holders, NEW j \in DOMAIN f[2].actions
             PROVE  HeldOK(LetGo(f[2].actions[j], ids), q2, reqs, late)
  BY FreedIs DEF CarriesOK
<1> DEFINE a == f[2].actions[j]
<1>1. a \in ActionSet /\ HeldOK(a, queue, reqs, late)
  BY HolderArgs DEF CarriesOK
<1> HIDE DEF a
<1>2. Held(a) \in QueuedSet /\ (~late => Asked(Held(a), reqs))
  BY <1>1, HeldIs
<1>3. ASSUME a.id \in ids PROVE HeldOK(LetGo(a, ids), q2, reqs, late)
  <2>1. LetGo(a, ids) = Held(a)
    BY <1>3 DEF LetGo
  <2>2. ~Held(a).same
    BY <1>2 DEF QueuedSet
  <2> QED BY <1>2, <2>1, <2>2 DEF HeldOK
<1>4. ASSUME a.id \notin ids PROVE HeldOK(LetGo(a, ids), q2, reqs, late)
  <2>1. LetGo(a, ids) = a
    BY <1>4 DEF LetGo
  <2>2. a.same => a.id \in Accts \ ids
    BY <1>1, <1>4 DEF ActionSet
  <2>3. a.same => HasId(q2, a.id)
    BY <1>1, <2>2 DEF HeldOK
  <2> QED BY <1>1, <2>1, <2>3 DEF HeldOK
<1>5. HeldOK(LetGo(a, ids), q2, reqs, late)
  BY <1>3, <1>4
<1> QED BY <1>5 DEF a

\* Frames may change what they hold.
LEMMA MapLinked ==
    ASSUME NEW stk, NEW win, NEW open, NEW gone, Linked(stk, win, open, gone),
           NEW stk2 \in [Tasks -> Seq(Frames)],
           \A u \in Tasks :
              /\ DOMAIN stk2[u] = DOMAIN stk[u]
              /\ \A i \in DOMAIN stk[u] :
                    /\ stk2[u][i][1] = stk[u][i][1]
                    /\ stk[u][i][1] \in {"handleClose", "waiting"} => stk2[u][i] = stk[u][i]
    PROVE  Linked(stk2, win, open, gone)
<1>1. stk \in [Tasks -> Seq(Frames)] /\ \A u \in Tasks : Proper(stk[u])
  BY DEF Linked
<1>2. \A u \in Tasks : Proper(stk2[u])
  BY <1>1 DEF Proper
<1>3. \A u \in Tasks :
         /\ stk2[u] # <<>> <=> stk[u] # <<>>
         /\ stk[u] # <<>> => /\ Head(stk2[u])[1] = Head(stk[u])[1]
                             /\ Head(stk[u])[1] = "waiting" => Head(stk2[u]) = Head(stk[u])
  <2> SUFFICES ASSUME NEW u \in Tasks
               PROVE  /\ stk2[u] # <<>> <=> stk[u] # <<>>
                      /\ stk[u] # <<>> =>
                            /\ Head(stk2[u])[1] = Head(stk[u])[1]
                            /\ Head(stk[u])[1] = "waiting" => Head(stk2[u]) = Head(stk[u])
    OBVIOUS
  <2>1. stk[u] \in Seq(Frames) /\ stk2[u] \in Seq(Frames)
    BY <1>1
  <2>2. stk[u] # <<>> => 1 \in DOMAIN stk[u] /\ Head(stk[u]) = stk[u][1]
    BY <2>1
  <2>3. stk2[u] # <<>> => 1 \in DOMAIN stk2[u] /\ Head(stk2[u]) = stk2[u][1]
    BY <2>1
  <2>4. stk[u] = <<>> => DOMAIN stk[u] = {}
    BY <2>1
  <2>5. stk2[u] = <<>> => DOMAIN stk2[u] = {}
    BY <2>1
  <2> QED BY <2>2, <2>3, <2>4, <2>5
<1>4. ByTheirCalls(stk, win) => ByTheirCalls(stk2, win)
  BY <1>3 DEF ByTheirCalls, TopIs, TopIn
<1>5. \A w : Closing(stk, w) => Closing(stk2, w)
  BY DEF Closing
<1> QED BY <1>2, <1>4, <1>5 DEF Linked, Tracked

\* All of that for all stacks.
LEMMA FreedAllIs ==
    ASSUME queue \in Seq(QueuedSet), NEW reqs, NEW late, NEW going,
           AllAsked(queue, reqs, late, going),
           NEW stk, NEW win, NEW open, NEW gone, Linked(stk, win, open, gone),
           AllHeld(stk, queue, reqs, late), NEW ids,
           NEW q2, \A a \in Accts \ ids : HasId(queue, a) => HasId(q2, a)
    PROVE  /\ Linked(FreedAll(stk, ids), win, open, gone)
           /\ AllHeld(FreedAll(stk, ids), q2, reqs, late)
           /\ \A u \in Tasks : stk[u] # <<>> =>
                 FreedAll(stk, ids)[u] # <<>> /\ Head(FreedAll(stk, ids)[u])[1] = Head(stk[u])[1]
           /\ \A u \in Tasks : TopIs(stk[u], "remove") =>
                 Head(FreedAll(stk, ids)[u]) = Head(stk[u])
<1> DEFINE stk2 == FreedAll(stk, ids)
<1>1. stk \in [Tasks -> Seq(Frames)]
  BY DEF Linked
<1>2. \A u \in Tasks : stk2[u] = [i \in DOMAIN stk[u] |-> Freed(stk[u][i], ids)]
  BY DEF FreedAll
<1>3. ASSUME NEW u \in Tasks, NEW i \in DOMAIN stk[u]
      PROVE  /\ Freed(stk[u][i], ids) \in Frames
             /\ Freed(stk[u][i], ids)[1] = stk[u][i][1]
             /\ stk[u][i][1] \in {"handleClose", "waiting", "remove"} =>
                   Freed(stk[u][i], ids) = stk[u][i]
             /\ CarriesOK(Freed(stk[u][i], ids), q2, reqs, late)
  <2>1. stk[u][i] \in Frames /\ CarriesOK(stk[u][i], queue, reqs, late)
    BY <1>1 DEF AllHeld, CarryOK
  <2> QED BY <2>1, FreedIs, FreedHeld
<1>4. ASSUME NEW u \in Tasks PROVE stk2[u] \in Seq(Frames) /\ DOMAIN stk2[u] = DOMAIN stk[u]
  <2>1. DOMAIN stk[u] = 1..Len(stk[u]) /\ Len(stk[u]) \in Nat
    BY <1>1
  <2>2. stk2[u] \in [1..Len(stk[u]) -> Frames]
    BY <2>1, <1>2, <1>3
  <2> HIDE DEF stk2
  <2> QED BY <2>1, <2>2
<1>5. stk2 \in [Tasks -> Seq(Frames)]
  <2>1. stk2 = [u \in Tasks |-> stk2[u]]
    BY DEF FreedAll
  <2> HIDE DEF stk2
  <2> QED BY <2>1, <1>4
<1> HIDE DEF stk2
<1>6. \A u \in Tasks : \A i \in DOMAIN stk[u] : stk2[u][i] = Freed(stk[u][i], ids)
  BY <1>2
<1>7. Linked(stk2, win, open, gone)
  BY <1>3, <1>4, <1>5, <1>6, MapLinked
<1>8. AllHeld(stk2, q2, reqs, late)
  BY <1>3, <1>4, <1>6 DEF AllHeld, CarryOK
<1>9. ASSUME NEW u \in Tasks, stk[u] # <<>>
      PROVE  /\ stk2[u] # <<>> /\ Head(stk2[u])[1] = Head(stk[u])[1]
             /\ TopIs(stk[u], "remove") => Head(stk2[u]) = Head(stk[u])
  <2>1. 1 \in DOMAIN stk[u] /\ Head(stk[u]) = stk[u][1]
    BY <1>1, <1>9
  <2>2. 1 \in DOMAIN stk2[u] /\ stk2[u] \in Seq(Frames)
    BY <2>1, <1>4
  <2>3. stk2[u] # <<>> /\ Head(stk2[u]) = stk2[u][1]
    BY <2>2
  <2> QED BY <2>1, <2>3, <1>3, <1>6 DEF TopIs
<1> QED BY <1>7, <1>8, <1>9 DEF stk2, TopIs

-----------------------------------------------------------------------------
(* Steps.  The parts of the invariant other than the types: *)

Rest == StackInv /\ HeldInv /\ AskedInv /\ CanGoOn(stack, running)

\* What stays when a step is about other things than the window and its events,
\* the queue and the requests.
Calm == UNCHANGED <<queue, window, windows, closed, userRequests, overtaken>>

Waits == PromiseOps \cup {"await", "waiting", "handleClose"}

\* The handler whose turn it is.
LEMMA TurnIs ==
    ASSUME Inv, NEW t \in Tasks, NEW op, Turn(t, op)
    PROVE  /\ stack[t] # <<>> /\ stack[t] \in Seq(Frames)
           /\ Head(stack[t]) \in Frames
           /\ Head(stack[t])[1] = op
           /\ Arg(t) = Head(stack[t])[2]
           /\ CarriesOK(Head(stack[t]), queue, userRequests, overtaken)
           /\ running \in {t, None}
           /\ op \notin {"removeReqs", "remove"} => Going(stack, running) = {}
<1>1. stack[t] # <<>> /\ Head(stack[t])[1] = op /\ running \in {t, None}
  BY DEF Turn, At, Idle, TopOp
<1>2. stack[t] \in Seq(Frames)
  BY DEF Inv, StackInv, Linked
<1>3. 1 \in DOMAIN stack[t] /\ Head(stack[t]) = stack[t][1]
  BY <1>1, <1>2
<1>4. CarriesOK(Head(stack[t]), queue, userRequests, overtaken)
  BY <1>3 DEF Inv, HeldInv, AllHeld, CarryOK
<1>5. op \notin {"removeReqs", "remove"} => Going(stack, running) = {}
  BY <1>1 DEF Going, TopIs
<1> QED BY <1>1, <1>2, <1>3, <1>4, <1>5 DEF Arg

\* When the browser is heard, no handler can go on.
LEMMA QuietIs ==
    ASSUME Inv, Quiet
    PROVE  running = None /\ Going(stack, running) = {}
<1>1. running = None
  BY DEF Inv, Typed, CanGoOn, Quiet, Ready, Idle, TopOp
<1> QED BY <1>1 DEF Going

\* A handler replaces its top frame.
LEMMA BecomeStep ==
    ASSUME Inv, NEW t \in Tasks, NEW op, Turn(t, op), op \notin Waits,
           NEW fr, Plain(fr), Become(t, fr)
    PROVE  /\ Linked(stack', window, windows.open, closed)
           /\ \A q, reqs, late :
                 AllHeld(stack, q, reqs, late) /\ CarryOK(fr, q, reqs, late)
                    => AllHeld(stack', q, reqs, late)
           /\ CanGoOn(stack', running')
           /\ running' \in Tasks \cup {None}
           /\ fr # <<>> => stack'[t] # <<>> /\ Head(stack'[t]) = Head(fr)
           /\ running' \in {t, None}
<1>1. /\ stack[t] # <<>> /\ stack[t] \in Seq(Frames)
      /\ Head(stack[t])[1] \notin Waits
  BY TurnIs
<1>2. stack' = [stack EXCEPT ![t] = fr \o Tail(@)]
  BY DEF Become, Replaced
<1>3. Linked(stack, window, windows.open, closed)
  BY DEF Inv, StackInv
<1>4. Linked(stack', window, windows.open, closed)
  BY <1>1, <1>2, <1>3, PushLinked DEF Waits
<1>5. stack \in [Tasks -> Seq(Frames)] /\ fr \in Seq(Frames)
  BY <1>3 DEF Linked, Plain
<1>6. \A q, reqs, late :
         AllHeld(stack, q, reqs, late) /\ CarryOK(fr, q, reqs, late)
            => AllHeld(stack', q, reqs, late)
  BY <1>1, <1>2, <1>5, PushHeld
<1>7. stack'[t] = fr \o Tail(stack[t])
  BY <1>2, <1>5
<1>8. fr # <<>> => stack'[t] # <<>> /\ Head(stack'[t]) = Head(fr)
  BY <1>1, <1>5, <1>7, PushIs
<1>9. running' = IF fr # <<>> /\ Head(fr)[1] \notin Blocking THEN t ELSE None
  BY DEF Become, Runs
<1>10. CanGoOn(stack', running')
  BY <1>8, <1>9 DEF CanGoOn
<1> QED BY <1>4, <1>6, <1>8, <1>9, <1>10

\* The queue is asked for when nothing of it changes.
LEMMA CalmAsked ==
    ASSUME Inv, Going(stack, running) = {}, Calm
    PROVE  AskedInv'
<1>1. AllAsked(queue, userRequests, overtaken, {})
  BY DEF Inv, AskedInv
<1>2. AllAsked(queue', userRequests', overtaken', {})
  BY <1>1 DEF Calm
<1>3. AllAsked(queue', userRequests', overtaken', Going(stack', running'))
  BY <1>2, AskedMore
<1> QED BY <1>3 DEF AskedInv

\* A handler replaces its top frame, and nothing else happens to what the
\* invariant relates.
LEMMA CalmStep ==
    ASSUME Inv, NEW t \in Tasks, NEW op, Turn(t, op),
           op \notin Waits \cup {"removeReqs", "remove"},
           NEW fr, Plain(fr), CarryOK(fr, queue, userRequests, overtaken), Become(t, fr), Calm
    PROVE  Rest' /\ running' \in Tasks \cup {None}
<1>1. /\ Linked(stack', window, windows.open, closed)
      /\ AllHeld(stack', queue, userRequests, overtaken)
      /\ CanGoOn(stack', running')
      /\ running' \in Tasks \cup {None}
  <2>1. AllHeld(stack, queue, userRequests, overtaken)
    BY DEF Inv, HeldInv
  <2> QED BY <2>1, BecomeStep
<1>2. StackInv' /\ HeldInv'
  BY <1>1 DEF StackInv, HeldInv, Calm
<1>3. AskedInv'
  BY TurnIs, CalmAsked
<1> QED BY <1>1, <1>2, <1>3 DEF Rest

\* A handler begins, and nothing else happens to what the invariant relates.
LEMMA StartStep ==
    ASSUME Inv, NEW t \in Tasks, NEW fr, Plain(fr),
           CarryOK(fr, queue, userRequests, overtaken), Start(t, fr), Calm
    PROVE  Rest' /\ running' \in Tasks \cup {None}
<1>1. Quiet /\ stack[t] = <<>> /\ stack' = [stack EXCEPT ![t] = fr]
  BY DEF Start, Idle
<1>2. Linked(stack, window, windows.open, closed) /\ stack \in [Tasks -> Seq(Frames)]
  BY DEF Inv, StackInv, Linked
<1>3. Linked(stack', window, windows.open, closed)
  BY <1>1, <1>2, StartLinked
<1>4. AllHeld(stack', queue, userRequests, overtaken)
  BY <1>1, <1>2, ReplaceHeld DEF Inv, HeldInv
<1>5. running' = IF fr # <<>> /\ Head(fr)[1] \notin Blocking THEN t ELSE None
  BY DEF Start, Runs
<1>6. CanGoOn(stack', running')
  BY <1>1, <1>2, <1>5 DEF CanGoOn
<1>7. StackInv' /\ HeldInv'
  BY <1>3, <1>4 DEF StackInv, HeldInv, Calm
<1>8. AskedInv'
  BY <1>1, QuietIs, CalmAsked
<1> QED BY <1>5, <1>6, <1>7, <1>8 DEF Rest

\* The network, the storage or the user answers a handler.
LEMMA AnswerStep ==
    ASSUME Inv, Quiet, NEW t \in Tasks, stack[t] # <<>>, Head(stack[t])[1] \notin Waits,
           NEW new, Proper(new), ~TopIs(new, "waiting"),
           CarryOK(new, queue, userRequests, overtaken),
           stack' = [stack EXCEPT ![t] = new], running' = running, Calm
    PROVE  Rest'
<1>1. Linked(stack, window, windows.open, closed) /\ stack \in [Tasks -> Seq(Frames)]
  BY DEF Inv, StackInv, Linked
<1>2. ~TopIn(stack[t], PromiseOps \cup {"await", "waiting", "handleClose"})
  BY DEF TopIn, Waits
<1>3. Linked(stack', window, windows.open, closed)
  BY <1>1, <1>2, ReplaceLinked
<1>4. AllHeld(stack', queue, userRequests, overtaken)
  BY <1>1, ReplaceHeld DEF Inv, HeldInv
<1>5. StackInv' /\ HeldInv'
  BY <1>3, <1>4 DEF StackInv, HeldInv, Calm
<1>6. AskedInv'
  BY QuietIs, CalmAsked
<1>7. CanGoOn(stack', running')
  BY QuietIs DEF CanGoOn
<1> QED BY <1>5, <1>6, <1>7 DEF Rest

\* What is below the top frame of a handler.
LEMMA TailIs ==
    ASSUME NEW s, Proper(s), s # <<>>
    PROVE  /\ Proper(Tail(s)) /\ ~TopIn(Tail(s), PromiseOps \cup {"waiting"})
           /\ \A q, reqs, late : CarryOK(s, q, reqs, late) => CarryOK(Tail(s), q, reqs, late)
           /\ Below(s, Tail(s))
<1>1. s \in Seq(Frames) /\ Tail(s) \in Seq(Frames)
  BY DEF Proper
<1>2. /\ Len(s) \in Nat /\ DOMAIN s = 1..Len(s)
      /\ DOMAIN Tail(s) = 1..(Len(s) - 1)
      /\ \A i \in 1..(Len(s) - 1) : Tail(s)[i] = s[i + 1]
  BY <1>1
<1> DEFINE rest == Tail(s)
<1> HIDE DEF rest
<1>3. \A i \in DOMAIN rest : i + 1 \in DOMAIN s /\ i + 1 > 1 /\ rest[i] = s[i + 1]
  BY <1>2 DEF rest
<1>4. ASSUME NEW i \in DOMAIN rest
      PROVE  /\ rest[i][1] \notin PromiseOps \cup {"waiting"}
             /\ rest[i][1] = "handleClose" =>
                   \A j \in DOMAIN rest : j < i => rest[j][1] \in {"await", "waiting"}
  <2>1. rest[i][1] \notin PromiseOps \cup {"waiting"}
    BY <1>3 DEF Proper
  <2>2. ASSUME rest[i][1] = "handleClose", NEW j \in DOMAIN rest, j < i
        PROVE  rest[j][1] \in {"await", "waiting"}
    <3>1. j + 1 < i + 1 /\ j + 1 \in DOMAIN s
      BY <2>2, <1>2, <1>3 DEF rest
    <3>2. s[i + 1][1] = "handleClose"
      BY <2>2, <1>3
    <3>3. s[j + 1][1] \in {"await", "waiting"}
      BY <3>1, <3>2, <1>3 DEF Proper
    <3> QED BY <3>3, <1>3
  <2> QED BY <2>1, <2>2
<1>5. Proper(rest)
  BY <1>1, <1>4 DEF Proper, rest
<1>6. rest # <<>> => 1 \in DOMAIN rest /\ Head(rest) = rest[1]
  BY <1>1 DEF rest
<1>7. ~TopIn(rest, PromiseOps \cup {"waiting"})
  BY <1>4, <1>6 DEF TopIn
<1>8. \A q, reqs, late : CarryOK(s, q, reqs, late) => CarryOK(rest, q, reqs, late)
  BY <1>3 DEF CarryOK
<1>9. ASSUME NEW i \in DOMAIN s, i > 1 PROVE \E j \in DOMAIN rest : rest[j] = s[i]
  <2>1. i - 1 \in DOMAIN rest /\ (i - 1) + 1 = i
    BY <1>2, <1>9 DEF rest
  <2> QED BY <2>1, <1>3
<1>10. Below(s, rest)
  BY <1>9 DEF Below
<1> QED BY <1>5, <1>7, <1>8, <1>10 DEF rest

\* A handler replaces its top frame and lets go of queue's actions.
LEMMA FreeingStep ==
    ASSUME Inv, NEW t \in Tasks, NEW op, Turn(t, op), op \notin Waits,
           NEW fr, Plain(fr), CarryOK(fr, queue, userRequests, overtaken),
           NEW ids, BecomeFreeing(t, fr, ids),
           NEW q2, \A a \in Accts \ ids : HasId(queue, a) => HasId(q2, a)
    PROVE  /\ Linked(stack', window, windows.open, closed)
           /\ AllHeld(stack', q2, userRequests, overtaken)
           /\ CanGoOn(stack', running')
           /\ running' \in Tasks \cup {None}
<1> DEFINE stk == [stack EXCEPT ![t] = fr \o Tail(@)]
<1>1. stack[t] # <<>> /\ stack[t] \in Seq(Frames) /\ Head(stack[t])[1] \notin Waits
  BY TurnIs
<1>2. /\ Linked(stack, window, windows.open, closed)
      /\ stack \in [Tasks -> Seq(Frames)] /\ fr \in Seq(Frames)
      /\ AllHeld(stack, queue, userRequests, overtaken)
  BY DEF Inv, StackInv, Linked, Plain, HeldInv
<1>3. Linked(stk, window, windows.open, closed)
  BY <1>1, <1>2, PushLinked DEF Waits
<1>4. AllHeld(stk, queue, userRequests, overtaken)
  BY <1>1, <1>2, PushHeld
<1>5. stk[t] = fr \o Tail(stack[t])
  BY <1>2
<1>6. fr # <<>> => stk[t] # <<>> /\ Head(stk[t]) = Head(fr)
  BY <1>1, <1>2, <1>5, PushIs
<1>7. stack' = FreedAll(stk, ids)
  BY DEF BecomeFreeing, Replaced
<1> HIDE DEF stk
<1>8. queue \in Seq(QueuedSet)
      /\ AllAsked(queue, userRequests, overtaken, Going(stack, running))
  BY DEF Inv, Typed, AskedInv
<1>9. /\ Linked(stack', window, windows.open, closed)
      /\ AllHeld(stack', q2, userRequests, overtaken)
      /\ \A u \in Tasks : stk[u] # <<>> =>
            stack'[u] # <<>> /\ Head(stack'[u])[1] = Head(stk[u])[1]
  BY <1>3, <1>4, <1>7, <1>8, FreedAllIs
<1>10. running' = IF fr # <<>> /\ Head(fr)[1] \notin Blocking THEN t ELSE None
  BY DEF BecomeFreeing, Runs
<1>11. CanGoOn(stack', running')
  BY <1>6, <1>9, <1>10 DEF CanGoOn
<1> QED BY <1>9, <1>10, <1>11

\* Items that stay in the queue are asked for.
LEMMA KeptAsked ==
    ASSUME NEW q, NEW reqs, NEW late, NEW going, AllAsked(q, reqs, late, going),
           NEW q2, \A k \in DOMAIN q2 : \E i \in DOMAIN q : q2[k] = q[i]
    PROVE  AllAsked(q2, reqs, late, going)
BY DEF AllAsked

-----------------------------------------------------------------------------
(* Frames that handlers push *)

\* A frame that waits for nothing.
LEMMA PlainOne ==
    ASSUME NEW f \in Frames, f[1] \notin PromiseOps \cup {"waiting", "handleClose"}
    PROVE  Plain(<<f>>)
BY DEF Plain

\* No frames.
LEMMA PlainNone == Plain(<<>>)
BY DEF Plain

\* Frames, and then more frames.
LEMMA PlainJoin ==
    ASSUME NEW fr, Plain(fr), NEW more, Plain(more)
    PROVE  Plain(fr \o more)
<1>1. fr \in Seq(Frames) /\ more \in Seq(Frames)
  BY DEF Plain
<1>2. fr \o more \in Seq(Frames) /\ Len(fr \o more) = Len(fr) + Len(more)
  BY <1>1, ConcatProperties
<1>3. \A i \in DOMAIN (fr \o more) :
         \/ i \in DOMAIN fr /\ (fr \o more)[i] = fr[i]
         \/ i - Len(fr) \in DOMAIN more /\ (fr \o more)[i] = more[i - Len(fr)]
  BY <1>1, <1>2, ConcatProperties
<1> QED BY <1>2, <1>3 DEF Plain

\* What frames hold, and more frames.
LEMMA CarryJoin ==
    ASSUME NEW fr \in Seq(Frames), NEW more \in Seq(Frames), NEW q, NEW reqs, NEW late,
           CarryOK(fr, q, reqs, late), CarryOK(more, q, reqs, late)
    PROVE  CarryOK(fr \o more, q, reqs, late)
<1>1. fr \o more \in Seq(Frames) /\ Len(fr \o more) = Len(fr) + Len(more)
  BY ConcatProperties
<1>2. \A i \in DOMAIN (fr \o more) :
         \/ i \in DOMAIN fr /\ (fr \o more)[i] = fr[i]
         \/ i - Len(fr) \in DOMAIN more /\ (fr \o more)[i] = more[i - Len(fr)]
  BY <1>1, ConcatProperties
<1> QED BY <1>2 DEF CarryOK

\* Frames that hold no actions.
Bears(fr) == Plain(fr) /\ \A i \in DOMAIN fr : fr[i][1] \notin Holders

\* Where there are no actions, all of them are asked for.
LEMMA BearsNothing ==
    ASSUME NEW fr, Bears(fr)
    PROVE  Plain(fr) /\ \A q, reqs, late : CarryOK(fr, q, reqs, late)
BY DEF Bears, CarryOK, CarriesOK

\* No frames hold no actions.
LEMMA BearsNone == Bears(<<>>)
BY DEF Bears, Plain

\* One frame that holds no actions.
LEMMA BearsOne ==
    ASSUME NEW f \in Frames, f[1] \notin PromiseOps \cup {"waiting", "handleClose"} \cup Holders
    PROVE  Bears(<<f>>)
BY DEF Plain, Bears

\* Two lists of frames that hold no actions.
LEMMA BearsJoin ==
    ASSUME NEW fr, Bears(fr), NEW more, Bears(more)
    PROVE  Bears(fr \o more)
<1>1. fr \in Seq(Frames) /\ more \in Seq(Frames) /\ Plain(fr \o more)
  BY PlainJoin DEF Bears, Plain
<1>2. fr \o more \in Seq(Frames) /\ Len(fr \o more) = Len(fr) + Len(more)
  BY <1>1, ConcatProperties
<1>3. \A i \in DOMAIN (fr \o more) :
         \/ i \in DOMAIN fr /\ (fr \o more)[i] = fr[i]
         \/ i - Len(fr) \in DOMAIN more /\ (fr \o more)[i] = more[i - Len(fr)]
  BY <1>1, <1>2, ConcatProperties
<1> QED BY <1>1, <1>3 DEF Bears

\* setCurrentAction
LEMMA ShowIs ==
    ASSUME NEW a, NEW skip \in BOOLEAN
    PROVE  /\ Bears(Show(a, skip))
           /\ Show(a, skip) # <<>> /\ Head(Show(a, skip))[1] \notin Blocking
<1>1. <<"close", "focus", "open">> \in Seq(Names)
  BY DEF Names
<1>2. Frame("await", <<"close", "focus", "open">>) \in Frames
  BY <1>1 DEF Frame, Frames
<1>3. Frame("close", None) \in Frames /\ Frame("open", skip) \in Frames
  BY DEF Frame, Frames, Bare
<1> DEFINE f1 == Frame("await", <<"close", "focus", "open">>)
           f2 == IF a = None THEN Frame("close", None) ELSE Frame("open", skip)
<1>4. f1 \in Frames /\ f2 \in Frames /\ f1[1] = "await" /\ f2[1] \in {"close", "open"}
  BY <1>2, <1>3 DEF Frame
<1>5. Show(a, skip) = <<f1, f2>>
  BY DEF Show
<1> HIDE DEF f1, f2
<1> QED BY <1>4, <1>5 DEF Bears, Plain, PromiseOps, Holders, Blocking

\* addUserRequests
LEMMA AddIs ==
    ASSUME NEW reqs \in Seq(RequestSet), NEW pos \in Position, NEW exec \in Execution,
           NEW skip \in BOOLEAN
    PROVE  /\ Plain(AddFrames(reqs, pos, exec, skip))
           /\ \A q, listed, late : CarryOK(AddFrames(reqs, pos, exec, skip), q, listed, late)
<1> DEFINE f1 == Frame("guard", None)
           arg == [reqs |-> reqs, actions |-> <<>>, pos |-> pos, exec |-> exec,
                   skipFocus |-> skip]
           f2 == Frame("each", arg)
<1>1. f1 \in Frames /\ f1[1] = "guard"
  BY DEF Frame, Frames
<1>2. arg \in EachArgs /\ arg.actions = <<>>
  BY DEF EachArgs
<1> HIDE DEF arg
<1>3. f2 \in Frames /\ f2[1] = "each" /\ f2[2].actions = <<>>
  BY <1>2 DEF Frame, Frames
<1>4. AddFrames(reqs, pos, exec, skip) = <<f1, f2>>
  BY DEF AddFrames, arg
<1> HIDE DEF f1, f2
<1>5. Plain(<<f1, f2>>)
  BY <1>1, <1>3 DEF Plain, PromiseOps
<1>6. \A q, listed, late : CarryOK(<<f1, f2>>, q, listed, late)
  BY <1>1, <1>3 DEF CarryOK, CarriesOK, Holders
<1> QED BY <1>4, <1>5, <1>6

\* removeUserRequests
LEMMA RemovalIs ==
    ASSUME NEW ids \in Seq(Ids), NEW openNext \in BOOLEAN
    PROVE  /\ Plain(<<Removal(ids, openNext)>>)
           /\ \A q, listed, late : CarryOK(<<Removal(ids, openNext)>>, q, listed, late)
<1> DEFINE arg == [ids |-> ids, openNext |-> openNext, add |-> <<>>, actions |-> <<>>,
                   remove |-> {}]
           f == Frame("removeReqs", arg)
<1>1. arg \in RemovalArgs /\ arg.actions = <<>>
  BY DEF RemovalArgs
<1> HIDE DEF arg
<1>2. f \in Frames /\ f[1] = "removeReqs" /\ f[2].actions = <<>>
  BY <1>1 DEF Frame, Frames
<1>3. Removal(ids, openNext) = f
  BY DEF Removal, arg
<1> HIDE DEF f
<1>4. Plain(<<f>>)
  BY <1>2, PlainOne DEF PromiseOps
<1>5. \A q, listed, late : CarryOK(<<f>>, q, listed, late)
  BY <1>2 DEF CarryOK, CarriesOK
<1> QED BY <1>3, <1>4, <1>5

\* removeActions
LEMMA RemoveIs ==
    ASSUME NEW ids \in SUBSET Ids, NEW openNext \in BOOLEAN
    PROVE  Bears(<<Frame("remove", [ids |-> ids, openNext |-> openNext])>>)
<1>1. [ids |-> ids, openNext |-> openNext] \in RemoveArgs
  BY DEF RemoveArgs
<1>2. /\ Frame("remove", [ids |-> ids, openNext |-> openNext]) \in Frames
      /\ Frame("remove", [ids |-> ids, openNext |-> openNext])[1] = "remove"
  BY <1>1 DEF Frame, Frames
<1> QED BY <1>2, BearsOne DEF PromiseOps, Holders

\* rejectUserRequests
LEMMA RejectIs ==
    ASSUME NEW ids \in Seq(Ids), NEW openNext \in BOOLEAN
    PROVE  Bears(<<Frame("reject", [ids |-> ids, openNext |-> openNext])>>)
<1>1. [ids |-> ids, openNext |-> openNext] \in RejectArgs
  BY DEF RejectArgs
<1>2. /\ Frame("reject", [ids |-> ids, openNext |-> openNext]) \in Frames
      /\ Frame("reject", [ids |-> ids, openNext |-> openNext])[1] = "reject"
  BY <1>1 DEF Frame, Frames
<1> QED BY <1>2, BearsOne DEF PromiseOps, Holders

\* Frames with no argument to speak of.
LEMMA BareIs ==
    ASSUME NEW op \in Bare
    PROVE  Bears(<<Frame(op, None)>>)
<1>1. Frame(op, None) \in Frames /\ Frame(op, None)[1] = op
  BY DEF Frame, Frames
<1> QED BY <1>1, BearsOne DEF PromiseOps, Holders, Bare

\* focusActionWindow, with the awaits before it.
LEMMA FocusIs ==
    ASSUME NEW reopen \in BOOLEAN
    PROVE  Bears(<<Frame("await", <<"close", "focus", "open">>), Frame("focus", reopen)>>)
<1> DEFINE f1 == Frame("await", <<"close", "focus", "open">>)
           f2 == Frame("focus", reopen)
<1>1. <<"close", "focus", "open">> \in Seq(Names)
  BY DEF Names
<1>2. f1 \in Frames /\ f1[1] = "await"
  BY <1>1 DEF Frame, Frames
<1>3. f2 \in Frames /\ f2[1] = "focus"
  BY DEF Frame, Frames
<1> HIDE DEF f1, f2
<1>4. Bears(<<f1, f2>>)
  BY <1>2, <1>3 DEF Bears, Plain, PromiseOps, Holders
<1> QED BY <1>4 DEF f1, f2

\* The types stay when only stacks change.
LEMMA TypedSame ==
    ASSUME Typed, running' \in Tasks \cup {None},
           UNCHANGED <<selected, queue, current, window, windows, closed, reqVars>>
    PROVE  Typed'
BY DEF Typed, reqVars, history

\* The queue's actions have an index and a type.
LEMMA SeenIs == Seen(queue) \in SUBSET DOMAIN queue
BY DEF Seen

-----------------------------------------------------------------------------
(* The steps of the queue *)

\* A filter of the queue by a condition that no account op fails.
LEMMA FilterIs ==
    ASSUME queue \in Seq(QueuedSet), NEW places \in SUBSET DOMAIN queue
    PROVE  /\ Keep(queue, places) \in Seq(QueuedSet)
           /\ \A reqs, late, going : AllAsked(queue, reqs, late, going)
                 => AllAsked(Keep(queue, places), reqs, late, going)
           /\ \A id : (\E i \in places : queue[i].id = id) => HasId(Keep(queue, places), id)
<1> DEFINE q == Keep(queue, places)
<1>1. /\ q \in Seq(QueuedSet)
      /\ \A k \in DOMAIN q : \E i \in places : q[k] = queue[i]
      /\ \A i \in places : \E k \in DOMAIN q : q[k] = queue[i]
  BY KeepIs
<1> HIDE DEF q
<1>2. \A reqs, late, going : AllAsked(queue, reqs, late, going) => AllAsked(q, reqs, late, going)
  BY <1>1, KeptAsked
<1>3. \A id : (\E i \in places : queue[i].id = id) => HasId(q, id)
  BY <1>1 DEF HasId
<1> QED BY <1>1, <1>2, <1>3 DEF q

\* addOrUpdateActions first drops what need not be kept.
LEMMA UpdateStep ==
    ASSUME Inv, NEW t \in Tasks, Update(t), UNCHANGED reqVars
    PROVE  Inv'
<1> DEFINE f == Arg(t)
           arg == [actions |-> f.actions, shows |-> f.actions[1].id, pos |-> f.pos,
                   exec |-> f.exec, skipFocus |-> f.skipFocus]
           fr == <<Frame("put", arg)>>
           places == {i \in DOMAIN queue : Keeps(queue[i])}
<1>1. /\ Turn(t, "update") /\ Become(t, fr) /\ queue' = Keep(queue, places)
      /\ current' \in {current, None}
      /\ UNCHANGED <<selected, window, windows, closed, reqVars>>
  BY DEF Update
<1>2. f \in UpdateArgs /\ CarriesOK(Head(stack[t]), queue, userRequests, overtaken)
      /\ f = Head(stack[t])[2] /\ Head(stack[t])[1] = "update"
      /\ Going(stack, running) = {}
  BY <1>1, TurnIs, FrameArgs
<1>3. f.actions \in Seq(ActionSet) /\ f.actions[1] \in ActionSet
  BY <1>2 DEF UpdateArgs
<1>4. arg \in PutArgs
  BY <1>2, <1>3 DEF UpdateArgs, PutArgs, ActionSet
<1>5. Plain(fr)
  <2>1. Frame("put", arg) \in Frames /\ Frame("put", arg)[1] = "put"
    BY <1>4 DEF Frame, Frames
  <2> QED BY <2>1, PlainOne DEF PromiseOps
<1>6. queue \in Seq(QueuedSet) /\ Typed
  BY DEF Inv, Typed
<1>7. /\ queue' \in Seq(QueuedSet)
      /\ \A reqs, late, going : AllAsked(queue, reqs, late, going)
            => AllAsked(queue', reqs, late, going)
      /\ \A id : (\E i \in places : queue[i].id = id) => HasId(queue', id)
  BY <1>1, <1>6, FilterIs
<1>8. KeepsOps(queue, queue')
  <2> SUFFICES ASSUME NEW a \in Accts, HasId(queue, a) PROVE HasId(queue', a)
    BY DEF KeepsOps
  <2>1. PICK i \in DOMAIN queue : queue[i].id = a
    BY DEF HasId
  <2>2. queue[i].type = "accountOp"
    BY <2>1, <1>6 DEF QueuedSet, ActionSet
  <2> QED BY <2>1, <2>2, <1>7 DEF Keeps
<1>9. AllHeld(stack, queue', userRequests, overtaken)
  <2>1. Grows(userRequests, userRequests) /\ stack \in [Tasks -> Seq(Frames)]
        /\ AllHeld(stack, queue, userRequests, overtaken)
    BY DEF Grows, Inv, StackInv, Linked, HeldInv
  <2> QED BY <2>1, <1>8, HeldGrows
<1>10. CarryOK(fr, queue', userRequests, overtaken)
  <2>1. CarriesOK(Head(stack[t]), queue', userRequests, overtaken)
    <3>1. 1 \in DOMAIN stack[t] /\ Head(stack[t]) = stack[t][1]
      BY <1>1, TurnIs
    <3> QED BY <3>1, <1>9 DEF AllHeld, CarryOK
  <2>2. CarriesOK(Frame("put", arg), queue', userRequests, overtaken)
    BY <2>1, <1>2 DEF CarriesOK, Frame, Holders
  <2> QED BY <2>2 DEF CarryOK
<1>11. /\ Linked(stack', window, windows.open, closed)
       /\ AllHeld(stack', queue', userRequests, overtaken)
       /\ CanGoOn(stack', running')
       /\ running' \in Tasks \cup {None}
  <2> HIDE DEF fr
  <2> QED BY <1>1, <1>5, <1>9, <1>10, BecomeStep DEF Waits, PromiseOps
<1>12. AllAsked(queue', userRequests, overtaken, Going(stack', running'))
  BY <1>2, <1>7, AskedMore DEF Inv, AskedInv
<1>13. Typed'
  BY <1>1, <1>6, <1>7, <1>11 DEF Typed, reqVars, history
<1>14. StackInv' /\ HeldInv' /\ AskedInv'
  BY <1>1, <1>11, <1>12 DEF StackInv, HeldInv, AskedInv, reqVars, history
<1> QED BY <1>11, <1>13, <1>14 DEF Inv

\* An action is put in the queue, or over the one with its id.
LEMMA PutNextStep ==
    ASSUME Inv, NEW t \in Tasks, PutNext(t), UNCHANGED reqVars
    PROVE  Inv'
<1> DEFINE f == Arg(t)
           a == Head(f.actions)
           arg == [f EXCEPT !.actions = Tail(@)]
           fr == <<Frame("put", arg)>>
           ids == IF a.same THEN {} ELSE {a.id}
<1>1. /\ Turn(t, "put") /\ f.actions # <<>> /\ BecomeFreeing(t, fr, ids)
      /\ queue' = Put(queue, Held(a), f.pos)
      /\ UNCHANGED <<selected, current, window, windows, closed, reqVars>>
  BY DEF PutNext
<1>2. f \in PutArgs /\ CarriesOK(Head(stack[t]), queue, userRequests, overtaken)
      /\ f = Head(stack[t])[2] /\ Head(stack[t])[1] = "put"
      /\ Going(stack, running) = {}
  BY <1>1, TurnIs, FrameArgs
<1> HIDE DEF f
<1>3. /\ f.actions \in Seq(ActionSet) /\ a \in ActionSet /\ a = f.actions[1]
      /\ Tail(f.actions) \in Seq(ActionSet)
      /\ \A j \in DOMAIN Tail(f.actions) :
            j + 1 \in DOMAIN f.actions /\ Tail(f.actions)[j] = f.actions[j + 1]
      /\ 1 \in DOMAIN f.actions
  <2> DEFINE s == f.actions
  <2>1. s \in Seq(ActionSet) /\ s # <<>>
    BY <1>1, <1>2 DEF PutArgs
  <2> HIDE DEF s
  <2>2. /\ Head(s) \in ActionSet /\ Head(s) = s[1] /\ 1 \in DOMAIN s
        /\ Tail(s) \in Seq(ActionSet)
    BY <2>1
  <2>3. \A j \in DOMAIN Tail(s) : j + 1 \in DOMAIN s /\ Tail(s)[j] = s[j + 1]
    BY <2>1
  <2> QED BY <2>1, <2>2, <2>3 DEF s
<1>4. arg \in PutArgs /\ arg.actions = Tail(f.actions)
  BY <1>2, <1>3 DEF PutArgs
<1>5. \A j \in DOMAIN f.actions : HeldOK(f.actions[j], queue, userRequests, overtaken)
  BY <1>2 DEF CarriesOK, Holders
<1> HIDE DEF arg
<1>6. Plain(fr) /\ CarryOK(fr, queue, userRequests, overtaken)
  <2>1. Frame("put", arg) \in Frames /\ Frame("put", arg)[1] = "put"
        /\ Frame("put", arg)[2] = arg
    BY <1>4 DEF Frame, Frames
  <2>2. CarriesOK(Frame("put", arg), queue, userRequests, overtaken)
    BY <2>1, <1>3, <1>4, <1>5 DEF CarriesOK
  <2> QED BY <2>1, <2>2, PlainOne DEF PromiseOps, CarryOK
<1>7. queue \in Seq(QueuedSet) /\ Typed /\ AllAsked(queue, userRequests, overtaken, {})
  BY <1>2 DEF Inv, Typed, AskedInv
<1>8. Held(a) \in QueuedSet /\ (~overtaken => Asked(Held(a), userRequests))
  BY <1>3, <1>5, <1>7, HeldIs
<1> HIDE DEF a
<1>9. /\ queue' \in Seq(QueuedSet)
      /\ \A k \in DOMAIN queue' :
            queue'[k] = Held(a) \/ \E i \in DOMAIN queue : queue'[k] = queue[i]
      /\ \A id : HasId(queue, id) => HasId(queue', id)
  BY <1>1, <1>7, <1>8, PutIs
<1>10. /\ Linked(stack', window, windows.open, closed)
       /\ AllHeld(stack', queue', userRequests, overtaken)
       /\ CanGoOn(stack', running')
       /\ running' \in Tasks \cup {None}
  <2> HIDE DEF fr, ids
  <2> QED BY <1>1, <1>6, <1>9, FreeingStep DEF Waits, PromiseOps
<1>11. AllAsked(queue', userRequests, overtaken, {})
  BY <1>7, <1>8, <1>9 DEF AllAsked, Asked
<1>12. AllAsked(queue', userRequests, overtaken, Going(stack', running'))
  BY <1>11, AskedMore
<1>13. Typed'
  BY <1>1, <1>7, <1>9, <1>10 DEF Typed, reqVars, history
<1>14. StackInv' /\ HeldInv' /\ AskedInv'
  BY <1>1, <1>10, <1>12 DEF StackInv, HeldInv, AskedInv, reqVars, history
<1> QED BY <1>10, <1>13, <1>14 DEF Inv

\* The actions are queued, and one is shown.
LEMMA PutDoneStep ==
    ASSUME Inv, NEW t \in Tasks, PutDone(t), UNCHANGED reqVars
    PROVE  Inv'
<1> DEFINE f == Arg(t)
           open == First(queue, {i \in Seen(queue) : queue[i].id = f.shows})
           seen == First(queue, Seen(queue))
           shown == IF f.exec = "open" THEN open
                    ELSE IF current # None THEN current ELSE seen
           fr == IF f.exec = "queue" THEN <<>> ELSE Show(shown, f.skipFocus)
<1>1. /\ Turn(t, "put") /\ Become(t, fr) /\ current' \in {current, shown}
      /\ UNCHANGED <<selected, queue, window, windows, closed, reqVars>>
  BY DEF PutDone
<1>2. f \in PutArgs
  BY <1>1, TurnIs, FrameArgs
<1>3. queue \in Seq(QueuedSet) /\ Seen(queue) \in SUBSET DOMAIN queue
      /\ current \in ActionSet \cup {None} /\ Typed
  BY SeenIs DEF Inv, Typed
<1>4. open \in QueuedSet \cup {None} /\ seen \in QueuedSet \cup {None}
  <2>1. \A S \in SUBSET DOMAIN queue : First(queue, S) \in QueuedSet \cup {None}
    BY <1>3, FirstIs
  <2>2. {i \in Seen(queue) : queue[i].id = f.shows} \in SUBSET DOMAIN queue
    BY <1>3
  <2> QED BY <1>3, <2>1, <2>2
<1> HIDE DEF open, seen
<1>5. shown \in ActionSet \cup {None}
  BY <1>3, <1>4 DEF QueuedSet
<1>6. Bears(fr)
  BY <1>2, ShowIs, BearsNone DEF PutArgs
<1>7. Rest' /\ running' \in Tasks \cup {None}
  <2> HIDE DEF fr
  <2>1. Calm
    BY <1>1 DEF Calm, reqVars, history
  <2> QED BY <1>1, <1>6, <2>1, BearsNothing, CalmStep DEF Waits, PromiseOps
<1>8. Typed'
  BY <1>1, <1>3, <1>5, <1>7 DEF Typed, reqVars, history
<1> QED BY <1>7, <1>8 DEF Inv, Rest

\* removeActions: what leaves the queue is let go by the handlers that hold it.
LEMMA RemoveActionsStep ==
    ASSUME Inv, NEW t \in Tasks, RemoveActions(t), UNCHANGED reqVars
    PROVE  Inv'
<1> DEFINE f == Arg(t)
           places == {i \in DOMAIN queue : queue[i].id \notin f.ids}
           q == Keep(queue, places)
           next == First(q, Seen(q))
           fr == IF next = None \/ f.openNext THEN Show(next, TRUE) ELSE <<>>
<1>1. /\ Turn(t, "remove") /\ BecomeFreeing(t, fr, f.ids) /\ queue' = q
      /\ current' \in {current, next}
      /\ UNCHANGED <<selected, window, windows, closed, reqVars>>
  BY DEF RemoveActions
<1>2. f \in RemoveArgs /\ f = Head(stack[t])[2] /\ Head(stack[t])[1] = "remove"
      /\ running \in {t, None} /\ stack[t] # <<>>
  BY <1>1, TurnIs, FrameArgs
<1>3. Going(stack, running) \subseteq f.ids
  BY <1>2 DEF Going, TopIs
<1>4. queue \in Seq(QueuedSet) /\ Typed /\ AllAsked(queue, userRequests, overtaken, f.ids)
  BY <1>3, AskedMore DEF Inv, Typed, AskedInv
<1>5. /\ q \in Seq(QueuedSet)
      /\ \A k \in DOMAIN q : \E i \in places : q[k] = queue[i]
  <2>1. places \in SUBSET DOMAIN queue
    OBVIOUS
  <2> HIDE DEF places
  <2> QED BY <1>4, <2>1, KeepIs
<1>6. \A id : (\E i \in places : queue[i].id = id) => HasId(q, id)
  BY <1>4, FilterIs
<1> HIDE DEF f, q
<1>7. next \in QueuedSet \cup {None}
  <2>1. Seen(q) \in SUBSET DOMAIN q
    BY DEF Seen
  <2> QED BY <1>5, <2>1, FirstIs
<1>8. Bears(fr)
  BY ShowIs, BearsNone
<1>9. AllAsked(q, userRequests, overtaken, {})
  BY <1>4, <1>5 DEF AllAsked
<1>10. \A a \in Accts \ f.ids : HasId(queue, a) => HasId(q, a)
  BY <1>6 DEF HasId
<1>11. /\ Linked(stack', window, windows.open, closed)
       /\ AllHeld(stack', q, userRequests, overtaken)
       /\ CanGoOn(stack', running')
       /\ running' \in Tasks \cup {None}
  <2> HIDE DEF fr
  <2> QED BY <1>1, <1>8, <1>10, BearsNothing, FreeingStep DEF Waits, PromiseOps
<1>12. AllAsked(q, userRequests, overtaken, Going(stack', running'))
  BY <1>9, AskedMore
<1>13. Typed'
  BY <1>1, <1>4, <1>5, <1>7, <1>11 DEF Typed, reqVars, history, QueuedSet
<1>14. StackInv' /\ HeldInv' /\ AskedInv'
  BY <1>1, <1>11, <1>12 DEF StackInv, HeldInv, AskedInv, reqVars, history
<1> QED BY <1>11, <1>13, <1>14 DEF Inv

\* The user picks an action.
LEMMA PickStep ==
    ASSUME Inv, NEW t \in Tasks, Pick(t), UNCHANGED reqVars
    PROVE  Inv'
<1>1. PICK i \in Seen(queue) : current' = queue[i] /\ Start(t, Show(queue[i], FALSE))
  BY DEF Pick
<1>2. queue[i] \in ActionSet
  BY SeenIs DEF Inv, Typed, QueuedSet
<1>3. Calm /\ UNCHANGED <<selected, queue, window, windows, closed, reqVars>>
  BY DEF Pick, Calm, reqVars, history
<1>4. Bears(Show(queue[i], FALSE))
  BY ShowIs
<1>5. Rest' /\ running' \in Tasks \cup {None}
  BY <1>1, <1>3, <1>4, BearsNothing, StartStep
<1>6. Typed'
  BY <1>1, <1>2, <1>3, <1>5 DEF Inv, Typed, reqVars, history
<1> QED BY <1>5, <1>6 DEF Inv, Rest

-----------------------------------------------------------------------------
(* The steps of the window *)

\* A handler waits for another's promise, then goes on to wait for the next.
LEMMA WaitProper ==
    ASSUME NEW s, Proper(s), TopIs(s, "await"), NEW u \in Tasks, NEW names \in Seq(Names)
    PROVE  Proper(<<Frame("waiting", u), Frame("await", names)>> \o Tail(s))
<1> DEFINE f1 == Frame("waiting", u)
           f2 == Frame("await", names)
           fr == <<f1, f2>>
           new == fr \o Tail(s)
<1>1. f1 \in Frames /\ f2 \in Frames /\ f1[1] = "waiting" /\ f2[1] = "await"
  BY DEF Frame, Frames
<1> HIDE DEF f1, f2
<1>2. s \in Seq(Frames) /\ s # <<>> /\ Head(s)[1] = "await" /\ fr \in Seq(Frames) /\ Len(fr) = 2
      /\ Head(s) = s[1] /\ DOMAIN fr = 1..2
  BY <1>1 DEF Proper, TopIs
<1>3. /\ new \in Seq(Frames)
      /\ \A i \in DOMAIN new :
            \/ i \in DOMAIN fr /\ new[i] = fr[i]
            \/ \E j \in DOMAIN s : j = i - Len(fr) + 1 /\ j > 1 /\ new[i] = s[j]
  <2>1. s \in Seq(Frames) /\ s # <<>> /\ fr \in Seq(Frames)
    BY <1>2
  <2> HIDE DEF fr
  <2> QED BY <2>1, PushIs
<1> HIDE DEF new
<1>4. \A i \in DOMAIN new :
         \/ i = 1 /\ new[i] = f1
         \/ i = 2 /\ new[i] = f2
         \/ i - 1 \in DOMAIN s /\ i - 1 > 1 /\ new[i] = s[i - 1]
  <2> SUFFICES ASSUME NEW i \in DOMAIN new
               PROVE  \/ i = 1 /\ new[i] = f1
                      \/ i = 2 /\ new[i] = f2
                      \/ i - 1 \in DOMAIN s /\ i - 1 > 1 /\ new[i] = s[i - 1]
    OBVIOUS
  <2>1. CASE i \in DOMAIN fr /\ new[i] = fr[i]
    BY <2>1, <1>2
  <2>2. CASE \E j \in DOMAIN s : j = i - Len(fr) + 1 /\ j > 1 /\ new[i] = s[j]
    <3>1. i \in Nat
      BY <1>3
    <3>2. i - Len(fr) + 1 = i - 1
      BY <3>1, <1>2
    <3> QED BY <2>2, <3>2
  <2> QED BY <2>1, <2>2, <1>3
<1>5. ASSUME NEW i \in DOMAIN new
      PROVE  /\ i > 1 => new[i][1] \notin PromiseOps \cup {"waiting"}
             /\ new[i][1] = "handleClose" =>
                   \A j \in DOMAIN new : j < i => new[j][1] \in {"await", "waiting"}
  <2>1. i > 1 => new[i][1] \notin PromiseOps \cup {"waiting"}
    BY <1>1, <1>4 DEF Proper, PromiseOps
  <2>2. ASSUME new[i][1] = "handleClose", NEW j \in DOMAIN new, j < i
        PROVE  new[j][1] \in {"await", "waiting"}
    <3>1. i - 1 \in DOMAIN s /\ s[i - 1][1] = "handleClose"
      BY <2>2, <1>1, <1>4
    <3>2. CASE j \in {1, 2}
      BY <3>2, <1>1, <1>4
    <3>3. CASE j \notin {1, 2}
      <4>1. j - 1 \in DOMAIN s /\ new[j] = s[j - 1] /\ j \in Nat /\ i \in Nat
        BY <3>3, <1>3, <1>4
      <4>2. j - 1 < i - 1
        BY <4>1, <2>2
      <4> QED BY <3>1, <4>1, <4>2 DEF Proper
    <3> QED BY <3>2, <3>3
  <2> QED BY <2>1, <2>2
<1>6. Proper(new)
  BY <1>3, <1>5 DEF Proper
<1> QED BY <1>6 DEF new, f1, f2

\* #awaitPendingPromises
LEMMA AwaitLinked ==
    ASSUME NEW stk, NEW win, NEW open, NEW gone, Linked(stk, win, open, gone),
           NEW t \in Tasks, TopIs(stk[t], "await"),
           NEW new, Proper(new), Below(stk[t], new),
           ~TopIs(new, "waiting") \/ \E n \in Names : win[n] # None /\ Head(new)[2] = win[n]
    PROVE  Linked([stk EXCEPT ![t] = new], win, open, gone)
<1> DEFINE stk2 == [stk EXCEPT ![t] = new]
<1>1. stk \in [Tasks -> Seq(Frames)] /\ \A u \in Tasks : Proper(stk[u])
  BY DEF Linked
<1>2. stk2 \in [Tasks -> Seq(Frames)] /\ \A u \in Tasks : Proper(stk2[u])
  BY <1>1 DEF Proper
<1>3. \A u \in Tasks : stk2[u] = IF u = t THEN new ELSE stk[u]
  BY <1>1
<1> HIDE DEF stk2
<1>4. ~TopIn(stk[t], PromiseOps) /\ \A n \in Names : ~TopIs(stk[t], PromiseOp(n))
  BY DEF TopIn, TopIs, PromiseOps, PromiseOp
<1>5. \A u \in Tasks, n \in Names : TopIs(stk[u], PromiseOp(n)) => TopIn(stk[u], PromiseOps)
  BY DEF TopIn, TopIs, PromiseOps, PromiseOp
<1>6. ByTheirCalls(stk2, win)
  <2>1. ASSUME NEW n \in Names, win[n] # None
        PROVE  win[n] \in Tasks /\ TopIs(stk2[win[n]], PromiseOp(n))
    BY <2>1, <1>3, <1>4 DEF ByTheirCalls, Linked
  <2>2. ASSUME NEW u \in Tasks, TopIs(stk2[u], "waiting")
        PROVE  Head(stk2[u])[2] \in Tasks /\ TopIn(stk2[Head(stk2[u])[2]], PromiseOps)
    <3>1. CASE u = t
      <4>1. PICK n \in Names : win[n] # None /\ Head(new)[2] = win[n]
        BY <3>1, <2>2, <1>3
      <4>2. win[n] \in Tasks /\ TopIs(stk[win[n]], PromiseOp(n)) /\ win[n] # t
        BY <4>1, <1>4 DEF ByTheirCalls, Linked
      <4> QED BY <3>1, <4>1, <4>2, <1>3, <1>5
    <3>2. CASE u # t
      <4>1. TopIs(stk[u], "waiting") /\ stk2[u] = stk[u]
        BY <3>2, <2>2, <1>3
      <4>2. Head(stk[u])[2] \in Tasks /\ TopIn(stk[Head(stk[u])[2]], PromiseOps)
        BY <4>1 DEF ByTheirCalls, Linked
      <4> QED BY <4>1, <4>2, <1>3, <1>4
    <3> QED BY <3>1, <3>2
  <2> QED BY <2>1, <2>2 DEF ByTheirCalls
<1>7. ASSUME NEW w, Closing(stk, w) PROVE Closing(stk2, w)
  <2>1. PICK u \in Tasks : \E i \in DOMAIN stk[u] : stk[u][i] = <<"handleClose", w>>
    BY <1>7 DEF Closing
  <2>2. PICK i \in DOMAIN stk[u] : stk[u][i] = <<"handleClose", w>>
    BY <2>1
  <2>3. CASE u = t
    <3>1. stk[t] \in Seq(Frames) /\ Head(stk[t]) = stk[t][1] /\ i >= 1 /\ i \in Nat
      BY <2>3, <2>2, <1>1 DEF TopIs
    <3>2. i # 1
      BY <2>2, <2>3, <3>1 DEF TopIs
    <3>3. \E j \in DOMAIN new : new[j] = stk[t][i]
      BY <2>2, <2>3, <3>1, <3>2 DEF Below
    <3> QED BY <2>2, <2>3, <3>3, <1>3 DEF Closing
  <2>4. CASE u # t
    BY <2>2, <2>4, <1>3 DEF Closing
  <2> QED BY <2>3, <2>4
<1>8. Tracked(stk2, win, open, gone)
  BY <1>7 DEF Tracked, Linked
<1> QED BY <1>2, <1>6, <1>8 DEF Linked, stk2

\* A handler reads the pending promises, and waits for one that is pending.
LEMMA AwaitStep ==
    ASSUME Inv, NEW t \in Tasks, Await(t), UNCHANGED reqVars
    PROVE  Inv'
<1> DEFINE names == Arg(t)
           pending == {i \in DOMAIN names : window[names[i]] # None}
           n == Min(pending)
           rest == SubSeq(names, n + 1, Len(names))
           two == <<Frame("waiting", window[names[n]]), Frame("await", rest)>>
           fr == IF pending = {} THEN <<>> ELSE two
           new == fr \o Tail(stack[t])
<1>1. /\ Turn(t, "await") /\ Become(t, fr)
      /\ UNCHANGED <<selected, queue, current, window, windows, closed, reqVars>>
  BY DEF Await
<1>2. names \in Seq(Names) /\ Going(stack, running) = {}
      /\ stack[t] # <<>> /\ Head(stack[t])[1] = "await" /\ stack[t] \in Seq(Frames)
  BY <1>1, TurnIs, FrameArgs
<1>3. /\ Linked(stack, window, windows.open, closed)
      /\ stack \in [Tasks -> Seq(Frames)] /\ Proper(stack[t])
      /\ AllHeld(stack, queue, userRequests, overtaken)
      /\ TopIs(stack[t], "await")
  BY <1>2 DEF Inv, StackInv, Linked, HeldInv, TopIs
<1>4. /\ Proper(Tail(stack[t])) /\ ~TopIs(Tail(stack[t]), "waiting")
      /\ Below(stack[t], Tail(stack[t]))
  BY <1>2, <1>3, TailIs DEF TopIs, TopIn
<1> HIDE DEF names
<1>5. ASSUME pending = {}
      PROVE  /\ Linked(stack', window, windows.open, closed)
             /\ AllHeld(stack', queue, userRequests, overtaken)
             /\ CanGoOn(stack', running') /\ running' \in Tasks \cup {None}
  <2>1. new = Tail(stack[t])
    <3>1. Tail(stack[t]) \in Seq(Frames)
      BY <1>2
    <3> QED BY <1>5, <3>1, ConcatEmptySeq
  <2>2. stack' = [stack EXCEPT ![t] = Tail(stack[t])]
    BY <1>1, <2>1, <1>3 DEF Become, Replaced
  <2>3. Linked(stack', window, windows.open, closed)
    BY <2>2, <1>3, <1>4, AwaitLinked
  <2>4. CarryOK(Tail(stack[t]), queue, userRequests, overtaken)
    BY <1>2, <1>3, TailIs DEF AllHeld
  <2>5. AllHeld(stack', queue, userRequests, overtaken)
    BY <2>2, <2>4, <1>3, ReplaceHeld
  <2>6. running' = None
    BY <1>1, <1>5 DEF Become, Runs
  <2>7. CanGoOn(stack', running')
    BY <2>6 DEF CanGoOn
  <2> HIDE DEF new, fr, pending, n
  <2> QED BY <2>3, <2>5, <2>6, <2>7
<1>6. ASSUME pending # {}
      PROVE  /\ Linked(stack', window, windows.open, closed)
             /\ AllHeld(stack', queue, userRequests, overtaken)
             /\ CanGoOn(stack', running') /\ running' \in Tasks \cup {None}
  <2>1. n \in DOMAIN names /\ window[names[n]] # None /\ names[n] \in Names
    <3>1. pending \subseteq Nat
      BY <1>2
    <3>2. n \in pending
      <4> HIDE DEF pending
      <4> QED BY <1>6, <3>1, MinIs
    <3> QED BY <3>2, <1>2
  <2>2. window[names[n]] \in Tasks
    BY <2>1, <1>3 DEF Linked, ByTheirCalls
  <2>3. rest \in Seq(Names)
    <3>1. names \in Seq(Names) /\ n \in 1..Len(names) /\ Len(names) \in Nat
      BY <1>2, <2>1
    <3> HIDE DEF n
    <3> QED BY <3>1
  <2> HIDE DEF n, rest
  <2>4. fr = two /\ fr # <<>> /\ Head(fr) = <<"waiting", window[names[n]]>>
    BY <1>6 DEF Frame
  <2>5. two \in Seq(Frames)
    BY <2>2, <2>3 DEF Frames, Frame
  <2>6. Proper(two \o Tail(stack[t]))
    BY <1>3, <2>2, <2>3, WaitProper
  <2>7. stack' = [stack EXCEPT ![t] = two \o Tail(stack[t])]
        /\ stack' = [stack EXCEPT ![t] = two \o Tail(@)]
    BY <1>1, <2>4, <1>3 DEF Become, Replaced
  <2>8. Below(stack[t], two \o Tail(stack[t]))
    <3> HIDE DEF two
    <3> QED BY <1>2, <2>5, PushIs
  <2>9. Head(two \o Tail(stack[t])) = <<"waiting", window[names[n]]>>
    <3>1. two # <<>> /\ Head(two) = <<"waiting", window[names[n]]>>
      BY <2>4
    <3> HIDE DEF two
    <3> QED BY <1>2, <2>5, <3>1, PushIs
  <2>10. Linked(stack', window, windows.open, closed)
    <3> DEFINE s2 == two \o Tail(stack[t])
    <3>1. Head(s2)[2] = window[names[n]]
      BY <2>9
    <3>2. Proper(s2) /\ Below(stack[t], s2)
      BY <2>6, <2>8
    <3>3. stack' = [stack EXCEPT ![t] = s2]
      BY <2>7
    <3> HIDE DEF s2, two
    <3> QED BY <1>3, <2>1, <3>1, <3>2, <3>3, AwaitLinked
  <2>11. CarryOK(two, queue, userRequests, overtaken)
    BY DEF CarryOK, CarriesOK, Frame, Holders
  <2>12. AllHeld(stack', queue, userRequests, overtaken)
    <3>1. stack[t] # <<>> /\ stack' = [stack EXCEPT ![t] = two \o Tail(@)]
      BY <1>2, <2>7
    <3> HIDE DEF two
    <3> QED BY <1>3, <2>5, <2>11, <3>1, PushHeld
  <2>13. running' = None
    <3>1. running' = IF fr # <<>> /\ Head(fr)[1] \notin Blocking THEN t ELSE None
      BY <1>1 DEF Become, Runs
    <3>2. Head(fr)[1] \in Blocking
      BY <2>4 DEF Blocking
    <3> HIDE DEF fr
    <3> QED BY <3>1, <3>2
  <2>14. CanGoOn(stack', running')
    BY <2>13 DEF CanGoOn
  <2> HIDE DEF new, fr, pending, two
  <2> QED BY <2>10, <2>12, <2>13, <2>14
<1>7. /\ Linked(stack', window, windows.open, closed)
      /\ AllHeld(stack', queue, userRequests, overtaken)
      /\ CanGoOn(stack', running') /\ running' \in Tasks \cup {None}
  <2> HIDE DEF new, fr, pending, n, two
  <2> QED BY <1>5, <1>6
<1>8. StackInv' /\ HeldInv' /\ AskedInv'
  BY <1>1, <1>2, <1>7, CalmAsked DEF StackInv, HeldInv, Calm, reqVars, history
<1>9. Typed'
  BY <1>1, <1>7, TypedSame DEF Inv
<1> QED BY <1>7, <1>8, <1>9 DEF Inv

\* openActionWindow
LEMMA OpenStep ==
    ASSUME Inv, NEW t \in Tasks, Open(t), UNCHANGED reqVars
    PROVE  Inv'
<1> DEFINE ask == <<Frame("popup", [next |-> "opening", reopen |-> TRUE])>>
           focus == <<Frame("await", <<"close", "focus", "open">>), Frame("focus", TRUE)>>
           fr == IF window.id = None THEN ask ELSE IF Arg(t) THEN <<>> ELSE focus
<1>1. /\ Turn(t, "open") /\ Become(t, fr)
      /\ UNCHANGED <<selected, queue, current, window, windows, closed, reqVars>>
  BY DEF Open
<1>2. Bears(ask)
  <2>1. /\ Frame("popup", [next |-> "opening", reopen |-> TRUE]) \in Frames
        /\ Frame("popup", [next |-> "opening", reopen |-> TRUE])[1] = "popup"
    BY DEF Frame, Frames
  <2> QED BY <2>1, BearsOne DEF PromiseOps, Holders
<1>3. Bears(fr)
  <2> HIDE DEF ask
  <2> QED BY <1>2, FocusIs, BearsNone
<1> HIDE DEF fr
<1>4. Calm
  BY <1>1 DEF Calm, reqVars, history
<1>5. Rest' /\ running' \in Tasks \cup {None}
  BY <1>1, <1>3, <1>4, BearsNothing, CalmStep DEF Waits, PromiseOps
<1> QED BY <1>1, <1>5, TypedSame DEF Inv, Rest

\* focusActionWindow
LEMMA FocusStep ==
    ASSUME Inv, NEW t \in Tasks, Focus(t), UNCHANGED reqVars
    PROVE  Inv'
<1> DEFINE ask == <<Frame("popup", [next |-> "focusing", reopen |-> Arg(t)])>>
           fr == IF Seen(queue) = {} \/ current = None \/ window.id = None THEN <<>> ELSE ask
<1>1. /\ Turn(t, "focus") /\ Become(t, fr)
      /\ UNCHANGED <<selected, queue, current, window, windows, closed, reqVars>>
  BY DEF Focus
<1>2. Arg(t) \in BOOLEAN
  BY <1>1, TurnIs, FrameArgs
<1>3. Bears(ask)
  <2>1. /\ Frame("popup", [next |-> "focusing", reopen |-> Arg(t)]) \in Frames
        /\ Frame("popup", [next |-> "focusing", reopen |-> Arg(t)])[1] = "popup"
    BY <1>2 DEF Frame, Frames
  <2> QED BY <2>1, BearsOne DEF PromiseOps, Holders
<1>4. Bears(fr)
  <2> HIDE DEF ask
  <2> QED BY <1>3, BearsNone
<1> HIDE DEF fr
<1>5. Calm
  BY <1>1 DEF Calm, reqVars, history
<1>6. Rest' /\ running' \in Tasks \cup {None}
  BY <1>1, <1>4, <1>5, BearsNothing, CalmStep DEF Waits, PromiseOps
<1> QED BY <1>1, <1>6, TypedSame DEF Inv, Rest

\* A handler asks the browser, and the window keeps that as its promise.
LEMMA CallLinked ==
    ASSUME NEW stk, NEW win, NEW open, NEW gone, Linked(stk, win, open, gone),
           win \in [id: (1..MaxWindows) \cup {None}, close: Tasks \cup {None},
                    focus: Tasks \cup {None}, open: Tasks \cup {None}],
           NEW t \in Tasks, stk[t] # <<>>, Head(stk[t])[1] \notin Waits,
           NEW n \in Names, NEW f \in Frames, f[1] = PromiseOp(n)
    PROVE  Linked([stk EXCEPT ![t] = <<f>> \o Tail(@)], [win EXCEPT ![n] = t], open, gone)
<1> DEFINE new == <<f>> \o Tail(stk[t])
           stk2 == [stk EXCEPT ![t] = new]
           win2 == [win EXCEPT ![n] = t]
<1>1. stk \in [Tasks -> Seq(Frames)] /\ \A u \in Tasks : Proper(stk[u])
  BY DEF Linked
<1>2. /\ new \in Seq(Frames)
      /\ \A i \in DOMAIN new : \/ i \in DOMAIN <<f>> /\ new[i] = <<f>>[i]
                               \/ \E j \in DOMAIN stk[t] :
                                     j = i - Len(<<f>>) + 1 /\ j > 1 /\ new[i] = stk[t][j]
      /\ new # <<>> /\ Head(new) = f
  <2> DEFINE fr == <<f>>
  <2>1. fr \in Seq(Frames) /\ fr # <<>> /\ Head(fr) = f
    OBVIOUS
  <2> HIDE DEF fr
  <2>2. /\ fr \o Tail(stk[t]) \in Seq(Frames)
        /\ \A i \in DOMAIN (fr \o Tail(stk[t])) :
              \/ i \in DOMAIN fr /\ (fr \o Tail(stk[t]))[i] = fr[i]
              \/ \E j \in DOMAIN stk[t] :
                    /\ j = i - Len(fr) + 1 /\ j > 1
                    /\ (fr \o Tail(stk[t]))[i] = stk[t][j]
        /\ fr \o Tail(stk[t]) # <<>> /\ Head(fr \o Tail(stk[t])) = f
    BY <1>1, <2>1, PushIs
  <2> QED BY <2>2 DEF fr
<1>3. \A i \in DOMAIN stk[t] : stk[t][i][1] # "handleClose"
  BY <1>1, NothingToHandle DEF Waits, TopIn
<1> HIDE DEF new
<1>4. Proper(new)
  <2>1. DOMAIN <<f>> = {1} /\ <<f>>[1] = f
    OBVIOUS
  <2>2. \A i \in DOMAIN new : \/ i = 1 /\ new[i] = f
                              \/ \E j \in DOMAIN stk[t] : j > 1 /\ new[i] = stk[t][j]
    <3> SUFFICES ASSUME NEW i \in DOMAIN new
                 PROVE  \/ i = 1 /\ new[i] = f
                        \/ \E j \in DOMAIN stk[t] : j > 1 /\ new[i] = stk[t][j]
      OBVIOUS
    <3>1. CASE i \in DOMAIN <<f>> /\ new[i] = <<f>>[i]
      BY <3>1, <2>1
    <3>2. CASE \E j \in DOMAIN stk[t] : j = i - Len(<<f>>) + 1 /\ j > 1 /\ new[i] = stk[t][j]
      BY <3>2
    <3> QED BY <1>2, <3>1, <3>2
  <2>3. f[1] \in PromiseOps
    BY DEF PromiseOp, PromiseOps
  <2>4. ASSUME NEW i \in DOMAIN new
        PROVE  /\ i > 1 => new[i][1] \notin PromiseOps \cup {"waiting"}
               /\ new[i][1] # "handleClose"
    <3>1. CASE i = 1 /\ new[i] = f
      BY <3>1, <2>3 DEF PromiseOps
    <3>2. CASE \E j \in DOMAIN stk[t] : j > 1 /\ new[i] = stk[t][j]
      BY <3>2, <1>1, <1>3 DEF Proper
    <3> QED BY <2>2, <3>1, <3>2
  <2> QED BY <1>2, <2>4 DEF Proper
<1>5. \A u \in Tasks : stk2[u] = IF u = t THEN new ELSE stk[u]
  BY <1>1
<1>6. stk2 \in [Tasks -> Seq(Frames)] /\ \A u \in Tasks : Proper(stk2[u])
  BY <1>1, <1>2, <1>4 DEF Proper
<1>7. win2.id = win.id /\ \A m \in Names : win2[m] = IF m = n THEN t ELSE win[m]
  BY DEF Names
<1>8. [stk EXCEPT ![t] = <<f>> \o Tail(@)] = stk2
  BY <1>1 DEF new
<1> HIDE DEF stk2, win2
<1>9. ~TopIn(stk[t], PromiseOps) /\ \A m \in Names : ~TopIs(stk[t], PromiseOp(m))
  BY DEF TopIn, TopIs, PromiseOps, PromiseOp, Waits
<1>10. TopIs(new, PromiseOp(n)) /\ TopIn(new, PromiseOps) /\ ~TopIs(new, "waiting")
  BY <1>2 DEF TopIs, TopIn, PromiseOps, PromiseOp
<1>11. ByTheirCalls(stk2, win2)
  <2>1. ASSUME NEW m \in Names, win2[m] # None
        PROVE  win2[m] \in Tasks /\ TopIs(stk2[win2[m]], PromiseOp(m))
    BY <2>1, <1>5, <1>7, <1>9, <1>10 DEF ByTheirCalls, Linked
  <2>2. ASSUME NEW u \in Tasks, TopIs(stk2[u], "waiting")
        PROVE  Head(stk2[u])[2] \in Tasks /\ TopIn(stk2[Head(stk2[u])[2]], PromiseOps)
    BY <2>2, <1>5, <1>9, <1>10 DEF ByTheirCalls, Linked
  <2> QED BY <2>1, <2>2 DEF ByTheirCalls
<1>12. ASSUME NEW w, Closing(stk, w) PROVE Closing(stk2, w)
  <2>1. PICK u \in Tasks : \E i \in DOMAIN stk[u] : stk[u][i] = <<"handleClose", w>>
    BY <1>12 DEF Closing
  <2>2. u # t
    BY <2>1, <1>3
  <2> QED BY <2>1, <2>2, <1>5 DEF Closing
<1>13. Tracked(stk2, win2, open, gone)
  BY <1>7, <1>12 DEF Tracked, Linked
<1> QED BY <1>6, <1>8, <1>11, <1>13 DEF Linked, win2

\* The handler calls the browser, and its promise is noted.
LEMMA PopupGoneStep ==
    ASSUME Inv, NEW t \in Tasks, PopupGone(t), UNCHANGED reqVars
    PROVE  Inv'
<1> DEFINE n == IF Arg(t).next = "opening" THEN "open" ELSE "focus"
           f == Frame(Arg(t).next, Arg(t).reopen)
<1>1. /\ Quiet /\ At(t, "popup") /\ window' = [window EXCEPT ![n] = t] /\ Become(t, <<f>>)
      /\ UNCHANGED <<selected, queue, current, windows, closed, reqVars>>
  BY DEF PopupGone
<1>2. /\ stack[t] # <<>> /\ Head(stack[t])[1] = "popup" /\ Arg(t) = Head(stack[t])[2]
      /\ stack \in [Tasks -> Seq(Frames)] /\ Head(stack[t]) \in Frames
      /\ running = None /\ Going(stack, running) = {}
      /\ Turn(t, "popup")
  <2>1. stack[t] # <<>> /\ Head(stack[t])[1] = "popup" /\ Arg(t) = Head(stack[t])[2]
    BY <1>1 DEF At, Idle, TopOp, Arg
  <2>2. stack \in [Tasks -> Seq(Frames)]
    BY DEF Inv, StackInv, Linked
  <2> QED BY <1>1, <2>1, <2>2, QuietIs DEF Turn
<1>3. Arg(t) \in [next: {"opening", "focusing"}, reopen: BOOLEAN]
  BY <1>2, FrameArgs
<1>4. n \in Names /\ f \in Frames /\ f[1] = PromiseOp(n) /\ f[1] \in Blocking \ Holders
  BY <1>3 DEF Names, Frame, Frames, PromiseOp, Blocking, Holders
<1> HIDE DEF n, f
<1>5. Linked(stack', window', windows.open, closed)
  <2>1. stack' = [stack EXCEPT ![t] = <<f>> \o Tail(@)]
    BY <1>1 DEF Become, Replaced
  <2>2. Linked(stack, window, windows.open, closed)
    BY DEF Inv, StackInv
  <2> QED BY <1>1, <1>2, <1>4, <2>1, <2>2, CallLinked DEF Inv, Typed, Waits, PromiseOps
<1>6. AllHeld(stack', queue, userRequests, overtaken)
  <2>1. stack' = [stack EXCEPT ![t] = <<f>> \o Tail(@)]
    BY <1>1 DEF Become, Replaced
  <2>2. CarryOK(<<f>>, queue, userRequests, overtaken) /\ <<f>> \in Seq(Frames)
    BY <1>4 DEF CarryOK, CarriesOK
  <2> QED BY <1>2, <2>1, <2>2, PushHeld DEF Inv, HeldInv
<1>7. running' = None
  BY <1>1, <1>4 DEF Become, Runs
<1>8. AskedInv'
  <2>1. AllAsked(queue, userRequests, overtaken, {})
    BY <1>2 DEF Inv, AskedInv
  <2>2. AllAsked(queue, userRequests, overtaken, Going(stack', running'))
    BY <2>1, AskedMore
  <2> QED BY <1>1, <2>2 DEF AskedInv, reqVars, history
<1>9. StackInv' /\ HeldInv'
  BY <1>1, <1>5, <1>6 DEF StackInv, HeldInv, reqVars, history
<1>10. CanGoOn(stack', running')
  BY <1>7 DEF CanGoOn
<1>11. Typed'
  <2>1. Typed
    BY DEF Inv
  <2>2. window' \in [id: (1..MaxWindows) \cup {None}, close: Tasks \cup {None},
                     focus: Tasks \cup {None}, open: Tasks \cup {None}]
    BY <1>1, <1>4, <2>1 DEF Typed, Names
  <2> QED BY <1>1, <1>7, <2>1, <2>2 DEF Typed, reqVars, history
<1> QED BY <1>8, <1>9, <1>10, <1>11 DEF Inv

\* closeActionWindow
LEMMA CloseStep ==
    ASSUME Inv, NEW t \in Tasks, Close(t), UNCHANGED reqVars
    PROVE  Inv'
<1> DEFINE f == Frame("closing", window.id)
<1>1. /\ Turn(t, "close")
      /\ UNCHANGED <<selected, queue, current, windows, closed, reqVars>>
  BY DEF Close
<1>2. /\ stack[t] # <<>> /\ Head(stack[t])[1] = "close" /\ Going(stack, running) = {}
      /\ stack \in [Tasks -> Seq(Frames)] /\ Typed
  BY <1>1, TurnIs DEF Inv, StackInv, Linked
<1>3. CASE window.id = None
  <2>1. window' = window /\ Become(t, <<>>)
    BY <1>3 DEF Close
  <2>2. Calm
    BY <1>1, <2>1 DEF Calm, reqVars, history
  <2>3. Rest' /\ running' \in Tasks \cup {None}
    BY <1>1, <2>1, <2>2, BearsNone, BearsNothing, CalmStep DEF Waits, PromiseOps
  <2> QED BY <1>1, <2>1, <2>3, TypedSame DEF Inv, Rest
<1>4. CASE window.id # None
  <2>1. window' = [window EXCEPT !.close = t] /\ Become(t, <<f>>)
    BY <1>4 DEF Close
  <2>2. /\ f \in Frames /\ f[1] = PromiseOp("close")
        /\ f[1] \in Blocking \ Holders /\ "close" \in Names
    BY <1>2, <1>4 DEF Typed, Frame, Frames, PromiseOp, Blocking, Holders, Names
  <2>3. window' = [window EXCEPT !["close"] = t]
    BY <2>1
  <2> HIDE DEF f
  <2>4. stack' = [stack EXCEPT ![t] = <<f>> \o Tail(@)]
    BY <2>1 DEF Become, Replaced
  <2>5. Linked(stack', window', windows.open, closed)
    <3>1. Linked(stack, window, windows.open, closed)
      BY DEF Inv, StackInv
    <3> QED BY <1>2, <2>2, <2>3, <2>4, <3>1, CallLinked DEF Typed, Waits, PromiseOps
  <2>6. AllHeld(stack', queue, userRequests, overtaken)
    <3>1. CarryOK(<<f>>, queue, userRequests, overtaken) /\ <<f>> \in Seq(Frames)
      BY <2>2 DEF CarryOK, CarriesOK
    <3> QED BY <1>2, <2>4, <3>1, PushHeld DEF Inv, HeldInv
  <2>7. running' = None
    BY <2>1, <2>2 DEF Become, Runs
  <2>8. AskedInv'
    <3>1. AllAsked(queue, userRequests, overtaken, {})
      BY <1>2 DEF Inv, AskedInv
    <3>2. AllAsked(queue, userRequests, overtaken, Going(stack', running'))
      BY <3>1, AskedMore
    <3> QED BY <1>1, <3>2 DEF AskedInv, reqVars, history
  <2>9. StackInv' /\ HeldInv'
    BY <1>1, <2>5, <2>6 DEF StackInv, HeldInv, reqVars, history
  <2>10. CanGoOn(stack', running')
    BY <2>7 DEF CanGoOn
  <2>11. Typed'
    BY <1>1, <1>2, <2>1, <2>7 DEF Typed, reqVars, history
  <2> QED BY <2>8, <2>9, <2>10, <2>11 DEF Inv
<1> QED BY <1>3, <1>4

\* A promise settles: the handler that made it goes on, and so do those that wait
\* for it.  No close that is to be handled is forgotten.
LEMMA SettledIs ==
    ASSUME Inv, NEW t \in Tasks, NEW op, At(t, op), op \notin {"await", "waiting", "handleClose"},
           NEW fr \in Seq(Frames), Proper(fr \o Tail(stack[t])),
           ~TopIs(fr \o Tail(stack[t]), "waiting"), Settled(t, fr)
    PROVE  /\ stack' \in [Tasks -> Seq(Frames)]
           /\ \A u \in Tasks : Proper(stack'[u])
           /\ \A win : (\A n \in Names : win[n] # None => win[n] = window[n] /\ win[n] # t)
                          => ByTheirCalls(stack', win)
           /\ \A w : Closing(stack, w) => Closing(stack', w)
           /\ stack'[t] = fr \o Tail(stack[t])
<1>1. /\ stack \in [Tasks -> Seq(Frames)] /\ \A u \in Tasks : Proper(stack[u])
      /\ ByTheirCalls(stack, window)
  BY DEF Inv, StackInv, Linked
<1>2. stack[t] # <<>> /\ Head(stack[t])[1] = op
  BY DEF At, Idle, TopOp
<1> DEFINE goes(u) == TopIs(stack[u], "waiting") /\ Head(stack[u])[2] = t
           new == fr \o Tail(stack[t])
<1>3. \A u \in Tasks : stack'[u] = IF u = t THEN new
                                   ELSE IF goes(u) THEN Tail(stack[u]) ELSE stack[u]
  BY DEF Settled, At, Idle, TopOp, Arg, TopIs
<1>4. \A u \in Tasks : goes(u) => stack[u] # <<>>
  BY DEF TopIs
<1>5. ASSUME NEW u \in Tasks, goes(u)
      PROVE  /\ Proper(Tail(stack[u])) /\ ~TopIn(Tail(stack[u]), PromiseOps \cup {"waiting"})
             /\ Below(stack[u], Tail(stack[u]))
  BY <1>1, <1>4, <1>5, TailIs
<1>6. \A u \in Tasks : TopIn(stack[u], PromiseOps) => ~goes(u)
  BY DEF TopIn, TopIs, PromiseOps
<1> HIDE DEF new
<1>7. \A u \in Tasks : Proper(stack'[u])
  <2>1. Proper(new)
    BY DEF new
  <2> HIDE DEF goes
  <2> QED BY <2>1, <1>1, <1>3, <1>5
<1>8. stack' \in [Tasks -> Seq(Frames)]
  <2>1. \A u \in Tasks : stack'[u] \in Seq(Frames)
    BY <1>7 DEF Proper
  <2>2. stack' = [u \in Tasks |-> stack'[u]]
    BY DEF Settled
  <2> QED BY <2>1, <2>2
<1>9. ASSUME NEW win, \A n \in Names : win[n] # None => win[n] = window[n] /\ win[n] # t
      PROVE  ByTheirCalls(stack', win)
  <2>1. ASSUME NEW n \in Names, win[n] # None
        PROVE  win[n] \in Tasks /\ TopIs(stack'[win[n]], PromiseOp(n))
    <3>1. win[n] \in Tasks /\ TopIs(stack[win[n]], PromiseOp(n)) /\ win[n] # t
      BY <2>1, <1>1, <1>9 DEF ByTheirCalls
    <3>2. ~goes(win[n])
      BY <3>1 DEF TopIs, PromiseOp
    <3> QED BY <3>1, <3>2, <1>3
  <2>2. ASSUME NEW u \in Tasks, TopIs(stack'[u], "waiting")
        PROVE  Head(stack'[u])[2] \in Tasks /\ TopIn(stack'[Head(stack'[u])[2]], PromiseOps)
    <3>1. u # t
      BY <2>2, <1>3 DEF new
    <3>2. ~goes(u)
      <4>1. goes(u) => ~TopIs(Tail(stack[u]), "waiting")
        BY <1>5 DEF TopIn, TopIs
      <4> QED BY <4>1, <3>1, <2>2, <1>3
    <3>3. stack'[u] = stack[u] /\ TopIs(stack[u], "waiting")
      BY <3>1, <3>2, <2>2, <1>3
    <3>4. /\ Head(stack[u])[2] \in Tasks /\ TopIn(stack[Head(stack[u])[2]], PromiseOps)
          /\ Head(stack[u])[2] # t
      BY <3>2, <3>3, <1>1 DEF ByTheirCalls
    <3>5. stack'[Head(stack[u])[2]] = stack[Head(stack[u])[2]]
      BY <3>4, <1>3, <1>6
    <3> QED BY <3>3, <3>4, <3>5
  <2> QED BY <2>1, <2>2 DEF ByTheirCalls
<1>10. ASSUME NEW w, Closing(stack, w) PROVE Closing(stack', w)
  <2>1. PICK u \in Tasks : \E i \in DOMAIN stack[u] : stack[u][i] = <<"handleClose", w>>
    BY <1>10 DEF Closing
  <2>2. PICK i \in DOMAIN stack[u] : stack[u][i] = <<"handleClose", w>>
    BY <2>1
  <2>3. u # t
    <3>1. ~TopIn(stack[t], {"await", "waiting", "handleClose"})
      BY <1>2 DEF TopIn
    <3>2. \A k \in DOMAIN stack[t] : stack[t][k][1] # "handleClose"
      BY <3>1, <1>1, NothingToHandle
    <3> QED BY <3>2, <2>2
  <2>4. CASE goes(u)
    <3>1. stack[u] \in Seq(Frames) /\ Head(stack[u]) = stack[u][1] /\ i >= 1 /\ i \in Nat
      BY <2>4, <1>1, <1>4
    <3>2. i # 1
      BY <2>2, <2>4, <3>1 DEF TopIs
    <3>3. \E j \in DOMAIN Tail(stack[u]) : Tail(stack[u])[j] = stack[u][i]
      <4>1. Below(stack[u], Tail(stack[u])) /\ i > 1
        BY <2>4, <3>1, <3>2, <1>5
      <4> QED BY <2>2, <4>1 DEF Below
    <3> QED BY <2>2, <2>3, <2>4, <3>3, <1>3 DEF Closing
  <2>5. CASE ~goes(u)
    <3>1. stack'[u] = stack[u]
      BY <2>3, <2>5, <1>3
    <3> QED BY <2>2, <3>1 DEF Closing
  <2> QED BY <2>4, <2>5
<1> QED BY <1>3, <1>7, <1>8, <1>9, <1>10 DEF new

\* The step of a promise that settles.
LEMMA SettledStep ==
    ASSUME Inv, Quiet, NEW t \in Tasks, NEW op, At(t, op),
           op \notin {"await", "waiting", "handleClose"},
           NEW fr \in Seq(Frames), Proper(fr \o Tail(stack[t])),
           ~TopIs(fr \o Tail(stack[t]), "waiting"), Settled(t, fr),
           CarryOK(fr, queue, userRequests, overtaken),
           \A n \in Names : window'[n] # None => window'[n] = window[n] /\ op # PromiseOp(n),
           Tracked(stack', window', windows'.open, closed'),
           UNCHANGED <<queue, userRequests, overtaken, running>>
    PROVE  Rest'
<1>1. stack[t] # <<>> /\ Head(stack[t])[1] = op
  BY DEF At, Idle, TopOp
<1>2. \A n \in Names : window'[n] # None => window'[n] = window[n] /\ window'[n] # t
  BY <1>1 DEF Inv, StackInv, Linked, ByTheirCalls, TopIs
<1>3. /\ stack' \in [Tasks -> Seq(Frames)] /\ \A u \in Tasks : Proper(stack'[u])
      /\ ByTheirCalls(stack', window')
  BY <1>2, SettledIs
<1>4. StackInv'
  BY <1>3 DEF StackInv, Linked
<1>5. stack \in [Tasks -> Seq(Frames)] /\ AllHeld(stack, queue, userRequests, overtaken)
      /\ \A u \in Tasks : Proper(stack[u])
  BY DEF Inv, StackInv, HeldInv, Linked
<1>6. ASSUME NEW u \in Tasks PROVE CarryOK(stack'[u], queue, userRequests, overtaken)
  <2>1. CASE u = t
    <3>1. CarryOK(Tail(stack[t]), queue, userRequests, overtaken) /\ Tail(stack[t]) \in Seq(Frames)
      BY <1>1, <1>5, TailIs DEF AllHeld
    <3>2. CarryOK(fr \o Tail(stack[t]), queue, userRequests, overtaken)
      BY <3>1, CarryJoin
    <3> QED BY <2>1, <3>2, SettledIs
  <2>2. CASE u # t /\ At(u, "waiting") /\ Arg(u) = t
    <3>1. stack'[u] = Tail(stack[u]) /\ stack[u] # <<>>
      BY <2>2 DEF Settled, At, Idle
    <3> QED BY <3>1, <1>5, TailIs DEF AllHeld
  <2>3. CASE u # t /\ ~(At(u, "waiting") /\ Arg(u) = t)
    <3>1. stack'[u] = stack[u]
      BY <2>3 DEF Settled
    <3> QED BY <3>1, <1>5 DEF AllHeld
  <2> QED BY <2>1, <2>2, <2>3
<1>7. HeldInv'
  BY <1>6 DEF HeldInv, AllHeld
<1>8. running' = None
  BY QuietIs
<1>9. AskedInv'
  <2>1. AllAsked(queue, userRequests, overtaken, {})
    BY QuietIs DEF Inv, AskedInv
  <2>2. AllAsked(queue, userRequests, overtaken, Going(stack', running'))
    BY <2>1, AskedMore
  <2> QED BY <2>2 DEF AskedInv
<1>10. CanGoOn(stack', running')
  BY <1>8 DEF CanGoOn
<1> QED BY <1>4, <1>7, <1>9, <1>10 DEF Rest

\* A handler whose promise settled goes on with what was below.
LEMMA SettledBelow ==
    ASSUME Inv, NEW t \in Tasks, NEW op, At(t, op)
    PROVE  /\ Proper(<<>> \o Tail(stack[t])) /\ ~TopIs(<<>> \o Tail(stack[t]), "waiting")
           /\ <<>> \in Seq(Frames) /\ \A q, reqs, late : CarryOK(<<>>, q, reqs, late)
<1>1. stack[t] # <<>> /\ Proper(stack[t])
  BY DEF At, Idle, Inv, StackInv, Linked
<1>2. Proper(Tail(stack[t])) /\ ~TopIs(Tail(stack[t]), "waiting")
  BY <1>1, TailIs DEF TopIn, TopIs
<1>3. <<>> \o Tail(stack[t]) = Tail(stack[t])
  BY <1>2, ConcatEmptySeq DEF Proper
<1> QED BY <1>2, <1>3 DEF CarryOK

\* A notification was sent, or something was stored.
LEMMA AnsweredStep ==
    ASSUME Inv, NEW t \in Tasks, NEW op \in {"notify", "store"}, Answered(t, op), UNCHANGED reqVars
    PROVE  Inv'
<1>1. /\ Quiet /\ At(t, op) /\ Settled(t, <<>>)
      /\ UNCHANGED <<selected, queue, current, window, windows, closed, running, reqVars>>
  BY DEF Answered
<1>2. \A w : Closing(stack, w) => Closing(stack', w)
  BY <1>1, SettledBelow, SettledIs
<1>3. Tracked(stack', window', windows'.open, closed')
  BY <1>1, <1>2 DEF Inv, StackInv, Linked, Tracked
<1>4. \A n \in Names : op # PromiseOp(n)
  BY DEF PromiseOp
<1>5. Rest'
  <2>1. UNCHANGED <<queue, userRequests, overtaken, running>> /\ window' = window
    BY <1>1 DEF reqVars, history
  <2> QED BY <1>1, <1>3, <1>4, <2>1, SettledBelow, SettledStep
<1>6. running' \in Tasks \cup {None}
  BY <1>1 DEF Inv, Typed
<1> QED BY <1>1, <1>5, <1>6, TypedSame DEF Inv, Rest

\* The window opened, or the browser refused.
LEMMA OpenedStep ==
    ASSUME Inv, NEW t \in Tasks, Opened(t), UNCHANGED reqVars
    PROVE  Inv'
<1>1. /\ Quiet /\ At(t, "opening") /\ Settled(t, <<>>)
      /\ UNCHANGED <<selected, queue, current, closed, running, reqVars>>
      /\ \/ /\ windows.last < MaxWindows
            /\ windows' = [open |-> windows.open \cup {NewWindow}, last |-> NewWindow]
            /\ window' = [window EXCEPT !.open = None, !.id = NewWindow]
         \/ windows' = windows /\ window' = [window EXCEPT !.open = None]
  BY DEF Opened, Opens
<1>2. Typed /\ MaxWindows \in Nat
  BY WindowAssumption DEF Inv
<1>3. \A n \in Names : window'[n] # None => window'[n] = window[n] /\ "opening" # PromiseOp(n)
  <2>1. /\ window'.open = None /\ window'.focus = window.focus /\ window'.close = window.close
    BY <1>1, <1>2 DEF Typed
  <2> QED BY <2>1 DEF Names, PromiseOp
<1>4. \A w : Closing(stack, w) => Closing(stack', w)
  BY <1>1, SettledBelow, SettledIs
<1>5. Tracked(stack', window', windows'.open, closed')
  <2>1. Tracked(stack, window, windows.open, closed)
    BY DEF Inv, StackInv, Linked
  <2>2. /\ window \in [id: (1..MaxWindows) \cup {None}, close: Tasks \cup {None},
                       focus: Tasks \cup {None}, open: Tasks \cup {None}]
        /\ windows \in [open: SUBSET (1..MaxWindows), last: 0..MaxWindows]
    BY <1>2 DEF Typed
  <2>3. \/ window'.id = NewWindow /\ NewWindow \in windows'.open
        \/ window'.id = window.id /\ windows'.open = windows.open
    <3>1. ASSUME windows' = [open |-> windows.open \cup {NewWindow}, last |-> NewWindow],
                 window' = [window EXCEPT !.open = None, !.id = NewWindow]
          PROVE  window'.id = NewWindow /\ NewWindow \in windows'.open
      BY <2>2, <3>1
    <3>2. ASSUME windows' = windows, window' = [window EXCEPT !.open = None]
          PROVE  window'.id = window.id /\ windows'.open = windows.open
      BY <2>2, <3>2
    <3> QED BY <1>1, <3>1, <3>2
  <2> QED BY <1>1, <1>4, <2>1, <2>3 DEF Tracked
<1>6. Rest'
  BY <1>1, <1>3, <1>5, SettledBelow, SettledStep DEF reqVars, history
<1>7. Typed'
  <2>1. /\ windows \in [open: SUBSET (1..MaxWindows), last: 0..MaxWindows]
        /\ windows.open \cup closed \subseteq 1..windows.last
        /\ window \in [id: (1..MaxWindows) \cup {None}, close: Tasks \cup {None},
                       focus: Tasks \cup {None}, open: Tasks \cup {None}]
    BY <1>2 DEF Typed
  <2>2. CASE windows' = windows
    <3>1. window' \in [id: (1..MaxWindows) \cup {None}, close: Tasks \cup {None},
                      focus: Tasks \cup {None}, open: Tasks \cup {None}]
      BY <1>1, <1>2, <2>1, <2>2 DEF NewWindow
    <3> QED BY <1>1, <1>2, <2>1, <2>2, <3>1 DEF Typed, reqVars, history
  <2>3. CASE /\ windows.last < MaxWindows
             /\ windows' = [open |-> windows.open \cup {NewWindow}, last |-> NewWindow]
    <3>1. /\ NewWindow \in 1..MaxWindows /\ NewWindow \in Nat
          /\ 1..windows.last \subseteq 1..NewWindow /\ NewWindow \in 1..NewWindow
      BY <1>2, <2>1, <2>3 DEF NewWindow
    <3>2. window' \in [id: (1..MaxWindows) \cup {None}, close: Tasks \cup {None},
                      focus: Tasks \cup {None}, open: Tasks \cup {None}]
      BY <1>1, <2>1, <2>3, <3>1
    <3>3. windows' \in [open: SUBSET (1..MaxWindows), last: 0..MaxWindows]
      BY <1>2, <2>1, <2>3, <3>1
    <3>4. windows'.open \cup closed' \subseteq 1..windows'.last
      BY <1>1, <2>1, <2>3, <3>1
    <3> QED BY <1>1, <1>2, <3>2, <3>3, <3>4 DEF Typed, reqVars, history
  <2> QED BY <1>1, <2>2, <2>3
<1> QED BY <1>6, <1>7 DEF Inv, Rest

\* The window was focused, or another was opened in its place.
LEMMA FocusedStep ==
    ASSUME Inv, NEW t \in Tasks, Focused(t), UNCHANGED reqVars
    PROVE  Inv'
<1>1. /\ Quiet /\ At(t, "focusing") /\ Settled(t, <<>>)
      /\ UNCHANGED <<selected, queue, current, closed, running, reqVars>>
      /\ \/ /\ windows.last < MaxWindows
            /\ windows' = [open |-> windows.open \cup {NewWindow}, last |-> NewWindow]
            /\ window' = [window EXCEPT !.focus = None, !.id = NewWindow]
         \/ windows' = windows /\ window' = [window EXCEPT !.focus = None]
  BY DEF Focused, Opens
<1>2. Typed /\ MaxWindows \in Nat
  BY WindowAssumption DEF Inv
<1>3. \A n \in Names : window'[n] # None => window'[n] = window[n] /\ "focusing" # PromiseOp(n)
  <2>1. /\ window'.focus = None /\ window'.open = window.open /\ window'.close = window.close
    BY <1>1, <1>2 DEF Typed
  <2> QED BY <2>1 DEF Names, PromiseOp
<1>4. \A w : Closing(stack, w) => Closing(stack', w)
  BY <1>1, SettledBelow, SettledIs
<1>5. Tracked(stack', window', windows'.open, closed')
  <2>1. Tracked(stack, window, windows.open, closed)
    BY DEF Inv, StackInv, Linked
  <2>2. /\ window \in [id: (1..MaxWindows) \cup {None}, close: Tasks \cup {None},
                       focus: Tasks \cup {None}, open: Tasks \cup {None}]
        /\ windows \in [open: SUBSET (1..MaxWindows), last: 0..MaxWindows]
    BY <1>2 DEF Typed
  <2>3. \/ window'.id = NewWindow /\ NewWindow \in windows'.open
        \/ window'.id = window.id /\ windows'.open = windows.open
    <3>1. ASSUME windows' = [open |-> windows.open \cup {NewWindow}, last |-> NewWindow],
                 window' = [window EXCEPT !.focus = None, !.id = NewWindow]
          PROVE  window'.id = NewWindow /\ NewWindow \in windows'.open
      BY <2>2, <3>1
    <3>2. ASSUME windows' = windows, window' = [window EXCEPT !.focus = None]
          PROVE  window'.id = window.id /\ windows'.open = windows.open
      BY <2>2, <3>2
    <3> QED BY <1>1, <3>1, <3>2
  <2> QED BY <1>1, <1>4, <2>1, <2>3 DEF Tracked
<1>6. Rest'
  BY <1>1, <1>3, <1>5, SettledBelow, SettledStep DEF reqVars, history
<1>7. Typed'
  <2>1. /\ windows \in [open: SUBSET (1..MaxWindows), last: 0..MaxWindows]
        /\ windows.open \cup closed \subseteq 1..windows.last
        /\ window \in [id: (1..MaxWindows) \cup {None}, close: Tasks \cup {None},
                       focus: Tasks \cup {None}, open: Tasks \cup {None}]
    BY <1>2 DEF Typed
  <2>2. CASE windows' = windows
    <3>1. window' \in [id: (1..MaxWindows) \cup {None}, close: Tasks \cup {None},
                      focus: Tasks \cup {None}, open: Tasks \cup {None}]
      BY <1>1, <1>2, <2>1, <2>2 DEF NewWindow
    <3> QED BY <1>1, <1>2, <2>1, <2>2, <3>1 DEF Typed, reqVars, history
  <2>3. CASE /\ windows.last < MaxWindows
             /\ windows' = [open |-> windows.open \cup {NewWindow}, last |-> NewWindow]
    <3>1. /\ NewWindow \in 1..MaxWindows /\ NewWindow \in Nat
          /\ 1..windows.last \subseteq 1..NewWindow /\ NewWindow \in 1..NewWindow
      BY <1>2, <2>1, <2>3 DEF NewWindow
    <3>2. window' \in [id: (1..MaxWindows) \cup {None}, close: Tasks \cup {None},
                      focus: Tasks \cup {None}, open: Tasks \cup {None}]
      BY <1>1, <2>1, <2>3, <3>1
    <3>3. windows' \in [open: SUBSET (1..MaxWindows), last: 0..MaxWindows]
      BY <1>2, <2>1, <2>3, <3>1
    <3>4. windows'.open \cup closed' \subseteq 1..windows'.last
      BY <1>1, <2>1, <2>3, <3>1
    <3> QED BY <1>1, <1>2, <3>2, <3>3, <3>4 DEF Typed, reqVars, history
  <2> QED BY <1>1, <2>2, <2>3
<1> QED BY <1>6, <1>7 DEF Inv, Rest

\* The window that a handler asked to close is gone.
LEMMA CloseDoneStep ==
    ASSUME Inv, NEW t \in Tasks, CloseDone(t), UNCHANGED reqVars
    PROVE  Inv'
<1> DEFINE f == Frame("handleClose", window.id)
           fr == IF window.id = None THEN <<>> ELSE <<f>>
           s == stack[t]
           new == <<f>> \o Tail(s)
<1>1. /\ Quiet /\ At(t, "closing") /\ Settled(t, fr)
      /\ window' = [window EXCEPT !.close = None]
      /\ UNCHANGED <<selected, queue, current, windows, closed, running, reqVars>>
  BY DEF CloseDone
<1>2. Typed /\ Proper(s) /\ s # <<>> /\ Head(s)[1] = "closing" /\ s \in Seq(Frames)
  BY <1>1 DEF Inv, StackInv, Linked, At, Idle, TopOp, Proper
<1>3. \A n \in Names : window'[n] # None => window'[n] = window[n] /\ "closing" # PromiseOp(n)
  <2>1. /\ window'.close = None /\ window'.open = window.open /\ window'.focus = window.focus
    BY <1>1, <1>2 DEF Typed
  <2> QED BY <2>1 DEF Names, PromiseOp
<1>4. Typed'
  BY <1>1, <1>2 DEF Typed, reqVars, history
<1>5. UNCHANGED <<queue, userRequests, overtaken, running>> /\ window'.id = window.id
      /\ windows' = windows /\ closed' = closed
  BY <1>1, <1>2 DEF reqVars, history, Typed
<1>6. CASE window.id = None
  <2>1. Settled(t, <<>>)
    BY <1>1, <1>6
  <2>2. Tracked(stack', window', windows'.open, closed')
    BY <1>5, <1>6 DEF Tracked
  <2>3. Rest'
    BY <1>1, <1>3, <1>5, <2>1, <2>2, SettledBelow, SettledStep
  <2> QED BY <1>4, <2>3 DEF Inv, Rest
<1>7. CASE window.id # None
  <2>1. Settled(t, <<f>>)
    BY <1>1, <1>7
  <2>2. f \in Frames /\ f[1] = "handleClose"
    BY <1>2, <1>7 DEF Typed, Frame, Frames
  <2>3. <<f>> \in Seq(Frames) /\ DOMAIN <<f>> = {1} /\ <<f>>[1] = f
        /\ CarryOK(<<f>>, queue, userRequests, overtaken)
    BY <2>2 DEF CarryOK, CarriesOK, Holders
  <2>4. /\ new \in Seq(Frames) /\ new # <<>> /\ Head(new) = f
        /\ \A i \in DOMAIN new : \/ i \in DOMAIN <<f>> /\ new[i] = <<f>>[i]
                                 \/ \E j \in DOMAIN s : j > 1 /\ new[i] = s[j]
    <3> DEFINE one == <<f>>
    <3>1. one \in Seq(Frames) /\ one # <<>> /\ Head(one) = f
      BY <2>3
    <3> HIDE DEF one, s, f
    <3>2. /\ one \o Tail(s) \in Seq(Frames) /\ one \o Tail(s) # <<>> /\ Head(one \o Tail(s)) = f
          /\ \A i \in DOMAIN (one \o Tail(s)) :
                \/ i \in DOMAIN one /\ (one \o Tail(s))[i] = one[i]
                \/ \E j \in DOMAIN s : /\ j = i - Len(one) + 1 /\ j > 1
                                       /\ (one \o Tail(s))[i] = s[j]
      BY <1>2, <3>1, PushIs
    <3> QED BY <3>2 DEF one
  <2>5. ~TopIs(new, "waiting")
    BY <2>2, <2>4 DEF TopIs
  <2> HIDE DEF f, new, s
  <2>6. \A i \in DOMAIN s : i > 1 => s[i][1] # "handleClose"
    BY <1>2, NothingBelow DEF TopIn
  <2>7. \A i \in DOMAIN new :
           /\ i > 1 => new[i][1] \notin PromiseOps \cup {"waiting", "handleClose"}
           /\ i \in Nat /\ i >= 1
    <3>1. DOMAIN new \subseteq Nat \ {0}
      BY <2>4
    <3> QED BY <3>1, <2>3, <2>4, <2>6, <1>2 DEF Proper
  <2>8. Proper(new)
    BY <2>4, <2>7 DEF Proper
  <2>9. Proper(<<f>> \o Tail(stack[t])) /\ ~TopIs(<<f>> \o Tail(stack[t]), "waiting")
    BY <2>5, <2>8 DEF new, s
  <2>10. stack'[t] = <<f>> \o Tail(stack[t])
    BY <1>1, <2>1, <2>3, <2>9, SettledIs
  <2>11. Closing(stack', window.id)
    <3>1. stack'[t] = new
      BY <2>10 DEF new, s
    <3>2. 1 \in DOMAIN new /\ new[1] = <<"handleClose", window.id>>
      BY <2>4 DEF f, Frame
    <3> QED BY <3>1, <3>2 DEF Closing
  <2>12. Tracked(stack', window', windows'.open, closed')
    BY <1>5, <2>11 DEF Tracked
  <2>13. Rest'
    BY <1>1, <1>3, <1>5, <2>1, <2>3, <2>9, <2>12, SettledStep
  <2> QED BY <1>4, <2>13 DEF Inv, Rest
<1> QED BY <1>6, <1>7

\* A window closes.
LEMMA WindowClosesStep ==
    ASSUME Inv, NEW w \in windows.open, WindowCloses(w), UNCHANGED reqVars
    PROVE  Inv'
<1>1. /\ Quiet /\ windows' = [windows EXCEPT !.open = @ \ {w}] /\ closed' = closed \cup {w}
      /\ UNCHANGED <<selected, queue, current, window, stack, running, reqVars>>
  BY DEF WindowCloses
<1>2. Typed
  BY DEF Inv
<1>3. Typed'
  BY <1>1, <1>2 DEF Typed, reqVars, history
<1>4. windows'.open = windows.open \ {w}
  BY <1>1, <1>2 DEF Typed
<1>5. StackInv'
  <2>1. Linked(stack, window, windows.open, closed)
    BY DEF Inv, StackInv
  <2>2. Tracked(stack, window, windows'.open, closed')
    BY <1>1, <1>4, <2>1 DEF Linked, Tracked
  <2>3. Linked(stack, window, windows'.open, closed')
    BY <2>1, <2>2 DEF Linked
  <2> QED BY <1>1, <2>3 DEF StackInv
<1>6. HeldInv' /\ AskedInv' /\ CanGoOn(stack', running')
  BY <1>1 DEF Inv, HeldInv, AskedInv, reqVars, history
<1> QED BY <1>3, <1>5, <1>6 DEF Inv

\* The event that a window closed starts a handler.
LEMMA WindowRemovedStep ==
    ASSUME Inv, NEW t \in Tasks, WindowRemoved(t), UNCHANGED reqVars
    PROVE  Inv'
<1>1. PICK w \in closed :
         /\ Start(t, <<Frame("await", <<"focus">>), Frame("handleClose", w)>>)
         /\ closed' = closed \ {w}
  BY DEF WindowRemoved
<1> DEFINE f1 == Frame("await", <<"focus">>)
           f2 == Frame("handleClose", w)
           new == <<f1, f2>>
<1>2. UNCHANGED <<selected, queue, current, window, windows, reqVars>>
  BY DEF WindowRemoved
<1>3. /\ Quiet /\ stack[t] = <<>> /\ stack' = [stack EXCEPT ![t] = new]
      /\ running' = IF new # <<>> /\ Head(new)[1] \notin Blocking THEN t ELSE None
  BY <1>1 DEF Start, Idle, Runs
<1>4. f1 \in Frames /\ f2 \in Frames /\ f1[1] = "await" /\ f2 = <<"handleClose", w>>
      /\ f2[1] = "handleClose"
  <2>1. w \in 1..MaxWindows
    BY WindowAssumption DEF Inv, Typed
  <2>2. <<"focus">> \in Seq(Names)
    BY DEF Names
  <2> QED BY <2>1, <2>2 DEF Frame, Frames
<1> HIDE DEF f1, f2
<1>5. new \in Seq(Frames) /\ DOMAIN new = {1, 2} /\ new[1] = f1 /\ new[2] = f2 /\ Head(new) = f1
      /\ new # <<>>
  BY <1>4
<1> HIDE DEF new
<1>6. Proper(new) /\ ~TopIs(new, "waiting")
  <2>1. ~TopIs(new, "waiting")
    BY <1>4, <1>5 DEF TopIs
  <2>2. \A i \in DOMAIN new : new[i][1] \notin PromiseOps \cup {"waiting"}
    BY <1>4, <1>5 DEF PromiseOps
  <2>3. \A i \in DOMAIN new : \A j \in DOMAIN new : j < i => new[j][1] = "await"
    BY <1>4, <1>5
  <2> QED BY <1>5, <2>1, <2>2, <2>3 DEF Proper
<1>7. Linked(stack, window, windows.open, closed) /\ stack \in [Tasks -> Seq(Frames)]
  BY DEF Inv, StackInv, Linked
<1>8. Linked(stack', window, windows.open, closed)
  BY <1>3, <1>6, <1>7, ReplaceLinked DEF TopIn
<1>9. stack'[t] = new
  BY <1>3, <1>7
<1>10. Closing(stack', w)
  BY <1>4, <1>5, <1>9 DEF Closing
<1>11. Tracked(stack', window, windows.open, closed')
  BY <1>1, <1>8, <1>10 DEF Linked, Tracked
<1>12. StackInv'
  BY <1>2, <1>8, <1>11 DEF StackInv, Linked
<1>13. CarryOK(new, queue, userRequests, overtaken)
  BY <1>4, <1>5 DEF CarryOK, CarriesOK, Holders
<1>14. HeldInv'
  <2>1. AllHeld(stack', queue, userRequests, overtaken)
    BY <1>3, <1>7, <1>13, ReplaceHeld DEF Inv, HeldInv
  <2> QED BY <1>2, <2>1 DEF HeldInv, reqVars, history
<1>15. AskedInv'
  <2>1. AllAsked(queue, userRequests, overtaken, {})
    BY <1>3, QuietIs DEF Inv, AskedInv
  <2>2. AllAsked(queue, userRequests, overtaken, Going(stack', running'))
    BY <2>1, AskedMore
  <2> QED BY <1>2, <2>2 DEF AskedInv, reqVars, history
<1>16. CanGoOn(stack', running') /\ running' \in Tasks \cup {None}
  BY <1>3, <1>9 DEF CanGoOn
<1>17. Typed'
  BY <1>1, <1>2, <1>16 DEF Inv, Typed, reqVars, history
<1> QED BY <1>12, <1>14, <1>15, <1>16, <1>17 DEF Inv

\* A handler removes its top frame, or all of its frames.
LEMMA DropIs ==
    ASSUME NEW s, Proper(s), NEW m \in Nat, s # <<>>, ~TopIn(s, {"await", "waiting"})
    PROVE  /\ Proper(SubSeq(s, m + 2, Len(s))) /\ ~TopIs(SubSeq(s, m + 2, Len(s)), "waiting")
           /\ \A q, reqs, late : CarryOK(s, q, reqs, late)
                 => CarryOK(SubSeq(s, m + 2, Len(s)), q, reqs, late)
<1> DEFINE new == SubSeq(s, m + 2, Len(s))
<1>1. s \in Seq(Frames) /\ Len(s) \in Nat /\ DOMAIN s = 1..Len(s)
  BY DEF Proper
<1>2. /\ new \in Seq(Frames)
      /\ \A i \in DOMAIN new : i + m + 1 \in DOMAIN s /\ i + m + 1 > 1 /\ new[i] = s[i + m + 1]
  <2>1. CASE m + 2 > Len(s)
    <3>1. new = <<>>
      BY <1>1, <2>1
    <3> HIDE DEF new
    <3> QED BY <3>1
  <2>2. CASE m + 2 <= Len(s)
    <3>1. /\ new \in Seq(Frames) /\ Len(new) = Len(s) - (m + 2) + 1
          /\ \A i \in 1..(Len(s) - (m + 2) + 1) : new[i] = s[m + 2 + i - 1]
      BY <1>1, <2>2, SubSeqProperties
    <3> HIDE DEF new
    <3>2. \A i \in 1..(Len(s) - (m + 2) + 1) :
             i + m + 1 \in 1..Len(s) /\ i + m + 1 > 1 /\ i + m + 1 = m + 2 + i - 1
      BY <1>1, <2>2
    <3>3. DOMAIN new = 1..(Len(s) - (m + 2) + 1)
      BY <1>1, <2>2, <3>1
    <3> QED BY <1>1, <3>1, <3>2, <3>3
  <2> QED BY <1>1, <2>1, <2>2
<1> HIDE DEF new
<1>3. \A i \in DOMAIN s : i > 1 => s[i][1] \notin PromiseOps \cup {"waiting", "handleClose"}
  BY NothingBelow DEF Proper
<1>4. \A i \in DOMAIN new : new[i][1] \notin PromiseOps \cup {"waiting", "handleClose"}
  BY <1>2, <1>3
<1>5. Plain(new)
  BY <1>2, <1>4 DEF Plain
<1>6. Proper(new) /\ ~TopIs(new, "waiting")
  BY <1>5, PlainProper
<1>7. \A q, reqs, late : CarryOK(s, q, reqs, late) => CarryOK(new, q, reqs, late)
  BY <1>2 DEF CarryOK
<1> QED BY <1>6, <1>7 DEF new

\* The window closed: all but the account ops leave the queue.
LEMMA HandleCloseStep ==
    ASSUME Inv, NEW t \in Tasks, HandleClose(t), UNCHANGED reqVars
    PROVE  Inv'
<1> DEFINE s == stack[t]
           places == {i \in DOMAIN queue : queue[i].type = "accountOp"}
           q == Keep(queue, places)
           ours == \/ Arg(t) = window.id
                   \/ Seen(queue) = {} /\ current # None /\ window.id # None
           told == IF Seen(q) = {} THEN <<>> ELSE <<Frame("notify", None)>>
           next == <<Frame("onClose", 1)>>
           fr == IF ours THEN told \o next ELSE <<>>
<1>1. /\ Turn(t, "handleClose") /\ Become(t, fr)
      /\ UNCHANGED <<selected, windows, closed, reqVars>>
      /\ IF ours THEN window' = [window EXCEPT !.id = None] /\ current' = None /\ queue' = q
         ELSE UNCHANGED <<window, current, queue>>
  BY DEF HandleClose
<1>2. /\ s # <<>> /\ Head(s)[1] = "handleClose" /\ Going(stack, running) = {}
      /\ Head(s) \in Frames /\ Arg(t) = Head(s)[2] /\ s \in Seq(Frames)
  BY <1>1, TurnIs
<1>3. /\ Linked(stack, window, windows.open, closed) /\ stack \in [Tasks -> Seq(Frames)]
      /\ \A u \in Tasks : Proper(stack[u]) /\ ByTheirCalls(stack, window)
      /\ AllHeld(stack, queue, userRequests, overtaken) /\ Typed /\ queue \in Seq(QueuedSet)
  BY DEF Inv, StackInv, Linked, HeldInv, Typed
<1>4. Bears(fr)
  <2>1. Bears(told)
    BY BareIs, BearsNone DEF Bare
  <2>2. Frame("onClose", 1) \in Frames /\ Frame("onClose", 1)[1] = "onClose"
    BY DEF Frame, Frames
  <2>3. Bears(next)
    BY <2>2, BearsOne DEF PromiseOps, Holders
  <2> HIDE DEF told, next, ours
  <2> QED BY <2>1, <2>3, BearsJoin, BearsNone
<1> HIDE DEF q, fr, s
<1>5. ~TopIn(s, {"await", "waiting"})
  BY <1>2 DEF TopIn
<1> DEFINE new == fr \o Tail(s)
<1>6. Plain(fr) /\ Proper(new) /\ ~TopIs(new, "waiting")
  <2>1. Plain(fr) /\ Proper(s)
    BY <1>3, <1>4, BearsNothing DEF s
  <2> QED BY <1>2, <1>5, <2>1, PushProper
<1>7. stack' = [stack EXCEPT ![t] = new]
  BY <1>1, <1>3 DEF Become, Replaced, s
<1>8. \A u \in Tasks : stack'[u] = IF u = t THEN new ELSE stack[u]
  BY <1>3, <1>7
<1> HIDE DEF new
<1>9. /\ stack' \in [Tasks -> Seq(Frames)] /\ \A u \in Tasks : Proper(stack'[u])
  BY <1>3, <1>6, <1>7, <1>8 DEF Proper
<1>10. ASSUME NEW win, \A n \in Names : win[n] = window[n]
       PROVE  ByTheirCalls(stack', win)
  <2>1. ASSUME NEW n \in Names, win[n] # None
        PROVE  win[n] \in Tasks /\ TopIs(stack'[win[n]], PromiseOp(n))
    <3>1. win[n] \in Tasks /\ TopIs(stack[win[n]], PromiseOp(n))
      BY <2>1, <1>3, <1>10 DEF ByTheirCalls
    <3>2. win[n] # t
      BY <3>1, <1>2 DEF TopIs, PromiseOp, s
    <3> QED BY <3>1, <3>2, <1>8
  <2>2. ASSUME NEW u \in Tasks, TopIs(stack'[u], "waiting")
        PROVE  Head(stack'[u])[2] \in Tasks /\ TopIn(stack'[Head(stack'[u])[2]], PromiseOps)
    <3>1. u # t /\ stack'[u] = stack[u]
      BY <2>2, <1>6, <1>8
    <3>2. Head(stack[u])[2] \in Tasks /\ TopIn(stack[Head(stack[u])[2]], PromiseOps)
      BY <3>1, <2>2, <1>3 DEF ByTheirCalls
    <3>3. Head(stack[u])[2] # t
      BY <3>2, <1>2 DEF TopIn, PromiseOps, s
    <3> QED BY <3>1, <3>2, <3>3, <1>8
  <2> QED BY <2>1, <2>2 DEF ByTheirCalls
<1>11. window'.id = (IF ours THEN None ELSE window.id) /\ \A n \in Names : window'[n] = window[n]
       /\ windows' = windows /\ closed' = closed
  BY <1>1, <1>3 DEF Typed, Names
<1>12. Tracked(stack', window', windows.open, closed)
  <2>1. CASE ours
    BY <2>1, <1>11 DEF Tracked
  <2>2. CASE ~ours
    <3>1. Head(s)[2] # window.id
      BY <2>2, <1>2
    <3>2. ASSUME Closing(stack, window.id) PROVE Closing(stack', window.id)
      <4>1. PICK u \in Tasks : \E i \in DOMAIN stack[u] : stack[u][i] = <<"handleClose", window.id>>
        BY <3>2 DEF Closing
      <4>2. PICK i \in DOMAIN stack[u] : stack[u][i] = <<"handleClose", window.id>>
        BY <4>1
      <4>3. u # t
        <5> SUFFICES ASSUME u = t PROVE FALSE
          OBVIOUS
        <5>1. i \in DOMAIN s /\ s[i][1] = "handleClose" /\ s[i][2] = window.id
          BY <4>2 DEF s
        <5>2. i >= 1 /\ i \in Nat /\ Head(s) = s[1]
          BY <5>1, <1>2
        <5>3. ~(i > 1)
          <6>1. Proper(s)
            BY <1>3 DEF s
          <6> QED BY <6>1, <5>1, <1>5, NothingBelow
        <5> QED BY <5>1, <5>2, <5>3, <3>1
      <4> QED BY <4>2, <4>3, <1>8 DEF Closing
    <3>3. window'.id = window.id
      BY <2>2, <1>11
    <3> QED BY <3>2, <3>3, <1>3 DEF Tracked, Linked
  <2> QED BY <2>1, <2>2
<1>13. StackInv'
  <2>1. ByTheirCalls(stack', window')
    BY <1>10, <1>11
  <2>2. Linked(stack', window', windows.open, closed)
    BY <1>9, <1>12, <2>1 DEF Linked
  <2>3. windows'.open = windows.open /\ closed' = closed
    BY <1>1 DEF reqVars
  <2>4. Linked(stack', window', windows'.open, closed')
    BY <2>2, <2>3
  <2> QED BY <2>4 DEF StackInv
<1>14. /\ q \in Seq(QueuedSet)
       /\ \A reqs, late, going : AllAsked(queue, reqs, late, going)
             => AllAsked(q, reqs, late, going)
       /\ \A id : (\E i \in places : queue[i].id = id) => HasId(q, id)
  BY <1>3, FilterIs DEF q
<1>15. KeepsOps(queue, q)
  <2> SUFFICES ASSUME NEW a \in Accts, HasId(queue, a) PROVE HasId(q, a)
    BY DEF KeepsOps
  <2>1. PICK i \in DOMAIN queue : queue[i].id = a
    BY DEF HasId
  <2>2. queue[i].type = "accountOp"
    BY <2>1, <1>3 DEF QueuedSet, ActionSet
  <2> QED BY <2>1, <2>2, <1>14
<1>16. queue' \in {queue, q} /\ queue' \in Seq(QueuedSet)
  BY <1>1, <1>3, <1>14
<1>17. AllHeld(stack, queue', userRequests, overtaken)
  <2>1. Grows(userRequests, userRequests)
    BY DEF Grows
  <2>2. AllHeld(stack, q, userRequests, overtaken)
    BY <1>3, <1>15, <2>1, HeldGrows
  <2> QED BY <2>2, <1>3, <1>16
<1>18. AllHeld(stack', queue', userRequests, overtaken)
  <2>1. CarryOK(fr, queue', userRequests, overtaken) /\ fr \in Seq(Frames)
    BY <1>4, BearsNothing DEF Plain
  <2>2. stack' = [stack EXCEPT ![t] = fr \o Tail(@)] /\ stack[t] # <<>>
    BY <1>1, <1>2 DEF Become, Replaced, s
  <2> QED BY <1>3, <1>17, <2>1, <2>2, PushHeld
<1>19. HeldInv'
  BY <1>1, <1>18 DEF HeldInv, reqVars, history
<1>20. AskedInv'
  <2>1. AllAsked(queue, userRequests, overtaken, {})
    BY <1>2 DEF Inv, AskedInv
  <2>2. AllAsked(queue', userRequests, overtaken, {})
    BY <2>1, <1>14, <1>16
  <2>3. AllAsked(queue', userRequests, overtaken, Going(stack', running'))
    BY <2>2, AskedMore
  <2> QED BY <1>1, <2>3 DEF AskedInv, reqVars, history
<1>21. running' = IF fr # <<>> /\ Head(fr)[1] \notin Blocking THEN t ELSE None
  BY <1>1 DEF Become, Runs
<1>22. fr # <<>> => new # <<>> /\ Head(new) = Head(fr)
  <2>1. fr \in Seq(Frames)
    BY <1>6 DEF Plain
  <2> QED BY <1>2, <2>1, PushIs DEF new
<1>23. CanGoOn(stack', running')
  BY <1>8, <1>21, <1>22 DEF CanGoOn
<1>24. Typed'
  <2>1. window' \in [id: (1..MaxWindows) \cup {None}, close: Tasks \cup {None},
                     focus: Tasks \cup {None}, open: Tasks \cup {None}]
    BY <1>1, <1>3 DEF Typed
  <2>2. current' \in ActionSet \cup {None}
    BY <1>1, <1>3 DEF Typed
  <2> QED BY <1>1, <1>3, <1>16, <1>21, <2>1, <2>2 DEF Typed, reqVars, history
<1> QED BY <1>13, <1>19, <1>20, <1>23, <1>24 DEF Inv

-----------------------------------------------------------------------------
(* The steps of addUserRequests *)

\* Two and three frames that hold no actions.
LEMMA BearsMore ==
    ASSUME NEW f, Bears(<<f>>), NEW g, Bears(<<g>>), NEW h, Bears(<<h>>)
    PROVE  Bears(<<f, g>>) /\ Bears(<<f, g, h>>)
<1>1. \A e \in {f, g, h} : Bears(<<e>>)
  OBVIOUS
<1>2. ASSUME NEW e \in {f, g, h}
      PROVE  e \in Frames /\ e[1] \notin PromiseOps \cup {"waiting", "handleClose"} \cup Holders
  <2>1. Bears(<<e>>)
    BY <1>1
  <2>2. <<e>>[1] = e /\ 1 \in DOMAIN <<e>> /\ <<e>> \in Seq(Frames)
    BY <2>1 DEF Bears, Plain
  <2> QED BY <2>1, <2>2 DEF Bears, Plain
<1>3. f \in Frames /\ g \in Frames /\ h \in Frames
  BY <1>2
<1>4. <<f, g>> \in Seq(Frames) /\ DOMAIN <<f, g>> = {1, 2}
  BY <1>3
<1>5. <<f, g, h>> \in Seq(Frames) /\ DOMAIN <<f, g, h>> = {1, 2, 3}
  BY <1>3
<1> QED BY <1>2, <1>4, <1>5 DEF Bears, Plain

\* What the dapps are told keeps its type.
LEMMA TellIs ==
    ASSUME promise \in [Reqs -> Promises], NEW asked, NEW answer \in Promises
    PROVE  Tell(asked, answer) \in [Reqs -> Promises]
BY DEF Tell

\* A handler's next frames, when the list of requests may have grown.
LEMMA GrowStep ==
    ASSUME Inv, NEW t \in Tasks, NEW op, Turn(t, op),
           op \notin Waits \cup {"removeReqs", "remove"},
           NEW fr, Plain(fr), CarryOK(fr, queue, userRequests', overtaken), Become(t, fr),
           Grows(userRequests, userRequests'),
           UNCHANGED <<queue, window, windows, closed, overtaken>>
    PROVE  Rest' /\ running' \in Tasks \cup {None}
<1>1. stack \in [Tasks -> Seq(Frames)] /\ AllHeld(stack, queue, userRequests, overtaken)
  BY DEF Inv, StackInv, Linked, HeldInv
<1>2. AllHeld(stack, queue, userRequests', overtaken)
  <2>1. KeepsOps(queue, queue)
    BY DEF KeepsOps
  <2> QED BY <1>1, <2>1, HeldGrows
<1>3. /\ Linked(stack', window, windows.open, closed)
      /\ AllHeld(stack', queue, userRequests', overtaken)
      /\ CanGoOn(stack', running')
      /\ running' \in Tasks \cup {None}
  BY <1>2, BecomeStep
<1>4. StackInv' /\ HeldInv'
  BY <1>3 DEF StackInv, HeldInv
<1>5. AllAsked(queue, userRequests, overtaken, {})
  BY TurnIs DEF Inv, AskedInv
<1>6. AllAsked(queue, userRequests', overtaken, {})
  BY <1>5 DEF AllAsked, Grows
<1>7. AllAsked(queue, userRequests', overtaken, Going(stack', running'))
  BY <1>6, AskedMore
<1>8. AskedInv'
  BY <1>7 DEF AskedInv
<1> QED BY <1>3, <1>4, <1>8 DEF Rest

\* A handler ends early, with some or all of its frames.
LEMMA CutStep ==
    ASSUME Inv, NEW t \in Tasks, NEW op, Turn(t, op),
           op \notin Waits \cup {"removeReqs", "remove"},
           NEW new, Proper(new), ~TopIs(new, "waiting"),
           CarryOK(new, queue, userRequests, overtaken),
           stack' = [stack EXCEPT ![t] = new], running' = None, Calm
    PROVE  Rest'
<1>1. Linked(stack, window, windows.open, closed) /\ stack \in [Tasks -> Seq(Frames)]
  BY DEF Inv, StackInv, Linked
<1>2. ~TopIn(stack[t], PromiseOps \cup {"await", "waiting", "handleClose"})
  BY TurnIs DEF TopIn, Waits
<1>3. Linked(stack', window, windows.open, closed)
  BY <1>1, <1>2, ReplaceLinked
<1>4. AllHeld(stack', queue, userRequests, overtaken)
  BY <1>1, ReplaceHeld DEF Inv, HeldInv
<1>5. StackInv' /\ HeldInv'
  BY <1>3, <1>4 DEF StackInv, HeldInv, Calm
<1>6. AskedInv'
  BY TurnIs, CalmAsked
<1>7. CanGoOn(stack', running')
  BY DEF CanGoOn
<1> QED BY <1>5, <1>6, <1>7 DEF Rest

\* #guardHWSigning
LEMMA GuardStep ==
    ASSUME Inv, NEW t \in Tasks, Guard(t)
    PROVE  Inv'
<1> DEFINE remove == <<Frame("remove", [ids |-> {OneClickId}, openNext |-> TRUE])>>
           drop == <<Frame("await", <<"close", "focus", "open">>), Frame("focus", FALSE),
                     Frame("drop", Arg(t))>>
<1>1. /\ Turn(t, "guard")
      /\ Become(t, <<>>) \/ Become(t, remove) \/ Become(t, drop)
      /\ UNCHANGED <<selected, queue, current, window, windows, closed, reqVars>>
  BY DEF Guard
<1>2. Arg(t) \in Reqs \cup {None}
  BY <1>1, TurnIs, FrameArgs
<1>3. Bears(remove)
  BY RemoveIs DEF Ids
<1>4. Bears(drop)
  <2>1. Frame("drop", Arg(t)) \in Frames /\ Frame("drop", Arg(t))[1] = "drop"
    BY <1>2 DEF Frame, Frames
  <2>2. <<"close", "focus", "open">> \in Seq(Names)
    BY DEF Names
  <2>3. /\ Frame("await", <<"close", "focus", "open">>) \in Frames
        /\ Frame("await", <<"close", "focus", "open">>)[1] = "await"
    BY <2>2 DEF Frame, Frames
  <2>4. Frame("focus", FALSE) \in Frames /\ Frame("focus", FALSE)[1] = "focus"
    BY DEF Frame, Frames
  <2>5. /\ Bears(<<Frame("drop", Arg(t))>>) /\ Bears(<<Frame("focus", FALSE)>>)
        /\ Bears(<<Frame("await", <<"close", "focus", "open">>)>>)
    BY <2>1, <2>3, <2>4, BearsOne DEF PromiseOps, Holders
  <2> QED BY <2>5, BearsMore
<1> HIDE DEF remove, drop
<1>5. PICK fr \in {<<>>, remove, drop} : Become(t, fr)
  BY <1>1
<1>6. Bears(fr)
  BY <1>3, <1>4, BearsNone
<1>7. Calm
  BY <1>1 DEF Calm, reqVars, history
<1>8. Rest' /\ running' \in Tasks \cup {None}
  BY <1>1, <1>5, <1>6, <1>7, BearsNothing, CalmStep DEF Waits, PromiseOps
<1> QED BY <1>1, <1>8, TypedSame DEF Inv, Rest

\* What is guarded is dropped.
LEMMA DropStep ==
    ASSUME Inv, NEW t \in Tasks, Drop(t)
    PROVE  Inv'
<1> DEFINE below == SubSeq(stack[t], 3, Len(stack[t]))
<1>1. /\ Turn(t, "drop") /\ running' = None
      /\ UNCHANGED <<selected, queue, current, window, windows, closed>>
      /\ UNCHANGED <<userRequests, waiting, timers, signer, busy, signed, history>>
      /\ \/ stack' = [stack EXCEPT ![t] = SubSeq(@, 3, Len(@))] /\ promise' = promise
         \/ stack' = [stack EXCEPT ![t] = <<>>] /\ promise' = Tell({Arg(t)}, "rejected")
  BY DEF Drop
<1>2. stack[t] # <<>> /\ Head(stack[t])[1] = "drop" /\ Proper(stack[t])
      /\ stack \in [Tasks -> Seq(Frames)] /\ Typed
      /\ CarryOK(stack[t], queue, userRequests, overtaken)
  BY <1>1, TurnIs DEF Inv, StackInv, Linked, HeldInv, AllHeld
<1>3. /\ Proper(below) /\ ~TopIs(below, "waiting")
      /\ CarryOK(below, queue, userRequests, overtaken)
  <2>1. 1 \in Nat /\ 1 + 2 = 3 /\ ~TopIn(stack[t], {"await", "waiting"})
    BY <1>2 DEF TopIn
  <2>2. /\ Proper(SubSeq(stack[t], 1 + 2, Len(stack[t])))
        /\ ~TopIs(SubSeq(stack[t], 1 + 2, Len(stack[t])), "waiting")
        /\ CarryOK(SubSeq(stack[t], 1 + 2, Len(stack[t])), queue, userRequests, overtaken)
    BY <1>2, <2>1, DropIs
  <2> QED BY <2>1, <2>2
<1>4. /\ Proper(<<>>) /\ ~TopIs(<<>>, "waiting") /\ CarryOK(<<>>, queue, userRequests, overtaken)
  BY BearsNone, BearsNothing, PlainProper
<1>5. stack' = [stack EXCEPT ![t] = below] \/ stack' = [stack EXCEPT ![t] = <<>>]
  BY <1>1, <1>2
<1> HIDE DEF below
<1>6. Calm
  BY <1>1 DEF Calm, history
<1>7. Rest'
  BY <1>1, <1>3, <1>4, <1>5, <1>6, CutStep DEF Waits, PromiseOps
<1>8. promise' \in [Reqs -> Promises]
  BY <1>1, <1>2, TellIs DEF Typed, Promises
<1>9. Typed'
  BY <1>1, <1>2, <1>8 DEF Typed, history
<1> QED BY <1>7, <1>9 DEF Inv, Rest

\* The requests were looked at.
LEMMA EachDoneStep ==
    ASSUME Inv, NEW t \in Tasks, EachDone(t)
    PROVE  Inv'
<1> DEFINE f == Arg(t)
           arg == [actions |-> f.actions, pos |-> f.pos, exec |-> f.exec,
                   skipFocus |-> f.skipFocus]
           fr == IF f.actions = <<>> THEN <<>> ELSE <<Frame("update", arg)>>
<1>1. /\ Turn(t, "each") /\ Become(t, fr)
      /\ UNCHANGED <<selected, queue, current, window, windows, closed, reqVars>>
  BY DEF EachDone
<1>2. /\ f \in EachArgs /\ CarriesOK(Head(stack[t]), queue, userRequests, overtaken)
      /\ f = Head(stack[t])[2] /\ Head(stack[t])[1] = "each"
  BY <1>1, TurnIs, FrameArgs
<1> HIDE DEF f
<1>3. Plain(fr) /\ CarryOK(fr, queue, userRequests, overtaken)
  <2>1. CASE f.actions = <<>>
    BY <2>1, BearsNone, BearsNothing
  <2>2. CASE f.actions # <<>>
    <3>1. arg \in UpdateArgs /\ arg.actions = f.actions
      BY <1>2, <2>2 DEF EachArgs, UpdateArgs
    <3> HIDE DEF arg
    <3>2. Frame("update", arg) \in Frames /\ Frame("update", arg)[1] = "update"
          /\ Frame("update", arg)[2] = arg
      BY <3>1 DEF Frame, Frames
    <3>3. CarriesOK(Frame("update", arg), queue, userRequests, overtaken)
      BY <1>2, <3>1, <3>2 DEF CarriesOK, Holders
    <3> QED BY <2>2, <3>2, <3>3, PlainOne DEF PromiseOps, CarryOK
  <2> QED BY <2>1, <2>2
<1> HIDE DEF fr
<1>4. Calm
  BY <1>1 DEF Calm, reqVars, history
<1>5. Rest' /\ running' \in Tasks \cup {None}
  BY <1>1, <1>3, <1>4, CalmStep DEF Waits, PromiseOps
<1> QED BY <1>1, <1>5, TypedSame DEF Inv, Rest

\* A request for calls is listed.
LEMMA EachCallsStep ==
    ASSUME Inv, NEW t \in Tasks, EachCalls(t)
    PROVE  Inv'
<1> DEFINE f == Arg(t)
<1>1. /\ Turn(t, "each") /\ f.reqs # <<>> /\ f.reqs[1].kind = "calls"
      /\ userRequests' = Insert(userRequests, f.reqs[1], f.pos)
      /\ \E op \in {"fetch", "make"} : Become(t, <<Frame(op, f)>>)
      /\ UNCHANGED <<selected, queue, current, window, windows, closed>>
      /\ UNCHANGED <<waiting, promise, timers, signer, busy, signed, history>>
  BY DEF EachCalls
<1>2. /\ f \in EachArgs /\ CarriesOK(Head(stack[t]), queue, userRequests, overtaken)
      /\ f = Head(stack[t])[2] /\ Head(stack[t])[1] = "each" /\ Typed
      /\ stack[t] \in Seq(Frames) /\ stack[t] # <<>>
  BY <1>1, TurnIs, FrameArgs DEF Inv
<1> HIDE DEF f
<1>3. PICK op \in {"fetch", "make"} : Become(t, <<Frame(op, f)>>)
  BY <1>1
<1>4. f.reqs[1] \in RequestSet /\ f \in MakeArgs
  <2>1. f.reqs \in Seq(RequestSet)
    BY <1>2 DEF EachArgs
  <2> QED BY <1>1, <1>2, <2>1 DEF MakeArgs
<1>5. userRequests' \in Seq(RequestSet) /\ Grows(userRequests, userRequests')
  BY <1>1, <1>2, <1>4, InsertGrows, InsertIs DEF Typed
<1>6. Frame(op, f) \in Frames /\ Frame(op, f)[1] = op /\ Frame(op, f)[2] = f
  BY <1>4 DEF Frame, Frames
<1>7. CarriesOK(Frame(op, f), queue, userRequests', overtaken)
  <2>1. AllHeld(stack, queue, userRequests', overtaken)
    <3>1. KeepsOps(queue, queue) /\ stack \in [Tasks -> Seq(Frames)]
          /\ AllHeld(stack, queue, userRequests, overtaken)
      BY DEF KeepsOps, Inv, StackInv, Linked, HeldInv
    <3> QED BY <1>5, <3>1, HeldGrows
  <2>2. 1 \in DOMAIN stack[t] /\ Head(stack[t]) = stack[t][1]
    BY <1>2
  <2>3. CarriesOK(Head(stack[t]), queue, userRequests', overtaken)
    BY <2>1, <2>2 DEF AllHeld, CarryOK
  <2> QED BY <1>2, <1>6, <2>3 DEF CarriesOK, Holders
<1>8. Plain(<<Frame(op, f)>>) /\ CarryOK(<<Frame(op, f)>>, queue, userRequests', overtaken)
  BY <1>6, <1>7, PlainOne DEF PromiseOps, CarryOK
<1>9. Rest' /\ running' \in Tasks \cup {None}
  BY <1>1, <1>3, <1>5, <1>8, GrowStep DEF Waits, PromiseOps, history
<1>10. Typed'
  BY <1>1, <1>2, <1>5, <1>9 DEF Typed, history
<1> QED BY <1>9, <1>10 DEF Inv, Rest

\* The state of the account was fetched, or was not.
LEMMA FetchedStep ==
    ASSUME Inv, NEW t \in Tasks, Fetched(t)
    PROVE  Inv'
<1> DEFINE f == Frame("make", Arg(t))
           made == <<f>> \o Tail(stack[t])
<1>1. /\ Quiet /\ At(t, "fetch")
      /\ stack' = [stack EXCEPT ![t] = made] \/ stack' = [stack EXCEPT ![t] = <<>>]
      /\ UNCHANGED <<selected, queue, current, window, windows, closed, running, reqVars>>
  BY DEF Fetched
<1>2. stack[t] # <<>> /\ Head(stack[t])[1] = "fetch" /\ Proper(stack[t]) /\ Typed
      /\ Turn(t, "fetch") /\ CarryOK(stack[t], queue, userRequests, overtaken)
  BY <1>1, QuietIs DEF At, Idle, TopOp, Turn, Inv, StackInv, Linked, HeldInv, AllHeld
<1>3. /\ Arg(t) \in MakeArgs /\ Arg(t) = Head(stack[t])[2]
      /\ CarriesOK(Head(stack[t]), queue, userRequests, overtaken)
  BY <1>2, TurnIs, FrameArgs
<1>4. f \in Frames /\ f[1] = "make" /\ f[2] = Arg(t)
  BY <1>3 DEF Frame, Frames
<1> HIDE DEF f
<1>5. Plain(<<f>>) /\ CarryOK(<<f>>, queue, userRequests, overtaken) /\ <<f>> \in Seq(Frames)
  BY <1>2, <1>3, <1>4, PlainOne DEF PromiseOps, CarryOK, CarriesOK, Holders
<1>6. Proper(made) /\ ~TopIs(made, "waiting")
  <2>1. ~TopIn(stack[t], {"await", "waiting"})
    BY <1>2 DEF TopIn
  <2> QED BY <1>2, <1>5, <2>1, PushProper
<1>7. CarryOK(made, queue, userRequests, overtaken)
  <2>1. CarryOK(Tail(stack[t]), queue, userRequests, overtaken) /\ Tail(stack[t]) \in Seq(Frames)
    BY <1>2, TailIs DEF Proper
  <2> QED BY <1>5, <2>1, CarryJoin
<1>8. /\ Proper(<<>>) /\ ~TopIs(<<>>, "waiting") /\ CarryOK(<<>>, queue, userRequests, overtaken)
  BY BearsNone, BearsNothing, PlainProper
<1>9. PICK new : new \in {made, <<>>} /\ stack' = [stack EXCEPT ![t] = new]
  BY <1>1
<1> HIDE DEF made
<1>10. Rest'
  <2>1. Calm
    BY <1>1 DEF Calm, reqVars, history
  <2>2. Proper(new) /\ ~TopIs(new, "waiting") /\ CarryOK(new, queue, userRequests, overtaken)
    BY <1>6, <1>7, <1>8, <1>9
  <2>3. Head(stack[t])[1] \notin Waits
    BY <1>2 DEF Waits, PromiseOps
  <2> QED BY <1>1, <1>2, <1>9, <2>1, <2>2, <2>3, AnswerStep
<1> QED BY <1>1, <1>2, <1>10, TypedSame DEF Inv, Rest, Typed

\* An account op is made, or the queued one is to be updated.
LEMMA OpIs ==
    ASSUME NEW q, NEW reqs \in Seq(RequestSet), NEW a \in Accts
    PROVE  /\ QueuedOp(a) \in ActionSet /\ QueuedOp(a).same /\ QueuedOp(a).id = a
           /\ AccountOp(reqs, a) \in ActionSet /\ ~AccountOp(reqs, a).same
           /\ Asked(AccountOp(reqs, a), reqs)
<1>1. BatchCalls(reqs, a) \subseteq Reqs
  BY BatchIs
<1>2. QueuedOp(a) \in ActionSet /\ QueuedOp(a).same /\ QueuedOp(a).id = a
  BY DEF QueuedOp, ActionSet, Ids, ActionTypes, DappTypes
<1>3. AccountOp(reqs, a) \in ActionSet /\ ~AccountOp(reqs, a).same
  BY <1>1 DEF AccountOp, ActionSet, Ids, ActionTypes, DappTypes
<1>4. Asked(AccountOp(reqs, a), reqs)
  BY DEF AccountOp, Asked, DappTypes
<1> QED BY <1>2, <1>3, <1>4

\* Rebatching asks for what is listed.
LEMMA RebatchAsked ==
    ASSUME NEW q \in Seq(QueuedSet), NEW reqs \in Seq(RequestSet), NEW a \in Accts,
           NEW late, NEW going, AllAsked(q, reqs, late, going)
    PROVE  AllAsked(Rebatch(q, reqs, a), reqs, late, going)
<1> DEFINE new == Rebatch(q, reqs, a)
<1>1. /\ DOMAIN new = DOMAIN q
      /\ \A i \in DOMAIN q :
            /\ new[i].id = q[i].id /\ new[i].type = q[i].type /\ new[i].acct = q[i].acct
            /\ new[i].calls = IF q[i].id = a THEN BatchCalls(reqs, a) ELSE q[i].calls
  BY RebatchIs
<1>2. \A i \in DOMAIN q : q[i].id = a /\ q[i].type = "accountOp" => q[i].acct = a
  BY DEF QueuedSet, ActionSet
<1> HIDE DEF new
<1>3. AllAsked(new, reqs, late, going)
  BY <1>1, <1>2 DEF AllAsked
<1> QED BY <1>3 DEF new

\* The signer's calls may change.
LEMMA SignerIs ==
    ASSUME NEW s \in SignerSet \cup {None}, NEW a, NEW calls \in SUBSET Reqs
    PROVE  SignerCalls(s, a, calls) \in SignerSet \cup {None}
BY DEF SignerCalls, SignerSet

\* One more action in a handler's hand.
LEMMA OneMore ==
    ASSUME NEW s \in Seq(ActionSet), NEW a \in ActionSet, NEW q, NEW reqs, NEW late,
           \A j \in DOMAIN s : HeldOK(s[j], q, reqs, late), HeldOK(a, q, reqs, late)
    PROVE  /\ Append(s, a) \in Seq(ActionSet)
           /\ \A j \in DOMAIN Append(s, a) : HeldOK(Append(s, a)[j], q, reqs, late)
<1>1. /\ Append(s, a) \in Seq(ActionSet) /\ DOMAIN Append(s, a) = 1..(Len(s) + 1)
      /\ DOMAIN s = 1..Len(s) /\ Len(s) \in Nat
  BY AppendProperties
<1>2. \A j \in 1..Len(s) : Append(s, a)[j] = s[j]
  BY AppendProperties
<1>3. Append(s, a)[Len(s) + 1] = a
  BY AppendProperties
<1>4. \A j \in 1..(Len(s) + 1) : j \in 1..Len(s) \/ j = Len(s) + 1
  BY <1>1
<1> QED BY <1>1, <1>2, <1>3, <1>4

\* The next of "each" frames, with one more action.
LEMMA EachIs ==
    ASSUME NEW f \in EachArgs, f.reqs # <<>>, NEW a \in ActionSet, NEW q, NEW reqs, NEW late,
           \A j \in DOMAIN f.actions : HeldOK(f.actions[j], q, reqs, late),
           HeldOK(a, q, reqs, late)
    PROVE  LET fr == <<Frame("each", [f EXCEPT !.reqs = Tail(@), !.actions = Append(@, a)])>>
           IN Plain(fr) /\ CarryOK(fr, q, reqs, late)
<1> DEFINE arg == [f EXCEPT !.reqs = Tail(@), !.actions = Append(@, a)]
           g == Frame("each", arg)
<1>1. f.reqs \in Seq(RequestSet) /\ f.actions \in Seq(ActionSet)
  BY DEF EachArgs
<1>2. Tail(f.reqs) \in Seq(RequestSet)
  BY <1>1
<1>3. /\ Append(f.actions, a) \in Seq(ActionSet)
      /\ \A j \in DOMAIN Append(f.actions, a) : HeldOK(Append(f.actions, a)[j], q, reqs, late)
  BY <1>1, OneMore
<1>4. arg \in EachArgs /\ arg.actions = Append(f.actions, a)
  BY <1>2, <1>3 DEF EachArgs
<1> HIDE DEF arg
<1>5. g \in Frames /\ g[1] = "each" /\ g[2] = arg
  BY <1>4 DEF Frame, Frames
<1> HIDE DEF g
<1>6. Plain(<<g>>) /\ CarryOK(<<g>>, q, reqs, late)
  <2>1. CarriesOK(g, q, reqs, late)
    BY <1>3, <1>4, <1>5 DEF CarriesOK
  <2>2. CarryOK(<<g>>, q, reqs, late)
    BY <2>1 DEF CarryOK
  <2> QED BY <1>5, <2>2, PlainOne DEF PromiseOps
<1> QED BY <1>6 DEF g, arg

\* The account's op is made of what is listed.
LEMMA MakeStep ==
    ASSUME Inv, NEW t \in Tasks, Make(t)
    PROVE  Inv'
<1> DEFINE f == Arg(t)
           a == f.reqs[1].acct
           op == IF HasId(queue, a) THEN QueuedOp(a) ELSE AccountOp(userRequests, a)
           q == Rebatch(queue, userRequests, a)
           fr == <<Frame("each", [f EXCEPT !.reqs = Tail(@), !.actions = Append(@, op)])>>
<1>1. /\ Turn(t, "make") /\ Become(t, fr) /\ queue' = q
      /\ signer' = SignerCalls(signer, a, BatchCalls(userRequests, a))
      /\ UNCHANGED <<selected, current, window, windows, closed>>
      /\ UNCHANGED <<userRequests, waiting, promise, timers, busy, signed, history>>
  BY DEF Make
<1>2. /\ f \in MakeArgs /\ CarriesOK(Head(stack[t]), queue, userRequests, overtaken)
      /\ f = Head(stack[t])[2] /\ Head(stack[t])[1] = "make" /\ Typed
      /\ Going(stack, running) = {}
      /\ stack[t] \in Seq(Frames) /\ stack[t] # <<>>
  BY <1>1, TurnIs, FrameArgs DEF Inv
<1>3. f \in EachArgs /\ f.reqs # <<>> /\ a \in Accts
  <2>1. f \in EachArgs /\ f.reqs # <<>>
    BY <1>2 DEF MakeArgs
  <2>2. f.reqs \in Seq(RequestSet)
    BY <2>1 DEF EachArgs
  <2>3. f.reqs[1] \in RequestSet
    BY <2>1, <2>2
  <2> QED BY <2>1, <2>3 DEF RequestSet
<1> HIDE DEF f, a
<1>4. queue \in Seq(QueuedSet) /\ userRequests \in Seq(RequestSet)
      /\ stack \in [Tasks -> Seq(Frames)]
      /\ AllHeld(stack, queue, userRequests, overtaken)
  BY <1>2 DEF Typed, Inv, StackInv, Linked, HeldInv
<1>5. q \in Seq(QueuedSet) /\ \A id : HasId(q, id) <=> HasId(queue, id)
  BY <1>3, <1>4, RebatchIs
<1>6. AllHeld(stack, q, userRequests, overtaken)
  <2>1. KeepsOps(queue, q) /\ Grows(userRequests, userRequests)
    BY <1>5 DEF KeepsOps, Grows
  <2> QED BY <1>4, <2>1, HeldGrows
<1>7. op \in ActionSet /\ HeldOK(op, q, userRequests, overtaken)
  BY <1>3, <1>4, <1>5, OpIs DEF HeldOK
<1>8. \A j \in DOMAIN f.actions : HeldOK(f.actions[j], q, userRequests, overtaken)
  <2>1. 1 \in DOMAIN stack[t] /\ Head(stack[t]) = stack[t][1]
    BY <1>2
  <2>2. CarriesOK(Head(stack[t]), q, userRequests, overtaken)
    BY <1>6, <2>1 DEF AllHeld, CarryOK
  <2> QED BY <2>2, <1>2 DEF CarriesOK, Holders
<1> HIDE DEF op, q
<1>9. Plain(fr) /\ CarryOK(fr, q, userRequests, overtaken)
  BY <1>3, <1>7, <1>8, EachIs
<1> HIDE DEF fr
<1>10. /\ Linked(stack', window, windows.open, closed)
       /\ AllHeld(stack', q, userRequests, overtaken)
       /\ CanGoOn(stack', running')
       /\ running' \in Tasks \cup {None}
  BY <1>1, <1>6, <1>9, BecomeStep DEF Waits, PromiseOps
<1>11. AllAsked(q, userRequests, overtaken, Going(stack', running'))
  <2>1. AllAsked(queue, userRequests, overtaken, {})
    BY <1>2 DEF Inv, AskedInv
  <2>2. AllAsked(q, userRequests, overtaken, {})
    BY <1>3, <1>4, <2>1, RebatchAsked DEF q
  <2> QED BY <2>2, AskedMore
<1>12. StackInv' /\ HeldInv' /\ AskedInv'
  BY <1>1, <1>10, <1>11 DEF StackInv, HeldInv, AskedInv, history
<1>13. signer' \in SignerSet \cup {None}
  BY <1>1, <1>2, <1>4, BatchIs, SignerIs DEF Typed
<1>14. Typed'
  BY <1>1, <1>2, <1>5, <1>10, <1>13 DEF Typed, history
<1> QED BY <1>10, <1>12, <1>14 DEF Inv

\* An action of a request that asks for no calls.
LEMMA ActionIs ==
    ASSUME NEW req \in RequestSet, req.kind # "calls"
    PROVE  /\ ActionOf(req) \in ActionSet /\ ~ActionOf(req).same
           /\ ActionOf(req).id = req.id /\ ActionOf(req).type # "accountOp"
<1>1. /\ req.id \in Reqs \cup {SwitchId, BenzinId} /\ req.acct \in Accts
      /\ req.kind \in Kinds \cup {"benzin", "switch"}
      /\ req.kind \in Kinds => req.id \in Reqs /\ req.kind = Kind[req.id]
  BY DEF RequestSet
<1>2. req.id \notin Accts /\ req.id \in Ids
  BY <1>1, RequestsAssumption DEF Ids
<1>3. TypeOf(req.kind) \in ActionTypes \ {"accountOp"}
  BY <1>1 DEF TypeOf, ActionTypes, Kinds
<1>4. TypeOf(req.kind) \in DappTypes => req.kind \in Kinds
  BY <1>1 DEF TypeOf, DappTypes, Kinds
<1> QED BY <1>1, <1>2, <1>3, <1>4 DEF ActionOf, ActionSet

\* Any other request is listed, or is a second message and is refused.
LEMMA EachOtherStep ==
    ASSUME Inv, NEW t \in Tasks, EachOther(t)
    PROVE  Inv'
<1> DEFINE f == Arg(t)
           req == f.reqs[1]
           fr == <<Frame("each", [f EXCEPT !.reqs = Tail(@),
                                           !.actions = Append(@, ActionOf(req))])>>
<1>1. /\ Turn(t, "each") /\ f.reqs # <<>> /\ req.kind # "calls"
      /\ \/ /\ userRequests' = userRequests /\ promise' = Tell({req.asks}, "rejected")
            /\ Become(t, <<>>)
         \/ /\ userRequests' = Insert(userRequests, req, f.pos) /\ promise' = promise
            /\ Become(t, fr)
      /\ UNCHANGED <<selected, queue, current, window, windows, closed>>
      /\ UNCHANGED <<waiting, timers, signer, busy, signed, history>>
  BY DEF EachOther
<1>2. /\ f \in EachArgs /\ CarriesOK(Head(stack[t]), queue, userRequests, overtaken)
      /\ f = Head(stack[t])[2] /\ Head(stack[t])[1] = "each" /\ Typed
      /\ stack[t] \in Seq(Frames) /\ stack[t] # <<>>
  BY <1>1, TurnIs, FrameArgs DEF Inv
<1>3. req \in RequestSet
  <2>1. f.reqs \in Seq(RequestSet)
    BY <1>2 DEF EachArgs
  <2> QED BY <1>1, <2>1
<1> HIDE DEF f, req
<1>4. userRequests \in Seq(RequestSet)
  BY <1>2 DEF Typed
<1>5. /\ userRequests' \in Seq(RequestSet) /\ Grows(userRequests, userRequests')
      /\ promise' \in [Reqs -> Promises]
  <2>1. Grows(userRequests, userRequests)
    BY DEF Grows
  <2>2. promise \in [Reqs -> Promises] /\ "rejected" \in Promises
    BY <1>2 DEF Typed, Promises
  <2>3. /\ Insert(userRequests, req, f.pos) \in Seq(RequestSet)
        /\ Grows(userRequests, Insert(userRequests, req, f.pos))
    BY <1>3, <1>4, InsertIs, InsertGrows
  <2> QED BY <1>1, <1>4, <2>1, <2>2, <2>3, TellIs
<1>6. CASE Become(t, <<>>)
  <2>1. Plain(<<>>) /\ CarryOK(<<>>, queue, userRequests', overtaken)
    BY BearsNone, BearsNothing
  <2>2. Rest' /\ running' \in Tasks \cup {None}
    BY <1>1, <1>5, <1>6, <2>1, GrowStep DEF Waits, PromiseOps, history
  <2>3. Typed'
    BY <1>1, <1>2, <1>5, <2>2 DEF Typed, history
  <2> QED BY <2>2, <2>3 DEF Inv, Rest
<1>7. CASE userRequests' = Insert(userRequests, req, f.pos) /\ Become(t, fr)
  <2>1. ActionOf(req) \in ActionSet /\ HeldOK(ActionOf(req), queue, userRequests', overtaken)
    <3>1. Adds(userRequests', userRequests, req)
      BY <1>3, <1>4, <1>7, InsertIs
    <3>2. HasId(userRequests', req.id)
      BY <3>1 DEF Adds, HasId
    <3> QED BY <1>1, <1>3, <3>2, ActionIs DEF HeldOK, Asked
  <2>2. \A j \in DOMAIN f.actions : HeldOK(f.actions[j], queue, userRequests', overtaken)
    <3>1. AllHeld(stack, queue, userRequests', overtaken)
      <4>1. KeepsOps(queue, queue) /\ stack \in [Tasks -> Seq(Frames)]
            /\ AllHeld(stack, queue, userRequests, overtaken)
        BY DEF KeepsOps, Inv, StackInv, Linked, HeldInv
      <4> QED BY <1>5, <4>1, HeldGrows
    <3>2. 1 \in DOMAIN stack[t] /\ Head(stack[t]) = stack[t][1]
      BY <1>2
    <3>3. CarriesOK(Head(stack[t]), queue, userRequests', overtaken)
      BY <3>1, <3>2 DEF AllHeld, CarryOK
    <3> QED BY <3>3, <1>2 DEF CarriesOK, Holders
  <2>3. Plain(fr) /\ CarryOK(fr, queue, userRequests', overtaken)
    BY <1>1, <1>2, <2>1, <2>2, EachIs
  <2> HIDE DEF fr
  <2>4. Rest' /\ running' \in Tasks \cup {None}
    BY <1>1, <1>5, <1>7, <2>3, GrowStep DEF Waits, PromiseOps, history
  <2>5. Typed'
    BY <1>1, <1>2, <1>5, <2>4 DEF Typed, history
  <2> QED BY <2>4, <2>5 DEF Inv, Rest
<1> QED BY <1>1, <1>6, <1>7

-----------------------------------------------------------------------------
(* The steps of removeUserRequests *)

\* What the top frame of a handler carries.
LEMMA TopHeld ==
    ASSUME stack \in [Tasks -> Seq(Frames)], NEW t \in Tasks, stack[t] # <<>>,
           Head(stack[t])[1] \in Holders, NEW q, NEW reqs, NEW late, AllHeld(stack, q, reqs, late)
    PROVE  \A j \in DOMAIN Arg(t).actions : HeldOK(Arg(t).actions[j], q, reqs, late)
<1>1. 1 \in DOMAIN stack[t] /\ Head(stack[t]) = stack[t][1]
  OBVIOUS
<1>2. CarriesOK(Head(stack[t]), q, reqs, late)
  BY <1>1 DEF AllHeld, CarryOK
<1> QED BY <1>2 DEF CarriesOK, Arg

\* The handler that removes requests.
LEMMA RemovingIs ==
    ASSUME Inv, NEW t \in Tasks, Turn(t, "removeReqs")
    PROVE  /\ Arg(t) \in RemovalArgs /\ Going(stack, running) \subseteq Arg(t).remove
           /\ stack \in [Tasks -> Seq(Frames)] /\ stack[t] # <<>>
           /\ Head(stack[t])[1] = "removeReqs" /\ Head(stack[t])[1] \in Holders
           /\ AllHeld(stack, queue, userRequests, overtaken) /\ Typed
           /\ queue \in Seq(QueuedSet) /\ userRequests \in Seq(RequestSet)
           /\ AllAsked(queue, userRequests, overtaken, Arg(t).remove)
<1>1. Arg(t) \in RemovalArgs /\ Arg(t) = Head(stack[t])[2] /\ Head(stack[t])[1] = "removeReqs"
      /\ running \in {t, None} /\ stack[t] # <<>>
  BY TurnIs, FrameArgs
<1>2. Going(stack, running) \subseteq Arg(t).remove
  BY <1>1 DEF Going, TopIs
<1>3. AllAsked(queue, userRequests, overtaken, Arg(t).remove)
  BY <1>2, AskedMore DEF Inv, AskedInv
<1> QED
  BY <1>1, <1>2, <1>3 DEF Inv, StackInv, HeldInv, Linked, Typed, Holders

\* It goes on with the next request.
LEMMA RemovingGoesOn ==
    ASSUME Inv, NEW t \in Tasks, Turn(t, "removeReqs"), NEW f \in RemovalArgs,
           Become(t, <<Frame("removeReqs", f)>>), NEW q, NEW reqs, NEW late,
           AllHeld(stack, q, reqs, late),
           \A j \in DOMAIN f.actions : HeldOK(f.actions[j], q, reqs, late)
    PROVE  /\ Linked(stack', window, windows.open, closed)
           /\ AllHeld(stack', q, reqs, late)
           /\ CanGoOn(stack', running') /\ running' = t
           /\ Going(stack', running') = f.remove
<1> DEFINE g == Frame("removeReqs", f)
           fr == <<g>>
<1>1. g \in Frames /\ g[1] = "removeReqs" /\ g[2] = f
  BY DEF Frame, Frames
<1> HIDE DEF g
<1>2. Plain(fr) /\ fr # <<>> /\ Head(fr) = g
  BY <1>1, PlainOne DEF PromiseOps
<1>3. CarryOK(fr, q, reqs, late)
  <2>1. CarriesOK(g, q, reqs, late)
    BY <1>1 DEF CarriesOK
  <2> QED BY <2>1 DEF CarryOK
<1>4. Become(t, fr)
  BY DEF g
<1> HIDE DEF fr
<1>5. /\ Linked(stack', window, windows.open, closed)
      /\ AllHeld(stack', q, reqs, late)
      /\ CanGoOn(stack', running')
      /\ stack'[t] # <<>> /\ Head(stack'[t]) = g
  BY <1>2, <1>3, <1>4, BecomeStep DEF Waits, PromiseOps
<1>6. running' = t
  BY <1>1, <1>2, <1>4 DEF Become, Runs, Blocking
<1>7. t # None
  BY WindowAssumption
<1>8. Going(stack', running') = f.remove
  BY <1>1, <1>5, <1>6, <1>7 DEF Going, TopIs
<1> QED BY <1>5, <1>6, <1>8

\* What is queued is asked for when a request is removed: the op of its account
\* is batched again, and its own action is removed next.
LEMMA RemovedAsked ==
    ASSUME NEW q \in Seq(QueuedSet), NEW reqs \in Seq(RequestSet), NEW n \in DOMAIN reqs,
           NEW late, NEW going, NEW more, AllAsked(q, reqs, late, going), going \subseteq more,
           \/ reqs[n].kind = "calls" \/ reqs[n].id \notin Reqs \/ reqs[n].id \in more
    PROVE  /\ reqs[n].kind # "calls" => AllAsked(q, RemoveAt(reqs, n), late, more)
           /\ reqs[n].kind = "calls" =>
                 AllAsked(Rebatch(q, RemoveAt(reqs, n), reqs[n].acct), RemoveAt(reqs, n),
                          late, more)
<1> DEFINE left == RemoveAt(reqs, n)
           req == reqs[n]
<1>1. left \in Seq(RequestSet)
      /\ \A i \in DOMAIN reqs : i # n => \E k \in DOMAIN left : left[k] = reqs[i]
  BY RemoveAtIs
<1>2. req \in RequestSet /\ req.acct \in Accts
  BY DEF RequestSet
<1>3. req.kind = "calls" => req.id \in Reqs /\ Kind[req.id] = "calls"
  BY <1>2 DEF RequestSet, Kinds
<1> HIDE DEF left
<1>4. \A id : id # req.id /\ HasId(reqs, id) => HasId(left, id)
  BY <1>1 DEF HasId
<1>5. \A a : (req.kind # "calls" \/ req.acct # a)
                => BatchCalls(reqs, a) \subseteq BatchCalls(left, a)
  <2> SUFFICES ASSUME NEW a, req.kind # "calls" \/ req.acct # a, NEW c \in BatchCalls(reqs, a)
               PROVE  c \in BatchCalls(left, a)
    OBVIOUS
  <2>1. PICK j \in DOMAIN reqs : reqs[j].id = c /\ reqs[j].kind = "calls" /\ reqs[j].acct = a
    BY DEF BatchCalls
  <2>2. PICK k \in DOMAIN left : left[k] = reqs[j]
    BY <2>1, <1>1
  <2> QED BY <2>1, <2>2 DEF BatchCalls
<1>6. \A i \in DOMAIN q : q[i].type \in DappTypes => q[i].id \in Reqs /\ Kind[q[i].id] # "calls"
  BY DEF QueuedSet, ActionSet
<1>7. ASSUME NEW i \in DOMAIN q, q[i].type \in DappTypes, ~late
      PROVE  HasId(left, q[i].id) \/ q[i].id \in more
  <2>1. HasId(reqs, q[i].id) \/ q[i].id \in going
    BY <1>7 DEF AllAsked
  <2> QED BY <2>1, <1>3, <1>4, <1>6, <1>7
<1>8. ASSUME req.kind # "calls" PROVE AllAsked(q, left, late, more)
  BY <1>5, <1>7, <1>8 DEF AllAsked
<1>9. ASSUME req.kind = "calls" PROVE AllAsked(Rebatch(q, left, req.acct), left, late, more)
  <2> DEFINE new == Rebatch(q, left, req.acct)
  <2>1. /\ DOMAIN new = DOMAIN q
        /\ \A i \in DOMAIN q :
              /\ new[i].id = q[i].id /\ new[i].type = q[i].type /\ new[i].acct = q[i].acct
              /\ new[i].calls = IF q[i].id = req.acct THEN BatchCalls(left, req.acct)
                                ELSE q[i].calls
    BY <1>1, <1>2, RebatchIs
  <2>2. \A i \in DOMAIN q : q[i].type = "accountOp" => q[i].acct = q[i].id
    BY DEF QueuedSet, ActionSet
  <2> HIDE DEF new
  <2>3. ASSUME NEW i \in DOMAIN q, q[i].type = "accountOp", ~late
        PROVE  new[i].calls \subseteq BatchCalls(left, q[i].acct)
    <3>1. CASE q[i].id = req.acct
      BY <3>1, <2>1, <2>2, <2>3
    <3>2. CASE q[i].id # req.acct
      <4>1. q[i].calls \subseteq BatchCalls(reqs, q[i].acct)
        BY <2>3 DEF AllAsked
      <4>2. BatchCalls(reqs, q[i].acct) \subseteq BatchCalls(left, q[i].acct)
        BY <3>2, <2>2, <2>3, <1>5
      <4> QED BY <3>2, <4>1, <4>2, <2>1
    <3> QED BY <3>1, <3>2
  <2>4. AllAsked(new, left, late, more)
    BY <2>1, <2>3, <1>7 DEF AllAsked
  <2> QED BY <2>4 DEF new
<1> QED BY <1>8, <1>9 DEF left

\* The request that is next.
LEMMA NextIs ==
    ASSUME Inv, NEW t \in Tasks, RemovesNext(t)
    PROVE  LET n == IndexOfId(userRequests, Head(Arg(t).ids))
           IN /\ Turn(t, "removeReqs") /\ n \in DOMAIN userRequests
              /\ NextRemoved(t) = userRequests[n] /\ NextRemoved(t) \in RequestSet
              /\ Remaining(t) = RemoveAt(userRequests, n) /\ Remaining(t) \in Seq(RequestSet)
              /\ Later(t) \in RemovalArgs
              /\ Later(t) = [Arg(t) EXCEPT !.ids = Tail(@)]
<1> DEFINE n == IndexOfId(userRequests, Head(Arg(t).ids))
<1>1. /\ Turn(t, "removeReqs") /\ Arg(t).ids # <<>> /\ HasId(userRequests, Head(Arg(t).ids))
  BY DEF RemovesNext
<1>2. Arg(t) \in RemovalArgs /\ userRequests \in Seq(RequestSet)
  BY <1>1, RemovingIs
<1>3. n \in DOMAIN userRequests
  BY <1>1, <1>2, IndexIs
<1>4. NextRemoved(t) = userRequests[n] /\ Remaining(t) = RemoveAt(userRequests, n)
  BY DEF NextRemoved, Remaining, WithId
<1> HIDE DEF n
<1>5. NextRemoved(t) \in RequestSet /\ Remaining(t) \in Seq(RequestSet)
  BY <1>2, <1>3, <1>4, RemoveAtIs
<1>6. Later(t) \in RemovalArgs
  <2>1. Arg(t).ids \in Seq(Ids)
    BY <1>2 DEF RemovalArgs
  <2>2. Tail(Arg(t).ids) \in Seq(Ids)
    BY <1>1, <2>1
  <2> QED BY <1>2, <2>2 DEF RemovalArgs, Later
<1> QED BY <1>1, <1>3, <1>4, <1>5, <1>6 DEF Later, n

\* There is no such request.
LEMMA RemoveNoneStep ==
    ASSUME Inv, NEW t \in Tasks, RemoveNone(t)
    PROVE  Inv'
<1>1. /\ Turn(t, "removeReqs") /\ Arg(t).ids # <<>>
      /\ Become(t, <<Frame("removeReqs", Later(t))>>)
      /\ UNCHANGED <<selected, queue, current, window, windows, closed, reqVars>>
  BY DEF RemoveNone
<1>2. /\ Arg(t) \in RemovalArgs /\ Typed
      /\ AllHeld(stack, queue, userRequests, overtaken)
      /\ AllAsked(queue, userRequests, overtaken, Arg(t).remove)
      /\ \A j \in DOMAIN Arg(t).actions :
            HeldOK(Arg(t).actions[j], queue, userRequests, overtaken)
  BY <1>1, RemovingIs, TopHeld
<1>3. Later(t) \in RemovalArgs /\ Later(t).actions = Arg(t).actions
      /\ Later(t).remove = Arg(t).remove
  <2>1. Arg(t).ids \in Seq(Ids)
    BY <1>2 DEF RemovalArgs
  <2>2. Tail(Arg(t).ids) \in Seq(Ids)
    BY <1>1, <2>1
  <2> QED BY <1>2, <2>2 DEF RemovalArgs, Later
<1>4. /\ Linked(stack', window, windows.open, closed)
      /\ AllHeld(stack', queue, userRequests, overtaken)
      /\ CanGoOn(stack', running') /\ running' = t
      /\ Going(stack', running') = Later(t).remove
  BY <1>1, <1>2, <1>3, RemovingGoesOn
<1>5. AllAsked(queue, userRequests, overtaken, Going(stack', running'))
  BY <1>2, <1>3, <1>4
<1>6. StackInv' /\ HeldInv' /\ AskedInv'
  BY <1>1, <1>4, <1>5 DEF StackInv, HeldInv, AskedInv, reqVars, history
<1>7. Typed'
  BY <1>1, <1>2, <1>4, TypedSame
<1> QED BY <1>4, <1>6, <1>7 DEF Inv

\* A request for calls is removed.
LEMMA RemoveCallsStep ==
    ASSUME Inv, NEW t \in Tasks, RemoveCalls(t)
    PROVE  Inv'
<1> DEFINE n == IndexOfId(userRequests, Head(Arg(t).ids))
           req == NextRemoved(t)
           a == req.acct
           left == Remaining(t)
           calls == BatchCalls(left, a)
           f == Later(t)
           q == Rebatch(queue, left, a)
           late == overtaken \/ HeldElsewhere(req.id)
           g == IF ~HasId(queue, a) THEN f
                ELSE IF calls # {} THEN [f EXCEPT !.actions = Append(@, QueuedOp(a))]
                ELSE [f EXCEPT !.remove = @ \cup {a}]
<1>1. /\ RemovesNext(t) /\ req.kind = "calls" /\ userRequests' = left /\ queue' = q
      /\ signer' \in {signer, SignerCalls(signer, a, calls), None}
      /\ Become(t, <<Frame("removeReqs", g)>>) /\ overtaken' = late
      /\ UNCHANGED <<selected, current, window, windows, closed>>
      /\ UNCHANGED <<waiting, promise, timers, busy, signed, used>>
  BY DEF RemoveCalls
<1>2. /\ Turn(t, "removeReqs") /\ n \in DOMAIN userRequests
      /\ req = userRequests[n] /\ req \in RequestSet
      /\ left = RemoveAt(userRequests, n) /\ left \in Seq(RequestSet)
      /\ f \in RemovalArgs /\ f = [Arg(t) EXCEPT !.ids = Tail(@)]
  BY <1>1, NextIs
<1>3. /\ Arg(t) \in RemovalArgs
      /\ stack \in [Tasks -> Seq(Frames)] /\ stack[t] # <<>>
      /\ Head(stack[t])[1] \in Holders
      /\ AllHeld(stack, queue, userRequests, overtaken) /\ Typed
      /\ queue \in Seq(QueuedSet) /\ userRequests \in Seq(RequestSet)
      /\ AllAsked(queue, userRequests, overtaken, Arg(t).remove)
  BY <1>2, RemovingIs
<1>4. a \in Accts /\ overtaken \in BOOLEAN /\ late \in BOOLEAN
  BY <1>2, <1>3 DEF RequestSet, Typed, HeldElsewhere
<1>5. f.actions = Arg(t).actions /\ f.remove = Arg(t).remove
  BY <1>2, <1>3 DEF RemovalArgs
<1> HIDE DEF n, req, left, f, q, calls, late
<1>6. q \in Seq(QueuedSet) /\ \A id : HasId(q, id) <=> HasId(queue, id)
  BY <1>2, <1>3, <1>4, RebatchIs DEF q
<1>7. AllHeld(stack, queue, left, late)
  BY <1>2, <1>3, <1>4, HeldRemoves DEF late
<1>8. AllHeld(stack, q, left, late)
  <2>1. KeepsOps(queue, q) /\ Grows(left, left)
    BY <1>6 DEF KeepsOps, Grows
  <2> QED BY <1>3, <1>7, <2>1, HeldGrows
<1>9. \A j \in DOMAIN f.actions : HeldOK(f.actions[j], q, left, late)
  BY <1>3, <1>5, <1>8, TopHeld
<1>10. /\ g \in RemovalArgs /\ f.remove \subseteq g.remove
       /\ \A j \in DOMAIN g.actions : HeldOK(g.actions[j], q, left, late)
  <2>1. CASE ~HasId(queue, a)
    BY <2>1, <1>2, <1>9
  <2>2. CASE HasId(queue, a) /\ calls # {}
    <3>1. QueuedOp(a) \in ActionSet /\ HeldOK(QueuedOp(a), q, left, late)
      BY <2>2, <1>2, <1>4, <1>6, OpIs DEF HeldOK
    <3>2. f.actions \in Seq(ActionSet)
      BY <1>2 DEF RemovalArgs
    <3>3. /\ Append(f.actions, QueuedOp(a)) \in Seq(ActionSet)
          /\ \A j \in DOMAIN Append(f.actions, QueuedOp(a)) :
                HeldOK(Append(f.actions, QueuedOp(a))[j], q, left, late)
      BY <1>9, <3>1, <3>2, OneMore
    <3>4. g = [f EXCEPT !.actions = Append(@, QueuedOp(a))]
      BY <2>2
    <3>5. g \in RemovalArgs /\ g.remove = f.remove /\ g.actions = Append(f.actions, QueuedOp(a))
      BY <1>2, <3>3, <3>4 DEF RemovalArgs
    <3> QED BY <3>3, <3>5
  <2>3. CASE HasId(queue, a) /\ calls = {}
    <3>1. g = [f EXCEPT !.remove = @ \cup {a}]
      BY <2>3
    <3>2. g \in RemovalArgs /\ g.remove = f.remove \cup {a} /\ g.actions = f.actions
      BY <1>2, <1>4, <3>1 DEF RemovalArgs, Ids
    <3> QED BY <1>9, <3>2
  <2> QED BY <2>1, <2>2, <2>3
<1> HIDE DEF g
<1>11. /\ Linked(stack', window, windows.open, closed)
       /\ AllHeld(stack', q, left, late)
       /\ CanGoOn(stack', running') /\ running' = t
       /\ Going(stack', running') = g.remove
  BY <1>1, <1>2, <1>8, <1>10, RemovingGoesOn
<1>12. AllAsked(q, left, late, g.remove)
  <2>1. AllAsked(queue, userRequests, late, Arg(t).remove)
    BY <1>3 DEF AllAsked, late
  <2>2. Arg(t).remove \subseteq g.remove
    BY <1>5, <1>10
  <2> QED BY <1>1, <1>2, <1>3, <2>1, <2>2, RemovedAsked DEF q
<1>13. StackInv' /\ HeldInv' /\ AskedInv'
  BY <1>1, <1>11, <1>12 DEF StackInv, HeldInv, AskedInv
<1>14. signer' \in SignerSet \cup {None}
  <2>1. calls \in SUBSET Reqs
    BY <1>2, BatchIs DEF calls
  <2>2. signer \in SignerSet \cup {None}
    BY <1>3 DEF Typed
  <2>3. SignerCalls(signer, a, calls) \in SignerSet \cup {None}
    BY <2>1, <2>2, SignerIs
  <2> QED BY <1>1, <2>2, <2>3
<1>15. Typed'
  BY <1>1, <1>2, <1>3, <1>4, <1>6, <1>11, <1>14 DEF Typed
<1> QED BY <1>11, <1>13, <1>15 DEF Inv

\* The first places of a list.
LEMMA PrefixIs ==
    ASSUME NEW S, NEW s \in Seq(S), NEW k \in Nat
    PROVE  SubSeq(s, 1, Len(s) - k) \in Seq(S)
<1>1. Len(s) \in Nat
  OBVIOUS
<1>2. CASE Len(s) - k < 1
  <2>1. SubSeq(s, 1, Len(s) - k) = <<>>
    BY <1>1, <1>2
  <2> QED BY <2>1
<1>3. CASE Len(s) - k >= 1
  <2>1. Len(s) - k \in 1..Len(s) /\ 1 \in 1..Len(s)
    BY <1>1, <1>3
  <2> QED BY <2>1, SubSeqProperties
<1> QED BY <1>1, <1>2, <1>3

\* The request to switch accounts is removed.
LEMMA RemoveSwitchStep ==
    ASSUME Inv, NEW t \in Tasks, RemoveSwitch(t)
    PROVE  Inv'
<1> DEFINE n == IndexOfId(userRequests, Head(Arg(t).ids))
           req == NextRemoved(t)
           left == Remaining(t)
           f == Later(t)
           places == {i \in DOMAIN waiting : waiting[i].acct = selected}
           next == Keep(waiting, places)
           g == IF selected # req.acct THEN [f EXCEPT !.remove = @ \cup {SwitchId}]
                ELSE [f EXCEPT !.add = @ \o next]
<1>1. /\ RemovesNext(t) /\ req.id = SwitchId /\ userRequests' = left
      /\ waiting' \in {waiting, SubSeq(waiting, 1, Len(waiting) - Len(next))}
      /\ Become(t, <<Frame("removeReqs", g)>>)
      /\ UNCHANGED <<selected, queue, current, window, windows, closed>>
      /\ UNCHANGED <<promise, timers, signer, busy, signed, history>>
  BY DEF RemoveSwitch
<1>2. /\ Turn(t, "removeReqs") /\ n \in DOMAIN userRequests
      /\ req = userRequests[n] /\ req \in RequestSet
      /\ left = RemoveAt(userRequests, n) /\ left \in Seq(RequestSet)
      /\ f \in RemovalArgs /\ f = [Arg(t) EXCEPT !.ids = Tail(@)]
  BY <1>1, NextIs
<1>3. /\ Arg(t) \in RemovalArgs
      /\ stack \in [Tasks -> Seq(Frames)] /\ stack[t] # <<>>
      /\ Head(stack[t])[1] \in Holders
      /\ AllHeld(stack, queue, userRequests, overtaken) /\ Typed
      /\ queue \in Seq(QueuedSet) /\ userRequests \in Seq(RequestSet)
      /\ AllAsked(queue, userRequests, overtaken, Arg(t).remove)
  BY <1>2, RemovingIs
<1>4. req.id \notin Reqs /\ req.kind # "calls"
  BY <1>1, <1>2, RequestsAssumption DEF RequestSet, Kinds
<1>5. f.actions = Arg(t).actions /\ f.remove = Arg(t).remove
  BY <1>2, <1>3 DEF RemovalArgs
<1>6. waiting \in Seq(RequestSet) /\ next \in Seq(RequestSet)
  <2>1. waiting \in Seq(RequestSet) /\ places \in SUBSET DOMAIN waiting
    BY <1>3 DEF Typed
  <2> HIDE DEF places
  <2> QED BY <2>1, KeepIs
<1>7. waiting' \in Seq(RequestSet)
  <2>1. Len(next) \in Nat
    BY <1>6
  <2> HIDE DEF next
  <2> QED BY <1>1, <1>6, <2>1, PrefixIs
<1> HIDE DEF n, req, left, f, next
<1>8. AllHeld(stack, queue, left, overtaken)
  BY <1>2, <1>3, <1>4, HeldRemoves
<1>9. \A j \in DOMAIN f.actions : HeldOK(f.actions[j], queue, left, overtaken)
  BY <1>3, <1>5, <1>8, TopHeld
<1>10. g \in RemovalArgs /\ f.remove \subseteq g.remove /\ g.actions = f.actions
  <2>1. CASE selected # req.acct
    BY <2>1, <1>2 DEF RemovalArgs, Ids
  <2>2. CASE selected = req.acct
    <3>1. f.add \in Seq(RequestSet)
      BY <1>2 DEF RemovalArgs
    <3>2. f.add \o next \in Seq(RequestSet)
      BY <1>6, <3>1, ConcatProperties
    <3> QED BY <2>2, <1>2, <3>2 DEF RemovalArgs
  <2> QED BY <2>1, <2>2
<1> HIDE DEF g
<1>11. /\ Linked(stack', window, windows.open, closed)
       /\ AllHeld(stack', queue, left, overtaken)
       /\ CanGoOn(stack', running') /\ running' = t
       /\ Going(stack', running') = g.remove
  BY <1>1, <1>2, <1>8, <1>9, <1>10, RemovingGoesOn
<1>12. AllAsked(queue, left, overtaken, g.remove)
  BY <1>2, <1>3, <1>4, <1>5, <1>10, RemovedAsked
<1>13. StackInv' /\ HeldInv' /\ AskedInv'
  BY <1>1, <1>11, <1>12 DEF StackInv, HeldInv, AskedInv, history
<1>14. Typed'
  BY <1>1, <1>2, <1>3, <1>7, <1>11 DEF Typed, history
<1> QED BY <1>11, <1>13, <1>14 DEF Inv

\* Any other request is removed.
LEMMA RemoveOtherStep ==
    ASSUME Inv, NEW t \in Tasks, RemoveOther(t)
    PROVE  Inv'
<1> DEFINE n == IndexOfId(userRequests, Head(Arg(t).ids))
           req == NextRemoved(t)
           left == Remaining(t)
           f == Later(t)
           late == overtaken \/ HeldElsewhere(req.id)
           g == [f EXCEPT !.remove = @ \cup {req.id}]
<1>1. /\ RemovesNext(t) /\ req.kind # "calls" /\ userRequests' = left
      /\ Become(t, <<Frame("removeReqs", g)>>) /\ overtaken' = late
      /\ UNCHANGED <<selected, queue, current, window, windows, closed>>
      /\ UNCHANGED <<waiting, promise, timers, signer, busy, signed, used>>
  BY DEF RemoveOther
<1>2. /\ Turn(t, "removeReqs") /\ n \in DOMAIN userRequests
      /\ req = userRequests[n] /\ req \in RequestSet
      /\ left = RemoveAt(userRequests, n) /\ left \in Seq(RequestSet)
      /\ f \in RemovalArgs /\ f = [Arg(t) EXCEPT !.ids = Tail(@)]
  BY <1>1, NextIs
<1>3. /\ Arg(t) \in RemovalArgs
      /\ stack \in [Tasks -> Seq(Frames)] /\ stack[t] # <<>>
      /\ Head(stack[t])[1] \in Holders
      /\ AllHeld(stack, queue, userRequests, overtaken) /\ Typed
      /\ queue \in Seq(QueuedSet) /\ userRequests \in Seq(RequestSet)
      /\ AllAsked(queue, userRequests, overtaken, Arg(t).remove)
  BY <1>2, RemovingIs
<1>4. req.id \in Ids /\ overtaken \in BOOLEAN /\ late \in BOOLEAN
  BY <1>2, <1>3 DEF RequestSet, Typed, HeldElsewhere, Ids
<1>5. f.actions = Arg(t).actions /\ f.remove = Arg(t).remove
  BY <1>2, <1>3 DEF RemovalArgs
<1> HIDE DEF n, req, left, f, late
<1>6. AllHeld(stack, queue, left, late)
  BY <1>2, <1>3, <1>4, HeldRemoves DEF late
<1>7. \A j \in DOMAIN f.actions : HeldOK(f.actions[j], queue, left, late)
  BY <1>3, <1>5, <1>6, TopHeld
<1>8. g \in RemovalArgs /\ g.remove = f.remove \cup {req.id} /\ g.actions = f.actions
  BY <1>2, <1>4 DEF RemovalArgs
<1> HIDE DEF g
<1>9. /\ Linked(stack', window, windows.open, closed)
      /\ AllHeld(stack', queue, left, late)
      /\ CanGoOn(stack', running') /\ running' = t
      /\ Going(stack', running') = g.remove
  BY <1>1, <1>2, <1>6, <1>7, <1>8, RemovingGoesOn
<1>10. AllAsked(queue, left, late, g.remove)
  <2>1. AllAsked(queue, userRequests, late, Arg(t).remove)
    BY <1>3 DEF AllAsked, late
  <2> QED BY <1>1, <1>2, <1>3, <1>5, <1>8, <2>1, RemovedAsked
<1>11. StackInv' /\ HeldInv' /\ AskedInv'
  BY <1>1, <1>9, <1>10 DEF StackInv, HeldInv, AskedInv
<1>12. Typed'
  BY <1>1, <1>2, <1>3, <1>4, <1>9 DEF Typed
<1> QED BY <1>9, <1>11, <1>12 DEF Inv

\* A sequence before another is where the two begin.
LEMMA HeadJoin ==
    ASSUME NEW S, NEW s \in Seq(S), s # <<>>, NEW r \in Seq(S)
    PROVE  s \o r # <<>> /\ Head(s \o r) = Head(s)
<1>1. /\ s \o r \in Seq(S) /\ Len(s \o r) = Len(s) + Len(r)
      /\ \A i \in 1..Len(s) + Len(r) : (s \o r)[i] = IF i <= Len(s) THEN s[i] ELSE r[i - Len(s)]
  BY ConcatProperties
<1>2. Len(s) \in Nat /\ Len(s) > 0 /\ Len(r) \in Nat /\ Head(s) = s[1]
  OBVIOUS
<1> DEFINE new == s \o r
<1> HIDE DEF new
<1>3. new \in Seq(S) /\ Len(new) > 0 /\ new[1] = s[1]
  BY <1>1, <1>2 DEF new
<1>4. new # <<>> /\ Head(new) = new[1]
  BY <1>3
<1> QED BY <1>2, <1>3, <1>4 DEF new

\* The requests were removed; their actions go next.
LEMMA RemoveDoneStep ==
    ASSUME Inv, NEW t \in Tasks, RemoveDone(t)
    PROVE  Inv'
<1> DEFINE f == Arg(t)
           drop == Frame("remove", [ids |-> f.remove, openNext |-> f.openNext])
           arg == [actions |-> f.actions, pos |-> "last", exec |-> "open", skipFocus |-> TRUE]
           fr1 == IF f.remove = {} THEN <<>> ELSE <<drop>>
           fr2 == IF f.add = <<>> THEN <<>> ELSE AddFrames(f.add, "last", "open", TRUE)
           fr3 == IF f.actions = <<>> THEN <<>> ELSE <<Frame("update", arg)>>
           fr == fr1 \o fr2 \o fr3
<1>1. /\ Turn(t, "removeReqs") /\ Become(t, fr)
      /\ UNCHANGED <<selected, queue, current, window, windows, closed, reqVars>>
  BY DEF RemoveDone
<1>2. /\ f \in RemovalArgs
      /\ stack \in [Tasks -> Seq(Frames)]
      /\ AllHeld(stack, queue, userRequests, overtaken) /\ Typed
      /\ AllAsked(queue, userRequests, overtaken, f.remove)
      /\ \A j \in DOMAIN f.actions : HeldOK(f.actions[j], queue, userRequests, overtaken)
  BY <1>1, RemovingIs, TopHeld
<1> HIDE DEF f
<1>3. Bears(fr1)
  <2>1. f.remove \in SUBSET Ids /\ f.openNext \in BOOLEAN
    BY <1>2 DEF RemovalArgs
  <2> QED BY <2>1, RemoveIs, BearsNone
<1>4. Plain(fr2) /\ CarryOK(fr2, queue, userRequests, overtaken)
  <2>1. f.add \in Seq(RequestSet) /\ "last" \in Position /\ "open" \in Execution
    BY <1>2 DEF RemovalArgs, Position, Execution
  <2>2. /\ Plain(AddFrames(f.add, "last", "open", TRUE))
        /\ CarryOK(AddFrames(f.add, "last", "open", TRUE), queue, userRequests, overtaken)
    BY <2>1, AddIs
  <2> QED BY <2>2, BearsNone, BearsNothing
<1>5. Plain(fr3) /\ CarryOK(fr3, queue, userRequests, overtaken)
  <2>1. CASE f.actions = <<>>
    BY <2>1, BearsNone, BearsNothing
  <2>2. CASE f.actions # <<>>
    <3>1. arg \in UpdateArgs /\ arg.actions = f.actions
      BY <1>2, <2>2 DEF RemovalArgs, UpdateArgs, Position, Execution
    <3> HIDE DEF arg
    <3>2. Frame("update", arg) \in Frames /\ Frame("update", arg)[1] = "update"
          /\ Frame("update", arg)[2] = arg
      BY <3>1 DEF Frame, Frames
    <3>3. CarriesOK(Frame("update", arg), queue, userRequests, overtaken)
      BY <1>2, <3>1, <3>2 DEF CarriesOK
    <3> QED BY <2>2, <3>2, <3>3, PlainOne DEF PromiseOps, CarryOK
  <2> QED BY <2>1, <2>2
<1>6. f.remove # {} => fr1 # <<>> /\ Head(fr1) = drop
  OBVIOUS
<1> HIDE DEF fr1, fr2, fr3
<1>7. Plain(fr1) /\ CarryOK(fr1, queue, userRequests, overtaken)
  BY <1>3, BearsNothing
<1>8. fr1 \in Seq(Frames) /\ fr2 \in Seq(Frames) /\ fr3 \in Seq(Frames)
  BY <1>4, <1>5, <1>7 DEF Plain
<1>9. Plain(fr1 \o fr2) /\ CarryOK(fr1 \o fr2, queue, userRequests, overtaken)
  BY <1>4, <1>7, <1>8, PlainJoin, CarryJoin
<1>10. fr1 \o fr2 \in Seq(Frames)
  BY <1>9 DEF Plain
<1>11. Plain(fr) /\ CarryOK(fr, queue, userRequests, overtaken)
  BY <1>5, <1>8, <1>9, <1>10, PlainJoin, CarryJoin
<1>12. f.remove # {} => fr # <<>> /\ Head(fr) = drop
  BY <1>6, <1>8, <1>10, HeadJoin
<1> HIDE DEF fr
<1>13. /\ Linked(stack', window, windows.open, closed)
       /\ AllHeld(stack', queue, userRequests, overtaken)
       /\ CanGoOn(stack', running')
       /\ running' \in Tasks \cup {None}
       /\ fr # <<>> => stack'[t] # <<>> /\ Head(stack'[t]) = Head(fr)
  BY <1>1, <1>2, <1>11, BecomeStep DEF Waits, PromiseOps
<1>14. f.remove # {} => Going(stack', running') = f.remove
  <2> SUFFICES ASSUME f.remove # {} PROVE Going(stack', running') = f.remove
    OBVIOUS
  <2>1. Head(fr)[1] = "remove" /\ Head(fr)[2].ids = f.remove
    BY <1>12 DEF Frame
  <2>2. running' = t /\ t # None
    BY <1>1, <1>12, <2>1, WindowAssumption DEF Become, Runs, Blocking
  <2> QED BY <1>12, <1>13, <2>1, <2>2 DEF Going, TopIs
<1>15. AllAsked(queue, userRequests, overtaken, Going(stack', running'))
  <2>1. f.remove \subseteq Going(stack', running')
    BY <1>14
  <2> QED BY <1>2, <2>1, AskedMore
<1>16. StackInv' /\ HeldInv' /\ AskedInv'
  BY <1>1, <1>13, <1>15 DEF StackInv, HeldInv, AskedInv, reqVars, history
<1>17. Typed'
  BY <1>1, <1>2, <1>13, TypedSame
<1> QED BY <1>13, <1>16, <1>17 DEF Inv

\* Requests are rejected.
LEMMA RejectReqsStep ==
    ASSUME Inv, NEW t \in Tasks, RejectReqs(t)
    PROVE  Inv'
<1> DEFINE f == Arg(t)
           fr == <<Removal(f.ids, f.openNext)>>
<1>1. /\ Turn(t, "reject") /\ promise' = Tell(AskedBy(ToSet(f.ids)), "rejected")
      /\ Become(t, fr)
      /\ UNCHANGED <<selected, queue, current, window, windows, closed>>
      /\ UNCHANGED <<userRequests, waiting, timers, signer, busy, signed, history>>
  BY DEF RejectReqs
<1>2. f.ids \in Seq(Ids) /\ f.openNext \in BOOLEAN
  BY <1>1, TurnIs, FrameArgs DEF RejectArgs
<1>3. Plain(fr) /\ CarryOK(fr, queue, userRequests, overtaken)
  BY <1>2, RemovalIs
<1> HIDE DEF fr
<1>4. Calm
  BY <1>1 DEF Calm, history
<1>5. Rest' /\ running' \in Tasks \cup {None}
  BY <1>1, <1>3, <1>4, CalmStep DEF Waits, PromiseOps
<1>6. promise' \in [Reqs -> Promises]
  BY <1>1, TellIs DEF Inv, Typed, Promises
<1>7. Typed'
  BY <1>1, <1>5, <1>6 DEF Inv, Typed, history
<1> QED BY <1>5, <1>7 DEF Inv, Rest

\* The ids of listed requests.
LEMMA ListedIs ==
    ASSUME userRequests \in Seq(RequestSet), NEW places \in SUBSET DOMAIN userRequests
    PROVE  LET kept == Keep(userRequests, places)
           IN [i \in DOMAIN kept |-> kept[i].id] \in Seq(Ids)
<1> DEFINE kept == Keep(userRequests, places)
<1>1. kept \in Seq(RequestSet)
  BY KeepIs
<1> HIDE DEF kept
<1>2. DOMAIN kept = 1..Len(kept) /\ Len(kept) \in Nat
  BY <1>1
<1>3. \A i \in DOMAIN kept : kept[i].id \in Ids
  BY <1>1 DEF RequestSet, Ids
<1>4. [i \in DOMAIN kept |-> kept[i].id] \in Seq(Ids)
  BY <1>2, <1>3
<1> QED BY <1>4 DEF kept

\* Nothing that the invariant relates changes.
LEMMA SameStep ==
    ASSUME Inv, Calm, UNCHANGED <<stack, running>>
    PROVE  Rest'
BY DEF Inv, Rest, Calm, StackInv, HeldInv, AskedInv

-----------------------------------------------------------------------------
(* The steps of the user *)

\* The user accepts what is shown.
LEMMA ResolveStep ==
    ASSUME Inv, NEW t \in Tasks, Resolve(t)
    PROVE  Inv'
<1> DEFINE req == WithId(userRequests, current.id)
           fr == <<Removal(<<req.id>>, TRUE)>>
<1>1. /\ HasId(userRequests, current.id)
      /\ promise' \in {promise, Tell({req.asks}, "resolved")}
      /\ \/ /\ req.kind = "connect" /\ timers' = timers \cup {req.id}
            /\ UNCHANGED <<stack, running>>
         \/ timers' = timers /\ Start(t, fr)
      /\ UNCHANGED <<selected, queue, current, window, windows, closed>>
      /\ UNCHANGED <<userRequests, waiting, signer, busy, signed, history>>
  BY DEF Resolve
<1>2. Typed /\ userRequests \in Seq(RequestSet)
  BY DEF Inv, Typed
<1>3. req \in RequestSet
  BY <1>1, <1>2, WithIdIs
<1> HIDE DEF req
<1>4. Calm
  BY <1>1 DEF Calm, history
<1>5. promise' \in [Reqs -> Promises]
  BY <1>1, <1>2, TellIs DEF Typed, Promises
<1>6. Plain(fr) /\ CarryOK(fr, queue, userRequests, overtaken)
  <2>1. <<req.id>> \in Seq(Ids)
    BY <1>3 DEF RequestSet, Ids
  <2> QED BY <2>1, RemovalIs
<1> HIDE DEF fr
<1>7. CASE timers' = timers /\ Start(t, fr)
  <2>1. Rest' /\ running' \in Tasks \cup {None}
    BY <1>4, <1>6, <1>7, StartStep
  <2>2. Typed'
    BY <1>1, <1>2, <1>5, <1>7, <2>1 DEF Typed, history
  <2> QED BY <2>1, <2>2 DEF Inv, Rest
<1>8. CASE /\ req.kind = "connect" /\ timers' = timers \cup {req.id} /\ UNCHANGED <<stack, running>>
  <2>1. Rest'
    BY <1>4, <1>8, SameStep
  <2>2. req.id \in Reqs
    BY <1>3, <1>8 DEF RequestSet, Kinds
  <2>3. Typed'
    BY <1>1, <1>2, <1>5, <1>8, <2>2 DEF Typed, history
  <2> QED BY <2>1, <2>3 DEF Inv, Rest
<1> QED BY <1>1, <1>7, <1>8

\* A delayed removal begins.
LEMMA TimerStep ==
    ASSUME Inv, NEW t \in Tasks, Timer(t)
    PROVE  Inv'
<1>1. PICK id \in timers : timers' = timers \ {id} /\ Start(t, <<Removal(<<id>>, TRUE)>>)
  BY DEF Timer
<1>2. /\ UNCHANGED <<selected, queue, current, window, windows, closed>>
      /\ UNCHANGED <<userRequests, waiting, promise, signer, busy, signed, history>>
  BY DEF Timer
<1> DEFINE fr == <<Removal(<<id>>, TRUE)>>
<1>3. Plain(fr) /\ CarryOK(fr, queue, userRequests, overtaken)
  <2>1. <<id>> \in Seq(Ids)
    BY DEF Inv, Typed, Ids
  <2> QED BY <2>1, RemovalIs
<1> HIDE DEF fr
<1>4. Calm /\ Start(t, fr)
  BY <1>1, <1>2 DEF Calm, history, fr
<1>5. Rest' /\ running' \in Tasks \cup {None}
  BY <1>3, <1>4, StartStep
<1>6. Typed'
  BY <1>1, <1>2, <1>5 DEF Inv, Typed, history
<1> QED BY <1>5, <1>6 DEF Inv, Rest

\* A handler begins that rejects one request.
LEMMA RejectOne ==
    ASSUME Inv, NEW t \in Tasks, NEW id \in Ids,
           Start(t, <<Frame("reject", [ids |-> <<id>>, openNext |-> TRUE])>>),
           UNCHANGED <<selected, queue, current, window, windows, closed, reqVars>>
    PROVE  Inv'
<1> DEFINE fr == <<Frame("reject", [ids |-> <<id>>, openNext |-> TRUE])>>
<1>1. Bears(fr)
  <2>1. <<id>> \in Seq(Ids)
    OBVIOUS
  <2> QED BY <2>1, RejectIs
<1>2. Start(t, fr)
  OBVIOUS
<1> HIDE DEF fr
<1>3. Calm
  BY DEF Calm, reqVars, history
<1>4. Rest' /\ running' \in Tasks \cup {None}
  BY <1>1, <1>2, <1>3, BearsNothing, StartStep
<1> QED BY <1>4, TypedSame DEF Inv, Rest

\* The user rejects what is shown, a call, or a route of the swap screen.
LEMMA RejectStep ==
    ASSUME Inv, NEW t \in Tasks, Reject(t) \/ RejectCall(t) \/ RejectRoute(t)
    PROVE  Inv'
<1>1. CASE Reject(t)
  <2>1. current.id \in Ids
    BY <1>1 DEF Reject, Inv, Typed, ActionSet
  <2> QED BY <1>1, <2>1, RejectOne DEF Reject
<1>2. CASE RejectCall(t)
  <2>1. PICK c \in signer.calls : Start(t, <<Frame("reject", [ids |-> <<c>>, openNext |-> TRUE])>>)
    BY <1>2 DEF RejectCall
  <2>2. c \in Ids
    BY <1>2 DEF RejectCall, Inv, Typed, SignerSet, Ids
  <2> QED BY <1>2, <2>1, <2>2, RejectOne DEF RejectCall
<1>3. CASE RejectRoute(t)
  <2>1. PICK r \in Swaps :
           /\ Start(t, <<Frame("reject", [ids |-> <<r>>, openNext |-> TRUE])>>)
           /\ UNCHANGED <<selected, queue, current, window, windows, closed, reqVars>>
    BY <1>3 DEF RejectRoute
  <2>2. r \in Ids
    BY RequestsAssumption DEF Ids
  <2> QED BY <2>1, <2>2, RejectOne
<1> QED BY <1>1, <1>2, <1>3

\* The user rejects an account op.
LEMMA RejectAccountOpStep ==
    ASSUME Inv, NEW t \in Tasks, RejectAccountOp(t)
    PROVE  Inv'
<1> DEFINE ids == Listed(WithId(queue, current.id).calls)
           fr(open) == <<Frame("remove", [ids |-> {current.id}, openNext |-> open]),
                         Frame("reject", [ids |-> ids, openNext |-> open])>>
<1>1. /\ current # None /\ signer' \in {signer, None}
      /\ \E open \in BOOLEAN : Start(t, fr(open))
      /\ UNCHANGED <<selected, queue, current, window, windows, closed>>
      /\ UNCHANGED <<userRequests, waiting, promise, timers, busy, signed, history>>
  BY DEF RejectAccountOp
<1>2. PICK open \in BOOLEAN : Start(t, fr(open))
  BY <1>1
<1>3. current.id \in Ids /\ userRequests \in Seq(RequestSet) /\ Typed
  BY <1>1 DEF Inv, Typed, ActionSet
<1>4. ids \in Seq(Ids)
  <2> DEFINE places == {i \in DOMAIN userRequests :
                           userRequests[i].id \in WithId(queue, current.id).calls}
  <2>1. places \in SUBSET DOMAIN userRequests
    OBVIOUS
  <2>2. Listed(WithId(queue, current.id).calls) =
           LET kept == Keep(userRequests, places) IN [i \in DOMAIN kept |-> kept[i].id]
    BY DEF Listed
  <2> HIDE DEF places
  <2> QED BY <1>3, <2>1, <2>2, ListedIs
<1> HIDE DEF ids
<1>5. Bears(fr(open))
  <2>1. Bears(<<Frame("remove", [ids |-> {current.id}, openNext |-> open])>>)
    BY <1>3, RemoveIs
  <2>2. Bears(<<Frame("reject", [ids |-> ids, openNext |-> open])>>)
    BY <1>4, RejectIs
  <2> QED BY <2>1, <2>2, BearsMore
<1> HIDE DEF fr
<1>6. Calm
  BY <1>1 DEF Calm, history
<1>7. Rest' /\ running' \in Tasks \cup {None}
  BY <1>2, <1>5, <1>6, BearsNothing, StartStep
<1>8. Typed'
  BY <1>1, <1>3, <1>7 DEF Typed, history
<1> QED BY <1>7, <1>8 DEF Inv, Rest

-----------------------------------------------------------------------------
(* The window closes, and requests are built *)

\* onActionWindowClose
LEMMA OnCloseStep ==
    ASSUME Inv, NEW t \in Tasks, OnClose(t)
    PROVE  Inv'
<1> DEFINE n == Arg(t)
           places == {j \in DOMAIN userRequests : userRequests[j].kind # "calls"}
           rest == Keep(userRequests, places)
           ids == [j \in DOMAIN rest |-> rest[j].id]
           ends == <<Frame("reject", [ids |-> ids, openNext |-> FALSE]), Frame("noneWait", None)>>
           again == <<Frame("onClose", n + 1)>>
           resolved == <<Removal(<<userRequests[n].id>>, TRUE)>>
<1>1. /\ Turn(t, "onClose")
      /\ UNCHANGED <<selected, queue, current, window, windows, closed>>
      /\ UNCHANGED <<userRequests, waiting, timers, signer, busy, signed, history>>
      /\ \/ Become(t, ends) /\ promise' = promise
         \/ /\ ~(n > Len(userRequests))
            /\ promise' \in {promise, Tell({userRequests[n].asks}, "resolved")}
            /\ Become(t, <<>> \o again) \/ Become(t, resolved \o again)
  <2>1. CASE n > Len(userRequests)
    BY <2>1 DEF OnClose
  <2>2. CASE ~(n > Len(userRequests))
    BY <2>2 DEF OnClose
  <2> QED BY <2>1, <2>2
<1>2. n \in Nat \ {0} /\ Typed /\ userRequests \in Seq(RequestSet)
  <2>1. Turn(t, "onClose")
    BY <1>1
  <2>2. Head(stack[t]) \in Frames /\ Head(stack[t])[1] = "onClose" /\ Arg(t) = Head(stack[t])[2]
    BY <2>1, TurnIs
  <2> HIDE DEF places, rest, ids, ends, again, resolved
  <2>3. n \in Nat \ {0}
    BY <2>2, FrameArgs
  <2>4. Typed
    BY DEF Inv
  <2> HIDE DEF n
  <2> QED BY <2>3, <2>4 DEF Typed
<1> HIDE DEF n
<1>3. Bears(ends)
  <2>1. places \in SUBSET DOMAIN userRequests
    OBVIOUS
  <2> HIDE DEF places
  <2>2. ids \in Seq(Ids)
    BY <1>2, <2>1, ListedIs
  <2> HIDE DEF ids
  <2>3. Bears(<<Frame("reject", [ids |-> ids, openNext |-> FALSE])>>)
    BY <2>2, RejectIs
  <2>4. Bears(<<Frame("noneWait", None)>>)
    BY BareIs DEF Bare
  <2> QED BY <2>3, <2>4, BearsMore
<1>4. Bears(again)
  <2>1. Frame("onClose", n + 1) \in Frames /\ Frame("onClose", n + 1)[1] = "onClose"
    BY <1>2 DEF Frame, Frames
  <2> QED BY <2>1, BearsOne DEF PromiseOps, Holders
<1>5. ASSUME ~(n > Len(userRequests))
      PROVE  Plain(resolved) /\ CarryOK(resolved, queue, userRequests, overtaken)
  <2>1. userRequests[n] \in RequestSet
    BY <1>2, <1>5
  <2>2. <<userRequests[n].id>> \in Seq(Ids)
    BY <2>1 DEF RequestSet, Ids
  <2> QED BY <2>2, RemovalIs
<1> HIDE DEF ends, again, resolved
<1>6. PICK fr \in {ends, <<>> \o again, resolved \o again} :
         /\ Become(t, fr) /\ (fr = resolved \o again => ~(n > Len(userRequests)) \/ fr = ends)
  BY <1>1
<1>7. Plain(fr) /\ CarryOK(fr, queue, userRequests, overtaken)
  <2>1. Plain(again) /\ CarryOK(again, queue, userRequests, overtaken) /\ again \in Seq(Frames)
    BY <1>4, BearsNothing DEF Plain
  <2>2. Plain(<<>>) /\ CarryOK(<<>>, queue, userRequests, overtaken) /\ <<>> \in Seq(Frames)
    BY BearsNone, BearsNothing DEF Plain
  <2>3. Plain(<<>> \o again) /\ CarryOK(<<>> \o again, queue, userRequests, overtaken)
    BY <2>1, <2>2, PlainJoin, CarryJoin
  <2>4. Plain(ends) /\ CarryOK(ends, queue, userRequests, overtaken)
    BY <1>3, BearsNothing
  <2>5. ASSUME ~(n > Len(userRequests))
        PROVE  /\ Plain(resolved \o again)
               /\ CarryOK(resolved \o again, queue, userRequests, overtaken)
    <3>1. resolved \in Seq(Frames)
      BY <1>5, <2>5 DEF Plain
    <3> QED BY <1>5, <2>1, <2>5, <3>1, PlainJoin, CarryJoin
  <2> QED BY <1>6, <2>3, <2>4, <2>5
<1>8. Calm
  BY <1>1 DEF Calm, history
<1>9. Rest' /\ running' \in Tasks \cup {None}
  BY <1>1, <1>6, <1>7, <1>8, CalmStep DEF Waits, PromiseOps
<1>10. promise' \in [Reqs -> Promises]
  BY <1>1, <1>2, TellIs DEF Typed, Promises
<1>11. Typed'
  BY <1>1, <1>2, <1>9, <1>10 DEF Typed, history
<1> QED BY <1>9, <1>11 DEF Inv, Rest

\* A handler's top frame goes, and nothing that the invariant relates changes.
LEMMA PopStep ==
    ASSUME Inv, NEW t \in Tasks, NEW op, Turn(t, op),
           op \notin Waits \cup {"removeReqs", "remove"}, Become(t, <<>>), Calm
    PROVE  Rest' /\ running' \in Tasks \cup {None}
BY BearsNone, BearsNothing, CalmStep

\* Nothing waits any more.
LEMMA NoneWaitStep ==
    ASSUME Inv, NEW t \in Tasks, NoneWait(t)
    PROVE  Inv'
<1>1. Turn(t, "noneWait") /\ Become(t, <<>>) /\ Calm
  BY DEF NoneWait, Calm, history
<1>2. Rest' /\ running' \in Tasks \cup {None}
  BY <1>1, PopStep DEF Waits, PromiseOps
<1>3. Typed'
  BY <1>2 DEF NoneWait, Inv, Typed, history
<1> QED BY <1>2, <1>3 DEF Inv, Rest

\* build, with what is done before.
LEMMA BuildsStep ==
    ASSUME Inv, NEW t \in Tasks, NEW r \in Reqs, NEW frames, Plain(frames),
           CarryOK(frames, queue, userRequests, overtaken), Builds(t, r, frames)
    PROVE  Inv'
<1> DEFINE fetched(fetch) == IF fetch THEN <<Frame("state", None)>> ELSE <<>>
           made == <<Frame("build", r)>>
           ends == IF r \in Swaps THEN <<Frame("built", r)>> ELSE <<>>
<1>1. PICK fetch \in BOOLEAN : Start(t, frames \o fetched(fetch) \o made \o ends)
  BY DEF Builds
<1> DEFINE first == fetched(fetch)
           fr == frames \o first \o made \o ends
<1>2. Bears(first) /\ Bears(made) /\ Bears(ends)
  <2>1. Bears(first)
    BY BareIs, BearsNone DEF Bare
  <2>2. /\ Frame("build", r) \in Frames /\ Frame("build", r)[1] = "build"
        /\ Frame("built", r) \in Frames /\ Frame("built", r)[1] = "built"
    BY DEF Frame, Frames
  <2> QED BY <2>1, <2>2, BearsOne, BearsNone DEF PromiseOps, Holders
<1>3. Start(t, fr)
  BY <1>1
<1> HIDE DEF fetched, made, ends, first
<1>4. /\ Plain(first) /\ CarryOK(first, queue, userRequests, overtaken)
      /\ Plain(made) /\ CarryOK(made, queue, userRequests, overtaken)
      /\ Plain(ends) /\ CarryOK(ends, queue, userRequests, overtaken)
  BY <1>2, BearsNothing
<1>5. ASSUME NEW s1, NEW s2, Plain(s1), Plain(s2), CarryOK(s1, queue, userRequests, overtaken),
             CarryOK(s2, queue, userRequests, overtaken)
      PROVE  Plain(s1 \o s2) /\ CarryOK(s1 \o s2, queue, userRequests, overtaken)
  <2>1. s1 \in Seq(Frames) /\ s2 \in Seq(Frames)
    BY <1>5 DEF Plain
  <2> QED BY <1>5, <2>1, PlainJoin, CarryJoin
<1>6. Plain(frames \o first) /\ CarryOK(frames \o first, queue, userRequests, overtaken)
  BY <1>4, <1>5
<1>7. /\ Plain(frames \o first \o made)
      /\ CarryOK(frames \o first \o made, queue, userRequests, overtaken)
  BY <1>4, <1>5, <1>6
<1>8. Plain(fr) /\ CarryOK(fr, queue, userRequests, overtaken)
  BY <1>4, <1>5, <1>7
<1> HIDE DEF fr
<1>9. Calm
  BY DEF Builds, Calm, history
<1>10. Rest' /\ running' \in Tasks \cup {None}
  BY <1>3, <1>8, <1>9, StartStep
<1>11. promise' \in [Reqs -> Promises]
  BY DEF Builds, Inv, Typed, Promises
<1>12. Typed'
  BY <1>10, <1>11 DEF Builds, Inv, Typed, history
<1> QED BY <1>10, <1>12 DEF Inv, Rest

\* A stack of two frames.
LEMMA PairIs ==
    ASSUME NEW f, NEW g, NEW q, NEW reqs, NEW late, Plain(<<f>>), Plain(<<g>>),
           CarryOK(<<f>>, q, reqs, late), CarryOK(<<g>>, q, reqs, late)
    PROVE  Plain(<<f, g>>) /\ CarryOK(<<f, g>>, q, reqs, late)
<1>1. ASSUME NEW e, Plain(<<e>>), CarryOK(<<e>>, q, reqs, late)
      PROVE  /\ e \in Frames /\ e[1] \notin PromiseOps \cup {"waiting", "handleClose"}
             /\ CarriesOK(e, q, reqs, late)
  <2>1. <<e>>[1] = e /\ 1 \in DOMAIN <<e>> /\ <<e>> \in Seq(Frames)
    BY <1>1 DEF Plain
  <2> QED BY <1>1, <2>1 DEF Plain, CarryOK
<1>2. \A e \in {f, g} : /\ e \in Frames /\ e[1] \notin PromiseOps \cup {"waiting", "handleClose"}
                       /\ CarriesOK(e, q, reqs, late)
  BY <1>1
<1>3. <<f, g>> \in Seq(Frames) /\ \A i \in DOMAIN <<f, g>> : <<f, g>>[i] \in {f, g}
  BY <1>2
<1> QED BY <1>2, <1>3 DEF Plain, CarryOK

\* A dapp sends a request, or a screen of the wallet makes one.
LEMMA BuildingStep ==
    ASSUME Inv, NEW t \in Tasks,
           Send(t) \/ BuildTransfer(t) \/ BuildClaim(t) \/ BuildSwapAndBridge(t)
    PROVE  Inv'
<1>1. \A r \in Unsent : r \in Reqs
  BY DEF Unsent
<1>2. Plain(<<>>) /\ CarryOK(<<>>, queue, userRequests, overtaken)
  BY BearsNone, BearsNothing
<1>3. ASSUME NEW r \in Unsent PROVE Bears(<<Frame("guard", r)>>)
  <2>1. Frame("guard", r) \in Frames /\ Frame("guard", r)[1] = "guard"
    BY <1>1 DEF Frame, Frames
  <2> QED BY <2>1, BearsOne DEF PromiseOps, Holders
<1>4. ASSUME NEW r \in Swaps
      PROVE  /\ r \in Reqs /\ Plain(<<Removal(<<r>>, FALSE), Frame("next", None)>>)
             /\ CarryOK(<<Removal(<<r>>, FALSE), Frame("next", None)>>, queue, userRequests,
                        overtaken)
  <2>1. r \in Reqs
    BY RequestsAssumption
  <2>2. <<r>> \in Seq(Ids)
    BY <2>1 DEF Ids
  <2>3. /\ Plain(<<Removal(<<r>>, FALSE)>>)
        /\ CarryOK(<<Removal(<<r>>, FALSE)>>, queue, userRequests, overtaken)
    BY <2>2, RemovalIs
  <2>4. /\ Plain(<<Frame("next", None)>>)
        /\ CarryOK(<<Frame("next", None)>>, queue, userRequests, overtaken)
    BY BareIs, BearsNothing DEF Bare
  <2> QED BY <2>1, <2>3, <2>4, PairIs
<1>5. CASE Send(t)
  <2>1. PICK r \in Unsent \ Internal : Builds(t, r, <<Frame("guard", r)>>)
    BY <1>5 DEF Send
  <2>2. /\ Plain(<<Frame("guard", r)>>)
        /\ CarryOK(<<Frame("guard", r)>>, queue, userRequests, overtaken)
    BY <1>3, BearsNothing
  <2> QED BY <1>1, <2>1, <2>2, BuildsStep
<1>6. CASE BuildTransfer(t) \/ BuildClaim(t)
  <2>1. PICK r \in Unsent : Builds(t, r, <<>>)
    BY <1>6 DEF BuildTransfer, BuildClaim
  <2> QED BY <1>1, <1>2, <2>1, BuildsStep
<1>7. CASE BuildSwapAndBridge(t)
  <2>1. PICK r \in Swaps : \/ Builds(t, r, <<>>)
                           \/ Builds(t, r, <<Removal(<<r>>, FALSE), Frame("next", None)>>)
    BY <1>7 DEF BuildSwapAndBridge
  <2> QED BY <1>2, <1>4, <2>1, BuildsStep
<1> QED BY <1>5, <1>6, <1>7

\* The form of the swap is reset.
LEMMA BuiltStep ==
    ASSUME Inv, NEW t \in Tasks, Built(t)
    PROVE  Inv'
<1>1. /\ Turn(t, "built") /\ Become(t, <<>>) /\ Calm
      /\ UNCHANGED <<selected, queue, current, window, windows, closed, reqVars>>
  BY DEF Built, Calm, reqVars, history
<1>2. Rest' /\ running' \in Tasks \cup {None}
  BY <1>1, PopStep DEF Waits, PromiseOps
<1> QED BY <1>1, <1>2, TypedSame DEF Inv, Rest

\* A handler that asked the network goes on, or ends.
LEMMA GoesOnStep ==
    ASSUME Inv, Quiet, NEW t \in Tasks, NEW op, At(t, op), op \notin Waits,
           stack' = [stack EXCEPT ![t] = Tail(@)] \/ stack' = [stack EXCEPT ![t] = <<>>],
           running' = running, Calm
    PROVE  Rest'
<1>1. stack[t] # <<>> /\ Head(stack[t])[1] = op /\ Proper(stack[t])
      /\ stack \in [Tasks -> Seq(Frames)] /\ CarryOK(stack[t], queue, userRequests, overtaken)
  BY DEF At, Idle, TopOp, Inv, StackInv, Linked, HeldInv, AllHeld
<1> DEFINE rest == Tail(stack[t])
<1>2. Proper(rest) /\ ~TopIs(rest, "waiting") /\ CarryOK(rest, queue, userRequests, overtaken)
  BY <1>1, TailIs DEF TopIs, TopIn
<1>3. Proper(<<>>) /\ ~TopIs(<<>>, "waiting") /\ CarryOK(<<>>, queue, userRequests, overtaken)
  BY BearsNone, BearsNothing, PlainProper
<1>4. PICK new \in {rest, <<>>} : stack' = [stack EXCEPT ![t] = new]
  BY <1>1
<1> HIDE DEF rest
<1> QED BY <1>1, <1>2, <1>3, <1>4, AnswerStep

\* The next transaction of a route is there, or is not.
LEMMA NextTransactionStep ==
    ASSUME Inv, NEW t \in Tasks, NextTransaction(t)
    PROVE  Inv'
<1>1. /\ Quiet /\ At(t, "next") /\ Calm
      /\ UNCHANGED <<selected, queue, current, window, windows, closed, running, reqVars>>
      /\ \/ stack' = [stack EXCEPT ![t] = Tail(stack[t])]
         \/ stack' = [stack EXCEPT ![t] = <<>>]
  BY DEF NextTransaction, Calm, reqVars, history
<1>2. \/ stack' = [stack EXCEPT ![t] = Tail(@)] \/ stack' = [stack EXCEPT ![t] = <<>>]
  BY <1>1 DEF Inv, StackInv, Linked
<1>3. Rest'
  BY <1>1, <1>2, GoesOnStep DEF Waits, PromiseOps
<1> QED BY <1>1, <1>3, TypedSame DEF Inv, Rest, Typed

\* The state of the account is there, or is not.
LEMMA StateKnownStep ==
    ASSUME Inv, NEW t \in Tasks, StateKnown(t)
    PROVE  Inv'
<1>1. /\ Quiet /\ At(t, "state") /\ running' = running
      /\ \/ stack' = [stack EXCEPT ![t] = Tail(@)]
         \/ stack' = [stack EXCEPT ![t] = <<>>]
      /\ promise' \in {promise, Tell({stack[t][2][2]}, "rejected")}
      /\ UNCHANGED <<selected, queue, current, window, windows, closed>>
      /\ UNCHANGED <<userRequests, waiting, timers, signer, busy, signed, history>>
  BY DEF StateKnown
<1>2. Calm
  BY <1>1 DEF Calm, history
<1>3. Rest'
  BY <1>1, <1>2, GoesOnStep DEF Waits, PromiseOps
<1>4. promise' \in [Reqs -> Promises]
  BY <1>1, TellIs DEF Inv, Typed, Promises
<1>5. Typed'
  BY <1>1, <1>4 DEF Inv, Typed, history
<1> QED BY <1>3, <1>5 DEF Inv, Rest

\* A request is built: its frames are those of addUserRequests.
LEMMA BuildStep ==
    ASSUME Inv, NEW t \in Tasks, Build(t)
    PROVE  Inv'
<1> DEFINE r == Arg(t)
           req == IF r \in Internal THEN [Request(r) EXCEPT !.acct = selected] ELSE Request(r)
<1>1. /\ Turn(t, "build")
      /\ \/ /\ \E m \in Modes(r) : Become(t, AddFrames(<<req>>, m[1], m[2], FALSE))
            /\ UNCHANGED <<promise, waiting>>
         \/ AccountError(t, r) \/ AddSwitchAccountUserRequest(t, req)
      /\ UNCHANGED <<selected, queue, current, window, windows, closed>>
      /\ UNCHANGED <<userRequests, timers, signer, busy, signed, history>>
  BY DEF Build
<1>2. r \in Reqs
  <2>1. Head(stack[t]) \in Frames /\ Head(stack[t])[1] = "build" /\ r = Head(stack[t])[2]
    BY <1>1, TurnIs
  <2> HIDE DEF r, req
  <2> QED BY <2>1, FrameArgs
<1>3. Typed /\ selected \in Accts
  BY DEF Inv, Typed
<1> HIDE DEF r
<1>4. req \in RequestSet /\ SwitchTo(req) \in RequestSet
  <2>1. Request(r) \in RequestSet
    BY <1>2, RequestsAssumption DEF Request, RequestSet
  <2>2. [Request(r) EXCEPT !.acct = selected] \in RequestSet
    BY <1>2, <1>3, RequestsAssumption DEF Request, RequestSet
  <2>3. req \in RequestSet
    BY <2>1, <2>2
  <2> HIDE DEF req
  <2>4. SwitchTo(req) \in RequestSet
    BY <2>3 DEF SwitchTo, RequestSet, Kinds
  <2> QED BY <2>3, <2>4
<1> HIDE DEF req
<1>5. \A m \in Modes(r) : m[1] \in Position /\ m[2] \in Execution
  BY DEF Modes, Position, Execution
<1>6. /\ promise' \in {promise, Tell({r}, "rejected")}
      /\ waiting' \in {waiting, Append(waiting, req)}
      /\ \/ Become(t, <<>>)
         \/ \E new \in {req, SwitchTo(req)}, pos \in Position, exec \in Execution :
               Become(t, AddFrames(<<new>>, pos, exec, FALSE))
  <2>1. CASE /\ \E m \in Modes(r) : Become(t, AddFrames(<<req>>, m[1], m[2], FALSE))
             /\ UNCHANGED <<promise, waiting>>
    BY <1>5, <2>1
  <2>2. CASE AccountError(t, r)
    BY <2>2 DEF AccountError
  <2>3. CASE AddSwitchAccountUserRequest(t, req)
    BY <2>3 DEF AddSwitchAccountUserRequest, Position, Execution
  <2> QED BY <1>1, <2>1, <2>2, <2>3
<1>7. PICK fr : /\ Plain(fr) /\ CarryOK(fr, queue, userRequests, overtaken)
                /\ Become(t, fr)
  <2>1. CASE Become(t, <<>>)
    BY <2>1, BearsNone, BearsNothing
  <2>2. CASE \E new \in {req, SwitchTo(req)}, pos \in Position, exec \in Execution :
               Become(t, AddFrames(<<new>>, pos, exec, FALSE))
    <3>1. PICK new \in {req, SwitchTo(req)}, pos \in Position, exec \in Execution :
             Become(t, AddFrames(<<new>>, pos, exec, FALSE))
      BY <2>2
    <3>2. <<new>> \in Seq(RequestSet)
      BY <1>4
    <3>3. FALSE \in BOOLEAN
      OBVIOUS
    <3>4. /\ Plain(AddFrames(<<new>>, pos, exec, FALSE))
          /\ CarryOK(AddFrames(<<new>>, pos, exec, FALSE), queue, userRequests, overtaken)
      BY <3>2, <3>3, AddIs
    <3> QED BY <3>1, <3>4
  <2> QED BY <1>6, <2>1, <2>2
<1>8. Calm
  BY <1>1 DEF Calm, history
<1>9. Rest' /\ running' \in Tasks \cup {None}
  BY <1>1, <1>7, <1>8, CalmStep DEF Waits, PromiseOps
<1>10. promise' \in [Reqs -> Promises] /\ waiting' \in Seq(RequestSet)
  <2>1. promise' \in [Reqs -> Promises]
    BY <1>3, <1>6, TellIs DEF Typed, Promises
  <2>2. waiting \in Seq(RequestSet)
    BY <1>3 DEF Typed
  <2>3. Append(waiting, req) \in Seq(RequestSet)
    BY <1>4, <2>2
  <2> QED BY <1>6, <2>1, <2>2, <2>3
<1>11. Typed'
  BY <1>1, <1>3, <1>9, <1>10 DEF Typed, history
<1> QED BY <1>9, <1>11 DEF Inv, Rest

-----------------------------------------------------------------------------
(* Signing, and what follows it *)

\* Who signs what changes, and no handler runs.
LEMMA SignStep ==
    ASSUME Inv, OpenSigner \/ Sign \/ SignFails \/ SignOneClick
    PROVE  Inv'
<1>1. Typed
  BY DEF Inv
<1>2. /\ UNCHANGED windowVars
      /\ UNCHANGED <<userRequests, waiting, promise, timers, history>>
  BY DEF OpenSigner, Sign, SignFails, SignOneClick
<1>3. Rest'
  <2>1. Calm /\ UNCHANGED <<stack, running>>
    BY <1>2 DEF Calm, windowVars, history
  <2> QED BY <2>1, SameStep
<1>4. /\ signer' \in SignerSet \cup {None} /\ signed' \in SignerSet \cup {None}
      /\ busy' \in {"no", "main", "oneClick"}
  <2>1. CASE OpenSigner
    <3>1. /\ current # None /\ current.type = "accountOp" /\ HasId(queue, current.id)
          /\ signer' = [action |-> current.id, calls |-> WithId(queue, current.id).calls]
          /\ UNCHANGED <<busy, signed>>
      BY <2>1 DEF OpenSigner
    <3>2. current \in ActionSet /\ queue \in Seq(QueuedSet)
      BY <1>1, <3>1 DEF Typed
    <3>3. current.id \in Accts
      BY <3>1, <3>2 DEF ActionSet
    <3>4. WithId(queue, current.id) \in QueuedSet
      BY <3>1, <3>2, WithIdIs
    <3>5. signer' \in SignerSet
      BY <3>1, <3>3, <3>4 DEF SignerSet, QueuedSet, ActionSet
    <3> QED BY <1>1, <3>1, <3>5 DEF Typed
  <2>2. CASE Sign \/ SignFails \/ SignOneClick
    BY <1>1, <2>2 DEF Sign, SignFails, SignOneClick, Typed
  <2> QED BY <2>1, <2>2
<1>5. Typed'
  BY <1>1, <1>2, <1>4 DEF Typed, windowVars, history
<1> QED BY <1>3, <1>5 DEF Inv, Rest

\* The network accepted the transaction that was signed.
LEMMA BroadcastStep ==
    ASSUME Inv, NEW t \in Tasks, Broadcast(t)
    PROVE  Inv'
<1> DEFINE show == AddFrames(<<Benzin(signed.action)>>, "first", "open", TRUE)
           rest == <<Frame("remove", [ids |-> {signed.action}, openNext |-> TRUE]),
                     Frame("settle", signed.calls), Frame("unlock", None)>>
           only == <<Frame("unlock", None)>>
<1>1. /\ signed # None /\ signed' = None
      /\ \/ Start(t, only) \/ Start(t, show \o rest) \/ Start(t, <<>> \o rest)
      /\ UNCHANGED <<selected, queue, current, window, windows, closed>>
      /\ UNCHANGED <<userRequests, waiting, promise, timers, signer, busy, history>>
  BY DEF Broadcast
<1>2. Typed /\ signed \in SignerSet
  BY <1>1 DEF Inv, Typed
<1>3. signed.action \in Accts /\ signed.calls \in SUBSET Ids
  BY <1>2 DEF SignerSet, Ids
<1>4. Plain(show) /\ CarryOK(show, queue, userRequests, overtaken)
  <2>1. Benzin(signed.action) \in RequestSet
    BY <1>3 DEF Benzin, RequestSet, Kinds
  <2>2. <<Benzin(signed.action)>> \in Seq(RequestSet)
    BY <2>1
  <2>3. "first" \in Position /\ "open" \in Execution /\ TRUE \in BOOLEAN
    BY DEF Position, Execution
  <2> HIDE DEF rest, only
  <2> QED BY <2>2, <2>3, AddIs
<1>5. Bears(only)
  BY BareIs DEF Bare
<1>6. Bears(rest)
  <2>1. {signed.action} \in SUBSET Ids
    BY <1>3 DEF Ids
  <2>2. Bears(<<Frame("remove", [ids |-> {signed.action}, openNext |-> TRUE])>>)
    BY <2>1, RemoveIs
  <2>3. Frame("settle", signed.calls) \in Frames /\ Frame("settle", signed.calls)[1] = "settle"
    BY <1>3 DEF Frame, Frames
  <2>4. Bears(<<Frame("settle", signed.calls)>>)
    BY <2>3, BearsOne DEF PromiseOps, Holders
  <2> QED BY <1>5, <2>2, <2>4, BearsMore
<1> HIDE DEF show, rest, only
<1>7. /\ Plain(rest) /\ CarryOK(rest, queue, userRequests, overtaken)
      /\ Plain(only) /\ CarryOK(only, queue, userRequests, overtaken)
      /\ Plain(<<>>) /\ CarryOK(<<>>, queue, userRequests, overtaken)
  BY <1>5, <1>6, BearsNone, BearsNothing
<1>8. show \in Seq(Frames) /\ rest \in Seq(Frames) /\ <<>> \in Seq(Frames)
  BY <1>4, <1>7 DEF Plain
<1>9. /\ Plain(show \o rest) /\ CarryOK(show \o rest, queue, userRequests, overtaken)
      /\ Plain(<<>> \o rest) /\ CarryOK(<<>> \o rest, queue, userRequests, overtaken)
  BY <1>4, <1>7, <1>8, PlainJoin, CarryJoin
<1>10. PICK fr : Start(t, fr) /\ Plain(fr) /\ CarryOK(fr, queue, userRequests, overtaken)
  BY <1>1, <1>7, <1>9
<1>11. Calm
  BY <1>1 DEF Calm, history
<1>12. Rest' /\ running' \in Tasks \cup {None}
  BY <1>10, <1>11, StartStep
<1>13. Typed'
  BY <1>1, <1>2, <1>12 DEF Typed, history
<1> QED BY <1>12, <1>13 DEF Inv, Rest

\* The requests of the transaction's calls are resolved.
LEMMA SettleStep ==
    ASSUME Inv, NEW t \in Tasks, Settle(t)
    PROVE  Inv'
<1> DEFINE ids == {id \in Arg(t) : HasId(userRequests, id)}
           first == <<Removal(Listed(ids), TRUE)>>
           told == IF ids = {} THEN <<>> ELSE <<Frame("confirm", ids)>>
           fr == first \o told
<1>1. /\ Turn(t, "settle") /\ Become(t, fr)
      /\ UNCHANGED <<selected, queue, current, window, windows, closed, reqVars>>
  BY DEF Settle
<1>2. ids \in SUBSET Ids
  <2>1. Head(stack[t]) \in Frames /\ Head(stack[t])[1] = "settle" /\ Arg(t) = Head(stack[t])[2]
    BY <1>1, TurnIs
  <2>2. Arg(t) \in SUBSET Ids
    BY <2>1, FrameArgs
  <2> QED BY <2>2
<1> HIDE DEF ids
<1>3. Listed(ids) \in Seq(Ids)
  <2> DEFINE places == {i \in DOMAIN userRequests : userRequests[i].id \in ids}
  <2>1. places \in SUBSET DOMAIN userRequests /\ userRequests \in Seq(RequestSet)
    BY DEF Inv, Typed
  <2>2. Listed(ids) = LET kept == Keep(userRequests, places)
                      IN [i \in DOMAIN kept |-> kept[i].id]
    BY DEF Listed
  <2> HIDE DEF places
  <2> QED BY <2>1, <2>2, ListedIs
<1>4. Plain(first) /\ CarryOK(first, queue, userRequests, overtaken)
  BY <1>3, RemovalIs
<1>5. Plain(told) /\ CarryOK(told, queue, userRequests, overtaken)
  <2>1. Frame("confirm", ids) \in Frames /\ Frame("confirm", ids)[1] = "confirm"
    BY <1>2 DEF Frame, Frames
  <2>2. Bears(<<Frame("confirm", ids)>>)
    BY <2>1, BearsOne DEF PromiseOps, Holders
  <2>3. Bears(told)
    BY <2>2, BearsNone
  <2> HIDE DEF told
  <2> QED BY <2>3, BearsNothing
<1> HIDE DEF first, told
<1>6. Plain(fr) /\ CarryOK(fr, queue, userRequests, overtaken)
  <2>1. first \in Seq(Frames) /\ told \in Seq(Frames)
    BY <1>4, <1>5 DEF Plain
  <2> QED BY <1>4, <1>5, <2>1, PlainJoin, CarryJoin
<1> HIDE DEF fr
<1>7. Calm
  BY <1>1 DEF Calm, reqVars, history
<1>8. Rest' /\ running' \in Tasks \cup {None}
  BY <1>1, <1>6, <1>7, CalmStep DEF Waits, PromiseOps
<1> QED BY <1>1, <1>8, TypedSame DEF Inv, Rest

\* The dapps hear the transaction's id, or that it failed.
LEMMA ConfirmStep ==
    ASSUME Inv, NEW t \in Tasks, Confirm(t)
    PROVE  Inv'
<1>1. /\ Quiet /\ At(t, "confirm") /\ running' = running
      /\ stack' = [stack EXCEPT ![t] = Tail(@)]
      /\ promise' \in {Tell(Arg(t), "resolved"), Tell(Arg(t), "rejected")}
      /\ UNCHANGED <<selected, queue, current, window, windows, closed>>
      /\ UNCHANGED <<userRequests, waiting, timers, signer, busy, signed, history>>
  BY DEF Confirm
<1>2. Calm
  BY <1>1 DEF Calm, history
<1>3. Rest'
  BY <1>1, <1>2, GoesOnStep DEF Waits, PromiseOps
<1>4. promise' \in [Reqs -> Promises]
  BY <1>1, TellIs DEF Inv, Typed, Promises
<1>5. Typed'
  BY <1>1, <1>4 DEF Inv, Typed, history
<1> QED BY <1>3, <1>5 DEF Inv, Rest

\* Another transaction may be signed.
LEMMA UnlockStep ==
    ASSUME Inv, NEW t \in Tasks, Unlock(t)
    PROVE  Inv'
<1>1. /\ Turn(t, "unlock") /\ busy' = "no" /\ Become(t, <<>>)
      /\ UNCHANGED <<selected, queue, current, window, windows, closed>>
      /\ UNCHANGED <<userRequests, waiting, promise, timers, signer, signed, history>>
  BY DEF Unlock
<1>2. Calm
  BY <1>1 DEF Calm, history
<1>3. Rest' /\ running' \in Tasks \cup {None}
  BY <1>1, <1>2, PopStep DEF Waits, PromiseOps
<1>4. Typed'
  BY <1>1, <1>3 DEF Inv, Typed, history
<1> QED BY <1>3, <1>4 DEF Inv, Rest

\* The one-click screen shows itself.
LEMMA OpenOneClickStep ==
    ASSUME Inv, NEW t \in Tasks, OpenOneClick(t)
    PROVE  Inv'
<1> DEFINE arg == [actions |-> <<OneClick>>, pos |-> "last", exec |-> "open", skipFocus |-> FALSE]
           f == Frame("update", arg)
           fr == <<f>>
<1>1. /\ Start(t, fr)
      /\ UNCHANGED <<selected, queue, current, window, windows, closed, reqVars>>
  BY DEF OpenOneClick
<1>2. OneClick \in ActionSet /\ OneClick.type = "swapAndBridge" /\ ~OneClick.same
  BY RequestsAssumption DEF OneClick, ActionSet, Ids, ActionTypes, DappTypes, Inv, Typed
<1>3. /\ arg \in UpdateArgs
      /\ \A j \in DOMAIN arg.actions : HeldOK(arg.actions[j], queue, userRequests, overtaken)
  <2>1. arg.actions = <<OneClick>> /\ arg.actions \in Seq(ActionSet) /\ arg.actions # <<>>
    BY <1>2
  <2>2. arg \in UpdateArgs
    BY <2>1 DEF UpdateArgs, Position, Execution
  <2>3. HeldOK(OneClick, queue, userRequests, overtaken)
    BY <1>2 DEF HeldOK, Asked, DappTypes
  <2>4. \A j \in DOMAIN <<OneClick>> : <<OneClick>>[j] = OneClick
    OBVIOUS
  <2> QED BY <2>1, <2>2, <2>3, <2>4
<1> HIDE DEF arg
<1>4. f \in Frames /\ f[1] = "update" /\ f[2] = arg
  BY <1>3 DEF Frame, Frames
<1>5. CarriesOK(f, queue, userRequests, overtaken)
  BY <1>3, <1>4 DEF CarriesOK
<1> HIDE DEF f
<1>6. Plain(fr)
  BY <1>4, PlainOne DEF PromiseOps
<1>7. CarryOK(fr, queue, userRequests, overtaken)
  BY <1>5 DEF CarryOK
<1> HIDE DEF fr
<1>8. Calm
  BY <1>1 DEF Calm, reqVars, history
<1>9. Rest' /\ running' \in Tasks \cup {None}
  BY <1>1, <1>6, <1>7, <1>8, StartStep
<1> QED BY <1>1, <1>9, TypedSame DEF Inv, Rest

\* The user selects an account.
LEMMA SelectAccountStep ==
    ASSUME Inv, NEW t \in Tasks, SelectAccount(t)
    PROVE  Inv'
<1> DEFINE close == <<Frame("await", <<"close", "focus", "open">>), Frame("close", None)>>
           select(a) == <<Frame("leaveSwap", None), Frame("select", a)>>
<1>1. UNCHANGED <<selected, queue, current, window, windows, closed, reqVars>>
  BY DEF SelectAccount
<1>2. PICK a \in Accts : Start(t, <<>> \o select(a)) \/ Start(t, close \o select(a))
  BY DEF SelectAccount
<1>3. Bears(close)
  <2>1. <<"close", "focus", "open">> \in Seq(Names)
    BY DEF Names
  <2>2. /\ Frame("await", <<"close", "focus", "open">>) \in Frames
        /\ Frame("await", <<"close", "focus", "open">>)[1] = "await"
    BY <2>1 DEF Frame, Frames
  <2>3. Bears(<<Frame("await", <<"close", "focus", "open">>)>>)
    BY <2>2, BearsOne DEF PromiseOps, Holders
  <2>4. Bears(<<Frame("close", None)>>)
    BY BareIs DEF Bare
  <2> QED BY <2>3, <2>4, BearsMore
<1>4. Bears(select(a))
  <2>1. Frame("select", a) \in Frames /\ Frame("select", a)[1] = "select"
    BY DEF Frame, Frames
  <2>2. Bears(<<Frame("select", a)>>)
    BY <2>1, BearsOne DEF PromiseOps, Holders
  <2>3. Bears(<<Frame("leaveSwap", None)>>)
    BY BareIs DEF Bare
  <2> QED BY <2>2, <2>3, BearsMore
<1> HIDE DEF close, select
<1>5. Bears(<<>> \o select(a)) /\ Bears(close \o select(a))
  BY <1>3, <1>4, BearsNone, BearsJoin
<1>6. PICK fr : Start(t, fr) /\ Bears(fr)
  BY <1>2, <1>5
<1>7. Calm
  BY <1>1 DEF Calm, reqVars, history
<1>8. Rest' /\ running' \in Tasks \cup {None}
  BY <1>6, <1>7, BearsNothing, StartStep
<1> QED BY <1>1, <1>8, TypedSame DEF Inv, Rest

\* The one-click screen is left.
LEMMA LeaveSwapStep ==
    ASSUME Inv, NEW t \in Tasks, LeaveSwap(t)
    PROVE  Inv'
<1> DEFINE remove == <<Frame("remove", [ids |-> {OneClickId}, openNext |-> TRUE])>>
<1>1. /\ Turn(t, "leaveSwap")
      /\ Become(t, remove) \/ Become(t, <<>>)
      /\ UNCHANGED <<selected, queue, current, window, windows, closed, reqVars>>
  BY DEF LeaveSwap
<1>2. Bears(remove)
  <2>1. {OneClickId} \in SUBSET Ids
    BY DEF Ids
  <2> QED BY <2>1, RemoveIs
<1> HIDE DEF remove
<1>3. PICK fr : Become(t, fr) /\ Bears(fr)
  BY <1>1, <1>2, BearsNone
<1>4. Calm /\ Turn(t, "leaveSwap")
  BY <1>1 DEF Calm, reqVars, history
<1>5. Plain(fr) /\ CarryOK(fr, queue, userRequests, overtaken)
  BY <1>3, BearsNothing
<1>6. Rest' /\ running' \in Tasks \cup {None}
  BY <1>3, <1>4, <1>5, CalmStep DEF Waits, PromiseOps
<1> QED BY <1>1, <1>6, TypedSame DEF Inv, Rest

\* The account is selected.
LEMMA SetAccountStep ==
    ASSUME Inv, NEW t \in Tasks, SetAccount(t)
    PROVE  Inv'
<1>1. /\ Turn(t, "select") /\ selected' = Arg(t) /\ Become(t, <<Frame("store", None)>>)
      /\ UNCHANGED <<queue, current, window, windows, closed, reqVars>>
  BY DEF SetAccount
<1>2. selected' \in Accts
  <2>1. Head(stack[t]) \in Frames /\ Head(stack[t])[1] = "select" /\ Arg(t) = Head(stack[t])[2]
    BY <1>1, TurnIs
  <2> QED BY <1>1, <2>1, FrameArgs
<1>3. /\ Plain(<<Frame("store", None)>>)
      /\ CarryOK(<<Frame("store", None)>>, queue, userRequests, overtaken)
  BY BareIs, BearsNothing DEF Bare
<1>4. Calm
  BY <1>1 DEF Calm, reqVars, history
<1>5. Rest' /\ running' \in Tasks \cup {None}
  BY <1>1, <1>3, <1>4, CalmStep DEF Waits, PromiseOps
<1>6. Typed'
  BY <1>1, <1>2, <1>5 DEF Inv, Typed, reqVars, history
<1> QED BY <1>5, <1>6 DEF Inv, Rest

-----------------------------------------------------------------------------
(* The theorems *)

\* The initial states.
LEMMA InitInv == Init => Inv
<1> SUFFICES ASSUME Init PROVE Inv
  OBVIOUS
<1>1. Typed
  <2>1. /\ selected \in Accts /\ current = None /\ closed = {} /\ running = None
        /\ window = [id |-> None, close |-> None, focus |-> None, open |-> None]
        /\ windows = [open |-> {}, last |-> 0]
    BY DEF Init, WindowInit, NoWindow
  <2>2. queue \in Seq(QueuedSet) /\ userRequests \in Seq(RequestSet) /\ waiting \in Seq(RequestSet)
    BY DEF Init, WindowInit
  <2>3. promise \in [Reqs -> Promises] /\ timers \subseteq Reqs
    BY DEF Init, Promises
  <2>4. windows \in [open: SUBSET (1..MaxWindows), last: 0..MaxWindows]
    BY <2>1, WindowAssumption
  <2>5. /\ signer \in SignerSet \cup {None} /\ signed \in SignerSet \cup {None}
        /\ busy \in {"no", "main", "oneClick"} /\ overtaken \in BOOLEAN
    BY DEF Init
  <2> QED BY <2>1, <2>2, <2>3, <2>4, <2>5 DEF Typed
<1>2. StackInv
  BY DEF Init, WindowInit, NoWindow, StackInv, Linked, Proper, ByTheirCalls, Tracked, TopIs, Names
<1>3. HeldInv /\ AskedInv /\ CanGoOn(stack, running)
  BY DEF Init, WindowInit, HeldInv, AllHeld, CarryOK, AskedInv, AllAsked, CanGoOn
<1> QED BY <1>1, <1>2, <1>3 DEF Inv

\* Nothing changes.
LEMMA StutterInv ==
    ASSUME Inv, UNCHANGED vars
    PROVE  Inv'
<1>1. Typed'
  BY DEF Inv, Typed, vars, windowVars, reqVars, history
<1>2. Calm /\ UNCHANGED <<stack, running>>
  BY DEF Calm, vars, windowVars, reqVars, history
<1> QED BY <1>1, <1>2, SameStep DEF Inv, Rest

\* Every step keeps the invariant.
LEMMA NextInv ==
    ASSUME Inv, [Next]_vars
    PROVE  Inv'
<1>1. ASSUME NEW t \in Tasks, WindowSteps(t), UNCHANGED reqVars
      PROVE  Inv'
  BY <1>1, UpdateStep, PutNextStep, PutDoneStep, RemoveActionsStep, AwaitStep, OpenStep, FocusStep,
     CloseStep, HandleCloseStep DEF WindowSteps
<1>2. ASSUME NEW t \in Tasks, WindowAnswers(t), UNCHANGED reqVars
      PROVE  Inv'
  BY <1>2, PopupGoneStep, OpenedStep, FocusedStep, CloseDoneStep, AnsweredStep
     DEF WindowAnswers, Notified
<1>3. ASSUME NEW t \in Tasks, WindowRemoved(t) \/ Pick(t) \/ Answered(t, "store"),
             UNCHANGED reqVars
      PROVE  Inv'
  BY <1>3, WindowRemovedStep, PickStep, AnsweredStep
<1>4. ASSUME NEW t \in Tasks, Handlers(t)
      PROVE  Inv'
  BY <1>4, GuardStep, DropStep, EachDoneStep, EachCallsStep, EachOtherStep, MakeStep,
     RemoveNoneStep, RemoveCallsStep, RemoveSwitchStep, RemoveOtherStep, RemoveDoneStep,
     RejectReqsStep, OnCloseStep, NoneWaitStep, BuildStep, BuiltStep, SettleStep, UnlockStep,
     LeaveSwapStep, SetAccountStep DEF Handlers
<1>5. ASSUME NEW t \in Tasks, Answers(t)
      PROVE  Inv'
  BY <1>5, FetchedStep, StateKnownStep, NextTransactionStep, ConfirmStep DEF Answers
<1>6. ASSUME NEW t \in Tasks, User(t)
      PROVE  Inv'
  BY <1>6, BuildingStep, ResolveStep, RejectStep, RejectAccountOpStep, BroadcastStep,
     OpenOneClickStep, SelectAccountStep, TimerStep DEF User
<1>7. ASSUME NEW w \in windows.open, WindowCloses(w), UNCHANGED reqVars
      PROVE  Inv'
  BY <1>7, WindowClosesStep
<1>8. ASSUME OpenSigner \/ Sign \/ SignFails \/ SignOneClick
      PROVE  Inv'
  BY <1>8, SignStep
<1> QED BY <1>1, <1>2, <1>3, <1>4, <1>5, <1>6, <1>7, <1>8, StutterInv DEF Next

\* The invariant holds in every reachable state.
LEMMA AlwaysInv == Spec => []Inv
<1>1. Inv /\ [Next]_vars => Inv'
  BY NextInv
<1> QED BY InitInv, <1>1, PTL DEF Spec

\* When no handler runs, none is about to remove an action or to handle a close.
LEMMA IdleIs ==
    ASSUME Inv, AllIdle
    PROVE  Going(stack, running) = {} /\ \A w : ~Closing(stack, w)
<1>1. running = None
  BY DEF Inv, Typed, CanGoOn, AllIdle, Idle
<1> QED BY <1>1 DEF Going, AllIdle, Idle, Closing

\* The types of the requests, the actions and the window (the type invariant).
THEOREM RequestsAreTyped == Spec => []RequestsTypeOK
<1>1. ASSUME Inv PROVE RequestsTypeOK
  <2>1. \A r \in RequestSet : UserRequest(r)
    BY DEF RequestSet, UserRequest
  <2>2. \A a \in ActionSet : Action(a)
    BY DEF ActionSet, Action, Ids
  <2>3. \A i \in DOMAIN queue : Action(queue[i]) /\ ~queue[i].same
    BY <1>1, <2>2 DEF Inv, Typed, QueuedSet
  <2>4. /\ \A i \in DOMAIN userRequests : UserRequest(userRequests[i])
        /\ \A i \in DOMAIN waiting : UserRequest(waiting[i])
    BY <1>1, <2>1 DEF Inv, Typed
  <2>5. /\ window.id \in 1..MaxWindows \cup {None}
        /\ \A n \in {"close", "focus", "open"} : window[n] \in Tasks \cup {None}
    BY <1>1 DEF Inv, Typed
  <2>6. /\ windows.last \in 0..MaxWindows
        /\ windows.open \cup closed \subseteq 1..windows.last
        /\ current = None \/ Action(current)
    BY <1>1, <2>2 DEF Inv, Typed
  <2> QED BY <1>1, <2>3, <2>4, <2>5, <2>6 DEF Inv, Typed, RequestsTypeOK
<1> QED BY AlwaysInv, <1>1, PTL

\* No call is asked to be signed whose request is gone (CallsAreAsked): the calls
\* of a queued account op are those of the requests that are listed for its
\* account, whatever handlers add, remove and rebatch at the same time.
THEOREM CallsHaveRequests == Spec => []CallsAreAsked
<1>1. ASSUME Inv PROVE CallsAreAsked
  <2>1. \A a : \A c \in BatchCalls(userRequests, a) : HasId(userRequests, c)
    BY DEF BatchCalls, HasId
  <2> QED BY <1>1, <2>1 DEF Inv, AskedInv, AllAsked, CallsAreAsked
<1> QED BY AlwaysInv, <1>1, PTL

\* No two handlers wait for each other, and none waits for a promise that nobody
\* will settle (WaitersWait).
THEOREM NobodyWaitsForever == Spec => []WaitersWait
<1>1. ASSUME Inv PROVE WaitersWait
  <2>1. ASSUME NEW t \in Tasks, At(t, "waiting")
        PROVE  \E op \in {"opening", "focusing", "closing"} : At(Arg(t), op)
    BY <1>1, <2>1 DEF Inv, StackInv, Linked, ByTheirCalls, At, Idle, TopOp, Arg, TopIs, TopIn,
                      PromiseOps
  <2> QED BY <2>1 DEF WaitersWait
<1> QED BY AlwaysInv, <1>1, PTL

\* When no handler runs, the window that the controller knows is open
\* (QuietWindowIsOpen).
THEOREM KnownWindowIsOpen == Spec => []QuietWindowIsOpen
<1>1. ASSUME Inv PROVE QuietWindowIsOpen
  BY <1>1, IdleIs DEF Inv, StackInv, Linked, Tracked, QuietWindowIsOpen
<1> QED BY AlwaysInv, <1>1, PTL

\* When no handler runs, what a dapp is waiting to hear has its request
\* (QuietActionIsAsked), unless a handler held it when the request was removed.
THEOREM QuietActionsAreAsked == Spec => []QuietActionIsAsked
<1>1. ASSUME Inv PROVE QuietActionIsAsked
  BY <1>1, IdleIs DEF Inv, AskedInv, AllAsked, QuietActionIsAsked, DappTypes
<1> QED BY AlwaysInv, <1>1, PTL
=============================================================================
