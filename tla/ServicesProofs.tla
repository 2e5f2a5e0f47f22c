--------------------------- MODULE ServicesProofs ----------------------------
(***************************************************************************)
(* Theorems about MCServices for every value of its constants: about the   *)
(* components that keep data for the others, and about the contracts.      *)
(*                                                                         *)
(* Every component has an inductive invariant of its own, under its        *)
(* heading, here or in ServicePartsProofs, which says what the writes and  *)
(* the answers that are still to come will leave: the last write in a      *)
(* queue is what is in memory (StoreInv, SeedQueue), what a load read      *)
(* agrees with what was agreed (DapInv), and however far the migrations    *)
(* came, what remains makes every item new whose migrations were not cut   *)
(* short (MigInv, which says for each group of items and for each of the   *)
(* migrations that may have been cut what formats it leaves: Fit).         *)
(*                                                                         *)
(* Of StakingPool, for any users, amounts, vestings, rates, terms and      *)
(* bounds, the inductive invariant (PoolInv) has three parts.  Money: what *)
(* all hold of WALLET is within the supply, the shares are those of their  *)
(* holders and no more than the WALLET of the pool, the wrapped ones are   *)
(* held by the contract that wraps them, and what was claimed was minted.  *)
(* Committed: the locked shares of a user are those of its commitments.    *)
(* Settled: the clock and the terms are in their ranges.  The balances of  *)
(* single users are not enough: that a transfer or a mint stays within the *)
(* supply follows only from the sum over all of them.                      *)
(*                                                                         *)
(* The sums are folds over finite sets.  What the proofs need of them      *)
(* (SumSplits, SumChanges, SumBounds) is shown by the smallest set of      *)
(* which it is wrong, because an induction would need an operator as a     *)
(* parameter.  The rest is arithmetic: what a deposit (Buying) or a payout *)
(* (Selling) does to pool * shares', the value of those who stay.          *)
(*                                                                         *)
(* Of AmbireAccount, for all keys, recoveries, settings, time locks and    *)
(* bounds: a failure restores the chain that a frame saved, so whatever is *)
(* said of the chain is said of all the saved ones (Sound, Waited): they   *)
(* are older, and the time does not go back.  In between calls the account *)
(* may have nobody in control; what counts is that the outermost frame was *)
(* entered from a chain that was under control, or waived it, and that a   *)
(* key leaves it only with a privilege of its own (Bottom).                *)
(***************************************************************************)
EXTENDS MCServices, ServicePartsProofs

-----------------------------------------------------------------------------
(* Sums over finite sets *)

\* If some subsets of a finite set are wrong, one of them is not empty and right without any one of
\* its elements, or it is the empty set.
LEMMA SmallestWrong ==
    ASSUME NEW D, IsFiniteSet(D), NEW Wrong, Wrong \subseteq SUBSET D, Wrong # {}
    PROVE  \E s \in Wrong : \A x \in s : s \ {x} \notin Wrong
<1> DEFINE T == {Cardinality(s) : s \in Wrong}
<1>1. \A s \in Wrong : IsFiniteSet(s) /\ Cardinality(s) \in Nat
  BY FS_Subset, FS_CardinalityType
<1>2. T \subseteq Nat /\ T # {}
  BY <1>1
<1>3. PICK n \in T : \A m \in T : n <= m
  <2> HIDE DEF T
  <2> QED
    BY <1>2, LeastNumber
<1>4. PICK s \in Wrong : Cardinality(s) = n
  OBVIOUS
<1>5. ASSUME NEW x \in s, s \ {x} \in Wrong PROVE FALSE
  <2>1. Cardinality(s \ {x}) = Cardinality(s) - 1
    BY <1>1, FS_RemoveElement
  <2>2. n <= Cardinality(s \ {x})
    BY <1>3, <1>5
  <2> QED
    BY <1>1, <1>4, <2>1, <2>2
<1> QED
  BY <1>5

\* An element that is taken of a set.
OneOf(s) == CHOOSE x \in s : TRUE

\* g gives the sum of f over each subset of D, as it is computed.
Sums(g, f, D) ==
    g = [s \in SUBSET D |-> IF s = {} THEN 0 ELSE f[OneOf(s)] + g[s \ {OneOf(s)}]]

\* A set that is not empty has the element that is taken.
LEMMA AnyIsIn == \A s : s # {} => OneOf(s) \in s
BY DEF OneOf

\* There is such a function.
LEMMA SumsExist ==
    ASSUME NEW D, IsFiniteSet(D), NEW f \in [D -> Int]
    PROVE  \E g : Sums(g, f, D)
<1> DEFINE Small(n) == {s \in SUBSET D : Cardinality(s) <= n}
           Next1(g, s) == IF s = {} THEN 0 ELSE f[OneOf(s)] + g[s \ {OneOf(s)}]
           Done(n, g) == \A s \in Small(n) : g[s] = Next1(g, s)
           Good == {n \in Nat : \E g \in [SUBSET D -> Int] : Done(n, g)}
<1>1. \A s \in SUBSET D : IsFiniteSet(s) /\ Cardinality(s) \in Nat
  BY FS_Subset, FS_CardinalityType
<1>4. 0 \in Good
  <2> DEFINE g == [s \in SUBSET D |-> 0]
  <2>1. g \in [SUBSET D -> Int]
    OBVIOUS
  <2>2. Done(0, g)
    BY <1>1, FS_EmptySet
  <2> QED
    BY <2>1, <2>2
<1>5. ASSUME NEW n \in Good PROVE n + 1 \in Good
  <2>1. PICK g \in [SUBSET D -> Int] : Done(n, g)
    OBVIOUS
  <2> DEFINE h == [s \in SUBSET D |-> IF Cardinality(s) <= n THEN g[s] ELSE Next1(g, s)]
  <2>2. h \in [SUBSET D -> Int]
    BY <1>1, AnyIsIn, FS_RemoveElement
  <2>3. ASSUME NEW s \in Small(n + 1) PROVE h[s] = Next1(h, s)
    <3>1. CASE s = {}
      BY <2>1, <3>1
    <3>2. CASE s # {}
      <4>3. h[s] = Next1(g, s)
        BY <2>1
      <4> QED
        BY <1>1, <3>2, <4>3, AnyIsIn, FS_RemoveElement
    <3> QED
      BY <3>1, <3>2
  <2>4. Done(n + 1, h)
    BY <2>3
  <2> HIDE DEF h, Done
  <2> QED
    BY <2>2, <2>4
<1> HIDE DEF Good
<1>6. Good = Nat
  <2> SUFFICES ASSUME Nat \ Good # {} PROVE FALSE
    BY DEF Good
  <2>1. PICK n \in Nat \ Good : \A m \in Nat \ Good : n <= m
    BY LeastNumber
  <2> QED
    BY <1>4, <1>5, <2>1
<1>8. PICK g \in [SUBSET D -> Int] : Done(Cardinality(D), g)
  BY <1>1, <1>6 DEF Good
<1> QED
  BY <1>8, FS_Subset DEF Sums

\* SumFunction computes one of them.
LEMMA SumIsComputed ==
    ASSUME NEW D, IsFiniteSet(D), NEW f \in [D -> Int]
    PROVE  \E g : Sums(g, f, D) /\ SumFunction(f) = g[D]
<1> DEFINE g == CHOOSE h : Sums(h, f, D)
<1>2. SumFunction(f) = g[D]
  BY DEF SumFunction, SumFunctionOnSet, FoldFunctionOnSet, MapThenFoldSet, Sums, OneOf
<1> QED
  BY <1>2, SumsExist

\* What is computed are integers, and no two computations differ where the
\* functions agree.
LEMMA SumsAgree ==
    ASSUME NEW D, IsFiniteSet(D), NEW f \in [D -> Int], NEW g, Sums(g, f, D),
           NEW E, IsFiniteSet(E), NEW e \in [E -> Int], NEW h, Sums(h, e, E),
           D \subseteq E, \A x \in D : f[x] = e[x]
    PROVE  \A s \in SUBSET D : g[s] = h[s] /\ g[s] \in Int
<1> DEFINE Wrong == {s \in SUBSET D : ~(g[s] = h[s] /\ g[s] \in Int)}
<1> SUFFICES ASSUME Wrong # {} PROVE FALSE
  OBVIOUS
<1>1. PICK s \in Wrong : \A x \in s : s \ {x} \notin Wrong
  <2>1. Wrong \subseteq SUBSET D
    OBVIOUS
  <2> HIDE DEF Wrong
  <2> QED
    BY <2>1, SmallestWrong
<1>2. s \in SUBSET D /\ s \in SUBSET E
  OBVIOUS
<1>3. CASE s = {}
  BY <1>2, <1>3 DEF Sums
<1>4. CASE s # {}
  <2> DEFINE x == OneOf(s)
  <2>1. x \in s
    BY <1>4, AnyIsIn
  <2>2. g[s \ {x}] = h[s \ {x}] /\ g[s \ {x}] \in Int
    BY <1>1, <1>2, <2>1
  <2>3. g[s] = f[x] + g[s \ {x}] /\ h[s] = e[x] + h[s \ {x}]
    BY <1>2, <1>4 DEF Sums
  <2> QED
    BY <1>2, <2>1, <2>2, <2>3
<1> QED
  BY <1>3, <1>4

\* It does not matter which element is taken first.
LEMMA SumsSplit ==
    ASSUME NEW D, IsFiniteSet(D), NEW f \in [D -> Int], NEW g, Sums(g, f, D)
    PROVE  \A s \in SUBSET D : \A a \in s : g[s] = f[a] + g[s \ {a}]
<1> DEFINE Wrong == {s \in SUBSET D : ~\A a \in s : g[s] = f[a] + g[s \ {a}]}
<1> SUFFICES ASSUME Wrong # {} PROVE FALSE
  OBVIOUS
<1>1. PICK s \in Wrong : \A x \in s : s \ {x} \notin Wrong
  <2>1. Wrong \subseteq SUBSET D
    OBVIOUS
  <2> HIDE DEF Wrong
  <2> QED
    BY <2>1, SmallestWrong
<1>2. s \in SUBSET D
  OBVIOUS
<1>3. PICK a \in s : g[s] # f[a] + g[s \ {a}]
  OBVIOUS
<1> DEFINE x == OneOf(s)
<1>4. x \in s /\ g[s] = f[x] + g[s \ {x}]
  BY <1>2, <1>3, AnyIsIn DEF Sums
<1>6. g[s \ {x}] = f[a] + g[(s \ {x}) \ {a}]
  BY <1>1, <1>2, <1>3, <1>4
<1> DEFINE rest == g[(s \ {a}) \ {x}]
<1>11. rest \in Int /\ g[s] = f[x] + (f[a] + rest) /\ g[s \ {a}] = f[x] + rest
  BY <1>1, <1>2, <1>3, <1>4, <1>6, SumsAgree
<1> HIDE DEF rest, x, Wrong
<1> QED
  BY <1>2, <1>3, <1>4, <1>11, SumsAgree

\* A sum is what an element has and the sum of the others.
LEMMA SumSplits ==
    ASSUME NEW D, IsFiniteSet(D), NEW f \in [D -> Int], NEW a \in D,
           NEW e \in [D \ {a} -> Int], \A x \in D \ {a} : e[x] = f[x]
    PROVE  SumFunction(f) = f[a] + SumFunction(e)
<1>2. PICK g : Sums(g, f, D) /\ SumFunction(f) = g[D]
  BY SumIsComputed
<1>3. PICK h : Sums(h, e, D \ {a}) /\ SumFunction(e) = h[D \ {a}]
  BY SumIsComputed, FS_Subset
<1>6. h[D \ {a}] = g[D \ {a}]
  BY <1>2, <1>3, SumsAgree, FS_Subset
<1> QED
  BY <1>2, <1>3, <1>6, SumsSplit

\* A sum of integers is one, and the sum of nothing is 0.
LEMMA SumType ==
    ASSUME NEW D, IsFiniteSet(D), NEW f \in [D -> Int]
    PROVE  SumFunction(f) \in Int /\ (D = {} => SumFunction(f) = 0)
<1>1. PICK g : Sums(g, f, D) /\ SumFunction(f) = g[D]
  BY SumIsComputed
<1>3. D = {} => g[D] = 0
  BY <1>1 DEF Sums
<1> QED
  BY <1>1, <1>3, SumsAgree

\* A sum of numbers that are not negative is not either.
LEMMA SumIsNatural ==
    ASSUME NEW D, IsFiniteSet(D), NEW f \in [D -> Nat]
    PROVE  SumFunction(f) \in Nat
<1>2. PICK g : Sums(g, f, D) /\ SumFunction(f) = g[D]
  BY SumIsComputed
<1> DEFINE Wrong == {s \in SUBSET D : g[s] \notin Nat}
<1> SUFFICES ASSUME Wrong # {} PROVE FALSE
  BY <1>2
<1>3. PICK s \in Wrong : \A x \in s : s \ {x} \notin Wrong
  <2>1. Wrong \subseteq SUBSET D
    OBVIOUS
  <2> HIDE DEF Wrong
  <2> QED
    BY <2>1, SmallestWrong
<1>4. s # {}
  BY <1>2 DEF Sums
<1>5. OneOf(s) \in s /\ g[s] = f[OneOf(s)] + g[s \ {OneOf(s)}] /\ g[s \ {OneOf(s)}] \in Nat
  BY <1>2, <1>3, <1>4, AnyIsIn DEF Sums
<1> QED
  BY <1>5

\* A sum of zeros is 0.
LEMMA SumOfZeros ==
    ASSUME NEW D, IsFiniteSet(D)
    PROVE  SumFunction([x \in D |-> 0]) = 0
<1> DEFINE f == [x \in D |-> 0]
<1>1. f \in [D -> Int]
  OBVIOUS
<1> HIDE DEF f
<1>2. PICK g : Sums(g, f, D) /\ SumFunction(f) = g[D]
  BY <1>1, SumIsComputed
<1> DEFINE Wrong == {s \in SUBSET D : g[s] # 0}
<1> SUFFICES ASSUME Wrong # {} PROVE FALSE
  BY <1>2 DEF f
<1>3. PICK s \in Wrong : \A x \in s : s \ {x} \notin Wrong
  <2>1. Wrong \subseteq SUBSET D
    OBVIOUS
  <2> HIDE DEF Wrong
  <2> QED
    BY <2>1, SmallestWrong
<1>5. OneOf(s) \in s /\ g[s] = f[OneOf(s)] + g[s \ {OneOf(s)}] /\ g[s \ {OneOf(s)}] = 0
  BY <1>2, <1>3, AnyIsIn DEF Sums
<1> QED
  BY <1>5 DEF f

\* Changing one of the summands.
LEMMA SumChanges ==
    ASSUME NEW D, IsFiniteSet(D), NEW f \in [D -> Int], NEW g \in [D -> Int], NEW a \in D,
           \A x \in D \ {a} : g[x] = f[x]
    PROVE  SumFunction(g) = SumFunction(f) - f[a] + g[a]
<1> DEFINE e == [x \in D \ {a} |-> f[x]]
<1>1. IsFiniteSet(D \ {a}) /\ e \in [D \ {a} -> Int]
  BY FS_Subset
<1>2. \A x \in D \ {a} : e[x] = f[x] /\ e[x] = g[x]
  OBVIOUS
<1> HIDE DEF e
<1>3. SumFunction(f) = f[a] + SumFunction(e)
  BY <1>1, <1>2, SumSplits
<1>4. SumFunction(g) = g[a] + SumFunction(e)
  BY <1>1, <1>2, SumSplits
<1> QED
  BY <1>1, <1>3, <1>4, SumType

\* No summand is larger than the sum, nor are two of them.
LEMMA SumBounds ==
    ASSUME NEW D, IsFiniteSet(D), NEW f \in [D -> Nat]
    PROVE  /\ \A a \in D : f[a] <= SumFunction(f)
           /\ \A a, b \in D : a # b => f[a] + f[b] <= SumFunction(f)
<1>1. ASSUME NEW a \in D
      PROVE  /\ f[a] <= SumFunction(f)
             /\ \A b \in D : a # b => f[a] + f[b] <= SumFunction(f)
  <2> DEFINE e == [x \in D \ {a} |-> f[x]]
  <2>1. IsFiniteSet(D \ {a}) /\ e \in [D \ {a} -> Nat] /\ f \in [D -> Int] /\ e \in [D \ {a} -> Int]
    BY FS_Subset
  <2>2. SumFunction(f) = f[a] + SumFunction(e)
    BY <2>1, SumSplits
  <2>3. SumFunction(e) \in Nat /\ f[a] \in Nat
    <3> HIDE DEF e
    <3> QED
      BY <2>1, SumIsNatural
  <2>4. ASSUME NEW b \in D, a # b PROVE f[b] <= SumFunction(e)
    <3> DEFINE d == [x \in (D \ {a}) \ {b} |-> e[x]]
    <3>1. b \in D \ {a} /\ e[b] = f[b] /\ f[b] \in Nat
      BY <2>4
    <3>2. IsFiniteSet((D \ {a}) \ {b}) /\ d \in [(D \ {a}) \ {b} -> Nat]
      BY FS_Subset
    <3> HIDE DEF e
    <3>3. SumFunction(e) = e[b] + SumFunction(d)
      BY <2>1, <3>1, SumSplits
    <3>4. SumFunction(d) \in Nat
      <4> HIDE DEF d
      <4> QED
        BY <3>2, SumIsNatural
    <3> HIDE DEF d
    <3> QED
      BY <3>1, <3>3, <3>4
  <2> HIDE DEF e
  <2> QED
    BY <2>2, <2>3, <2>4
<1> QED
  BY <1>1

-----------------------------------------------------------------------------
(* Arithmetic of shares *)

\* Products are monotonic, and a factor can be cancelled.
LEMMA Products ==
    ASSUME NEW a \in Nat, NEW b \in Nat, NEW c \in Nat
    PROVE  /\ a * c \in Nat
           /\ a <= b => a * c <= b * c
           /\ c > 0 /\ a * c <= b * c => a <= b
           /\ a * c < b * c => a < b
OBVIOUS

\* What \div computes.
LEMMA Quotient ==
    ASSUME NEW a \in Nat, NEW b \in Nat, b > 0
    PROVE  /\ a \div b \in Nat
           /\ (a \div b) * b <= a
           /\ a < (a \div b + 1) * b
OBVIOUS

\* What shares are worth is what they are of what is held, and at least one
\* token each if the pool is backed.
LEMMA WorthOfShares ==
    ASSUME NEW s \in Nat, NEW h \in Nat, NEW t \in Nat, t > 0
    PROVE  LET w == (s * h) \div t IN
           /\ w \in Nat /\ w * t <= s * h
           /\ s <= t => w <= h
           /\ t <= h => s <= w
<1> DEFINE w == (s * h) \div t
<1>2. w \in Nat /\ w * t <= s * h /\ s * h < (w + 1) * t
  BY Quotient, Products
<1> HIDE DEF w
<1>3. ASSUME s <= t PROVE w <= h
      BY <1>2, <1>3, Products
<1>4. ASSUME t <= h PROVE s <= w
      BY <1>2, <1>4, Products
<1> QED
  BY <1>2, <1>3, <1>4 DEF w

\* An amount that enters a backed pool leaves it backed, and what the shares
\* before are worth does not fall: t shares and w tokens, of which a mint made h.
LEMMA Buying ==
    ASSUME NEW t \in Nat, NEW w \in Nat, t <= w, NEW m \in Nat, NEW a \in Nat,
           NEW n, n = IF t = 0 \/ w + m = 0 THEN a ELSE (a * t) \div (w + m)
    PROVE  /\ n \in Nat /\ t + n <= w + m + a
           /\ t > 0 => (w + m + a) * t >= w * (t + n)
<1> DEFINE h == w + m
<1> HIDE DEF h
<1>1. CASE t = 0
  BY <1>1 DEF h
<1>2. CASE t > 0
      BY <1>2, Products, Quotient DEF h
<1> QED
  BY <1>1, <1>2

\* Shares that leave with at most what they are worth leave the pool backed, and
\* what the others are worth does not fall.
LEMMA Selling ==
    ASSUME NEW t \in Nat, t > 0, NEW w \in Nat, t <= w, NEW m \in Nat,
           NEW s \in Nat, s <= t, NEW p \in Nat, p <= (s * (w + m)) \div t
    PROVE  /\ p <= w + m /\ t - s <= w + m - p
           /\ (w + m - p) * t >= w * (t - s)
<1> DEFINE h == w + m
           v == (s * h) \div t
           r == t - s
<1>0. h \in Nat /\ w <= h /\ t <= h /\ r \in Nat /\ r = t - s
  OBVIOUS
<1>1. v \in Nat /\ v * t <= s * h /\ v <= h /\ p <= v
  BY <1>0, WorthOfShares
<1> HIDE DEF h, v, r
<1> DEFINE q == h - p
<1>3. q \in Nat /\ q = h - p
  BY <1>0, <1>1
<1> HIDE DEF q
<1> QED
  BY <1>0, <1>1, <1>3, Products DEF h, q, r

-----------------------------------------------------------------------------
(* Balances *)

\* SumOf is the sum of the library.
LEMMA SumOfIsSum == \A f : SumOf(f) = SumFunction(f)
BY DEF SumOf, SumFunction, SumFunctionOnSet, FoldFunction

\* One balance changes.
LEMMA OneChanges ==
    ASSUME NEW D, IsFiniteSet(D), NEW f \in [D -> Nat], NEW g \in [D -> Nat], NEW a \in D,
           \A x \in D \ {a} : g[x] = f[x]
    PROVE  /\ SumFunction(g) = SumFunction(f) - f[a] + g[a]
           /\ SumFunction(f) \in Nat /\ SumFunction(g) \in Nat
<1> QED
  BY SumChanges, SumIsNatural

\* Two balances change.
LEMMA TwoChange ==
    ASSUME NEW D, IsFiniteSet(D), NEW f \in [D -> Nat], NEW g \in [D -> Nat],
           NEW a \in D, NEW b \in D, a # b, \A x \in D \ {a, b} : g[x] = f[x]
    PROVE  /\ SumFunction(g) = SumFunction(f) - f[a] - f[b] + g[a] + g[b]
           /\ SumFunction(f) \in Nat /\ SumFunction(g) \in Nat
<1> DEFINE e == [f EXCEPT ![a] = g[a]]
<1>1. /\ e \in [D -> Nat] /\ e[a] = g[a] /\ e[b] = f[b]
      /\ \A x \in D \ {a} : e[x] = f[x]
      /\ \A x \in D \ {b} : g[x] = e[x]
  OBVIOUS
<1> HIDE DEF e
<1> QED
  BY <1>1, OneChanges

\* g is f after n was moved from a to b, which may be the same.
Shifts(D, f, g, a, b, n) ==
    /\ g \in [D -> Int]
    /\ \A x \in D : g[x] = f[x] - (IF x = a THEN n ELSE 0) + (IF x = b THEN n ELSE 0)

\* What moving leaves.
LEMMA Moved ==
    ASSUME NEW D, IsFiniteSet(D), NEW f \in [D -> Nat], NEW g,
           NEW a \in D, NEW b \in D, NEW n \in Nat, n <= f[a], Shifts(D, f, g, a, b, n)
    PROVE  /\ g \in [D -> Nat] /\ SumFunction(g) = SumFunction(f)
           /\ \A x \in D \ {a} : g[x] >= f[x]
           /\ a # b => g[b] = f[b] + n /\ g[a] = f[a] - n
<1>0. f[a] \in Nat /\ f[b] \in Nat /\ f[a] - n \in Nat
  OBVIOUS
<1>1. \A x \in D : f[x] \in Nat
  OBVIOUS
<1>2. \A x \in D : g[x] = f[x] - (IF x = a THEN n ELSE 0) + (IF x = b THEN n ELSE 0)
  BY DEF Shifts
<1>3. g \in [D -> Nat]
      BY <1>0, <1>1, <1>2 DEF Shifts
<1>5. CASE a = b
      BY <1>1, <1>2, <1>3, <1>5
<1>6. CASE a # b
  <2>1. g[a] = f[a] - n /\ g[b] = f[b] + n /\ \A x \in D \ {a, b} : g[x] = f[x]
    BY <1>0, <1>1, <1>2, <1>6
  <2>2. /\ SumFunction(g) = SumFunction(f) - f[a] - f[b] + g[a] + g[b]
        /\ SumFunction(f) \in Nat
    BY ONLY <1>3, <1>6, <2>1, TwoChange, IsFiniteSet(D), f \in [D -> Nat], a \in D, b \in D
  <2> QED
    BY <1>0, <1>1, <1>2, <1>3, <2>1, <2>2
<1> QED
  BY <1>5, <1>6

\* Who can hold WALLET, and who can hold its shares.
Holders == Users \cup {pool, nobody}
XHolders == Users \cup {stk}

\* All tokens are within the supply, the shares are those of the holders and
\* backed, the wrapped ones are held, and nobody claimed more than there is.
Money(w, x, t, s, c) ==
    /\ w \in [Holders -> Nat] /\ SumFunction(w) < MaxSupply
    /\ x \in [XHolders -> Nat] /\ SumFunction(x) = t /\ t <= w[pool]
    /\ s \in [Users -> Nat] /\ SumFunction(s) <= x[stk]
    /\ c \in [Users -> Nat] /\ SumFunction(c) <= SumFunction(w)

\* There are finitely many holders, and the contracts are none of the users.
LEMMA HoldersAreFinite ==
    /\ IsFiniteSet(Users) /\ IsFiniteSet(Holders) /\ IsFiniteSet(XHolders)
    /\ pool \in Holders /\ nobody \in Holders /\ stk \in XHolders
    /\ Users \subseteq Holders /\ Users \subseteq XHolders
    /\ \A u \in Users : u # pool /\ u # nobody /\ u # stk
    /\ pool # nobody /\ MaxSupply \in Nat
<1>1. IsFiniteSet({pool, nobody}) /\ IsFiniteSet({stk})
  <2>1. IsFiniteSet({pool}) /\ IsFiniteSet({nobody}) /\ IsFiniteSet({stk})
    BY FS_Singleton
  <2>2. {pool, nobody} = {pool} \cup {nobody}
    OBVIOUS
  <2> QED
    BY <2>1, <2>2, FS_Union
<1>2. IsFiniteSet(Users)
  BY StakingAssumption
<1>3. IsFiniteSet(Holders) /\ IsFiniteSet(XHolders)
  BY <1>1, <1>2, FS_Union DEF Holders, XHolders
<1> QED
  BY <1>2, <1>3, StakingAssumption DEF Holders, XHolders, pool, nobody, stk

\* All balances are within the supply.
LEMMA MoneyIsTyped ==
    ASSUME NEW w, NEW x, NEW t, NEW s, NEW c, Money(w, x, t, s, c)
    PROVE  /\ w \in [Holders -> Supplies] /\ x \in [XHolders -> Supplies] /\ t \in Supplies
           /\ s \in [Users -> Supplies] /\ c \in [Users -> Supplies]
           /\ \A h \in XHolders : x[h] <= t
           /\ t <= w[pool] /\ w[pool] < MaxSupply
<1>0. /\ w \in [Holders -> Nat] /\ SumFunction(w) < MaxSupply
      /\ x \in [XHolders -> Nat] /\ SumFunction(x) = t /\ t <= w[pool]
      /\ s \in [Users -> Nat] /\ SumFunction(s) <= x[stk]
      /\ c \in [Users -> Nat] /\ SumFunction(c) <= SumFunction(w)
  BY DEF Money
<1>1. /\ SumFunction(w) \in Nat /\ SumFunction(x) \in Nat
      /\ SumFunction(s) \in Nat /\ SumFunction(c) \in Nat
  BY <1>0, HoldersAreFinite, SumIsNatural
<1>6. MaxSupply \in Nat /\ pool \in Holders /\ stk \in XHolders
  BY HoldersAreFinite, Zenon
<1>7. w[pool] \in Nat /\ w[pool] < MaxSupply /\ t \in Nat /\ t < MaxSupply
  BY <1>0, <1>1, <1>6, HoldersAreFinite, SumBounds
<1>8. \A h \in Holders : w[h] \in Supplies
  BY <1>0, <1>1, <1>6, HoldersAreFinite, SumBounds DEF Supplies
<1>9. \A h \in XHolders : x[h] \in Supplies /\ x[h] <= t
  BY <1>0, <1>1, <1>6, <1>7, HoldersAreFinite, SumBounds DEF Supplies
<1>10. \A u \in Users : s[u] \in Supplies
  BY <1>0, <1>1, <1>6, <1>9, HoldersAreFinite, SumBounds DEF Supplies
<1>11. \A u \in Users : c[u] \in Supplies
  BY <1>0, <1>1, <1>6, HoldersAreFinite, SumBounds DEF Supplies
<1> QED
  BY <1>0, <1>6, <1>7, <1>8, <1>9, <1>10, <1>11 DEF Supplies

-----------------------------------------------------------------------------
(* Commitments *)

SharesIn(cs, u) == SumFunction([c \in {d \in cs : d.owner = u} |-> c.shares])

\* The locked shares are those of the commitments that wait.
Committed(cs, l) ==
    /\ cs \subseteq Commitment /\ IsFiniteSet(cs)
    /\ l \in [Users -> Supplies]
    /\ \A u \in Users : l[u] = SharesIn(cs, u)

\* A commitment adds its shares to those of its owner.
LEMMA SharesAdd ==
    ASSUME NEW cs, cs \subseteq Commitment, IsFiniteSet(cs),
           NEW c \in Commitment, c \notin cs, NEW u \in Users
    PROVE  SharesIn(cs \cup {c}, u) =
               IF u = c.owner THEN SharesIn(cs, u) + c.shares ELSE SharesIn(cs, u)
<1> DEFINE D == {d \in cs : d.owner = u}
           E == {d \in cs \cup {c} : d.owner = u}
           f == [d \in D |-> d.shares]
           g == [d \in E |-> d.shares]
<1>2. IsFiniteSet(D) /\ IsFiniteSet(E)
  <2>2. D \in SUBSET cs /\ E \in SUBSET (cs \cup {c})
    OBVIOUS
  <2> HIDE DEF D, E
  <2> QED
    BY <2>2, FS_Subset, FS_AddElement
<1>3. f \in [D -> Int] /\ g \in [E -> Int]
  BY StakingAssumption DEF Commitment
<1>4. CASE u = c.owner
  <2>1. c \in E /\ E \ {c} = D /\ g[c] = c.shares /\ \A d \in D : f[d] = g[d]
    BY <1>4
  <2> HIDE DEF f, g, D, E
  <2>2. SumFunction(g) = g[c] + SumFunction(f)
    BY <1>2, <1>3, <2>1, SumSplits
  <2> QED
    BY <1>2, <1>3, <1>4, <2>1, <2>2, SumType, StakingAssumption DEF SharesIn, f, g, D, E, Commitment
<1>5. CASE u # c.owner
      BY <1>5 DEF SharesIn
<1> QED
  BY <1>4, <1>5

\* A commitment is made.
LEMMA CommitmentComes ==
    ASSUME NEW cs, NEW l, Committed(cs, l),
           NEW c \in Commitment, c \notin cs, l[c.owner] + c.shares \in Supplies
    PROVE  Committed(cs \cup {c}, [l EXCEPT ![c.owner] = @ + c.shares])
<1>1. cs \subseteq Commitment /\ IsFiniteSet(cs) /\ l \in [Users -> Supplies] /\ c.owner \in Users
  BY DEF Committed, Commitment
<1> DEFINE k == [l EXCEPT ![c.owner] = @ + c.shares]
<1>3. k \in [Users -> Supplies]
  BY <1>1
<1>4. ASSUME NEW u \in Users PROVE k[u] = SharesIn(cs \cup {c}, u)
  <2>1. l[u] = SharesIn(cs, u)
    BY DEF Committed
  <2>2. k[u] = IF u = c.owner THEN l[u] + c.shares ELSE l[u]
    BY <1>1
  <2> HIDE DEF k
  <2> QED
    BY <1>1, <2>1, <2>2, SharesAdd
<1> HIDE DEF k
<1> QED
  BY <1>1, <1>3, <1>4, FS_AddElement DEF k, Committed

\* A commitment is withdrawn: its owner has as many shares locked as it has.
LEMMA CommitmentGoes ==
    ASSUME NEW cs, NEW l, Committed(cs, l), NEW c \in cs
    PROVE  Committed(cs \ {c}, [l EXCEPT ![c.owner] = @ - c.shares])
<1>1. /\ cs \subseteq Commitment /\ IsFiniteSet(cs) /\ l \in [Users -> Supplies]
      /\ c.owner \in Users /\ c.shares \in Nat /\ c \in Commitment
  BY StakingAssumption DEF Committed, Commitment
<1>2. IsFiniteSet(cs \ {c}) /\ cs \ {c} \subseteq Commitment
  BY <1>1, FS_RemoveElement
<1> DEFINE k == [l EXCEPT ![c.owner] = @ - c.shares]
<1>3. ASSUME NEW u \in Users PROVE SharesIn(cs \ {c}, u) \in Nat
  <2> DEFINE D == {d \in cs \ {c} : d.owner = u}
             f == [d \in D |-> d.shares]
  <2>1. f \in [D -> Nat]
    BY <1>1, StakingAssumption DEF Commitment
  <2>2. IsFiniteSet(D)
    <3>1. D \in SUBSET (cs \ {c})
      OBVIOUS
    <3> HIDE DEF D
    <3> QED
      BY <1>2, <3>1, FS_Subset
  <2> HIDE DEF f, D
  <2>3. SumFunction(f) \in Nat
    BY <2>1, <2>2, SumIsNatural
  <2> QED
    BY <2>3 DEF SharesIn, f, D
<1>4. ASSUME NEW u \in Users
      PROVE  /\ k[u] = SharesIn(cs \ {c}, u)
             /\ k[u] \in Supplies
  <2>1. l[u] = SharesIn(cs, u) /\ l[u] \in Supplies /\ SharesIn(cs \ {c}, u) \in Nat
    BY <1>1, <1>3 DEF Committed
  <2>2. (cs \ {c}) \cup {c} = cs
    OBVIOUS
  <2>3. SharesIn(cs, u) = IF u = c.owner THEN SharesIn(cs \ {c}, u) + c.shares
                                         ELSE SharesIn(cs \ {c}, u)
    <3>1. SharesIn((cs \ {c}) \cup {c}, u) =
              IF u = c.owner THEN SharesIn(cs \ {c}, u) + c.shares ELSE SharesIn(cs \ {c}, u)
      BY <1>1, <1>2, SharesAdd
    <3> QED
      BY <2>2, <3>1
  <2>4. k[u] = IF u = c.owner THEN l[u] - c.shares ELSE l[u]
    BY <1>1
  <2> HIDE DEF k
  <2> QED
    BY <1>1, <2>1, <2>3, <2>4, StakingAssumption DEF Supplies
<1>5. k \in [Users -> Supplies]
  <2>1. k = [u \in Users |-> k[u]]
    BY <1>1
  <2> HIDE DEF k
  <2> QED
    BY <1>4, <2>1
<1> HIDE DEF k
<1>6. Committed(cs \ {c}, k)
  BY <1>2, <1>4, <1>5 DEF Committed
<1> QED
  BY <1>6 DEF k

-----------------------------------------------------------------------------
(* The inductive invariant *)

Terms == [unbond: Delays, rage: Rages, vesting: Schedules]

\* The clock and what governance sets.
Settled ==
    /\ now \in 1..MaxTime
    /\ terms \in Terms
    /\ lastMint \in [Schedules -> 0..MaxTime]
    /\ root \in Roots \cup {Unset}
    /\ penalty \in Penalties

PoolInv ==
    /\ Settled
    /\ Money(wallet, xBalances, totalSupply, stkShares, claimed)
    /\ Committed(commitments, lockedShares)

\* The invariant gives the types, and that the pool is sound.
LEMMA PoolInvIsTyped ==
    ASSUME PoolInv, calls \in 0..MaxCalls
    PROVE  StakingTypeOK /\ PoolIsSound
<1>1. Money(wallet, xBalances, totalSupply, stkShares, claimed)
  BY DEF PoolInv
<1>2. StakingTypeOK
      BY <1>1, MoneyIsTyped DEF StakingTypeOK, Settled, Committed, Terms, Holders, XHolders, PoolInv
<1>4. BooksBalance
      BY <1>1, SumOfIsSum DEF Money, BooksBalance, PoolInv, Committed, SharesIn, SharesOf
<1> QED
  BY <1>1, <1>2, <1>4 DEF PoolIsSound, Money, SharesAreBacked

\* What the steps need of the numbers.
LEMMA Numbers ==
    ASSUME PoolInv
    PROVE  /\ wallet \in [Holders -> Nat] /\ xBalances \in [XHolders -> Nat]
           /\ stkShares \in [Users -> Nat] /\ claimed \in [Users -> Nat]
           /\ totalSupply \in Nat /\ wallet[pool] \in Nat /\ totalSupply <= wallet[pool]
           /\ SumFunction(xBalances) = totalSupply
           /\ \A h \in XHolders : xBalances[h] <= totalSupply
           /\ SumFunction(wallet) \in Nat /\ SumFunction(wallet) < MaxSupply
           /\ SumFunction(stkShares) \in Nat /\ SumFunction(stkShares) <= xBalances[stk]
           /\ SumFunction(claimed) \in Nat /\ SumFunction(claimed) <= SumFunction(wallet)
<1>2. /\ totalSupply \in Supplies /\ \A h \in XHolders : xBalances[h] <= totalSupply
  BY MoneyIsTyped DEF PoolInv
<1> QED
  BY <1>2, HoldersAreFinite, SumIsNatural DEF Money, Supplies, PoolInv

\* What is minted for the pool is within the supply.
LEMMA Minted ==
    ASSUME PoolInv, NEW m \in Supplies, MintOrSkip(m)
    PROVE  /\ m \in Nat /\ SumFunction(wallet) + m < MaxSupply
           /\ lastMint' \in [Schedules -> 0..MaxTime]
<1> QED
  BY Numbers, SumOfIsSum DEF Supplies, MintOrSkip, MintVesting, Mintable, PoolInv, Settled, Terms

-----------------------------------------------------------------------------
(* Steps of the pool *)

\* What a transaction has to show.
Keeps == PoolInv' /\ KeepsShareValue

\* A deposit: an amount comes in after a mint, and somebody gets its shares.
LEMMA Bought ==
    ASSUME PoolInv, NEW m \in Nat, NEW a \in Nat, NEW r \in XHolders,
           NEW n, n = NewShares(a, wallet[pool] + m),
           MintShares(r, n),
           wallet' \in [Holders -> Nat], wallet'[pool] = wallet[pool] + m + a,
           SumFunction(wallet') < MaxSupply,
           stkShares' \in [Users -> Nat], SumFunction(stkShares') <= xBalances'[stk],
           claimed' \in [Users -> Nat], SumFunction(claimed') <= SumFunction(wallet')
    PROVE  /\ Money(wallet, xBalances, totalSupply, stkShares, claimed)'
           /\ KeepsShareValue
<1>1. /\ xBalances \in [XHolders -> Nat] /\ totalSupply \in Nat /\ wallet[pool] \in Nat
      /\ totalSupply <= wallet[pool] /\ SumFunction(xBalances) = totalSupply
  BY Numbers
<1>2. /\ n \in Nat /\ totalSupply + n <= wallet[pool] + m + a
      /\ totalSupply > 0 =>
             (wallet[pool] + m + a) * totalSupply >= wallet[pool] * (totalSupply + n)
  BY <1>1, Buying DEF NewShares
<1>4. /\ xBalances' \in [XHolders -> Nat] /\ xBalances'[r] = xBalances[r] + n
      /\ \A h \in XHolders \ {r} : xBalances'[h] = xBalances[h]
  BY <1>1, <1>2 DEF MintShares
<1>5. SumFunction(xBalances') = SumFunction(xBalances) - xBalances[r] + xBalances'[r]
  BY <1>1, <1>4, OneChanges, HoldersAreFinite
<1> QED
  BY <1>1, <1>2, <1>4, <1>5 DEF Money, KeepsShareValue, MintShares

\* A payout: shares are burnt for no more than they are worth after a mint.
LEMMA Sold ==
    ASSUME PoolInv, NEW m \in Nat, SumFunction(wallet) + m < MaxSupply,
           NEW u \in Users, NEW s \in Nat, s > 0, Burn(u, s),
           NEW p \in Nat, p <= Worth(s, wallet[pool] + m),
           wallet' = [wallet EXCEPT ![pool] = @ + m - p, ![u] = @ + p],
           UNCHANGED <<stkShares, claimed>>
    PROVE  /\ Money(wallet, xBalances, totalSupply, stkShares, claimed)'
           /\ KeepsShareValue
<1>1. /\ xBalances \in [XHolders -> Nat] /\ totalSupply \in Nat /\ wallet[pool] \in Nat
      /\ totalSupply <= wallet[pool] /\ SumFunction(xBalances) = totalSupply
      /\ wallet \in [Holders -> Nat] /\ SumFunction(wallet) \in Nat
      /\ \A h \in XHolders : xBalances[h] <= totalSupply
  BY Numbers
<1>2. /\ u \in XHolders /\ u \in Holders /\ pool \in Holders /\ u # pool /\ u # stk
      /\ stk \in XHolders /\ IsFiniteSet(Holders) /\ IsFiniteSet(XHolders)
  BY HoldersAreFinite
<1>3. /\ xBalances[u] \in Nat /\ wallet[u] \in Nat /\ s <= xBalances[u]
      /\ xBalances' = [xBalances EXCEPT ![u] = @ - s] /\ totalSupply' = totalSupply - s
  BY <1>1, <1>2 DEF Burn
<1>6. /\ p <= wallet[pool] + m /\ totalSupply - s <= wallet[pool] + m - p
      /\ (wallet[pool] + m - p) * totalSupply >= wallet[pool] * (totalSupply - s)
  BY <1>1, <1>2, <1>3, Selling DEF Worth
<1>7. /\ xBalances' \in [XHolders -> Nat] /\ xBalances'[u] = xBalances[u] - s
      /\ \A h \in XHolders \ {u} : xBalances'[h] = xBalances[h]
  BY <1>1, <1>2, <1>3
<1>8. SumFunction(xBalances') = SumFunction(xBalances) - xBalances[u] + xBalances'[u]
  BY <1>1, <1>2, <1>7, OneChanges
<1>9. SumFunction(xBalances') = totalSupply'
  BY <1>1, <1>3, <1>7, <1>8
<1>10. /\ wallet' \in [Holders -> Nat] /\ wallet'[pool] = wallet[pool] + m - p
       /\ wallet'[u] = wallet[u] + p
       /\ \A h \in Holders \ {pool, u} : wallet'[h] = wallet[h]
  BY <1>1, <1>2, <1>3, <1>6
<1>11. SumFunction(wallet') =
           SumFunction(wallet) - wallet[pool] - wallet[u] + wallet'[pool] + wallet'[u]
  BY ONLY <1>1, <1>2, <1>10, TwoChange
<1>15. SumFunction(claimed') <= SumFunction(wallet')
  BY <1>1, <1>3, <1>10, <1>11, Numbers
<1>16. totalSupply' <= wallet'[pool]
  BY <1>3, <1>6, <1>10
<1>17. KeepsShareValue
  BY <1>3, <1>6, <1>10 DEF KeepsShareValue
<1>18. stkShares' \in [Users -> Nat] /\ SumFunction(stkShares') <= xBalances'[stk]
       /\ claimed' \in [Users -> Nat]
  BY <1>2, <1>7, Numbers
<1>19. SumFunction(wallet') < MaxSupply
  BY <1>1, <1>3, <1>10, <1>11
<1> QED
  BY <1>7, <1>9, <1>10, <1>15, <1>16, <1>17, <1>18, <1>19 DEF Money

\* Tokens come to the pool, or move outside of it, and no shares are made.
LEMMA OnlyTokens ==
    ASSUME PoolInv, UNCHANGED <<xBalances, totalSupply, stkShares, claimed>>,
           wallet' \in [Holders -> Nat], SumFunction(wallet') < MaxSupply,
           SumFunction(wallet) <= SumFunction(wallet'), wallet[pool] <= wallet'[pool]
    PROVE  /\ Money(wallet, xBalances, totalSupply, stkShares, claimed)'
           /\ KeepsShareValue
<1> QED
  BY Numbers, HoldersAreFinite, SumIsNatural, Products DEF Money, KeepsShareValue

\* Shares move, the tokens do not.
LEMMA OnlyShares ==
    ASSUME PoolInv, UNCHANGED <<wallet, totalSupply, claimed>>,
           xBalances' \in [XHolders -> Nat], SumFunction(xBalances') = SumFunction(xBalances),
           stkShares' \in [Users -> Nat], SumFunction(stkShares') <= xBalances'[stk]
    PROVE  /\ Money(wallet, xBalances, totalSupply, stkShares, claimed)'
           /\ KeepsShareValue
<1> QED
  BY Products, Numbers DEF Money, KeepsShareValue, PoolInv

\* What the pool and the others hold after a deposit.
LEMMA Deposited ==
    ASSUME PoolInv, NEW m \in Nat, SumFunction(wallet) + m < MaxSupply,
           NEW u \in Users, NEW a \in Nat, a <= wallet[u],
           wallet' = [wallet EXCEPT ![u] = @ - a, ![pool] = @ + m + a]
    PROVE  /\ wallet' \in [Holders -> Nat] /\ wallet'[pool] = wallet[pool] + m + a
           /\ SumFunction(wallet') = SumFunction(wallet) + m
           /\ SumFunction(claimed) <= SumFunction(wallet')
<1>1. /\ wallet \in [Holders -> Nat] /\ SumFunction(wallet) \in Nat
      /\ SumFunction(claimed) \in Nat /\ SumFunction(claimed) <= SumFunction(wallet)
  BY Numbers
<1>2. u \in Holders /\ pool \in Holders /\ u # pool /\ IsFiniteSet(Holders)
  BY HoldersAreFinite
<1>4. /\ wallet' \in [Holders -> Nat] /\ wallet'[pool] = wallet[pool] + m + a
      /\ wallet'[u] = wallet[u] - a
      /\ \A h \in Holders \ {u, pool} : wallet'[h] = wallet[h]
  BY <1>1, <1>2
<1>5. SumFunction(wallet') =
          SumFunction(wallet) - wallet[u] - wallet[pool] + wallet'[u] + wallet'[pool]
  BY ONLY <1>1, <1>2, <1>4, TwoChange
<1> QED
  BY <1>1, <1>2, <1>4, <1>5

\* A mint for the pool.
LEMMA MintedToPool ==
    ASSUME PoolInv, NEW m \in Nat, SumFunction(wallet) + m < MaxSupply,
           wallet' = [wallet EXCEPT ![pool] = @ + m],
           UNCHANGED <<xBalances, totalSupply, stkShares, claimed>>
    PROVE  /\ Money(wallet, xBalances, totalSupply, stkShares, claimed)'
           /\ KeepsShareValue
<1>1. /\ wallet \in [Holders -> Nat] /\ SumFunction(wallet) \in Nat /\ wallet[pool] \in Nat
  BY Numbers
<1>2. pool \in Holders /\ IsFiniteSet(Holders)
  BY HoldersAreFinite
<1>3. /\ wallet' \in [Holders -> Nat] /\ wallet'[pool] = wallet[pool] + m
      /\ \A h \in Holders \ {pool} : wallet'[h] = wallet[h]
  BY <1>1, <1>2
<1>4. SumFunction(wallet') = SumFunction(wallet) - wallet[pool] + wallet'[pool]
  BY ONLY <1>1, <1>2, <1>3, OneChanges
<1> QED
  BY <1>1, <1>3, <1>4, OnlyTokens

\* An amount in the code is not zero.
LEMMA AmountsAreNatural ==
    \A n \in Amounts : n \in Nat /\ n > 0
BY StakingAssumption

\* Times and rates in the code are not negative, and no rate is above the whole.
LEMMA ConstantRanges ==
    /\ Whole \in Nat /\ Whole > 0 /\ \A d \in Delays : d \in Nat
    /\ \A r \in Rages : r \in Nat /\ r <= Whole
    /\ \A p \in Penalties : p \in Nat /\ p <= Whole
BY StakingAssumption

\* What no step of the stakers changes.
LEMMA StaysSettled ==
    ASSUME PoolInv, UNCHANGED <<now, terms, root, penalty>>,
           lastMint' \in [Schedules -> 0..MaxTime]
    PROVE  Settled'
BY DEF PoolInv, Settled

\* Nor the commitments, if it neither makes nor withdraws one.
LEMMA StaysCommitted ==
    ASSUME PoolInv, UNCHANGED <<commitments, lockedShares>>
    PROVE  Committed(commitments, lockedShares)'
BY DEF PoolInv, Committed, SharesIn

\* A deposit, after the vesting is minted.
LEMMA EnterKeeps ==
    ASSUME PoolInv, NEW u \in Users, NEW v \in Users, NEW a \in Amounts,
           Enter(u, v, a)
    PROVE  Keeps
<1>1. PICK m \in Supplies :
          /\ MintVesting(m)
          /\ wallet[u] >= a
          /\ MintShares(v, NewShares(a, wallet[pool] + m))
          /\ wallet' = [wallet EXCEPT ![u] = @ - a, ![pool] = @ + m + a]
          /\ UNCHANGED <<now, commitments, lockedShares, terms, stkShares, rewardVars>>
  BY DEF Enter
<1>2. /\ m \in Nat /\ SumFunction(wallet) + m < MaxSupply
      /\ lastMint' \in [Schedules -> 0..MaxTime]
  BY <1>1, Minted DEF MintOrSkip
<1>5. /\ wallet' \in [Holders -> Nat] /\ wallet'[pool] = wallet[pool] + m + a
      /\ SumFunction(wallet') = SumFunction(wallet) + m
      /\ SumFunction(claimed) <= SumFunction(wallet')
  BY <1>1, <1>2, Deposited, Numbers, HoldersAreFinite, AmountsAreNatural
<1>10. /\ Money(wallet, xBalances, totalSupply, stkShares, claimed)'
       /\ KeepsShareValue
       BY <1>1, <1>2, <1>5, Bought, Numbers, AmountsAreNatural, HoldersAreFinite DEF rewardVars, MintShares
<1> QED
  BY <1>1, <1>2, <1>10, StaysSettled, StaysCommitted DEF Keeps, PoolInv, rewardVars

\* A deposit of which the shares are wrapped at once.
LEMMA EnterWrappedKeeps ==
    ASSUME PoolInv, NEW u \in Users, NEW v \in Users, NEW a \in Amounts,
           EnterWrapped(u, v, a)
    PROVE  Keeps
<1>1. PICK m \in Supplies :
          LET given == NewShares(a, wallet[pool] + m) IN
          /\ MintVesting(m)
          /\ wallet[u] >= a
          /\ given > 0
          /\ MintShares(stk, given)
          /\ stkShares' = [stkShares EXCEPT ![v] = @ + given]
          /\ wallet' = [wallet EXCEPT ![u] = @ - a, ![pool] = @ + m + a]
          /\ UNCHANGED <<now, commitments, lockedShares, terms, rewardVars>>
  BY DEF EnterWrapped
<1> DEFINE n == NewShares(a, wallet[pool] + m)
<1>2. /\ m \in Nat /\ SumFunction(wallet) + m < MaxSupply
      /\ lastMint' \in [Schedules -> 0..MaxTime]
  BY <1>1, Minted DEF MintOrSkip
<1>3. a \in Nat /\ stk \in XHolders /\ v \in Users /\ IsFiniteSet(Users)
  BY AmountsAreNatural, HoldersAreFinite
<1>5. /\ wallet' \in [Holders -> Nat] /\ wallet'[pool] = wallet[pool] + m + a
      /\ SumFunction(wallet') = SumFunction(wallet) + m
      /\ SumFunction(claimed) <= SumFunction(wallet')
  BY <1>1, <1>2, <1>3, Deposited, Numbers, HoldersAreFinite
<1>7. /\ stkShares \in [Users -> Nat] /\ SumFunction(stkShares) <= xBalances[stk]
      /\ claimed \in [Users -> Nat] /\ xBalances \in [XHolders -> Nat]
      /\ totalSupply \in Nat /\ wallet[pool] \in Nat /\ totalSupply <= wallet[pool]
      /\ SumFunction(stkShares) \in Nat
  BY Numbers
<1>8. n \in Nat
  BY <1>2, <1>3, <1>7, Buying DEF NewShares
<1>9. MintShares(stk, n) /\ stkShares' = [stkShares EXCEPT ![v] = @ + n]
  BY <1>1
<1> HIDE DEF n
<1>10. /\ stkShares' \in [Users -> Nat] /\ stkShares'[v] = stkShares[v] + n
       /\ stkShares[v] \in Nat
       /\ \A w \in Users \ {v} : stkShares'[w] = stkShares[w]
  BY <1>7, <1>8, <1>9
<1>11. SumFunction(stkShares') = SumFunction(stkShares) - stkShares[v] + stkShares'[v]
  BY ONLY <1>3, <1>7, <1>10, OneChanges
<1>13. SumFunction(stkShares') <= xBalances'[stk]
  BY <1>3, <1>7, <1>8, <1>9, <1>10, <1>11 DEF MintShares
<1>14. SumFunction(wallet') < MaxSupply
  BY <1>2, <1>5
<1>15. /\ Money(wallet, xBalances, totalSupply, stkShares, claimed)'
       /\ KeepsShareValue
  <2>1. claimed' \in [Users -> Nat] /\ SumFunction(claimed') <= SumFunction(wallet')
    BY <1>1, <1>5, <1>7 DEF rewardVars
  <2>2. n = NewShares(a, wallet[pool] + m)
    BY DEF n
  <2> QED
    BY <1>2, <1>3, <1>5, <1>9, <1>10, <1>13, <1>14, <2>1, <2>2, Bought
<1> QED
  BY <1>1, <1>2, <1>15, StaysSettled, StaysCommitted DEF Keeps, PoolInv, rewardVars

\* Shares are locked until the commitment may be withdrawn.
LEMMA LeaveKeeps ==
    ASSUME PoolInv, NEW u \in Users, NEW s \in Amounts, Leave(u, s)
    PROVE  Keeps
<1> DEFINE C(m) == [owner |-> u, shares |-> s, unlocksAt |-> now + terms.unbond,
                    maxTokens |-> Worth(s, wallet[pool] + m)]
<1>1. PICK m \in Supplies :
          /\ MintOrSkip(m)
          /\ lockedShares[u] + s <= xBalances[u]
          /\ totalSupply > 0
          /\ ~\E d \in commitments : SameId(C(m), d)
          /\ commitments' = IF C(m).maxTokens > 0 THEN commitments \cup {C(m)} ELSE commitments
          /\ lockedShares' = [lockedShares EXCEPT ![u] = @ + s]
          /\ wallet' = [wallet EXCEPT ![pool] = @ + m]
          /\ UNCHANGED <<now, terms, tokenVars, rewardVars>>
  BY DEF Leave
<1> DEFINE c == C(m)
<1>2. /\ m \in Nat /\ SumFunction(wallet) + m < MaxSupply
      /\ lastMint' \in [Schedules -> 0..MaxTime]
  BY <1>1, Minted
<1>3. s \in Nat /\ s > 0
  BY AmountsAreNatural
<1>5. /\ totalSupply \in Nat /\ wallet[pool] \in Nat /\ totalSupply <= wallet[pool]
      /\ xBalances[u] \in Nat /\ xBalances[u] <= totalSupply
      /\ lockedShares[u] \in Nat /\ lockedShares \in [Users -> Supplies]
      BY Numbers, HoldersAreFinite DEF Supplies, PoolInv, Committed
<1>7. wallet[pool] + m < MaxSupply /\ MaxSupply \in Nat
      BY <1>2, <1>5, HoldersAreFinite, Numbers, SumBounds
<1>8. c \in Commitment
  <2>2. now + terms.unbond \in Nat
        BY ConstantRanges DEF PoolInv, Settled, Terms
  <2> QED
    BY <1>1, <1>2, <1>3, <1>5, <1>7, <2>2, WorthOfShares DEF Commitment, Supplies, Worth
<1>9. c \notin commitments
  BY <1>1 DEF SameId
<1>10. commitments' = commitments \cup {c}
  BY <1>1, <1>2, <1>3, <1>5, WorthOfShares DEF Worth
<1>11. lockedShares' = [lockedShares EXCEPT ![c.owner] = @ + c.shares]
  BY <1>1
<1>12. lockedShares[c.owner] + c.shares \in Supplies
       BY <1>1, <1>2, <1>3, <1>5, <1>7 DEF Supplies
<1>13. Committed(commitments, lockedShares)'
  <2> HIDE DEF c
  <2> QED
    BY <1>8, <1>9, <1>10, <1>11, <1>12, CommitmentComes DEF PoolInv
<1> QED
  BY <1>1, <1>2, <1>13, MintedToPool, StaysSettled DEF Keeps, PoolInv, tokenVars, rewardVars

\* A commitment is paid with what its shares are worth, at most what it was promised.
LEMMA WithdrawKeeps ==
    ASSUME PoolInv, NEW c \in commitments, Withdraw(c)
    PROVE  Keeps
<1>1. PICK m \in Supplies :
          /\ MintOrSkip(m)
          /\ now > c.unlocksAt
          /\ lockedShares[c.owner] >= c.shares
          /\ Burn(c.owner, c.shares)
          /\ commitments' = commitments \ {c}
          /\ lockedShares' = [lockedShares EXCEPT ![c.owner] = @ - c.shares]
          /\ LET paid == Received(c, wallet[pool] + m) IN
             wallet' = [wallet EXCEPT ![pool] = @ + m - paid, ![c.owner] = @ + paid]
          /\ UNCHANGED <<now, terms, stkShares, rewardVars>>
  BY DEF Withdraw, Forget, Unlocked
<1> DEFINE w == Worth(c.shares, wallet[pool] + m)
           p == Received(c, wallet[pool] + m)
<1>2. /\ m \in Nat /\ SumFunction(wallet) + m < MaxSupply
      /\ lastMint' \in [Schedules -> 0..MaxTime]
  BY <1>1, Minted
<1>3. c.owner \in Users /\ c.shares \in Nat /\ c.shares > 0 /\ c.maxTokens \in Nat
      BY AmountsAreNatural DEF Commitment, Supplies, PoolInv, Committed
<1>4. w \in Nat
      BY <1>1, <1>2, <1>3, WorthOfShares, Numbers, HoldersAreFinite DEF Worth, Burn
<1>5. p \in Nat /\ p <= w
  <2> HIDE DEF w
  <2> QED
    BY <1>3, <1>4 DEF Received, w, Min
<1>6. wallet' = [wallet EXCEPT ![pool] = @ + m - p, ![c.owner] = @ + p]
  BY <1>1
<1>7. /\ Money(wallet, xBalances, totalSupply, stkShares, claimed)'
      /\ KeepsShareValue
  <2> HIDE DEF p
  <2> QED
    BY <1>1, <1>2, <1>3, <1>5, <1>6, Sold DEF rewardVars
<1> QED
  BY <1>1, <1>2, <1>7, StaysSettled, CommitmentGoes DEF Keeps, PoolInv, rewardVars

\* Shares are paid at once, for a part of their worth.
LEMMA RageLeaveKeeps ==
    ASSUME PoolInv, NEW u \in Users, NEW s \in Amounts, RageLeave(u, s)
    PROVE  Keeps
<1>1. PICK m \in Supplies :
          /\ MintOrSkip(m)
          /\ totalSupply > 0
          /\ Burn(u, s)
          /\ LET paid == (Worth(s, wallet[pool] + m) * terms.rage) \div Whole IN
             wallet' = [wallet EXCEPT ![pool] = @ + m - paid, ![u] = @ + paid]
          /\ UNCHANGED <<now, commitments, lockedShares, terms, stkShares, rewardVars>>
  BY DEF RageLeave
<1> DEFINE w == Worth(s, wallet[pool] + m)
           p == (w * terms.rage) \div Whole
<1>2. /\ m \in Nat /\ SumFunction(wallet) + m < MaxSupply
      /\ lastMint' \in [Schedules -> 0..MaxTime]
  BY <1>1, Minted
<1>4. w \in Nat
      BY <1>1, <1>2, WorthOfShares, AmountsAreNatural, Numbers DEF Worth
<1>5. p \in Nat /\ p <= w
  <2>1. terms.rage \in Nat /\ terms.rage <= Whole /\ Whole \in Nat /\ Whole > 0
    <3>1. terms.rage \in Rages
      BY DEF PoolInv, Settled, Terms
    <3> QED
      BY ONLY <3>1, ConstantRanges
  <2> HIDE DEF w
  <2> QED
    BY <1>4, <2>1, WorthOfShares
<1>6. wallet' = [wallet EXCEPT ![pool] = @ + m - p, ![u] = @ + p]
  BY <1>1
<1>7. /\ Money(wallet, xBalances, totalSupply, stkShares, claimed)'
      /\ KeepsShareValue
  <2> HIDE DEF p
  <2> QED
    BY <1>1, <1>2, <1>5, <1>6, Sold, AmountsAreNatural DEF rewardVars
<1> QED
  BY <1>1, <1>2, <1>7, StaysSettled, StaysCommitted DEF Keeps, PoolInv, rewardVars

\* Shares are moved, locked or not.
LEMMA TransferSharesKeeps ==
    ASSUME PoolInv, NEW u \in Users, NEW v \in XHolders, NEW s \in Amounts,
           TransferShares(u, v, s)
    PROVE  Keeps
<1>1. /\ xBalances \in [XHolders -> Nat] /\ stkShares \in [Users -> Nat]
      /\ SumFunction(stkShares) \in Nat /\ SumFunction(stkShares) <= xBalances[stk]
  BY Numbers
<1>2. /\ IsFiniteSet(XHolders) /\ u \in XHolders /\ stk \in XHolders \ {u} /\ s \in Nat
  BY AmountsAreNatural, HoldersAreFinite
<1>3. /\ s <= xBalances[u] /\ xBalances' = [xBalances EXCEPT ![u] = @ - s, ![v] = @ + s]
      /\ UNCHANGED <<now, wallet, totalSupply, commitments, lockedShares, terms, lastMint,
                     stkShares, rewardVars>>
      BY <1>1, <1>2 DEF TransferShares
<1>4. /\ xBalances' \in [XHolders -> Nat] /\ SumFunction(xBalances') = SumFunction(xBalances)
      /\ xBalances'[stk] >= xBalances[stk]
  <2>1. Shifts(XHolders, xBalances, xBalances', u, v, s)
    BY <1>1, <1>2, <1>3 DEF Shifts
  <2> QED
    BY ONLY <1>1, <1>2, <1>3, <2>1, v \in XHolders, Moved
<1> QED
  BY <1>1, <1>2, <1>3, <1>4, OnlyShares DEF Keeps, PoolInv, rewardVars, Settled, Committed, SharesIn

\* Shares are wrapped, unwrapped, or moved while they are wrapped.
LEMMA WrappingKeeps ==
    ASSUME PoolInv, NEW u \in Users, NEW v \in Users, NEW s \in Amounts,
           Wrap(u, s) \/ Unwrap(u, s) \/ TransferWrapped(u, v, s)
    PROVE  Keeps
<1>1. /\ xBalances \in [XHolders -> Nat] /\ stkShares \in [Users -> Nat]
      /\ SumFunction(stkShares) \in Nat /\ SumFunction(stkShares) <= xBalances[stk]
      /\ SumFunction(xBalances) = totalSupply
  BY Numbers
<1>2. /\ IsFiniteSet(XHolders) /\ u \in XHolders /\ stk \in XHolders /\ u # stk /\ s \in Nat
      /\ IsFiniteSet(Users) /\ u \in Users /\ v \in Users
  BY AmountsAreNatural, HoldersAreFinite
<1>3. xBalances[u] \in Nat /\ xBalances[stk] \in Nat /\ stkShares[u] \in Nat
  BY <1>1, <1>2
<1>4. StkUnchanged
  BY DEF Wrap, Unwrap, TransferWrapped
<1>5. /\ xBalances' \in [XHolders -> Nat] /\ SumFunction(xBalances') = SumFunction(xBalances)
      /\ stkShares' \in [Users -> Nat] /\ SumFunction(stkShares') <= xBalances'[stk]
  <2>1. CASE Wrap(u, s)
    <3>1. /\ s <= xBalances[u] /\ xBalances' = [xBalances EXCEPT ![u] = @ - s, ![stk] = @ + s]
          /\ stkShares' = [stkShares EXCEPT ![u] = @ + s]
      BY <1>2, <1>3, <2>1 DEF Wrap
    <3>2. /\ xBalances' \in [XHolders -> Nat] /\ SumFunction(xBalances') = SumFunction(xBalances)
          /\ xBalances'[stk] = xBalances[stk] + s
      <4>1. Shifts(XHolders, xBalances, xBalances', u, stk, s)
        BY <1>1, <1>2, <1>3, <3>1 DEF Shifts
      <4>2. xBalances \in [XHolders -> Nat] /\ s <= xBalances[u]
        BY <1>1, <3>1
      <4>3. /\ xBalances' \in [XHolders -> Nat]
            /\ SumFunction(xBalances') = SumFunction(xBalances)
            /\ u # stk => xBalances'[stk] = xBalances[stk] + s /\ xBalances'[u] = xBalances[u] - s
        BY ONLY <1>2, <4>1, <4>2, Moved
      <4> QED
        BY ONLY <1>2, <4>3
    <3>3. /\ stkShares' \in [Users -> Nat] /\ stkShares'[u] = stkShares[u] + s
          /\ \A w \in Users \ {u} : stkShares'[w] = stkShares[w]
      BY <1>1, <1>2, <1>3, <3>1
    <3>4. SumFunction(stkShares') = SumFunction(stkShares) - stkShares[u] + stkShares'[u]
      BY ONLY <1>1, <1>2, <3>3, OneChanges
    <3> QED
      BY <1>1, <1>2, <1>3, <3>2, <3>3, <3>4
  <2>2. CASE Unwrap(u, s)
    <3>1. /\ s <= xBalances[stk] /\ xBalances' = [xBalances EXCEPT ![stk] = @ - s, ![u] = @ + s]
          /\ s <= stkShares[u] /\ stkShares' = [stkShares EXCEPT ![u] = @ - s]
      BY <1>2, <1>3, <2>2 DEF Unwrap
    <3>2. /\ xBalances' \in [XHolders -> Nat] /\ SumFunction(xBalances') = SumFunction(xBalances)
          /\ xBalances'[stk] = xBalances[stk] - s
      <4>1. Shifts(XHolders, xBalances, xBalances', stk, u, s)
        BY <1>1, <1>2, <1>3, <3>1 DEF Shifts
      <4> QED
        BY ONLY <1>1, <1>2, <3>1, <4>1, Moved
    <3>3. /\ stkShares' \in [Users -> Nat] /\ stkShares'[u] = stkShares[u] - s
          /\ \A w \in Users \ {u} : stkShares'[w] = stkShares[w]
      BY <1>1, <1>2, <1>3, <3>1
    <3>4. SumFunction(stkShares') = SumFunction(stkShares) - stkShares[u] + stkShares'[u]
      BY ONLY <1>1, <1>2, <3>3, OneChanges
    <3> QED
      BY <1>1, <1>2, <1>3, <3>2, <3>3, <3>4
  <2>3. CASE TransferWrapped(u, v, s)
    <3>1. /\ xBalances' = xBalances /\ s <= stkShares[u]
          /\ stkShares' = [stkShares EXCEPT ![u] = @ - s, ![v] = @ + s]
      BY <1>2, <1>3, <2>3 DEF TransferWrapped
    <3>2. stkShares' \in [Users -> Nat] /\ SumFunction(stkShares') = SumFunction(stkShares)
      <4>1. Shifts(Users, stkShares, stkShares', u, v, s)
        BY <1>1, <1>2, <1>3, <3>1 DEF Shifts
      <4> QED
        BY ONLY <1>1, <1>2, <3>1, <4>1, Moved
    <3> QED
      BY <1>1, <3>1, <3>2
  <2> QED
    BY <2>1, <2>2, <2>3
<1> QED
  BY <1>4, <1>5, OnlyShares DEF Keeps, PoolInv, Settled, Committed, SharesIn, StkUnchanged, rewardVars

\* WALLET is paid to another user or given to the pool.
LEMMA PayKeeps ==
    ASSUME PoolInv, NEW u \in Users, NEW v \in Users \cup {pool},
           NEW n \in Amounts, Pay(u, v, n)
    PROVE  Keeps
<1>1. /\ wallet \in [Holders -> Nat] /\ SumFunction(wallet) \in Nat
      /\ SumFunction(wallet) < MaxSupply
  BY Numbers
<1>2. /\ IsFiniteSet(Holders) /\ u \in Holders /\ v \in Holders /\ pool \in Holders \ {u}
      /\ n \in Nat
  BY AmountsAreNatural, HoldersAreFinite
<1>3. /\ n <= wallet[u] /\ wallet' = [wallet EXCEPT ![u] = @ - n, ![v] = @ + n]
      /\ UNCHANGED <<now, commitments, lockedShares, terms, lastMint, tokenVars, rewardVars>>
      BY <1>1, <1>2 DEF Pay
<1>4. /\ wallet' \in [Holders -> Nat] /\ SumFunction(wallet') = SumFunction(wallet)
      /\ wallet'[pool] >= wallet[pool]
  <2>1. Shifts(Holders, wallet, wallet', u, v, n)
    BY <1>1, <1>2, <1>3 DEF Shifts
  <2> QED
    BY ONLY <1>1, <1>2, <1>3, <2>1, Moved
<1> QED
  BY <1>1, <1>2, <1>3, <1>4, OnlyTokens DEF Keeps, PoolInv, tokenVars, rewardVars, Settled, Committed,
     SharesIn

-----------------------------------------------------------------------------
(* Steps of the supply controller *)

\* The vesting of the pool is minted.
LEMMA MintForPoolKeeps ==
    ASSUME PoolInv, NEW s \in Schedules, MintForPool(s)
    PROVE  Keeps
<1> DEFINE m == MintableVesting(s)
<1>1. m # Unset /\ m # 0 /\ Mintable(m)
  BY DEF MintForPool
<1>2. m \in Nat
  <2>1. s.end \in Nat /\ s.rate \in Nat /\ now \in Nat /\ lastMint[s] \in Nat
    BY StakingAssumption DEF PoolInv, Settled
  <2>2. CASE lastMint[s] = 0
    BY <2>2 DEF MintableVesting
  <2>3. CASE lastMint[s] # 0 /\ now > s.end
        BY <1>1, <2>1, <2>3, Products DEF MintableVesting
  <2>4. CASE lastMint[s] # 0 /\ now <= s.end
        BY <1>1, <2>1, <2>4, Products DEF MintableVesting
  <2> QED
    BY <2>1, <2>2, <2>3, <2>4
<1>4. /\ wallet' = [wallet EXCEPT ![pool] = @ + m]
      /\ lastMint' = [lastMint EXCEPT ![s] = now]
      /\ UNCHANGED <<now, commitments, lockedShares, terms, tokenVars, rewardVars>>
  BY DEF MintForPool
<1> HIDE DEF m
<1>5. /\ Money(wallet, xBalances, totalSupply, stkShares, claimed)'
      /\ KeepsShareValue
  BY <1>1, <1>2, <1>4, MintedToPool, SumOfIsSum DEF tokenVars, rewardVars, Mintable
<1> QED
  BY <1>4, <1>5, StaysSettled, StaysCommitted DEF Keeps, PoolInv, rewardVars, Settled

\* What a claim brings is within the supply.
LEMMA Claimed ==
    ASSUME PoolInv, NEW u \in Users, Claims(u)
    PROVE  /\ ToClaim(u) \in Nat /\ SumFunction(wallet) + ToClaim(u) < MaxSupply
           /\ claimed' \in [Users -> Nat]
           /\ SumFunction(claimed') = SumFunction(claimed) + ToClaim(u)
<1>1. root \in [Users -> Nat] /\ claimed \in [Users -> Nat] /\ SumFunction(claimed) \in Nat
      BY Numbers, StakingAssumption DEF Claims, PoolInv, Settled
<1>5. /\ claimed' \in [Users -> Nat] /\ claimed'[u] = root[u]
      /\ \A v \in Users \ {u} : claimed'[v] = claimed[v]
  BY <1>1 DEF Claims
<1>6. SumFunction(claimed') = SumFunction(claimed) - claimed[u] + claimed'[u]
  BY ONLY <1>1, <1>5, u \in Users, OneChanges, HoldersAreFinite
<1> QED
  BY <1>1, <1>5, <1>6, SumOfIsSum DEF Claims, Mintable, ToClaim

\* A claim is minted to its user, the penalty to nobody.
LEMMA ClaimWithPenaltyKeeps ==
    ASSUME PoolInv, NEW u \in Users, ClaimWithPenalty(u)
    PROVE  Keeps
<1> DEFINE a == ToClaim(u)
           b == (a * penalty) \div Whole
<1>1. /\ Claims(u)
      /\ wallet' = [wallet EXCEPT ![u] = @ + a - b, ![nobody] = @ + b]
      /\ UNCHANGED <<lastMint, xBalances, totalSupply>>
  BY DEF ClaimWithPenalty
<1>2. /\ a \in Nat /\ SumFunction(wallet) + a < MaxSupply
      /\ claimed' \in [Users -> Nat] /\ SumFunction(claimed') = SumFunction(claimed) + a
  BY <1>1, Claimed
<1> HIDE DEF a
<1>3. b \in Nat /\ b <= a
      BY <1>2, WorthOfShares, StakingAssumption DEF PoolInv, Settled
<1> HIDE DEF b
<1>4. /\ wallet \in [Holders -> Nat] /\ SumFunction(wallet) \in Nat
      /\ xBalances \in [XHolders -> Nat] /\ totalSupply \in Nat
      /\ SumFunction(xBalances) = totalSupply
      /\ wallet[pool] \in Nat /\ totalSupply <= wallet[pool]
      /\ stkShares \in [Users -> Nat] /\ SumFunction(stkShares) <= xBalances[stk]
      /\ SumFunction(claimed) \in Nat /\ SumFunction(claimed) <= SumFunction(wallet)
  BY Numbers
<1>5. /\ u \in Holders /\ nobody \in Holders /\ u # nobody /\ u # pool /\ pool # nobody
      /\ pool \in Holders /\ IsFiniteSet(Holders)
  BY HoldersAreFinite
<1>7. /\ wallet' \in [Holders -> Nat] /\ wallet'[u] = wallet[u] + a - b
      /\ wallet'[nobody] = wallet[nobody] + b
      /\ \A h \in Holders \ {u, nobody} : wallet'[h] = wallet[h]
  BY <1>1, <1>2, <1>3, <1>4, <1>5
<1>8. SumFunction(wallet') =
          SumFunction(wallet) - wallet[u] - wallet[nobody] + wallet'[u] + wallet'[nobody]
  BY ONLY <1>4, <1>5, <1>7, TwoChange
<1>9. SumFunction(wallet') = SumFunction(wallet) + a /\ wallet'[pool] = wallet[pool]
  BY <1>2, <1>3, <1>4, <1>5, <1>7, <1>8
<1>12. Money(wallet, xBalances, totalSupply, stkShares, claimed)'
  BY <1>1, <1>2, <1>4, <1>7, <1>9 DEF Money, Claims
<1> QED
  BY <1>1, <1>4, <1>9, <1>12, Products DEF Keeps, PoolInv, Claims, Settled, Committed, SharesIn,
     KeepsShareValue

\* A claim is minted to the pool, and its user gets the shares.
LEMMA ClaimStakedKeeps ==
    ASSUME PoolInv, NEW u \in Users, ClaimStaked(u)
    PROVE  Keeps
<1> DEFINE a == ToClaim(u)
<1>2. PICK m \in Supplies :
          /\ MintVesting(m)
          /\ Mintable(m + a)
          /\ MintShares(u, NewShares(a, wallet[pool] + m))
          /\ wallet' = [wallet EXCEPT ![pool] = @ + m + a]
  BY DEF ClaimStaked
<1>3. /\ a \in Nat /\ claimed' \in [Users -> Nat]
      /\ SumFunction(claimed') = SumFunction(claimed) + a
  BY Claimed DEF ClaimStaked
<1>4. /\ m \in Nat /\ lastMint' \in [Schedules -> 0..MaxTime]
  BY <1>2, Minted DEF MintOrSkip
<1> HIDE DEF a
<1>6. /\ wallet \in [Holders -> Nat] /\ SumFunction(wallet) \in Nat /\ wallet[pool] \in Nat
      /\ xBalances \in [XHolders -> Nat]
      /\ stkShares \in [Users -> Nat] /\ SumFunction(stkShares) <= xBalances[stk]
      /\ SumFunction(claimed) \in Nat /\ SumFunction(claimed) <= SumFunction(wallet)
  BY Numbers
<1>7. /\ pool \in Holders /\ IsFiniteSet(Holders) /\ u \in XHolders /\ stk \in XHolders /\ u # stk
  BY HoldersAreFinite
<1>8. /\ wallet' \in [Holders -> Nat] /\ wallet'[pool] = wallet[pool] + m + a
      /\ \A h \in Holders \ {pool} : wallet'[h] = wallet[h]
  BY <1>2, <1>3, <1>4, <1>6, <1>7
<1>9. SumFunction(wallet') = SumFunction(wallet) - wallet[pool] + wallet'[pool]
  BY ONLY <1>6, <1>7, <1>8, OneChanges
<1>11. SumFunction(wallet') < MaxSupply /\ SumFunction(claimed') <= SumFunction(wallet')
  BY <1>2, <1>3, <1>4, <1>6, <1>8, <1>9, SumOfIsSum DEF Mintable
<1>15. /\ Money(wallet, xBalances, totalSupply, stkShares, claimed)'
       /\ KeepsShareValue
  BY <1>2, <1>3, <1>4, <1>6, <1>7, <1>8, <1>11, Bought DEF MintShares, Claims, ClaimStaked
<1> QED
  BY <1>4, <1>15, StaysSettled, StaysCommitted DEF Keeps, PoolInv, Claims, ClaimStaked

-----------------------------------------------------------------------------
(* Governance, time and the theorems *)

\* Nothing but the terms changes.
LEMMA GovernanceKeeps ==
    ASSUME PoolInv, GovernanceUnchanged, Settled'
    PROVE  Keeps
<1> QED
  BY Products, Numbers DEF Keeps, PoolInv, GovernanceUnchanged, tokenVars, Money, Committed, SharesIn,
     KeepsShareValue

\* Every operation of a staker.
LEMMA StakingKeeps == ASSUME PoolInv, Staking PROVE Keeps
<1>1. PICK u \in Users, v \in Users, n \in Amounts :
          \/ Enter(u, v, n) \/ EnterWrapped(u, v, n)
          \/ Leave(u, n) \/ RageLeave(u, n)
          \/ TransferShares(u, v, n) \/ TransferShares(u, stk, n)
          \/ Wrap(u, n) \/ Unwrap(u, n) \/ TransferWrapped(u, v, n)
          \/ Pay(u, v, n) \/ Pay(u, pool, n)
  BY DEF Staking
<1>2. CASE Enter(u, v, n) \/ EnterWrapped(u, v, n)
  BY <1>2, EnterKeeps, EnterWrappedKeeps
<1>3. CASE Leave(u, n) \/ RageLeave(u, n)
  BY <1>3, LeaveKeeps, RageLeaveKeeps
<1>4. CASE TransferShares(u, v, n) \/ TransferShares(u, stk, n)
  BY <1>4, TransferSharesKeeps, HoldersAreFinite
<1>5. CASE Wrap(u, n) \/ Unwrap(u, n) \/ TransferWrapped(u, v, n)
  BY <1>5, WrappingKeeps
<1>6. CASE Pay(u, v, n) \/ Pay(u, pool, n)
  BY <1>6, PayKeeps
<1> QED
  BY <1>1, <1>2, <1>3, <1>4, <1>5, <1>6

\* Every transaction, those of the governance included.
LEMMA TransactionKeeps == ASSUME PoolInv, Transaction PROVE Keeps
<1>1. CASE Staking
  BY <1>1, StakingKeeps
<1>2. ASSUME NEW c \in commitments, Withdraw(c) PROVE Keeps
  BY <1>2, WithdrawKeeps
<1>3. ASSUME NEW u \in Users, ClaimWithPenalty(u) \/ ClaimStaked(u) PROVE Keeps
  BY <1>3, ClaimWithPenaltyKeeps, ClaimStakedKeeps
<1>4. ASSUME NEW s \in Schedules, MintForPool(s) PROVE Keeps
  BY <1>4, MintForPoolKeeps
<1>5. ASSUME NEW s \in Schedules, UnsetVesting(s) PROVE Keeps
      BY <1>5, GovernanceKeeps, StakingAssumption DEF UnsetVesting, GovernanceUnchanged, PoolInv, Settled
<1>6. ASSUME NEW s \in Schedules, NEW start \in 1..MaxTime, SetVesting(s, start) PROVE Keeps
      BY <1>6, GovernanceKeeps, StakingAssumption DEF SetVesting, GovernanceUnchanged, PoolInv, Settled
<1>7. ASSUME NEW t \in Terms, SetTerms(t) PROVE Keeps
      BY <1>7, GovernanceKeeps DEF SetTerms, GovernanceUnchanged, PoolInv, Settled
<1>8. ASSUME NEW r \in Roots, SetRoot(r) PROVE Keeps
      BY <1>8, GovernanceKeeps DEF SetRoot, GovernanceUnchanged, PoolInv, Settled
<1>9. ASSUME NEW p \in Penalties, SetPenalty(p) PROVE Keeps
      BY <1>9, GovernanceKeeps DEF SetPenalty, GovernanceUnchanged, PoolInv, Settled
<1> QED
  BY <1>1, <1>2, <1>3, <1>4, <1>5, <1>6, <1>7, <1>8, <1>9 DEF Transaction, Terms

\* Time passes.
LEMMA TickKeeps == ASSUME PoolInv, Tick PROVE Keeps
<1>4. Settled'
  BY StakingAssumption DEF Tick, rewardVars, PoolInv, Settled
<1>5. KeepsShareValue
  BY Products, Numbers DEF KeepsShareValue, Tick, tokenVars
<1> QED
  BY <1>4, <1>5 DEF Keeps, PoolInv, Tick, tokenVars, rewardVars, Money, Committed, SharesIn

\* The invariant with the count of the calls.
Inv == PoolInv /\ calls \in 0..MaxCalls

\* Every step.
LEMMA PoolNext == ASSUME Inv, [StakingNext]_stakingVars PROVE Inv' /\ [KeepsShareValue]_stakingVars
<1>1. PoolInv /\ calls \in 0..MaxCalls /\ MaxCalls \in Nat
  BY StakingAssumption DEF Inv
<1>2. CASE calls < MaxCalls /\ calls' = calls + 1 /\ Transaction
  BY <1>1, <1>2, TransactionKeeps DEF Inv, Keeps
<1>3. CASE Tick
      BY <1>1, <1>3, TickKeeps DEF Inv, Keeps, Tick
<1>4. CASE UNCHANGED stakingVars
  BY <1>1, <1>4 DEF stakingVars, Inv, PoolInv, Settled, Money, Committed, SharesIn
<1> QED
  BY <1>2, <1>3, <1>4 DEF StakingNext

\* Nothing is staked at the start.
LEMMA PoolInit == ASSUME StakingInit PROVE Inv
<1>1. /\ IsFiniteSet(Users) /\ IsFiniteSet(Holders) /\ IsFiniteSet(XHolders) /\ MaxSupply \in Nat
      /\ pool \in Holders /\ stk \in XHolders
  BY HoldersAreFinite, Zenon
<1>2. wallet \in [Holders -> Nat] /\ wallet[pool] = 0
  <2>1. PICK f \in [Users -> Grants] :
            wallet = [h \in Users \cup {pool, nobody} |-> IF h \in Users THEN f[h] ELSE 0]
    BY DEF StakingInit
  <2> QED
    BY <2>1, StakingAssumption DEF Holders
<1>5. SumFunction(xBalances) = 0 /\ xBalances \in [XHolders -> Nat] /\ xBalances[stk] = 0
  BY <1>1, SumOfZeros DEF StakingInit, XHolders
<1>6. /\ SumFunction(stkShares) = 0 /\ stkShares \in [Users -> Nat]
      /\ SumFunction(claimed) = 0 /\ claimed \in [Users -> Nat]
  BY <1>1, SumOfZeros DEF StakingInit
<1>7. Money(wallet, xBalances, totalSupply, stkShares, claimed)
  BY <1>1, <1>2, <1>5, <1>6, SumOfIsSum, SumIsNatural DEF Money, StakingInit, XHolders
<1>8. Committed(commitments, lockedShares)
  <2>3. ASSUME NEW u \in Users PROVE SharesIn({}, u) = 0
    <3> DEFINE D == {d \in {} : d.owner = u}
               f == [c \in D |-> c.shares]
    <3>1. D = {} /\ f \in [D -> Int]
      OBVIOUS
    <3> HIDE DEF f, D
    <3> QED
      BY <3>1, SumType, FS_EmptySet DEF SharesIn, f, D
  <2> QED
    BY <1>1, <2>3, FS_EmptySet DEF Committed, Supplies, StakingInit
<1>9. penalty \in Penalties
  <2>1. Penalties \subseteq Nat /\ Penalties # {}
    BY StakingAssumption
  <2> QED
    BY <2>1, LeastNumber DEF StakingInit, Min
<1> QED
  BY <1>7, <1>8, <1>9, StakingAssumption DEF Inv, PoolInv, Settled, StakingInit, Terms

\* Every variable of the contracts keeps its type; in particular no balance and
\* no total outgrows the supply, and none is negative.
THEOREM PoolIsTyped == StakingSpec => []StakingTypeOK
<1>1. Inv => StakingTypeOK
  BY PoolInvIsTyped DEF Inv
<1>2. Inv /\ [StakingNext]_stakingVars => Inv'
  BY PoolNext
<1> QED
  BY <1>1, <1>2, PoolInit, PTL DEF StakingSpec

\* With any users, amounts, vestings, penalties and terms, a share is never worth
\* less than a token and the books agree: what every staker could take is there.
THEOREM PoolStaysSound == StakingSpec => []PoolIsSound
<1>1. Inv => PoolIsSound
  BY PoolInvIsTyped DEF Inv
<1>2. Inv /\ [StakingNext]_stakingVars => Inv'
  BY PoolNext
<1> QED
  BY <1>1, <1>2, PoolInit, PTL DEF StakingSpec

\* No operation takes from those who stay, with whatever rounding.
THEOREM SharesKeepTheirValue == StakingSpec => ShareValueNeverFalls
<1>1. Inv /\ [StakingNext]_stakingVars => Inv' /\ [KeepsShareValue]_stakingVars
  BY PoolNext
<1> QED
  BY <1>1, PoolInit, PTL DEF StakingSpec, ShareValueNeverFalls

-----------------------------------------------------------------------------
(* The account: the inductive invariant *)

\* A time lock ends LockTime after it was asked for, and a recovery by one
\* signature saw its end.
Waited(c, moment) ==
    \A r \in Recoveries :
        /\ c.whenReady[r] # 0 => c.asked[r] > 0 /\ c.whenReady[r] = c.asked[r] + LockTime
        /\ r \in c.recoveries /\ NeedsLock(r) => c.whenReady[r] # 0 /\ moment >= c.whenReady[r]

Sound(c, moment) == c \in Chain /\ Waited(c, moment)

\* Somebody is in control of the account, unless what the entry point or a recovery did took it away.
Controlled(c) == c.deployed => InControl(c) \/ c.waived

\* The outermost frame is a call of the account, from a chain under control.
Bottom ==
    IF frames = <<>> THEN Controlled(chain)
    ELSE frames[1].by # "caught" /\ Controlled(frames[1].saved)

Frame == [by: Addrs \cup {"caught"}, saved: Chain]

AccountInv ==
    /\ AccountTypeOK
    /\ Sound(chain, timestamp)
    /\ \A i \in 1..Len(frames) : Sound(frames[i].saved, timestamp)
    /\ Bottom

-----------------------------------------------------------------------------
(* Steps on frames *)

\* Entering a frame: what is saved is as sound, and as much under control, as the chain.
LEMMA EntryKeepsAccount ==
    ASSUME AccountInv,
           NEW a \in Addrs \cup {"caught"}, NEW before, NEW c, EnterFrame(a, before, c),
           Sound(before, timestamp), Sound(c, timestamp),
           frames = <<>> => a # "caught" /\ Controlled(before)
    PROVE  AccountInv'
<1>1. /\ frames \in Seq(Frame) /\ before \in Chain /\ c \in Chain
      /\ frames' = Append(frames, [by |-> a, saved |-> before]) /\ chain' = c
      /\ timestamp' = timestamp /\ dkimKey' = dkimKey /\ Len(frames) < MaxDepth
      /\ MaxDepth \in Nat
  BY AccountAssumption DEF EnterFrame, AccountInv, AccountTypeOK, Sound, Frame
<1>3. /\ frames' \in Seq(Frame) /\ Len(frames') = Len(frames) + 1
      /\ \A i \in 1..Len(frames) : frames'[i] = frames[i]
      /\ frames'[Len(frames) + 1] = [by |-> a, saved |-> before]
  BY <1>1 DEF Frame
<1>4. AccountTypeOK'
  BY <1>1, <1>3 DEF AccountInv, AccountTypeOK, Frame
<1>5. \A i \in 1..Len(frames') : Sound(frames'[i].saved, timestamp)
  <2> SUFFICES ASSUME NEW i \in 1..Len(frames') PROVE Sound(frames'[i].saved, timestamp)
    OBVIOUS
  <2>1. CASE i \in 1..Len(frames)
    BY <2>1, <1>3 DEF AccountInv
  <2>2. CASE i = Len(frames) + 1
    BY <2>2, <1>3 DEF AccountInv
  <2> QED
    BY <2>1, <2>2, <1>1, <1>3
<1>6. Bottom'
  <2>1. CASE frames = <<>>
    BY <2>1, <1>1, <1>3 DEF AccountInv, Bottom, Controlled
  <2>2. CASE frames # <<>>
        BY <1>1, <1>3, <2>2 DEF AccountInv, Bottom, Controlled
  <2> QED
    BY <2>1, <2>2
<1> QED
  BY <1>1, <1>4, <1>5, <1>6 DEF AccountInv, Sound, Waited

\* The frames without the last one are one less.
LEMMA FrontIsShorter ==
    ASSUME frames \in Seq(Frame), Len(frames) >= 1
    PROVE  Len(Front(frames)) = Len(frames) - 1
<1> DEFINE n == Len(frames)
<1>1. n \in Nat /\ n >= 1
  OBVIOUS
<1> HIDE DEF n
<1>3. (IF 1 <= n - 1 THEN n - 1 - 1 + 1 ELSE 0) = n - 1
  BY ONLY <1>1
<1> QED
  BY <1>3, SubSeqProperties DEF n, Front

\* Leaving a frame: what the account is left with has to be shown.
LEMMA ExitKeepsAccount ==
    ASSUME AccountInv, frames # <<>>, frames' = Front(frames),
           Sound(chain', timestamp),
           UNCHANGED <<timestamp, dkimKey>>,
           Len(frames) = 1 => Controlled(chain')
    PROVE  AccountInv'
<1>1. frames \in Seq(Frame) /\ Len(frames) >= 1 /\ Len(frames) <= MaxDepth /\ MaxDepth \in Nat
  BY AccountAssumption DEF AccountInv, AccountTypeOK, Frame
<1>2. /\ frames' \in Seq(Frame) /\ Len(frames') = Len(frames) - 1
      /\ \A i \in 1..Len(frames') : frames'[i] = frames[i]
      /\ Last(frames) = frames[Len(frames)]
  <2>5. Len(frames') = Len(frames) - 1
    BY <1>1, FrontIsShorter
  <2> QED
    BY <1>1, <2>5, SubSeqProperties DEF Last, Front
<1>4. AccountTypeOK'
  BY <1>1, <1>2 DEF AccountInv, AccountTypeOK, Frame, Sound
<1>6. Bottom'
  <2>1. CASE Len(frames) = 1
    BY <2>1, <1>1, <1>2 DEF Bottom, Controlled
  <2>2. CASE Len(frames) # 1
        BY <1>1, <1>2, <2>2 DEF AccountInv, Bottom, Controlled
  <2> QED
    BY <2>1, <2>2
<1> QED
  BY <1>1, <1>2, <1>4, <1>6 DEF AccountInv, Sound, Waited

\* A change of the chain between calls.
LEMMA ChangeKeeps ==
    ASSUME AccountInv, UNCHANGED <<frames, timestamp, dkimKey>>,
           Sound(chain', timestamp), frames = <<>> => Controlled(chain')
    PROVE  AccountInv'
<1> QED
  BY DEF AccountInv, Sound, Waited, AccountTypeOK, Bottom, Controlled

-----------------------------------------------------------------------------
(* Changes of the chain *)

\* The nonce is used up.
LEMMA SignedIsSound ==
    ASSUME NEW moment, NEW c, Sound(c, moment), c.nonce < MaxNonce
    PROVE  Sound(Signed(c), moment)
<1>1. c.nonce + 1 \in 0..MaxNonce
  BY AccountAssumption DEF Sound, Chain
<1> QED
  BY <1>1 DEF Sound, Signed, Chain, Waited

\* Deploying sets the privileges of an account that has none, and nothing else.
LEMMA DeployedIsSound ==
    ASSUME NEW moment, NEW c, Sound(c, moment)
    PROVE  Sound(Deployed(c), moment) /\ Deployed(c).nonce = c.nonce
<1>1. CASE c.deployed
  BY <1>1 DEF Deployed
<1>2. CASE ~c.deployed
  BY <1>2 DEF Sound, Waited, Deployed, Chain, Privs
<1> QED
  BY <1>1, <1>2

\* Setting a privilege.
LEMMA SettingIsSound ==
    ASSUME NEW moment, NEW c, Sound(c, moment), NEW a \in Addrs, NEW p \in Privs
    PROVE  Sound([c EXCEPT !.privileges[a] = p], moment)
BY DEF Sound, Waited, Chain

\* Accepting an operation, executing it and forgetting it.
LEMMA AcceptedIsSound ==
    ASSUME NEW moment, NEW c, Sound(c, moment), NEW n \in 0..MaxOperations
    PROVE  /\ Sound([c EXCEPT !.accepted = n], moment)
           /\ Controlled(c) => Controlled([c EXCEPT !.accepted = n])
BY DEF Sound, Waited, Chain, Controlled, InControl

\* What the outermost call leaves is under control or is said not to be: a key has kept its privilege.
LEMMA LeftIsSound ==
    ASSUME NEW moment, NEW c, Sound(c, moment), NEW by \in Addrs, by \in Keys => c.privileges[by] # "none"
    PROVE  Sound(LeftBy(by, c), moment) /\ Controlled(LeftBy(by, c))
<1> DEFINE w == by \in {Entry, Rec} /\ ~InControl(c)
           d == [c EXCEPT !.waived = w]
<1>1. w \in BOOLEAN
  BY DEF InControl
<1>2. LeftBy(by, c) = d
  BY DEF LeftBy
<1>3. by \in Keys => InControl(c)
  BY DEF InControl
<1>4. InControl(c) \/ w
  BY <1>3 DEF Addrs
<1> HIDE DEF w
<1>5. Sound(d, moment) /\ d.privileges = c.privileges /\ d.waived = w
  BY <1>1 DEF Sound, Waited, Chain
<1> QED
  BY <1>2, <1>4, <1>5 DEF Controlled, InControl

-----------------------------------------------------------------------------
(* Recovery *)

LEMMA StartTimelockKeeps ==
    ASSUME AccountInv, NEW r \in Recoveries, StartTimelock(r)
    PROVE  AccountInv'
<1> USE AccountAssumption
<1> DEFINE s == Signed(chain)
           d == [s EXCEPT !.whenReady[r] = ReadyAt(r), !.asked[r] = timestamp]
<1>1. /\ chain' = d /\ chain.nonce < MaxNonce /\ chain.deployed
      /\ NeedsLock(r) /\ chain.whenReady[r] = 0 /\ r \notin chain.recoveries
      /\ chain.privileges[Rec] = "recovery" /\ UNCHANGED <<frames, timestamp, dkimKey>>
  BY DEF StartTimelock, MayRecover, Privilege
<1>2. Sound(s, timestamp) /\ chain \in Chain
  BY <1>1, SignedIsSound DEF AccountInv, Sound
<1>3. s.recoveries = chain.recoveries /\ s.privileges = chain.privileges
  BY <1>2 DEF Signed, Chain
<1>4. /\ timestamp \in 1..MaxTimestamp
      /\ ReadyAt(r) = timestamp + LockTime /\ ReadyAt(r) \in 1..(MaxTimestamp + LockTime)
  BY DEF AccountInv, AccountTypeOK, ReadyAt
<1>5. s \in Chain
  BY <1>2 DEF Sound
<1> HIDE DEF s
<1>6. d \in Chain
  <2>1. [s.whenReady EXCEPT ![r] = ReadyAt(r)] \in [Recoveries -> 0..(MaxTimestamp + LockTime)]
    BY <1>4, <1>5 DEF Chain
  <2>2. [s.asked EXCEPT ![r] = timestamp] \in [Recoveries -> 0..MaxTimestamp]
    BY <1>4, <1>5 DEF Chain
  <2> QED
    BY <1>5, <2>1, <2>2 DEF Chain
<1>7. /\ d.recoveries = s.recoveries /\ d.privileges = s.privileges
      /\ d.whenReady = [s.whenReady EXCEPT ![r] = ReadyAt(r)]
      /\ d.asked = [s.asked EXCEPT ![r] = timestamp]
  BY <1>5 DEF Chain
<1>9. s.whenReady \in [Recoveries -> Nat] /\ s.asked \in [Recoveries -> Nat]
  <2>1. /\ s.whenReady \in [Recoveries -> 0..(MaxTimestamp + LockTime)]
        /\ s.asked \in [Recoveries -> 0..MaxTimestamp]
    BY ONLY <1>5 DEF Chain
  <2> QED
    BY ONLY <2>1
<1>11. Sound(d, timestamp)
  BY <1>1, <1>2, <1>3, <1>4, <1>6, <1>7, <1>9 DEF Sound, Waited
<1> QED
  BY <1>1, <1>3, <1>7, <1>11, ChangeKeeps DEF Controlled, InControl

\* A recovery, at once or after the time lock.
LEMMA RecoverKeeps ==
    ASSUME AccountInv, NEW r \in Recoveries, Recover(r)
    PROVE  AccountInv'
<1> USE AccountAssumption
<1> DEFINE s == Signed(chain)
           d == [s EXCEPT !.executed = IF NeedsLock(r) THEN @ \cup {r} ELSE @,
                          !.recoveries = @ \cup {r},
                          !.privileges[r.addr] = r.priv]
<1>1. /\ chain' = (IF frames = <<>> THEN LeftBy(Rec, d) ELSE d)
      /\ chain.nonce < MaxNonce /\ r \notin chain.recoveries
      /\ NeedsLock(r) => chain.whenReady[r] # 0 /\ timestamp >= chain.whenReady[r]
      /\ d.privileges[Rec] # "none" /\ UNCHANGED <<frames, timestamp, dkimKey>>
  BY DEF Recover, MayRecover, MayFinish, TimeHasCome
<1>2. Sound(s, timestamp) /\ chain \in Chain
  BY <1>1, SignedIsSound DEF AccountInv, Sound
<1>3. s.whenReady = chain.whenReady /\ s.recoveries = chain.recoveries
  BY <1>2 DEF Signed, Chain
<1>4. s \in Chain
  BY <1>2 DEF Sound
<1>6. r.addr \in Addrs /\ r.priv \in Privs
  BY DEF Recovery
<1>7. d.privileges[Rec] # "none"
  BY <1>1
<1> HIDE DEF s
<1>8. d.whenReady = s.whenReady /\ d.asked = s.asked /\ d.recoveries = s.recoveries \cup {r}
  BY <1>4 DEF Chain
<1>9. d \in Chain
  <2>1. s.executed \cup {r} \in SUBSET Recoveries /\ s.recoveries \cup {r} \in SUBSET Recoveries
    BY <1>4 DEF Chain
  <2>3. [s.privileges EXCEPT ![r.addr] = r.priv] \in [Addrs -> Privs]
    BY <1>4, <1>6 DEF Chain
  <2> QED
    BY <1>4, <2>1, <2>3 DEF Chain
<1>11. Waited(d, timestamp)
  BY <1>1, <1>2, <1>3, <1>4, <1>8 DEF Sound, Waited, Chain
<1>12. Sound(d, timestamp)
  BY <1>9, <1>11 DEF Sound
<1>13. Rec \in Addrs /\ (Rec \in Keys => d.privileges[Rec] # "none")
  BY <1>7 DEF Addrs
<1> HIDE DEF d
<1> QED
  BY <1>1, <1>12, <1>13, LeftIsSound, ChangeKeeps

-----------------------------------------------------------------------------
(* The invariant is inductive *)

LEMMA InvInit == ASSUME AccountInit PROVE AccountInv
<1> USE AccountAssumption
<1>2. Waited(chain, timestamp)
  BY DEF AccountInit, Waited
<1> QED
  BY <1>2 DEF AccountInv, Sound, Bottom, Controlled, AccountInit, Chain, Privs, AccountTypeOK

\* Every step.
LEMMA InvNext == ASSUME AccountInv, [AccountNext]_accountVars PROVE AccountInv'
<1> USE AccountAssumption
<1>0. Sound(chain, timestamp) /\ chain \in Chain /\ (frames = <<>> => Controlled(chain))
  BY DEF AccountInv, Sound, Bottom
<1>1. ASSUME NEW k \in Keys, Execute(k) PROVE AccountInv'
  BY <1>0, <1>1, SignedIsSound, EntryKeepsAccount DEF Execute, Addrs
<1>2. ASSUME NEW k \in Keys, DeployAndExecute(k) PROVE AccountInv'
  BY <1>0, <1>2, DeployedIsSound, SignedIsSound, EntryKeepsAccount DEF DeployAndExecute, Addrs
<1>3. ASSUME NEW k \in Keys, ExecuteBySender(k) PROVE AccountInv'
  BY <1>0, <1>3, EntryKeepsAccount DEF ExecuteBySender, Addrs
<1>13. ASSUME NEW k \in Keys, ValidateUserOp(k) PROVE AccountInv'
  <2>1. chain.accepted + 1 \in 0..MaxOperations
    BY <1>0, <1>13 DEF ValidateUserOp, Chain
  <2> QED
    BY <1>0, <1>13, <2>1, AcceptedIsSound, ChangeKeeps DEF ValidateUserOp
<1>14. ASSUME ExecuteUserOp PROVE AccountInv'
  <2> DEFINE used == [chain EXCEPT !.accepted = chain.accepted - 1]
  <2>1. chain.accepted - 1 \in 0..MaxOperations
    BY <1>0, <1>14 DEF ExecuteUserOp, Chain
  <2>2. Sound(used, timestamp) /\ (frames = <<>> => Controlled(used))
    BY <1>0, <2>1, AcceptedIsSound
  <2>3. EnterFrame(Entry, used, used) /\ Entry \in Addrs /\ Entry # "caught"
    BY <1>14 DEF ExecuteUserOp, Addrs
  <2> HIDE DEF used
  <2> QED
    BY <2>2, <2>3, EntryKeepsAccount
<1>4. ASSUME NEW s \in Settings, SetAddrPrivilege(s[1], s[2]) PROVE AccountInv'
  BY <1>0, <1>4, SettingIsSound, ChangeKeeps DEF SetAddrPrivilege
<1>5. ASSUME TryCatch PROVE AccountInv'
  BY <1>0, <1>5, EntryKeepsAccount DEF TryCatch
<1>6. ASSUME End PROVE AccountInv'
  <2>1. frames \in Seq(Frame) /\ frames # <<>> /\ Len(frames) >= 1
    BY <1>6 DEF AccountInv, AccountTypeOK, Frame, End
  <2>2. CASE Len(frames) = 1
    <3>1. Last(frames) = frames[1] /\ frames[1] \in Frame /\ frames' = <<>>
      BY <1>6, <2>1, <2>2 DEF Last, Front, End
    <3>2. /\ frames[1].by \in Addrs
          /\ frames[1].by \in Keys => chain.privileges[frames[1].by] # "none"
      BY <1>6, <2>1, <3>1 DEF End, MayEnd, Privilege, AccountInv, Bottom, Frame
    <3>3. chain' = LeftBy(frames[1].by, chain)
      BY <1>6, <3>1 DEF End
    <3> QED
      BY <1>0, <1>6, <3>2, <3>3, LeftIsSound, ExitKeepsAccount DEF End
  <2>3. CASE Len(frames) # 1
    <3>1. frames' # <<>>
      <4>1. Len(frames') = Len(frames) - 1 /\ Len(frames) \in Nat
        BY <1>6, <2>1, FrontIsShorter DEF End
      <4> QED
        BY <2>1, <2>3, <4>1
    <3> QED
      BY <1>0, <1>6, <2>3, <3>1, ExitKeepsAccount DEF End
  <2> QED
    BY <2>2, <2>3
<1>7. ASSUME Fail PROVE AccountInv'
  <2>1. Last(frames) = frames[Len(frames)] /\ Len(frames) \in 1..Len(frames)
    BY <1>7 DEF Fail, Last, AccountInv, AccountTypeOK
  <2>2. Sound(Last(frames).saved, timestamp) /\ (Len(frames) = 1 => Controlled(Last(frames).saved))
    BY <1>7, <2>1 DEF AccountInv, Bottom, Fail
  <2> QED
    BY <1>7, <2>2, ExitKeepsAccount DEF Fail
<1>8. ASSUME Deploy PROVE AccountInv'
  <2>1. frames = <<>> => Controlled(Deployed(chain))
    <3>1. CASE chain.deployed
      BY <1>0, <3>1 DEF Deployed
    <3>2. CASE ~chain.deployed
      <4> DEFINE first == [a \in Addrs |-> CASE a \in Owners -> "on" [] a = Rec -> "recovery" [] OTHER -> "none"]
      <4>3. Deployed(chain) = [chain EXCEPT !.deployed = TRUE, !.privileges = first]
        BY <3>2 DEF Deployed
      <4>4. first[Rec] \in {"on", "recovery"} /\ (Rec \in Owners \/ first[Rec] = "recovery")
        BY DEF Addrs
      <4> HIDE DEF first
      <4>5. Deployed(chain).privileges = first
        BY <1>0, <4>3 DEF Chain
      <4>1. Deployed(chain).privileges[Rec] \in {"on", "recovery"} /\ (Rec \in Owners \/ Deployed(chain).privileges[Rec] = "recovery")
        BY <4>4, <4>5
      <4>2. Rec \in Owners => Rec \in Keys
        OBVIOUS
      <4> QED
        BY <4>1, <4>2 DEF Controlled, InControl, Addrs
    <3> QED
      BY <3>1, <3>2
  <2> QED
    BY <1>0, <1>8, <2>1, DeployedIsSound, ChangeKeeps DEF Deploy
<1>9. ASSUME NEW r \in Recoveries, StartTimelock(r) \/ Recover(r) PROVE AccountInv'
  BY <1>9, StartTimelockKeeps, RecoverKeeps
<1>10. ASSUME AddDKIMKey \/ RemoveDKIMKey PROVE AccountInv'
       BY <1>10 DEF AccountInv, AccountTypeOK, Sound, Bottom, Controlled, Waited, AddDKIMKey, RemoveDKIMKey
<1>11. ASSUME AccountTick PROVE AccountInv'
  <2>1. /\ chain' = [chain EXCEPT !.accepted = 0] /\ frames = <<>> /\ frames' = frames /\ dkimKey' = dkimKey
        /\ timestamp' = timestamp + 1 /\ timestamp < MaxTimestamp
    BY <1>11 DEF AccountTick
  <2>2. Waited(chain, timestamp')
    <3>1. chain.whenReady \in [Recoveries -> Nat]
      BY <1>0 DEF Chain
    <3> QED
      BY <1>0, <2>1, <3>1 DEF Waited, AccountInv, AccountTypeOK, Sound
  <2>3. Sound(chain', timestamp') /\ Controlled(chain')
    <3>1. Sound(chain, timestamp')
      BY <1>0, <2>2 DEF Sound
    <3> QED
      BY <1>0, <2>1, <3>1, AcceptedIsSound
  <2> QED
    BY <2>1, <2>3 DEF AccountInv, AccountTypeOK, Sound, Bottom
<1>12. ASSUME UNCHANGED accountVars PROVE AccountInv'
  BY <1>12 DEF accountVars, AccountInv, AccountTypeOK, Sound, Bottom, Controlled, Waited
<1> QED
  BY <1>1, <1>2, <1>3, <1>4, <1>5, <1>6, <1>7, <1>8, <1>9, <1>10, <1>11, <1>12, <1>13, <1>14 DEF AccountNext

-----------------------------------------------------------------------------
(* Theorems *)

\* The chain, the saved chains and the DKIM key keep their types.
THEOREM AccountIsTyped == AccountSpec => []AccountTypeOK
<1>1. AccountInv => AccountTypeOK
  BY DEF AccountInv
<1> QED
  BY <1>1, InvInit, InvNext, PTL DEF AccountSpec

\* Whatever calls itself back, fails or is caught: an account that a transaction leaves has a key or
\* a recovery in control, unless its outermost call was a user operation or a recovery which took
\* that away, and nobody recovers with one signature before the time lock has passed.
THEOREM AccountIsSafe == AccountSpec => []AccountIsKept
<1>1. AccountInv => AccountIsKept
  <2> SUFFICES ASSUME AccountInv PROVE AccountIsKept
    OBVIOUS
  <2>3. RecoveryWaits
    <3> SUFFICES ASSUME NEW r \in chain.recoveries, r.mode # "Both"
                 PROVE  chain.asked[r] > 0 /\ timestamp >= chain.asked[r] + LockTime
      BY DEF RecoveryWaits
    <3> QED
      BY DEF AccountInv, Sound, Waited, NeedsLock, Chain
  <2> QED
    BY <2>3 DEF AccountIsKept, AccountInv, Bottom, Controlled, NotBricked
<1> QED
  BY <1>1, InvInit, InvNext, PTL DEF AccountSpec

-----------------------------------------------------------------------------
(* StoredKeys *)

\* What the last write in the queue leaves in the storage.
LastWritten == IF writes = <<>> THEN stored ELSE writes[Len(writes)]
\* Unless a write failed or the migration read what was about to change, that is what is in memory.
StoreInv ==
    /\ keystoreKeys \subseteq KeystoreKeys /\ stored \subseteq KeystoreKeys
    /\ read \subseteq KeystoreKeys
    /\ writes \in Seq(SUBSET KeystoreKeys)
    /\ migration \in {"no", "derives", "waits", "reloads", "done"}
    /\ ~failed /\ migration = "no" => LastWritten = keystoreKeys

\* At first nothing waits to be written.
LEMMA StoreInvInit == ASSUME Storage!QueueInit PROVE StoreInv
BY DEF Storage!QueueInit, StoreInv, LastWritten

\* Changes are queued as they are made.
LEMMA StoreInvNext == ASSUME StoreInv, [Storage!QueueNext]_keyStoreVars PROVE StoreInv'
<1> USE DEF StoreInv, LastWritten
<1>1. ASSUME NEW k \in KeystoreKeys, Storage!AddKey(k) \/ Storage!RemoveKey(k) PROVE StoreInv'
  <2>1. PICK keys \in SUBSET KeystoreKeys : Storage!Change(keys)
        BY <1>1 DEF Storage!AddKey, Storage!RemoveKey
  <2> QED  BY <2>1 DEF Storage!Change, Storage!Set
<1>2. ASSUME Storage!Write \/ Storage!WriteFails PROVE StoreInv'
      BY <1>2 DEF Storage!Write, Storage!WriteFails, Storage!Dequeue
<1>3. ASSUME Storage!MigrationReads \/ Storage!MigrationWrites \/ Storage!ReloadReads
             \/ Storage!UpdateKeystoreKeys
      PROVE StoreInv'
      BY <1>3 DEF Storage!MigrationReads, Storage!MigrationWrites, Storage!ReloadReads,
                  Storage!UpdateKeystoreKeys
<1>4. ASSUME UNCHANGED keyStoreVars PROVE StoreInv'
      BY <1>4 DEF keyStoreVars
<1> QED  BY <1>1, <1>2, <1>3, <1>4 DEF Storage!QueueNext

\* The queue is empty.
LEMMA StoreIsQuiet == StoreInv => Storage!QueueTypeOK /\ Storage!QuietKeysAreStored
BY DEF StoreInv, LastWritten, Storage!QueueTypeOK, Storage!QuietKeysAreStored

-----------------------------------------------------------------------------
(* StorageMigrations *)

Migrations == {"networkPreferences", "accountPreferences", "hdPath", "keyPreferences", "createdAt",
               "tokenPreferences", "cashback", "networkIds"}
\* The migrations pass in their order; the humanizer's never does.
Passes(s) ==
    /\ s["passed"] \subseteq Migrations
    /\ "accountPreferences" \in s["passed"] => "networkPreferences" \in s["passed"]
    /\ "hdPath" \in s["passed"] => "accountPreferences" \in s["passed"]
    /\ "keyPreferences" \in s["passed"] => "hdPath" \in s["passed"]
    /\ "createdAt" \in s["passed"] => "keyPreferences" \in s["passed"]
    /\ "tokenPreferences" \in s["passed"] => "createdAt" \in s["passed"]
    /\ "cashback" \in s["passed"] => "tokenPreferences" \in s["passed"]
    /\ "networkIds" \in s["passed"] => "cashback" \in s["passed"]
\* What each group of items is in while no migration that it goes through was cut short.
PrefsFit(s) ==
    IF "networkPreferences" \in s["passed"] THEN s["networkPreferences"] = None ELSE s["networks"] = None
HistoryFit(s) ==
    /\ s["networks"] \in {None, IF "networkIds" \in s["passed"] THEN "chains" ELSE "ids"}
    /\ s["history"] \in {None, IF "networkIds" \in s["passed"] THEN "chains" ELSE "ids"}
    /\ s["networks"] = None /\ s["networkPreferences"] = None => s["history"] = None
TokensFit(s) ==
    /\ IF "networkIds" \in s["passed"]
       THEN s["tokenPreferences"] \in {None, "chains"} /\ s["customTokens"] \in {None, "chains"}
       ELSE IF "tokenPreferences" \in s["passed"]
            THEN s["tokenPreferences"] \in {None, "ids"} /\ s["customTokens"] \in {None, "ids"}
            ELSE s["tokenPreferences"] \in {None, "legacy"} /\ s["customTokens"] = None
    /\ s["networks"] = None /\ s["networkPreferences"] = None =>
          s["tokenPreferences"] = None /\ s["customTokens"] = None
SeedsFit(s) == s["keystoreSeeds"] \in {None, IF "hdPath" \in s["passed"] THEN "new" ELSE "strings"}
LabelsFit(s) == "keyPreferences" \in s["passed"] => s["keyPreferences"] = None
KeysFit(s) ==
    IF "createdAt" \in s["passed"] THEN s["keystoreKeys"] \in {None, "new"}
    ELSE IF "keyPreferences" \in s["passed"] THEN s["keystoreKeys"] \in {None, "labelled"}
         ELSE s["keystoreKeys"] \in {None, "bare"} /\ (s["keyPreferences"] = None => s["keystoreKeys"] = None)
CashbackFit(s) == "cashback" \in s["passed"] => s["cashbackStatus"] \in {None, "new"}
AccountsFit(s) ==
    /\ "accountPreferences" \in s["passed"] => s["accountPreferences"] = None
    /\ s["accountPreferences"] = None => s["accounts"] \in {None, "new"}
Fit(s, gone) ==
    /\ "networkPreferences" \notin gone => PrefsFit(s)
    /\ "networkPreferences" \notin gone /\ "networkIds" \notin gone => HistoryFit(s)
    /\ "networkPreferences" \notin gone /\ "tokenPreferences" \notin gone /\ "networkIds" \notin gone => TokensFit(s)
    /\ "hdPath" \notin gone => SeedsFit(s)
    /\ "keyPreferences" \notin gone => LabelsFit(s)
    /\ "keyPreferences" \notin gone /\ "createdAt" \notin gone => KeysFit(s)
    /\ "cashback" \notin gone => CashbackFit(s)
    /\ "accountPreferences" \notin gone => AccountsFit(s)
\* The migrations before the k-th one have passed, and its own step is over for the humanizer.
Had(s, k) ==
    /\ k > 1 => "networkPreferences" \in s["passed"]
    /\ k > 2 => "accountPreferences" \in s["passed"]
    /\ k > 3 => "hdPath" \in s["passed"]
    /\ k > 4 => "keyPreferences" \in s["passed"]
    /\ k > 5 => "createdAt" \in s["passed"]
    /\ k > 6 => s["obsolete"] = None
    /\ k > 7 => "tokenPreferences" \in s["passed"]
    /\ k > 8 => "cashback" \in s["passed"]
    /\ k > 9 => "networkIds" \in s["passed"]
\* What is stored once the writes that have begun are done.
Written(s, new) == [i \in Storage!Items \cup {"passed"} |-> IF i \in DOMAIN new THEN new[i] ELSE s[i]]

StoreTypes ==
    /\ DOMAIN store = Storage!Items \cup {"passed"} /\ store = [i \in DOMAIN store |-> store[i]]
    /\ \A i \in Storage!Items : store[i] \in Storage!Formats
    /\ store["passed"] \subseteq Migrations
    /\ unwritten = [i \in DOMAIN unwritten |-> unwritten[i]] /\ DOMAIN unwritten \subseteq Storage!Items \cup {"passed"}
    /\ \A i \in DOMAIN unwritten : IF i = "passed" THEN unwritten[i] \subseteq Migrations
                                   ELSE unwritten[i] \in Storage!Formats
    /\ step \in 1..10 /\ aborted \in BOOLEAN
    /\ cut \subseteq {Storage!Order[k] : k \in 1..9}
\* The writes of a migration concern its own items, and its name.
Own ==
    DOMAIN unwritten # {} =>
        /\ step < 10
        /\ \A i \in Storage!Items \cap DOMAIN unwritten : Storage!Order[step] \in Storage!Through(i)
        /\ "passed" \in DOMAIN unwritten => unwritten["passed"] = store["passed"] \cup {Storage!Order[step]}
MigInv ==
    /\ StoreTypes
    /\ Own
    /\ Passes(store) /\ Passes(Written(store, unwritten))
    /\ Had(Written(store, unwritten), step)
    /\ DOMAIN unwritten # {} => Had(Written(store, unwritten), step + 1)
    /\ Fit(Written(store, unwritten), cut)

\* The formats are not None.
LEMMA NoneIsNoFormat ==
    /\ None # "ids" /\ None # "chains" /\ None # "bare" /\ None # "labelled" /\ None # "unlabelled"
    /\ None # "new" /\ None # "there" /\ None # "strings" /\ None # "legacy" /\ None # "broken"
BY ServicesAssumption

\* Each version of the extension stored what its migrations leave.
VersionMigrates(s) ==
    /\ DOMAIN s = Storage!Items \cup {"passed"} /\ s = [i \in DOMAIN s |-> s[i]]
    /\ s["passed"] \subseteq Migrations
    /\ \A i \in Storage!Items : s[i] \in Storage!Formats
    /\ Passes(s) /\ Fit(s, {})

\* Before the migrations there were ids of networks.
LEMMA OldestIs ==
    /\ DOMAIN Storage!Oldest = Storage!Items \cup {"passed"} /\ Storage!Oldest = [i \in DOMAIN Storage!Oldest |-> Storage!Oldest[i]]
    /\ Storage!Oldest["passed"] = {}
    /\ Storage!Oldest["networks"] = None
    /\ Storage!Oldest["networkPreferences"] = "ids"
    /\ Storage!Oldest["accounts"] = "bare"
    /\ Storage!Oldest["accountPreferences"] = "there"
    /\ Storage!Oldest["keystoreSeeds"] = "strings"
    /\ Storage!Oldest["keystoreKeys"] = "bare"
    /\ Storage!Oldest["keyPreferences"] = "there"
    /\ Storage!Oldest["tokenPreferences"] = "legacy"
    /\ Storage!Oldest["customTokens"] = None
    /\ Storage!Oldest["cashbackStatus"] = None
    /\ Storage!Oldest["history"] = "ids"
    /\ Storage!Oldest["obsolete"] = "there"
BY DEF Storage!Oldest, Storage!Items

\* It is one that the migrations leave.
LEMMA OldestMigrates == VersionMigrates(Storage!Oldest)
<1> DEFINE s == Storage!Oldest
<1>2. /\ s["passed"] = {}
      /\ s["networks"] = None
      /\ s["networkPreferences"] = "ids"
      /\ s["accounts"] = "bare"
      /\ s["accountPreferences"] = "there"
      /\ s["keystoreSeeds"] = "strings"
      /\ s["keystoreKeys"] = "bare"
      /\ s["keyPreferences"] = "there"
      /\ s["tokenPreferences"] = "legacy"
      /\ s["customTokens"] = None
      /\ s["cashbackStatus"] = None
      /\ s["history"] = "ids"
      /\ s["obsolete"] = "there"
      BY OldestIs
<1> HIDE DEF s
<1> QED  BY <1>2, OldestIs, NoneIsNoFormat DEF VersionMigrates, s, Migrations, Storage!Items,
            Storage!Formats, Passes, Fit, PrefsFit, HistoryFit, TokensFit,
            SeedsFit, LabelsFit, KeysFit, CashbackFit, AccountsFit

\* The first two have passed.
LEMMA V425Is ==
    /\ DOMAIN Storage!V425 = Storage!Items \cup {"passed"} /\ Storage!V425 = [i \in DOMAIN Storage!V425 |-> Storage!V425[i]]
    /\ Storage!V425["passed"] = {"networkPreferences", "accountPreferences"}
    /\ Storage!V425["networks"] = "ids"
    /\ Storage!V425["networkPreferences"] = None
    /\ Storage!V425["accounts"] = "new"
    /\ Storage!V425["accountPreferences"] = None
    /\ Storage!V425["keystoreSeeds"] = "strings"
    /\ Storage!V425["keystoreKeys"] = "bare"
    /\ Storage!V425["keyPreferences"] = "there"
    /\ Storage!V425["tokenPreferences"] = "legacy"
    /\ Storage!V425["customTokens"] = None
    /\ Storage!V425["cashbackStatus"] = None
    /\ Storage!V425["history"] = "ids"
    /\ Storage!V425["obsolete"] = "there"
BY OldestIs DEF Storage!V425, Storage!Items

\* It is one that the migrations leave.
LEMMA V425Migrates == VersionMigrates(Storage!V425)
<1> DEFINE s == Storage!V425
<1>2. /\ s["passed"] = {"networkPreferences", "accountPreferences"}
      /\ s["networks"] = "ids"
      /\ s["networkPreferences"] = None
      /\ s["accounts"] = "new"
      /\ s["accountPreferences"] = None
      /\ s["keystoreSeeds"] = "strings"
      /\ s["keystoreKeys"] = "bare"
      /\ s["keyPreferences"] = "there"
      /\ s["tokenPreferences"] = "legacy"
      /\ s["customTokens"] = None
      /\ s["cashbackStatus"] = None
      /\ s["history"] = "ids"
      /\ s["obsolete"] = "there"
      BY V425Is
<1> HIDE DEF s
<1> QED  BY <1>2, V425Is, NoneIsNoFormat DEF VersionMigrates, s, Migrations, Storage!Items, Storage!Formats,
            Passes, Fit, PrefsFit, HistoryFit, TokensFit,
            SeedsFit, LabelsFit, KeysFit, CashbackFit, AccountsFit

\* The phrases and the keys have been migrated as well.
LEMMA V450Is ==
    /\ DOMAIN Storage!V450 = Storage!Items \cup {"passed"} /\ Storage!V450 = [i \in DOMAIN Storage!V450 |-> Storage!V450[i]]
    /\ Storage!V450["passed"] = {"networkPreferences", "accountPreferences", "hdPath", "keyPreferences", "createdAt"}
    /\ Storage!V450["networks"] = "ids"
    /\ Storage!V450["networkPreferences"] = None
    /\ Storage!V450["accounts"] = "new"
    /\ Storage!V450["accountPreferences"] = None
    /\ Storage!V450["keystoreSeeds"] = "new"
    /\ Storage!V450["keystoreKeys"] = "new"
    /\ Storage!V450["keyPreferences"] = None
    /\ Storage!V450["tokenPreferences"] = "legacy"
    /\ Storage!V450["customTokens"] = None
    /\ Storage!V450["cashbackStatus"] = "legacy"
    /\ Storage!V450["history"] = "ids"
    /\ Storage!V450["obsolete"] = None
BY V425Is, ZenonT(60) DEF Storage!V450, Storage!Items

\* It is one that the migrations leave.
LEMMA V450Migrates == VersionMigrates(Storage!V450)
<1> DEFINE s == Storage!V450
<1>2. /\ s["passed"] = {"networkPreferences", "accountPreferences", "hdPath", "keyPreferences", "createdAt"}
      /\ s["networks"] = "ids"
      /\ s["networkPreferences"] = None
      /\ s["accounts"] = "new"
      /\ s["accountPreferences"] = None
      /\ s["keystoreSeeds"] = "new"
      /\ s["keystoreKeys"] = "new"
      /\ s["keyPreferences"] = None
      /\ s["tokenPreferences"] = "legacy"
      /\ s["customTokens"] = None
      /\ s["cashbackStatus"] = "legacy"
      /\ s["history"] = "ids"
      /\ s["obsolete"] = None
      BY V450Is
<1> HIDE DEF s
<1> QED  BY <1>2, V450Is, NoneIsNoFormat DEF VersionMigrates, s, Migrations, Storage!Items, Storage!Formats,
            Passes, Fit, PrefsFit, HistoryFit, TokensFit,
            SeedsFit, LabelsFit, KeysFit, CashbackFit, AccountsFit

\* Only the network ids are left.
LEMMA V453Is ==
    /\ DOMAIN Storage!V453 = Storage!Items \cup {"passed"} /\ Storage!V453 = [i \in DOMAIN Storage!V453 |-> Storage!V453[i]]
    /\ Storage!V453["passed"] = {"networkPreferences", "accountPreferences", "hdPath", "keyPreferences", "createdAt",
                         "tokenPreferences", "cashback"}
    /\ Storage!V453["networks"] = "ids"
    /\ Storage!V453["networkPreferences"] = None
    /\ Storage!V453["accounts"] = "new"
    /\ Storage!V453["accountPreferences"] = None
    /\ Storage!V453["keystoreSeeds"] = "new"
    /\ Storage!V453["keystoreKeys"] = "new"
    /\ Storage!V453["keyPreferences"] = None
    /\ Storage!V453["tokenPreferences"] = "ids"
    /\ Storage!V453["customTokens"] = "ids"
    /\ Storage!V453["cashbackStatus"] = "new"
    /\ Storage!V453["history"] = "ids"
    /\ Storage!V453["obsolete"] = None
BY V450Is DEF Storage!V453, Storage!Items

\* It is one that the migrations leave.
LEMMA V453Migrates == VersionMigrates(Storage!V453)
<1> DEFINE s == Storage!V453
<1>2. /\ s["passed"] = {"networkPreferences", "accountPreferences", "hdPath", "keyPreferences", "createdAt",
                         "tokenPreferences", "cashback"}
      /\ s["networks"] = "ids"
      /\ s["networkPreferences"] = None
      /\ s["accounts"] = "new"
      /\ s["accountPreferences"] = None
      /\ s["keystoreSeeds"] = "new"
      /\ s["keystoreKeys"] = "new"
      /\ s["keyPreferences"] = None
      /\ s["tokenPreferences"] = "ids"
      /\ s["customTokens"] = "ids"
      /\ s["cashbackStatus"] = "new"
      /\ s["history"] = "ids"
      /\ s["obsolete"] = None
      BY V453Is
<1> HIDE DEF s
<1> QED  BY <1>2, V453Is, NoneIsNoFormat DEF VersionMigrates, s, Migrations, Storage!Items, Storage!Formats,
            Passes, Fit, PrefsFit, HistoryFit, TokensFit,
            SeedsFit, LabelsFit, KeysFit, CashbackFit, AccountsFit

\* Nothing is stored yet.
LEMMA FreshIs ==
    /\ DOMAIN Storage!Fresh = Storage!Items \cup {"passed"} /\ Storage!Fresh = [i \in DOMAIN Storage!Fresh |-> Storage!Fresh[i]]
    /\ Storage!Fresh["passed"] = {}
    /\ Storage!Fresh["networks"] = None
    /\ Storage!Fresh["networkPreferences"] = None
    /\ Storage!Fresh["accounts"] = None
    /\ Storage!Fresh["accountPreferences"] = None
    /\ Storage!Fresh["keystoreSeeds"] = None
    /\ Storage!Fresh["keystoreKeys"] = None
    /\ Storage!Fresh["keyPreferences"] = None
    /\ Storage!Fresh["tokenPreferences"] = None
    /\ Storage!Fresh["customTokens"] = None
    /\ Storage!Fresh["cashbackStatus"] = None
    /\ Storage!Fresh["history"] = None
    /\ Storage!Fresh["obsolete"] = None
BY DEF Storage!Fresh, Storage!Items

\* It is one that the migrations leave.
LEMMA FreshMigrates == VersionMigrates(Storage!Fresh)
<1> DEFINE s == Storage!Fresh
<1>2. /\ s["passed"] = {}
      /\ s["networks"] = None
      /\ s["networkPreferences"] = None
      /\ s["accounts"] = None
      /\ s["accountPreferences"] = None
      /\ s["keystoreSeeds"] = None
      /\ s["keystoreKeys"] = None
      /\ s["keyPreferences"] = None
      /\ s["tokenPreferences"] = None
      /\ s["customTokens"] = None
      /\ s["cashbackStatus"] = None
      /\ s["history"] = None
      /\ s["obsolete"] = None
      BY FreshIs
<1> HIDE DEF s
<1> QED  BY <1>2, FreshIs, NoneIsNoFormat DEF VersionMigrates, s, Migrations, Storage!Items,
            Storage!Formats, Passes, Fit, PrefsFit, HistoryFit, TokensFit,
            SeedsFit, LabelsFit, KeysFit, CashbackFit, AccountsFit

\* The first start begins with the first migration.
LEMMA MigInvInit == ASSUME Storage!MigrationsInit PROVE MigInv
<1>1. store \in Storage!Versions /\ step = 1 /\ unwritten = Storage!Nothing /\ aborted = FALSE /\ cut = {}
      BY DEF Storage!MigrationsInit
<1>2. VersionMigrates(store)
      BY <1>1, OldestMigrates, V425Migrates, V450Migrates, V453Migrates, FreshMigrates DEF Storage!Versions
<1>3. DOMAIN unwritten = {} /\ unwritten = [i \in DOMAIN unwritten |-> unwritten[i]]
      BY <1>1 DEF Storage!Nothing
<1>4. Written(store, unwritten) = store
      BY <1>2, <1>3 DEF Written, VersionMigrates
<1>8. step \in 1..10 /\ cut \subseteq {Storage!Order[k] : k \in 1..9}
      BY <1>1
<1>9. aborted \in BOOLEAN
      BY <1>1
<1>5. StoreTypes
      BY <1>2, <1>3, <1>8, <1>9 DEF VersionMigrates, StoreTypes
<1>6. Own
      BY <1>3 DEF Own
<1>7. Had(store, 1)
      BY DEF Had
<1> QED  BY <1>1, <1>2, <1>3, <1>4, <1>5, <1>6, <1>7 DEF MigInv, VersionMigrates

\* A migration's name is written together with its items, the others stay.
LEMMA NamedWrites ==
    ASSUME NEW s, NEW m \in Migrations, NEW new, DOMAIN new \subseteq Storage!Items,
           \A i \in DOMAIN new : new[i] \in Storage!Formats,
           \A i \in Storage!Items : s[i] \in Storage!Formats, s["passed"] \subseteq Migrations
    PROVE  LET w == Storage!Named(m, s, new)
               t == Written(s, w)
           IN /\ w = [i \in DOMAIN w |-> w[i]] /\ DOMAIN w \subseteq Storage!Items \cup {"passed"}
              /\ \A i \in DOMAIN w : IF i = "passed" THEN w[i] \subseteq Migrations ELSE w[i] \in Storage!Formats
              /\ t["passed"] = s["passed"] \cup {m}
              /\ \A i \in Storage!Items : t[i] = IF i \in DOMAIN new THEN new[i] ELSE s[i]
<1> DEFINE w == Storage!Named(m, s, new)
<1>2. /\ DOMAIN w = {"passed"} \cup DOMAIN new /\ w = [i \in DOMAIN w |-> w[i]]
      /\ w["passed"] = s["passed"] \cup {m} /\ \A i \in DOMAIN new : w[i] = new[i]
      BY DEF Storage!Named, Storage!Items
<1> HIDE DEF w
<1> QED  BY <1>2 DEF w, Written, Storage!Items

\* A migration whose turn it is leaves what the next one starts from.
Leads(m, s, k, w, gone) ==
    /\ w = [i \in DOMAIN w |-> w[i]] /\ DOMAIN w \subseteq Storage!Items \cup {"passed"}
    /\ \A i \in DOMAIN w : IF i = "passed" THEN w[i] \subseteq Migrations ELSE w[i] \in Storage!Formats
    /\ \A i \in Storage!Items \cap DOMAIN w : m \in Storage!Through(i)
    /\ "passed" \in DOMAIN w => w["passed"] = s["passed"] \cup {m}
    /\ Passes(s) /\ Had(s, k) /\ m \notin s["passed"] =>
          /\ Passes(Written(s, w)) /\ Had(Written(s, w), k) /\ Had(Written(s, w), k + 1)
          /\ Fit(s, gone) => Fit(Written(s, w), IF Storage!ThrowsOn(m, s) THEN gone \cup {m} ELSE gone)

\* Networks migrates its items, and leaves the others alone.
LEMMA NetworksLead ==
    ASSUME NEW s, \A i \in Storage!Items : s[i] \in Storage!Formats, s["passed"] \subseteq Migrations, NEW gone
    PROVE  Leads("networkPreferences", s, 1, Storage!Networks("networkPreferences", s), gone)
<1> DEFINE new == IF s.networks = None /\ s.networkPreferences # None
                  THEN [networks |-> "ids", networkPreferences |-> None] ELSE Storage!Nothing
           w == Storage!Networks("networkPreferences", s)
           t == Written(s, w)
<1>1. w = Storage!Named("networkPreferences", s, new)
      BY DEF Storage!Networks
<1>2. DOMAIN new \subseteq Storage!Items /\ \A i \in DOMAIN new : new[i] \in Storage!Formats
      BY DEF Storage!Items, Storage!Formats, Storage!Nothing, Storage!Rekeyed
<1>3. \A i \in DOMAIN new : "networkPreferences" \in Storage!Through(i)
      BY DEF Storage!Through, Storage!Nothing
<1> HIDE DEF new
<1>4. /\ w = [i \in DOMAIN w |-> w[i]] /\ DOMAIN w \subseteq Storage!Items \cup {"passed"}
      /\ \A i \in DOMAIN w : IF i = "passed" THEN w[i] \subseteq Migrations ELSE w[i] \in Storage!Formats
      /\ t["passed"] = s["passed"] \cup {"networkPreferences"}
      /\ \A i \in Storage!Items : t[i] = IF i \in DOMAIN new THEN new[i] ELSE s[i]
      BY <1>1, <1>2, NamedWrites DEF Migrations
<1>5. /\ DOMAIN w = DOMAIN new \cup {"passed"} /\ w["passed"] = s["passed"] \cup {"networkPreferences"}
      BY <1>1 DEF Storage!Named
<1>6. /\ t["accounts"] = s["accounts"]
      /\ t["accountPreferences"] = s["accountPreferences"]
      /\ t["keystoreSeeds"] = s["keystoreSeeds"]
      /\ t["keystoreKeys"] = s["keystoreKeys"]
      /\ t["keyPreferences"] = s["keyPreferences"]
      /\ t["tokenPreferences"] = s["tokenPreferences"]
      /\ t["customTokens"] = s["customTokens"]
      /\ t["cashbackStatus"] = s["cashbackStatus"]
      /\ t["history"] = s["history"]
      /\ t["obsolete"] = s["obsolete"]
      BY <1>4, NoneIsNoFormat DEF new, Storage!Items, Storage!Nothing
<1>7. /\ t["networks"] = IF s["networks"] = None /\ s["networkPreferences"] # None THEN "ids" ELSE s["networks"]
      /\ t["networkPreferences"] = IF s["networks"] = None THEN None ELSE s["networkPreferences"]
      BY <1>4, NoneIsNoFormat DEF new, Storage!Items, Storage!Nothing
<1> HIDE DEF w, t
<1>8. ASSUME Passes(s), Had(s, 1), "networkPreferences" \notin s["passed"]
      PROVE  Passes(t) /\ Had(t, 1) /\ Had(t, 2)
      BY <1>4, <1>6, <1>7, <1>8 DEF Passes, Had, Migrations
<1>9. ASSUME Passes(s), Had(s, 1), "networkPreferences" \notin s["passed"], Fit(s, gone)
      PROVE  Fit(t, IF Storage!ThrowsOn("networkPreferences", s) THEN gone \cup {"networkPreferences"} ELSE gone)
  <2> DEFINE spoilt == IF Storage!ThrowsOn("networkPreferences", s) THEN gone \cup {"networkPreferences"} ELSE gone
  <2>1. spoilt = gone
        BY DEF Storage!ThrowsOn
  <2> HIDE DEF spoilt
  <2>2. "networkPreferences" \notin spoilt => PrefsFit(t)
        BY <1>4, <1>6, <1>7, <1>9, <2>1, NoneIsNoFormat DEF Fit, PrefsFit, Passes, Had
  <2>3. "networkPreferences" \notin spoilt /\ "networkIds" \notin spoilt => HistoryFit(t)
        BY <1>4, <1>6, <1>7, <1>9, <2>1, NoneIsNoFormat DEF Fit, HistoryFit, PrefsFit, Passes, Had
  <2>4. "networkPreferences" \notin spoilt /\ "tokenPreferences" \notin spoilt /\ "networkIds" \notin spoilt => TokensFit(t)
        BY <1>4, <1>6, <1>7, <1>9, <2>1, NoneIsNoFormat DEF Fit, TokensFit, PrefsFit, HistoryFit, Passes, Had
  <2>5. "hdPath" \notin spoilt => SeedsFit(t)
        BY <1>4, <1>6, <1>7, <1>9, <2>1 DEF Fit, SeedsFit
  <2>6. "keyPreferences" \notin spoilt => LabelsFit(t)
        BY <1>4, <1>6, <1>7, <1>9, <2>1 DEF Fit, LabelsFit
  <2>7. "keyPreferences" \notin spoilt /\ "createdAt" \notin spoilt => KeysFit(t)
        BY <1>4, <1>6, <1>7, <1>9, <2>1 DEF Fit, KeysFit
  <2>8. "cashback" \notin spoilt => CashbackFit(t)
        BY <1>4, <1>6, <1>7, <1>9, <2>1 DEF Fit, CashbackFit
  <2>9. "accountPreferences" \notin spoilt => AccountsFit(t)
        BY <1>4, <1>6, <1>7, <1>9, <2>1 DEF Fit, AccountsFit
  <2> QED  BY <2>2, <2>3, <2>4, <2>5, <2>6, <2>7, <2>8, <2>9 DEF Fit, spoilt
<1> QED  BY <1>3, <1>4, <1>5, <1>8, <1>9 DEF Leads, w, t, Storage!Items

\* Accounts migrates its items, and leaves the others alone.
LEMMA AccountsLead ==
    ASSUME NEW s, \A i \in Storage!Items : s[i] \in Storage!Formats, s["passed"] \subseteq Migrations, NEW gone
    PROVE  Leads("accountPreferences", s, 2, Storage!Accounts("accountPreferences", s), gone)
<1> DEFINE new == IF s.accountPreferences # None /\ s.accounts = None
                  THEN [accountPreferences |-> None] ELSE Storage!Nothing
           w == Storage!Accounts("accountPreferences", s)
           t == Written(s, w)
<1>1. w = Storage!Named("accountPreferences", s, new)
      BY DEF Storage!Accounts
<1>2. DOMAIN new \subseteq Storage!Items /\ \A i \in DOMAIN new : new[i] \in Storage!Formats
      BY DEF Storage!Items, Storage!Formats, Storage!Nothing, Storage!Rekeyed
<1>3. \A i \in DOMAIN new : "accountPreferences" \in Storage!Through(i)
      BY DEF Storage!Through, Storage!Nothing
<1> HIDE DEF new
<1>4. /\ w = [i \in DOMAIN w |-> w[i]] /\ DOMAIN w \subseteq Storage!Items \cup {"passed"}
      /\ \A i \in DOMAIN w : IF i = "passed" THEN w[i] \subseteq Migrations ELSE w[i] \in Storage!Formats
      /\ t["passed"] = s["passed"] \cup {"accountPreferences"}
      /\ \A i \in Storage!Items : t[i] = IF i \in DOMAIN new THEN new[i] ELSE s[i]
      BY <1>1, <1>2, NamedWrites DEF Migrations
<1>5. /\ DOMAIN w = DOMAIN new \cup {"passed"} /\ w["passed"] = s["passed"] \cup {"accountPreferences"}
      BY <1>1 DEF Storage!Named
<1>6. /\ t["networks"] = s["networks"]
      /\ t["networkPreferences"] = s["networkPreferences"]
      /\ t["accounts"] = s["accounts"]
      /\ t["keystoreSeeds"] = s["keystoreSeeds"]
      /\ t["keystoreKeys"] = s["keystoreKeys"]
      /\ t["keyPreferences"] = s["keyPreferences"]
      /\ t["tokenPreferences"] = s["tokenPreferences"]
      /\ t["customTokens"] = s["customTokens"]
      /\ t["cashbackStatus"] = s["cashbackStatus"]
      /\ t["history"] = s["history"]
      /\ t["obsolete"] = s["obsolete"]
      BY <1>4, NoneIsNoFormat DEF new, Storage!Items, Storage!Nothing
<1>7. /\ t["accountPreferences"] = IF s["accounts"] = None THEN None ELSE s["accountPreferences"]
      BY <1>4, NoneIsNoFormat DEF new, Storage!Items, Storage!Nothing
<1> HIDE DEF w, t
<1>8. ASSUME Passes(s), Had(s, 2), "accountPreferences" \notin s["passed"]
      PROVE  Passes(t) /\ Had(t, 2) /\ Had(t, 3)
      BY <1>4, <1>6, <1>7, <1>8 DEF Passes, Had, Migrations
<1>9. ASSUME Passes(s), Had(s, 2), "accountPreferences" \notin s["passed"], Fit(s, gone)
      PROVE  Fit(t, IF Storage!ThrowsOn("accountPreferences", s) THEN gone \cup {"accountPreferences"} ELSE gone)
  <2> DEFINE spoilt == IF Storage!ThrowsOn("accountPreferences", s) THEN gone \cup {"accountPreferences"} ELSE gone
  <2>1. /\ gone \subseteq spoilt
        /\ "accountPreferences" \notin spoilt => ~Storage!ThrowsOn("accountPreferences", s)
        OBVIOUS
  <2> HIDE DEF spoilt
  <2>2. "networkPreferences" \notin spoilt => PrefsFit(t)
        BY <1>4, <1>6, <1>7, <1>9, <2>1 DEF Fit, PrefsFit
  <2>3. "networkPreferences" \notin spoilt /\ "networkIds" \notin spoilt => HistoryFit(t)
        BY <1>4, <1>6, <1>7, <1>9, <2>1 DEF Fit, HistoryFit
  <2>4. "networkPreferences" \notin spoilt /\ "tokenPreferences" \notin spoilt /\ "networkIds" \notin spoilt => TokensFit(t)
        BY <1>4, <1>6, <1>7, <1>9, <2>1 DEF Fit, TokensFit
  <2>5. "hdPath" \notin spoilt => SeedsFit(t)
        BY <1>4, <1>6, <1>7, <1>9, <2>1 DEF Fit, SeedsFit
  <2>6. "keyPreferences" \notin spoilt => LabelsFit(t)
        BY <1>4, <1>6, <1>7, <1>9, <2>1 DEF Fit, LabelsFit
  <2>7. "keyPreferences" \notin spoilt /\ "createdAt" \notin spoilt => KeysFit(t)
        BY <1>4, <1>6, <1>7, <1>9, <2>1 DEF Fit, KeysFit
  <2>8. "cashback" \notin spoilt => CashbackFit(t)
        BY <1>4, <1>6, <1>7, <1>9, <2>1 DEF Fit, CashbackFit
  <2>9. "accountPreferences" \notin spoilt => AccountsFit(t)
        BY <1>4, <1>6, <1>7, <1>9, <2>1, NoneIsNoFormat DEF Fit, AccountsFit, Passes, Had, Storage!ThrowsOn
  <2> QED  BY <2>2, <2>3, <2>4, <2>5, <2>6, <2>7, <2>8, <2>9 DEF Fit, spoilt
<1> QED  BY <1>3, <1>4, <1>5, <1>8, <1>9 DEF Leads, w, t, Storage!Items

\* Seeds migrates its items, and leaves the others alone.
LEMMA SeedsLead ==
    ASSUME NEW s, \A i \in Storage!Items : s[i] \in Storage!Formats, s["passed"] \subseteq Migrations, NEW gone
    PROVE  Leads("hdPath", s, 3, Storage!Seeds("hdPath", s), gone)
<1> DEFINE new == IF s.keystoreSeeds = "strings" THEN [keystoreSeeds |-> "new"] ELSE Storage!Nothing
           w == Storage!Seeds("hdPath", s)
           t == Written(s, w)
<1>1. w = Storage!Named("hdPath", s, new)
      BY DEF Storage!Seeds
<1>2. DOMAIN new \subseteq Storage!Items /\ \A i \in DOMAIN new : new[i] \in Storage!Formats
      BY DEF Storage!Items, Storage!Formats, Storage!Nothing, Storage!Rekeyed
<1>3. \A i \in DOMAIN new : "hdPath" \in Storage!Through(i)
      BY DEF Storage!Through, Storage!Nothing
<1> HIDE DEF new
<1>4. /\ w = [i \in DOMAIN w |-> w[i]] /\ DOMAIN w \subseteq Storage!Items \cup {"passed"}
      /\ \A i \in DOMAIN w : IF i = "passed" THEN w[i] \subseteq Migrations ELSE w[i] \in Storage!Formats
      /\ t["passed"] = s["passed"] \cup {"hdPath"}
      /\ \A i \in Storage!Items : t[i] = IF i \in DOMAIN new THEN new[i] ELSE s[i]
      BY <1>1, <1>2, NamedWrites DEF Migrations
<1>5. /\ DOMAIN w = DOMAIN new \cup {"passed"} /\ w["passed"] = s["passed"] \cup {"hdPath"}
      BY <1>1 DEF Storage!Named
<1>6. /\ t["networks"] = s["networks"]
      /\ t["networkPreferences"] = s["networkPreferences"]
      /\ t["accounts"] = s["accounts"]
      /\ t["accountPreferences"] = s["accountPreferences"]
      /\ t["keystoreKeys"] = s["keystoreKeys"]
      /\ t["keyPreferences"] = s["keyPreferences"]
      /\ t["tokenPreferences"] = s["tokenPreferences"]
      /\ t["customTokens"] = s["customTokens"]
      /\ t["cashbackStatus"] = s["cashbackStatus"]
      /\ t["history"] = s["history"]
      /\ t["obsolete"] = s["obsolete"]
      BY <1>4, NoneIsNoFormat DEF new, Storage!Items, Storage!Nothing
<1>7. /\ t["keystoreSeeds"] = IF s["keystoreSeeds"] = "strings" THEN "new" ELSE s["keystoreSeeds"]
      BY <1>4, NoneIsNoFormat DEF new, Storage!Items, Storage!Nothing
<1> HIDE DEF w, t
<1>8. ASSUME Passes(s), Had(s, 3), "hdPath" \notin s["passed"]
      PROVE  Passes(t) /\ Had(t, 3) /\ Had(t, 4)
      BY <1>4, <1>6, <1>7, <1>8 DEF Passes, Had, Migrations
<1>9. ASSUME Passes(s), Had(s, 3), "hdPath" \notin s["passed"], Fit(s, gone)
      PROVE  Fit(t, IF Storage!ThrowsOn("hdPath", s) THEN gone \cup {"hdPath"} ELSE gone)
  <2> DEFINE spoilt == IF Storage!ThrowsOn("hdPath", s) THEN gone \cup {"hdPath"} ELSE gone
  <2>1. spoilt = gone
        BY DEF Storage!ThrowsOn
  <2> HIDE DEF spoilt
  <2>2. "networkPreferences" \notin spoilt => PrefsFit(t)
        BY <1>4, <1>6, <1>7, <1>9, <2>1 DEF Fit, PrefsFit
  <2>3. "networkPreferences" \notin spoilt /\ "networkIds" \notin spoilt => HistoryFit(t)
        BY <1>4, <1>6, <1>7, <1>9, <2>1 DEF Fit, HistoryFit
  <2>4. "networkPreferences" \notin spoilt /\ "tokenPreferences" \notin spoilt /\ "networkIds" \notin spoilt => TokensFit(t)
        BY <1>4, <1>6, <1>7, <1>9, <2>1 DEF Fit, TokensFit
  <2>5. "hdPath" \notin spoilt => SeedsFit(t)
        BY <1>4, <1>6, <1>7, <1>9, <2>1, NoneIsNoFormat DEF Fit, SeedsFit, Passes, Had
  <2>6. "keyPreferences" \notin spoilt => LabelsFit(t)
        BY <1>4, <1>6, <1>7, <1>9, <2>1 DEF Fit, LabelsFit
  <2>7. "keyPreferences" \notin spoilt /\ "createdAt" \notin spoilt => KeysFit(t)
        BY <1>4, <1>6, <1>7, <1>9, <2>1 DEF Fit, KeysFit
  <2>8. "cashback" \notin spoilt => CashbackFit(t)
        BY <1>4, <1>6, <1>7, <1>9, <2>1 DEF Fit, CashbackFit
  <2>9. "accountPreferences" \notin spoilt => AccountsFit(t)
        BY <1>4, <1>6, <1>7, <1>9, <2>1 DEF Fit, AccountsFit
  <2> QED  BY <2>2, <2>3, <2>4, <2>5, <2>6, <2>7, <2>8, <2>9 DEF Fit, spoilt
<1> QED  BY <1>3, <1>4, <1>5, <1>8, <1>9 DEF Leads, w, t, Storage!Items

\* Labels migrates its items, and leaves the others alone.
LEMMA LabelsLead ==
    ASSUME NEW s, \A i \in Storage!Items : s[i] \in Storage!Formats, s["passed"] \subseteq Migrations, NEW gone
    PROVE  Leads("keyPreferences", s, 4, Storage!Labels("keyPreferences", s), gone)
<1> DEFINE new == IF s.keyPreferences # None
                  THEN [keyPreferences |-> None,
                        keystoreKeys |-> IF s.keystoreKeys = "bare" THEN "labelled" ELSE s.keystoreKeys]
                  ELSE Storage!Nothing
           w == Storage!Labels("keyPreferences", s)
           t == Written(s, w)
<1>1. w = Storage!Named("keyPreferences", s, new)
      BY DEF Storage!Labels
<1>2. DOMAIN new \subseteq Storage!Items /\ \A i \in DOMAIN new : new[i] \in Storage!Formats
      BY DEF Storage!Items, Storage!Formats, Storage!Nothing, Storage!Rekeyed
<1>3. \A i \in DOMAIN new : "keyPreferences" \in Storage!Through(i)
      BY DEF Storage!Through, Storage!Nothing
<1> HIDE DEF new
<1>4. /\ w = [i \in DOMAIN w |-> w[i]] /\ DOMAIN w \subseteq Storage!Items \cup {"passed"}
      /\ \A i \in DOMAIN w : IF i = "passed" THEN w[i] \subseteq Migrations ELSE w[i] \in Storage!Formats
      /\ t["passed"] = s["passed"] \cup {"keyPreferences"}
      /\ \A i \in Storage!Items : t[i] = IF i \in DOMAIN new THEN new[i] ELSE s[i]
      BY <1>1, <1>2, NamedWrites DEF Migrations
<1>5. /\ DOMAIN w = DOMAIN new \cup {"passed"} /\ w["passed"] = s["passed"] \cup {"keyPreferences"}
      BY <1>1 DEF Storage!Named
<1>6. /\ t["networks"] = s["networks"]
      /\ t["networkPreferences"] = s["networkPreferences"]
      /\ t["accounts"] = s["accounts"]
      /\ t["accountPreferences"] = s["accountPreferences"]
      /\ t["keystoreSeeds"] = s["keystoreSeeds"]
      /\ t["tokenPreferences"] = s["tokenPreferences"]
      /\ t["customTokens"] = s["customTokens"]
      /\ t["cashbackStatus"] = s["cashbackStatus"]
      /\ t["history"] = s["history"]
      /\ t["obsolete"] = s["obsolete"]
      BY <1>4, NoneIsNoFormat DEF new, Storage!Items, Storage!Nothing
<1>7. /\ t["keystoreKeys"] = IF s["keyPreferences"] # None /\ s["keystoreKeys"] = "bare" THEN "labelled" ELSE s["keystoreKeys"]
      /\ t["keyPreferences"] = None
      BY <1>4, NoneIsNoFormat DEF new, Storage!Items, Storage!Nothing
<1> HIDE DEF w, t
<1>8. ASSUME Passes(s), Had(s, 4), "keyPreferences" \notin s["passed"]
      PROVE  Passes(t) /\ Had(t, 4) /\ Had(t, 5)
      BY <1>4, <1>6, <1>7, <1>8 DEF Passes, Had, Migrations
<1>9. ASSUME Passes(s), Had(s, 4), "keyPreferences" \notin s["passed"], Fit(s, gone)
      PROVE  Fit(t, IF Storage!ThrowsOn("keyPreferences", s) THEN gone \cup {"keyPreferences"} ELSE gone)
  <2> DEFINE spoilt == IF Storage!ThrowsOn("keyPreferences", s) THEN gone \cup {"keyPreferences"} ELSE gone
  <2>1. spoilt = gone
        BY DEF Storage!ThrowsOn
  <2> HIDE DEF spoilt
  <2>2. "networkPreferences" \notin spoilt => PrefsFit(t)
        BY <1>4, <1>6, <1>7, <1>9, <2>1 DEF Fit, PrefsFit
  <2>3. "networkPreferences" \notin spoilt /\ "networkIds" \notin spoilt => HistoryFit(t)
        BY <1>4, <1>6, <1>7, <1>9, <2>1 DEF Fit, HistoryFit
  <2>4. "networkPreferences" \notin spoilt /\ "tokenPreferences" \notin spoilt /\ "networkIds" \notin spoilt => TokensFit(t)
        BY <1>4, <1>6, <1>7, <1>9, <2>1 DEF Fit, TokensFit
  <2>5. "hdPath" \notin spoilt => SeedsFit(t)
        BY <1>4, <1>6, <1>7, <1>9, <2>1 DEF Fit, SeedsFit
  <2>6. "keyPreferences" \notin spoilt => LabelsFit(t)
        BY <1>4, <1>6, <1>7, <1>9, <2>1, NoneIsNoFormat DEF Fit, LabelsFit, Passes, Had
  <2>7. "keyPreferences" \notin spoilt /\ "createdAt" \notin spoilt => KeysFit(t)
        BY <1>4, <1>6, <1>7, <1>9, <2>1, NoneIsNoFormat DEF Fit, KeysFit, LabelsFit, Passes, Had
  <2>8. "cashback" \notin spoilt => CashbackFit(t)
        BY <1>4, <1>6, <1>7, <1>9, <2>1 DEF Fit, CashbackFit
  <2>9. "accountPreferences" \notin spoilt => AccountsFit(t)
        BY <1>4, <1>6, <1>7, <1>9, <2>1 DEF Fit, AccountsFit
  <2> QED  BY <2>2, <2>3, <2>4, <2>5, <2>6, <2>7, <2>8, <2>9 DEF Fit, spoilt
<1> QED  BY <1>3, <1>4, <1>5, <1>8, <1>9 DEF Leads, w, t, Storage!Items

\* Dates migrates its items, and leaves the others alone.
LEMMA DatesLead ==
    ASSUME NEW s, \A i \in Storage!Items : s[i] \in Storage!Formats, s["passed"] \subseteq Migrations, NEW gone
    PROVE  Leads("createdAt", s, 5, Storage!Dates("createdAt", s), gone)
<1> DEFINE new == [keystoreKeys |-> CASE s.keystoreKeys = "labelled" -> "new" [] s.keystoreKeys = "bare" -> "unlabelled"
                                     [] OTHER -> s.keystoreKeys]
           w == Storage!Dates("createdAt", s)
           t == Written(s, w)
<1>1. w = Storage!Named("createdAt", s, new)
      BY DEF Storage!Dates
<1>2. DOMAIN new \subseteq Storage!Items /\ \A i \in DOMAIN new : new[i] \in Storage!Formats
      BY DEF Storage!Items, Storage!Formats, Storage!Nothing, Storage!Rekeyed
<1>3. \A i \in DOMAIN new : "createdAt" \in Storage!Through(i)
      BY DEF Storage!Through, Storage!Nothing
<1> HIDE DEF new
<1>4. /\ w = [i \in DOMAIN w |-> w[i]] /\ DOMAIN w \subseteq Storage!Items \cup {"passed"}
      /\ \A i \in DOMAIN w : IF i = "passed" THEN w[i] \subseteq Migrations ELSE w[i] \in Storage!Formats
      /\ t["passed"] = s["passed"] \cup {"createdAt"}
      /\ \A i \in Storage!Items : t[i] = IF i \in DOMAIN new THEN new[i] ELSE s[i]
      BY <1>1, <1>2, NamedWrites DEF Migrations
<1>5. /\ DOMAIN w = DOMAIN new \cup {"passed"} /\ w["passed"] = s["passed"] \cup {"createdAt"}
      BY <1>1 DEF Storage!Named
<1>6. /\ t["networks"] = s["networks"]
      /\ t["networkPreferences"] = s["networkPreferences"]
      /\ t["accounts"] = s["accounts"]
      /\ t["accountPreferences"] = s["accountPreferences"]
      /\ t["keystoreSeeds"] = s["keystoreSeeds"]
      /\ t["keyPreferences"] = s["keyPreferences"]
      /\ t["tokenPreferences"] = s["tokenPreferences"]
      /\ t["customTokens"] = s["customTokens"]
      /\ t["cashbackStatus"] = s["cashbackStatus"]
      /\ t["history"] = s["history"]
      /\ t["obsolete"] = s["obsolete"]
      BY <1>4, NoneIsNoFormat DEF new, Storage!Items, Storage!Nothing
<1>7. /\ t["keystoreKeys"] = IF s["keystoreKeys"] = "labelled" THEN "new"
                               ELSE IF s["keystoreKeys"] = "bare" THEN "unlabelled" ELSE s["keystoreKeys"]
      BY <1>4, NoneIsNoFormat DEF new, Storage!Items, Storage!Nothing
<1> HIDE DEF w, t
<1>8. ASSUME Passes(s), Had(s, 5), "createdAt" \notin s["passed"]
      PROVE  Passes(t) /\ Had(t, 5) /\ Had(t, 6)
      BY <1>4, <1>6, <1>7, <1>8 DEF Passes, Had, Migrations
<1>9. ASSUME Passes(s), Had(s, 5), "createdAt" \notin s["passed"], Fit(s, gone)
      PROVE  Fit(t, IF Storage!ThrowsOn("createdAt", s) THEN gone \cup {"createdAt"} ELSE gone)
  <2> DEFINE spoilt == IF Storage!ThrowsOn("createdAt", s) THEN gone \cup {"createdAt"} ELSE gone
  <2>1. spoilt = gone
        BY DEF Storage!ThrowsOn
  <2> HIDE DEF spoilt
  <2>2. "networkPreferences" \notin spoilt => PrefsFit(t)
        BY <1>4, <1>6, <1>7, <1>9, <2>1 DEF Fit, PrefsFit
  <2>3. "networkPreferences" \notin spoilt /\ "networkIds" \notin spoilt => HistoryFit(t)
        BY <1>4, <1>6, <1>7, <1>9, <2>1 DEF Fit, HistoryFit
  <2>4. "networkPreferences" \notin spoilt /\ "tokenPreferences" \notin spoilt /\ "networkIds" \notin spoilt => TokensFit(t)
        BY <1>4, <1>6, <1>7, <1>9, <2>1 DEF Fit, TokensFit
  <2>5. "hdPath" \notin spoilt => SeedsFit(t)
        BY <1>4, <1>6, <1>7, <1>9, <2>1 DEF Fit, SeedsFit
  <2>6. "keyPreferences" \notin spoilt => LabelsFit(t)
        BY <1>4, <1>6, <1>7, <1>9, <2>1 DEF Fit, LabelsFit
  <2>7. "keyPreferences" \notin spoilt /\ "createdAt" \notin spoilt => KeysFit(t)
        BY <1>4, <1>6, <1>7, <1>9, <2>1, NoneIsNoFormat DEF Fit, KeysFit, LabelsFit, Passes, Had
  <2>8. "cashback" \notin spoilt => CashbackFit(t)
        BY <1>4, <1>6, <1>7, <1>9, <2>1 DEF Fit, CashbackFit
  <2>9. "accountPreferences" \notin spoilt => AccountsFit(t)
        BY <1>4, <1>6, <1>7, <1>9, <2>1 DEF Fit, AccountsFit
  <2> QED  BY <2>2, <2>3, <2>4, <2>5, <2>6, <2>7, <2>8, <2>9 DEF Fit, spoilt
<1> QED  BY <1>3, <1>4, <1>5, <1>8, <1>9 DEF Leads, w, t, Storage!Items

\* The humanizer only removes its data, and leaves the others alone.
LEMMA HumanizerLead ==
    ASSUME NEW s, \A i \in Storage!Items : s[i] \in Storage!Formats, s["passed"] \subseteq Migrations, NEW gone
    PROVE  Leads("humanizer", s, 6, [obsolete |-> None], gone)
<1> DEFINE w == [obsolete |-> None]
           t == Written(s, w)
<1>3. w = [i \in DOMAIN w |-> w[i]] /\ DOMAIN w = {"obsolete"} /\ w["obsolete"] = None
      OBVIOUS
<1> HIDE DEF w
<1>4. /\ t["passed"] = s["passed"]
      /\ \A i \in Storage!Items : t[i] = IF i = "obsolete" THEN None ELSE s[i]
      BY <1>3 DEF Storage!Items, Written
<1>6. /\ t["networks"] = s["networks"]
      /\ t["networkPreferences"] = s["networkPreferences"]
      /\ t["accounts"] = s["accounts"]
      /\ t["accountPreferences"] = s["accountPreferences"]
      /\ t["keystoreSeeds"] = s["keystoreSeeds"]
      /\ t["keystoreKeys"] = s["keystoreKeys"]
      /\ t["keyPreferences"] = s["keyPreferences"]
      /\ t["tokenPreferences"] = s["tokenPreferences"]
      /\ t["customTokens"] = s["customTokens"]
      /\ t["cashbackStatus"] = s["cashbackStatus"]
      /\ t["history"] = s["history"]
      BY <1>4 DEF Storage!Items
<1>7. /\ t["obsolete"] = None
      BY <1>4 DEF Storage!Items
<1> HIDE DEF w, t
<1>8. ASSUME Passes(s), Had(s, 6), "humanizer" \notin s["passed"]
      PROVE  Passes(t) /\ Had(t, 6) /\ Had(t, 7)
      BY <1>4, <1>6, <1>7, <1>8 DEF Passes, Had, Migrations
<1>9. ASSUME Passes(s), Had(s, 6), "humanizer" \notin s["passed"], Fit(s, gone)
      PROVE  Fit(t, IF Storage!ThrowsOn("humanizer", s) THEN gone \cup {"humanizer"} ELSE gone)
  <2> DEFINE spoilt == IF Storage!ThrowsOn("humanizer", s) THEN gone \cup {"humanizer"} ELSE gone
  <2>1. spoilt = gone
        BY DEF Storage!ThrowsOn
  <2> HIDE DEF spoilt
  <2>2. "networkPreferences" \notin spoilt => PrefsFit(t)
        BY <1>4, <1>6, <1>7, <1>9, <2>1 DEF Fit, PrefsFit
  <2>3. "networkPreferences" \notin spoilt /\ "networkIds" \notin spoilt => HistoryFit(t)
        BY <1>4, <1>6, <1>7, <1>9, <2>1 DEF Fit, HistoryFit
  <2>4. "networkPreferences" \notin spoilt /\ "tokenPreferences" \notin spoilt /\ "networkIds" \notin spoilt => TokensFit(t)
        BY <1>4, <1>6, <1>7, <1>9, <2>1 DEF Fit, TokensFit
  <2>5. "hdPath" \notin spoilt => SeedsFit(t)
        BY <1>4, <1>6, <1>7, <1>9, <2>1 DEF Fit, SeedsFit
  <2>6. "keyPreferences" \notin spoilt => LabelsFit(t)
        BY <1>4, <1>6, <1>7, <1>9, <2>1 DEF Fit, LabelsFit
  <2>7. "keyPreferences" \notin spoilt /\ "createdAt" \notin spoilt => KeysFit(t)
        BY <1>4, <1>6, <1>7, <1>9, <2>1 DEF Fit, KeysFit
  <2>8. "cashback" \notin spoilt => CashbackFit(t)
        BY <1>4, <1>6, <1>7, <1>9, <2>1 DEF Fit, CashbackFit
  <2>9. "accountPreferences" \notin spoilt => AccountsFit(t)
        BY <1>4, <1>6, <1>7, <1>9, <2>1 DEF Fit, AccountsFit
  <2> QED  BY <2>2, <2>3, <2>4, <2>5, <2>6, <2>7, <2>8, <2>9 DEF Fit, spoilt
<1> QED  BY <1>3, <1>8, <1>9 DEF Leads, w, t, Storage!Items, Storage!Formats, Storage!Through

\* Tokens migrates its items, and leaves the others alone.
LEMMA TokensLead ==
    ASSUME NEW s, \A i \in Storage!Items : s[i] \in Storage!Formats, s["passed"] \subseteq Migrations, NEW gone
    PROVE  Leads("tokenPreferences", s, 7, Storage!Tokens("tokenPreferences", s), gone)
<1> DEFINE new == IF s.tokenPreferences = "legacy"
                  THEN [tokenPreferences |-> "ids", customTokens |-> "ids"] ELSE Storage!Nothing
           w == Storage!Tokens("tokenPreferences", s)
           t == Written(s, w)
<1>1. w = Storage!Named("tokenPreferences", s, new)
      BY DEF Storage!Tokens
<1>2. DOMAIN new \subseteq Storage!Items /\ \A i \in DOMAIN new : new[i] \in Storage!Formats
      BY DEF Storage!Items, Storage!Formats, Storage!Nothing, Storage!Rekeyed
<1>3. \A i \in DOMAIN new : "tokenPreferences" \in Storage!Through(i)
      BY DEF Storage!Through, Storage!Nothing
<1> HIDE DEF new
<1>4. /\ w = [i \in DOMAIN w |-> w[i]] /\ DOMAIN w \subseteq Storage!Items \cup {"passed"}
      /\ \A i \in DOMAIN w : IF i = "passed" THEN w[i] \subseteq Migrations ELSE w[i] \in Storage!Formats
      /\ t["passed"] = s["passed"] \cup {"tokenPreferences"}
      /\ \A i \in Storage!Items : t[i] = IF i \in DOMAIN new THEN new[i] ELSE s[i]
      BY <1>1, <1>2, NamedWrites DEF Migrations
<1>5. /\ DOMAIN w = DOMAIN new \cup {"passed"} /\ w["passed"] = s["passed"] \cup {"tokenPreferences"}
      BY <1>1 DEF Storage!Named
<1>6. /\ t["networks"] = s["networks"]
      /\ t["networkPreferences"] = s["networkPreferences"]
      /\ t["accounts"] = s["accounts"]
      /\ t["accountPreferences"] = s["accountPreferences"]
      /\ t["keystoreSeeds"] = s["keystoreSeeds"]
      /\ t["keystoreKeys"] = s["keystoreKeys"]
      /\ t["keyPreferences"] = s["keyPreferences"]
      /\ t["cashbackStatus"] = s["cashbackStatus"]
      /\ t["history"] = s["history"]
      /\ t["obsolete"] = s["obsolete"]
      BY <1>4, NoneIsNoFormat DEF new, Storage!Items, Storage!Nothing
<1>7. /\ t["tokenPreferences"] = IF s["tokenPreferences"] = "legacy" THEN "ids" ELSE s["tokenPreferences"]
      /\ t["customTokens"] = IF s["tokenPreferences"] = "legacy" THEN "ids" ELSE s["customTokens"]
      BY <1>4, NoneIsNoFormat DEF new, Storage!Items, Storage!Nothing
<1> HIDE DEF w, t
<1>8. ASSUME Passes(s), Had(s, 7), "tokenPreferences" \notin s["passed"]
      PROVE  Passes(t) /\ Had(t, 7) /\ Had(t, 8)
      BY <1>4, <1>6, <1>7, <1>8 DEF Passes, Had, Migrations
<1>9. ASSUME Passes(s), Had(s, 7), "tokenPreferences" \notin s["passed"], Fit(s, gone)
      PROVE  Fit(t, IF Storage!ThrowsOn("tokenPreferences", s) THEN gone \cup {"tokenPreferences"} ELSE gone)
  <2> DEFINE spoilt == IF Storage!ThrowsOn("tokenPreferences", s) THEN gone \cup {"tokenPreferences"} ELSE gone
  <2>1. spoilt = gone
        BY DEF Storage!ThrowsOn
  <2> HIDE DEF spoilt
  <2>2. "networkPreferences" \notin spoilt => PrefsFit(t)
        BY <1>4, <1>6, <1>7, <1>9, <2>1 DEF Fit, PrefsFit
  <2>3. "networkPreferences" \notin spoilt /\ "networkIds" \notin spoilt => HistoryFit(t)
        BY <1>4, <1>6, <1>7, <1>9, <2>1 DEF Fit, HistoryFit
  <2>4. "networkPreferences" \notin spoilt /\ "tokenPreferences" \notin spoilt /\ "networkIds" \notin spoilt => TokensFit(t)
        BY <1>4, <1>6, <1>7, <1>9, <2>1, NoneIsNoFormat DEF Fit, TokensFit, PrefsFit, HistoryFit, Passes, Had
  <2>5. "hdPath" \notin spoilt => SeedsFit(t)
        BY <1>4, <1>6, <1>7, <1>9, <2>1 DEF Fit, SeedsFit
  <2>6. "keyPreferences" \notin spoilt => LabelsFit(t)
        BY <1>4, <1>6, <1>7, <1>9, <2>1 DEF Fit, LabelsFit
  <2>7. "keyPreferences" \notin spoilt /\ "createdAt" \notin spoilt => KeysFit(t)
        BY <1>4, <1>6, <1>7, <1>9, <2>1 DEF Fit, KeysFit
  <2>8. "cashback" \notin spoilt => CashbackFit(t)
        BY <1>4, <1>6, <1>7, <1>9, <2>1 DEF Fit, CashbackFit
  <2>9. "accountPreferences" \notin spoilt => AccountsFit(t)
        BY <1>4, <1>6, <1>7, <1>9, <2>1 DEF Fit, AccountsFit
  <2> QED  BY <2>2, <2>3, <2>4, <2>5, <2>6, <2>7, <2>8, <2>9 DEF Fit, spoilt
<1> QED  BY <1>3, <1>4, <1>5, <1>8, <1>9 DEF Leads, w, t, Storage!Items

\* Cashback migrates its items, and leaves the others alone.
LEMMA CashbackLead ==
    ASSUME NEW s, \A i \in Storage!Items : s[i] \in Storage!Formats, s["passed"] \subseteq Migrations, NEW gone
    PROVE  Leads("cashback", s, 8, Storage!Cashback("cashback", s), gone)
<1> DEFINE new == [cashbackStatus |-> IF s.cashbackStatus = None THEN None ELSE "new"]
           w == Storage!Cashback("cashback", s)
           t == Written(s, w)
<1>1. w = Storage!Named("cashback", s, new)
      BY DEF Storage!Cashback
<1>2. DOMAIN new \subseteq Storage!Items /\ \A i \in DOMAIN new : new[i] \in Storage!Formats
      BY DEF Storage!Items, Storage!Formats, Storage!Nothing, Storage!Rekeyed
<1>3. \A i \in DOMAIN new : "cashback" \in Storage!Through(i)
      BY DEF Storage!Through, Storage!Nothing
<1> HIDE DEF new
<1>4. /\ w = [i \in DOMAIN w |-> w[i]] /\ DOMAIN w \subseteq Storage!Items \cup {"passed"}
      /\ \A i \in DOMAIN w : IF i = "passed" THEN w[i] \subseteq Migrations ELSE w[i] \in Storage!Formats
      /\ t["passed"] = s["passed"] \cup {"cashback"}
      /\ \A i \in Storage!Items : t[i] = IF i \in DOMAIN new THEN new[i] ELSE s[i]
      BY <1>1, <1>2, NamedWrites DEF Migrations
<1>5. /\ DOMAIN w = DOMAIN new \cup {"passed"} /\ w["passed"] = s["passed"] \cup {"cashback"}
      BY <1>1 DEF Storage!Named
<1>6. /\ t["networks"] = s["networks"]
      /\ t["networkPreferences"] = s["networkPreferences"]
      /\ t["accounts"] = s["accounts"]
      /\ t["accountPreferences"] = s["accountPreferences"]
      /\ t["keystoreSeeds"] = s["keystoreSeeds"]
      /\ t["keystoreKeys"] = s["keystoreKeys"]
      /\ t["keyPreferences"] = s["keyPreferences"]
      /\ t["tokenPreferences"] = s["tokenPreferences"]
      /\ t["customTokens"] = s["customTokens"]
      /\ t["history"] = s["history"]
      /\ t["obsolete"] = s["obsolete"]
      BY <1>4, NoneIsNoFormat DEF new, Storage!Items, Storage!Nothing
<1>7. /\ t["cashbackStatus"] = IF s["cashbackStatus"] = None THEN None ELSE "new"
      BY <1>4, NoneIsNoFormat DEF new, Storage!Items, Storage!Nothing
<1> HIDE DEF w, t
<1>8. ASSUME Passes(s), Had(s, 8), "cashback" \notin s["passed"]
      PROVE  Passes(t) /\ Had(t, 8) /\ Had(t, 9)
      BY <1>4, <1>6, <1>7, <1>8 DEF Passes, Had, Migrations
<1>9. ASSUME Passes(s), Had(s, 8), "cashback" \notin s["passed"], Fit(s, gone)
      PROVE  Fit(t, IF Storage!ThrowsOn("cashback", s) THEN gone \cup {"cashback"} ELSE gone)
  <2> DEFINE spoilt == IF Storage!ThrowsOn("cashback", s) THEN gone \cup {"cashback"} ELSE gone
  <2>1. spoilt = gone
        BY DEF Storage!ThrowsOn
  <2> HIDE DEF spoilt
  <2>2. "networkPreferences" \notin spoilt => PrefsFit(t)
        BY <1>4, <1>6, <1>7, <1>9, <2>1 DEF Fit, PrefsFit
  <2>3. "networkPreferences" \notin spoilt /\ "networkIds" \notin spoilt => HistoryFit(t)
        BY <1>4, <1>6, <1>7, <1>9, <2>1 DEF Fit, HistoryFit
  <2>4. "networkPreferences" \notin spoilt /\ "tokenPreferences" \notin spoilt /\ "networkIds" \notin spoilt => TokensFit(t)
        BY <1>4, <1>6, <1>7, <1>9, <2>1 DEF Fit, TokensFit
  <2>5. "hdPath" \notin spoilt => SeedsFit(t)
        BY <1>4, <1>6, <1>7, <1>9, <2>1 DEF Fit, SeedsFit
  <2>6. "keyPreferences" \notin spoilt => LabelsFit(t)
        BY <1>4, <1>6, <1>7, <1>9, <2>1 DEF Fit, LabelsFit
  <2>7. "keyPreferences" \notin spoilt /\ "createdAt" \notin spoilt => KeysFit(t)
        BY <1>4, <1>6, <1>7, <1>9, <2>1 DEF Fit, KeysFit
  <2>8. "cashback" \notin spoilt => CashbackFit(t)
        BY <1>4, <1>6, <1>7, <1>9, <2>1, NoneIsNoFormat DEF Fit, CashbackFit, Passes, Had
  <2>9. "accountPreferences" \notin spoilt => AccountsFit(t)
        BY <1>4, <1>6, <1>7, <1>9, <2>1 DEF Fit, AccountsFit
  <2> QED  BY <2>2, <2>3, <2>4, <2>5, <2>6, <2>7, <2>8, <2>9 DEF Fit, spoilt
<1> QED  BY <1>3, <1>4, <1>5, <1>8, <1>9 DEF Leads, w, t, Storage!Items

\* ChainIds migrates its items, and leaves the others alone.
LEMMA ChainIdsLead ==
    ASSUME NEW s, \A i \in Storage!Items : s[i] \in Storage!Formats, s["passed"] \subseteq Migrations, NEW gone
    PROVE  Leads("networkIds", s, 9, Storage!ChainIds("networkIds", s), gone)
<1> DEFINE new == IF s.networks = None THEN Storage!Nothing
                  ELSE [i \in {"networks", "history", "tokenPreferences", "customTokens"} |->
                           IF i = "networks" THEN "chains" ELSE Storage!Rekeyed(s, i)]
           w == Storage!ChainIds("networkIds", s)
           t == Written(s, w)
<1>1. w = Storage!Named("networkIds", s, new)
      BY DEF Storage!ChainIds
<1>2. DOMAIN new \subseteq Storage!Items /\ \A i \in DOMAIN new : new[i] \in Storage!Formats
      BY DEF Storage!Items, Storage!Formats, Storage!Nothing, Storage!Rekeyed
<1>3. \A i \in DOMAIN new : "networkIds" \in Storage!Through(i)
      BY DEF Storage!Through, Storage!Nothing
<1> HIDE DEF new
<1>4. /\ w = [i \in DOMAIN w |-> w[i]] /\ DOMAIN w \subseteq Storage!Items \cup {"passed"}
      /\ \A i \in DOMAIN w : IF i = "passed" THEN w[i] \subseteq Migrations ELSE w[i] \in Storage!Formats
      /\ t["passed"] = s["passed"] \cup {"networkIds"}
      /\ \A i \in Storage!Items : t[i] = IF i \in DOMAIN new THEN new[i] ELSE s[i]
      BY <1>1, <1>2, NamedWrites DEF Migrations
<1>5. /\ DOMAIN w = DOMAIN new \cup {"passed"} /\ w["passed"] = s["passed"] \cup {"networkIds"}
      BY <1>1 DEF Storage!Named
<1>6. /\ t["networkPreferences"] = s["networkPreferences"]
      /\ t["accounts"] = s["accounts"]
      /\ t["accountPreferences"] = s["accountPreferences"]
      /\ t["keystoreSeeds"] = s["keystoreSeeds"]
      /\ t["keystoreKeys"] = s["keystoreKeys"]
      /\ t["keyPreferences"] = s["keyPreferences"]
      /\ t["cashbackStatus"] = s["cashbackStatus"]
      /\ t["obsolete"] = s["obsolete"]
      BY <1>4, NoneIsNoFormat DEF new, Storage!Items, Storage!Nothing
<1>7. /\ t["networks"] = IF s["networks"] = None THEN None ELSE "chains"
      /\ t["tokenPreferences"] = IF s["networks"] = None THEN s["tokenPreferences"] ELSE Storage!Rekeyed(s, "tokenPreferences")
      /\ t["customTokens"] = IF s["networks"] = None THEN s["customTokens"] ELSE Storage!Rekeyed(s, "customTokens")
      /\ t["history"] = IF s["networks"] = None THEN s["history"] ELSE Storage!Rekeyed(s, "history")
      BY <1>4, NoneIsNoFormat DEF new, Storage!Items, Storage!Nothing
<1> HIDE DEF w, t
<1>8. ASSUME Passes(s), Had(s, 9), "networkIds" \notin s["passed"]
      PROVE  Passes(t) /\ Had(t, 9) /\ Had(t, 10)
      BY <1>4, <1>6, <1>7, <1>8 DEF Passes, Had, Migrations
<1>9. ASSUME Passes(s), Had(s, 9), "networkIds" \notin s["passed"], Fit(s, gone)
      PROVE  Fit(t, IF Storage!ThrowsOn("networkIds", s) THEN gone \cup {"networkIds"} ELSE gone)
  <2> DEFINE spoilt == IF Storage!ThrowsOn("networkIds", s) THEN gone \cup {"networkIds"} ELSE gone
  <2>1. spoilt = gone
        BY DEF Storage!ThrowsOn
  <2> HIDE DEF spoilt
  <2>2. "networkPreferences" \notin spoilt => PrefsFit(t)
        BY <1>4, <1>6, <1>7, <1>9, <2>1 DEF Fit, PrefsFit
  <2>3. "networkPreferences" \notin spoilt /\ "networkIds" \notin spoilt => HistoryFit(t)
        BY <1>4, <1>6, <1>7, <1>9, <2>1, NoneIsNoFormat DEF Fit, HistoryFit, PrefsFit, Passes, Had, Storage!Rekeyed
  <2>4. "networkPreferences" \notin spoilt /\ "tokenPreferences" \notin spoilt /\ "networkIds" \notin spoilt => TokensFit(t)
        BY <1>4, <1>6, <1>7, <1>9, <2>1, NoneIsNoFormat DEF Fit, TokensFit, PrefsFit, HistoryFit, Passes, Had, Storage!Rekeyed
  <2>5. "hdPath" \notin spoilt => SeedsFit(t)
        BY <1>4, <1>6, <1>7, <1>9, <2>1 DEF Fit, SeedsFit
  <2>6. "keyPreferences" \notin spoilt => LabelsFit(t)
        BY <1>4, <1>6, <1>7, <1>9, <2>1 DEF Fit, LabelsFit
  <2>7. "keyPreferences" \notin spoilt /\ "createdAt" \notin spoilt => KeysFit(t)
        BY <1>4, <1>6, <1>7, <1>9, <2>1 DEF Fit, KeysFit
  <2>8. "cashback" \notin spoilt => CashbackFit(t)
        BY <1>4, <1>6, <1>7, <1>9, <2>1 DEF Fit, CashbackFit
  <2>9. "accountPreferences" \notin spoilt => AccountsFit(t)
        BY <1>4, <1>6, <1>7, <1>9, <2>1 DEF Fit, AccountsFit
  <2> QED  BY <2>2, <2>3, <2>4, <2>5, <2>6, <2>7, <2>8, <2>9 DEF Fit, spoilt
<1> QED  BY <1>3, <1>4, <1>5, <1>8, <1>9 DEF Leads, w, t, Storage!Items

\* Whichever migration runs leads to the next.
LEMMA MigrationLeads ==
    ASSUME NEW s, NEW k \in 1..9, \A i \in Storage!Items : s[i] \in Storage!Formats,
           s["passed"] \subseteq Migrations, NEW gone
    PROVE  /\ Leads(Storage!Order[k], s, k, Storage!Writes(Storage!Order[k], s), gone)
           /\ Had(s, k) /\ Storage!Order[k] \in s["passed"] => Had(s, k + 1)
<1>1. CASE k = 1
      BY <1>1, NetworksLead DEF Storage!Writes, Storage!Order, Had, Migrations
<1>2. CASE k = 2
      BY <1>2, AccountsLead DEF Storage!Writes, Storage!Order, Had, Migrations
<1>3. CASE k = 3
      BY <1>3, SeedsLead DEF Storage!Writes, Storage!Order, Had, Migrations
<1>4. CASE k = 4
      BY <1>4, LabelsLead DEF Storage!Writes, Storage!Order, Had, Migrations
<1>5. CASE k = 5
      BY <1>5, DatesLead DEF Storage!Writes, Storage!Order, Had, Migrations
<1>6. CASE k = 6
      BY <1>6, HumanizerLead DEF Storage!Writes, Storage!Order, Had, Migrations
<1>7. CASE k = 7
      BY <1>7, TokensLead DEF Storage!Writes, Storage!Order, Had, Migrations
<1>8. CASE k = 8
      BY <1>8, CashbackLead DEF Storage!Writes, Storage!Order, Had, Migrations
<1>9. CASE k = 9
      BY <1>9, ChainIdsLead DEF Storage!Writes, Storage!Order, Had, Migrations
<1> QED  BY <1>1, <1>2, <1>3, <1>4, <1>5, <1>6, <1>7, <1>8, <1>9

\* An item that was written is what it is to be.
LEMMA ItemIsWritten ==
    ASSUME NEW s, DOMAIN s = Storage!Items \cup {"passed"}, s = [i \in DOMAIN s |-> s[i]],
           NEW w, DOMAIN w \subseteq Storage!Items \cup {"passed"}, NEW i \in DOMAIN w
    PROVE  Written([s EXCEPT ![i] = w[i]], [j \in DOMAIN w \ {i} |-> w[j]]) = Written(s, w)
BY DEF Written

\* What the writes that have begun do not concern is the same before and after them.
LEMMA WritesConcern ==
    ASSUME MigInv, NEW gone, DOMAIN unwritten \subseteq {"obsolete"} \/ Storage!Order[step] \in gone, cut \subseteq gone
    PROVE  Fit(store, gone)
<1> DEFINE s == Written(store, unwritten)
           m == Storage!Order[step]
<1>1. /\ \A i \in Storage!Items : i \notin DOMAIN unwritten => store[i] = s[i]
      /\ s["passed"] = IF "passed" \in DOMAIN unwritten THEN unwritten["passed"] ELSE store["passed"]
      BY DEF Written
<1>2. \A i \in Storage!Items \ {"obsolete"} :
          store[i] = s[i] \/ (m \in gone /\ m \in Storage!Through(i))
      BY <1>1 DEF MigInv, Own
<1>3. \A n : n \notin gone => (n \in s["passed"] <=> n \in store["passed"])
  <2>1. CASE "passed" \notin DOMAIN unwritten
        BY <1>1, <2>1
  <2>2. CASE "passed" \in DOMAIN unwritten
    <3>1. m \in gone /\ s["passed"] = store["passed"] \cup {m}
          BY <1>1, <2>2 DEF MigInv, Own
    <3> QED  BY <3>1
  <2> QED  BY <2>1, <2>2
<1>4. Fit(s, cut)
      BY DEF MigInv
<1>13. m \in gone /\ m = "networkIds" /\ DOMAIN unwritten # {} => "networkPreferences" \in s["passed"]
  <2>1. DOMAIN unwritten # {} => step \in 1..9 /\ Had(s, step)
    <3>1. step \in 1..10 /\ Had(s, step)
          BY DEF MigInv, StoreTypes
    <3>2. DOMAIN unwritten # {} => step < 10
          BY DEF MigInv, Own
    <3> HIDE DEF s, m
    <3> QED  BY <3>1, <3>2
  <2> QED  BY <2>1 DEF Had, Storage!Order
<1>14. DOMAIN unwritten = {} => store["networks"] = s["networks"]
      BY <1>1 DEF Storage!Items
<1> HIDE DEF s, m
<1>5. "networkPreferences" \notin gone => PrefsFit(store)
  <2> SUFFICES ASSUME "networkPreferences" \notin gone PROVE PrefsFit(store)
      OBVIOUS
  <2>1. store["networkPreferences"] = s["networkPreferences"]
        BY <1>2 DEF Storage!Items, Storage!Through
  <2>2. store["networks"] = s["networks"] \/ "networkPreferences" \in s["passed"]
    <3>1. store["networks"] = s["networks"] \/ (m \in gone /\ m \in {"networkPreferences", "networkIds"})
          BY <1>2 DEF Storage!Items, Storage!Through
    <3> QED  BY <1>13, <1>14, <3>1
  <2>3. PrefsFit(s)
        BY <1>4 DEF Fit
  <2> QED  BY <1>3, <2>1, <2>2, <2>3 DEF PrefsFit
<1>6. "networkPreferences" \notin gone /\ "networkIds" \notin gone => HistoryFit(store)
      BY <1>2, <1>3, <1>4 DEF Fit, HistoryFit, Storage!Items, Storage!Through
<1>7. "networkPreferences" \notin gone /\ "tokenPreferences" \notin gone /\ "networkIds" \notin gone => TokensFit(store)
      BY <1>2, <1>3, <1>4 DEF Fit, TokensFit, Storage!Items, Storage!Through
<1>8. "hdPath" \notin gone => SeedsFit(store)
      BY <1>2, <1>3, <1>4 DEF Fit, SeedsFit, Storage!Items, Storage!Through
<1>9. "keyPreferences" \notin gone => LabelsFit(store)
      BY <1>2, <1>3, <1>4 DEF Fit, LabelsFit, Storage!Items, Storage!Through
<1>10. "keyPreferences" \notin gone /\ "createdAt" \notin gone => KeysFit(store)
      BY <1>2, <1>3, <1>4 DEF Fit, KeysFit, Storage!Items, Storage!Through
<1>11. "cashback" \notin gone => CashbackFit(store)
      BY <1>2, <1>3, <1>4 DEF Fit, CashbackFit, Storage!Items, Storage!Through
<1>12. "accountPreferences" \notin gone => AccountsFit(store)
      BY <1>2, <1>3, <1>4 DEF Fit, AccountsFit, Storage!Items, Storage!Through
<1> QED  BY <1>5, <1>6, <1>7, <1>8, <1>9, <1>10, <1>11, <1>12 DEF Fit

\* Migrations begin their writes, which are done one by one unless the extension stops.
LEMMA MigInvNext == ASSUME MigInv, [Storage!MigrationsNext]_migVars PROVE MigInv'
<1> DEFINE s == Written(store, unwritten)
<1>1. ASSUME Storage!Migrate PROVE MigInv'
  <2> DEFINE m == Storage!Order[step]
             w == Storage!Writes(m, store)
             done == m \in store["passed"]
             throws == Storage!ThrowsOn(m, store)
  <2>1. /\ step <= Len(Storage!Order) /\ ~aborted /\ DOMAIN unwritten = {}
        /\ unwritten' = (IF done THEN Storage!Nothing ELSE w)
        /\ aborted' = (~done /\ throws)
        /\ step' = (IF done THEN step + 1 ELSE step)
        /\ cut' = (IF aborted' THEN cut \cup {m} ELSE cut)
        /\ UNCHANGED store
        BY <1>1 DEF Storage!Migrate, Storage!Running
  <2>3. step \in 1..9
        BY <2>1 DEF MigInv, StoreTypes, Storage!Order
  <2>4. aborted' \in BOOLEAN
    <3>1. throws \in BOOLEAN
          BY DEF Storage!ThrowsOn
    <3> HIDE DEF throws, done
    <3> QED  BY <2>1, <3>1
  <2>5. /\ \A i \in Storage!Items : store[i] \in Storage!Formats
        /\ store["passed"] \subseteq Migrations
        /\ DOMAIN store = Storage!Items \cup {"passed"} /\ store = [i \in DOMAIN store |-> store[i]]
        /\ cut \subseteq {Storage!Order[k] : k \in 1..9}
        BY DEF MigInv, StoreTypes
  <2>6. /\ Leads(m, store, step, w, cut)
        /\ Had(store, step) /\ done => Had(store, step + 1)
        BY <2>3, <2>5, MigrationLeads
  <2>7. /\ Written(store, unwritten) = store
        /\ Passes(store) /\ Had(store, step) /\ Fit(store, cut)
    <3>1. Written(store, unwritten) = store
          BY <2>1, <2>5 DEF Written
    <3> QED  BY <3>1 DEF MigInv
  <2>10. cut' \subseteq {Storage!Order[k] : k \in 1..9}
        BY <2>1, <2>3, <2>5
  <2> HIDE DEF m, w, done, throws
  <2>8. CASE done
    <3>1. DOMAIN unwritten' = {} /\ unwritten' = [i \in DOMAIN unwritten' |-> unwritten'[i]]
          BY <2>1, <2>8 DEF Storage!Nothing
    <3>2. Written(store', unwritten') = store
          BY <2>1, <2>5, <3>1 DEF Written
    <3>3. ~aborted' /\ cut' = cut /\ step' = step + 1 /\ store' = store
          BY <2>1, <2>8
    <3>4. StoreTypes' /\ Own'
          BY <2>3, <2>4, <2>5, <3>1, <3>3 DEF StoreTypes, Own
    <3> QED  BY <2>6, <2>7, <2>8, <3>1, <3>2, <3>3, <3>4 DEF MigInv
  <2>9. CASE ~done
    <3>1. unwritten' = w /\ step' = step /\ store' = store
          BY <2>1, <2>9
    <3>2. cut' = IF throws THEN cut \cup {m} ELSE cut
          BY <2>1, <2>9
    <3>3. StoreTypes'
          BY <2>3, <2>4, <2>5, <2>6, <2>10, <3>1 DEF StoreTypes, Leads
    <3>4. Own'
          BY <2>3, <2>6, <3>1 DEF Own, Leads, m
    <3>5. /\ Passes(Written(store, w)) /\ Had(Written(store, w), step) /\ Had(Written(store, w), step + 1)
          /\ Fit(Written(store, w), cut')
          BY <2>6, <2>7, <2>9, <3>2 DEF Leads, done, throws
    <3> QED  BY <2>7, <3>1, <3>3, <3>4, <3>5 DEF MigInv
  <2> QED  BY <2>8, <2>9
<1>2. ASSUME NEW i \in DOMAIN unwritten, Storage!Written(i) PROVE MigInv'
  <2>1. /\ store' = [store EXCEPT ![i] = unwritten[i]]
        /\ unwritten' = [j \in DOMAIN unwritten \ {i} |-> unwritten[j]]
        /\ step' = (IF DOMAIN unwritten = {i} /\ ~aborted THEN step + 1 ELSE step)
        /\ UNCHANGED <<aborted, cut>>
        BY <1>2 DEF Storage!Written
  <2>2. Written(store', unwritten') = s
    <3>1. /\ DOMAIN store = Storage!Items \cup {"passed"} /\ store = [j \in DOMAIN store |-> store[j]]
          /\ DOMAIN unwritten \subseteq Storage!Items \cup {"passed"}
          BY DEF MigInv, StoreTypes
    <3> QED  BY <2>1, <3>1, ItemIsWritten
  <2>3. /\ step \in 1..9 /\ step' \in 1..10
        /\ DOMAIN unwritten' # {} => step' = step
        BY <2>1 DEF MigInv, StoreTypes, Own
  <2>5. DOMAIN unwritten' = DOMAIN unwritten \ {i} /\ \A j \in DOMAIN unwritten' : unwritten'[j] = unwritten[j]
        BY <2>1
  <2>6. /\ DOMAIN store' = Storage!Items \cup {"passed"} /\ store' = [j \in DOMAIN store' |-> store'[j]]
        /\ \A j \in Storage!Items : store'[j] \in Storage!Formats
        /\ store'["passed"] \subseteq Migrations
        BY <2>1 DEF MigInv, StoreTypes, Storage!Items
  <2>7. StoreTypes'
        BY <2>1, <2>3, <2>5, <2>6 DEF MigInv, StoreTypes
  <2>8. Own'
    <3>1. "passed" \in DOMAIN unwritten' => store'["passed"] = store["passed"]
          BY <2>1, <2>5 DEF MigInv, StoreTypes
    <3> QED  BY <2>3, <2>5, <3>1 DEF MigInv, Own
  <2>9. Passes(store')
    <3>1. store'["passed"] = store["passed"] \/ store'["passed"] = s["passed"]
          BY <2>1 DEF MigInv, StoreTypes, Written
    <3> HIDE DEF s
    <3> QED  BY <3>1 DEF MigInv, Passes, s
  <2> HIDE DEF s
  <2>10. /\ Passes(s) /\ Had(s, step) /\ Had(s, step + 1) /\ Fit(s, cut')
        BY <1>2, <2>1 DEF MigInv, s
  <2> QED  BY <2>1, <2>2, <2>3, <2>7, <2>8, <2>9, <2>10 DEF MigInv
<1>3. ASSUME Storage!Restart PROVE MigInv'
  <2>1. /\ step' = 1 /\ unwritten' = Storage!Nothing /\ aborted' = FALSE
        /\ cut' = (IF DOMAIN unwritten \subseteq {"obsolete"} THEN cut ELSE cut \cup {Storage!Order[step]})
        /\ UNCHANGED store
        BY <1>3 DEF Storage!Restart
  <2>2. DOMAIN unwritten' = {} /\ unwritten' = [i \in DOMAIN unwritten' |-> unwritten'[i]]
        BY <2>1 DEF Storage!Nothing
  <2>3. Written(store', unwritten') = store
        BY <2>1, <2>2 DEF Written, MigInv, StoreTypes
  <2>4. cut' \subseteq {Storage!Order[k] : k \in 1..9}
    <3>3. step \in 1..10 /\ (DOMAIN unwritten # {} => step < 10)
          BY DEF MigInv, StoreTypes, Own
    <3>1. DOMAIN unwritten = {} \/ step \in 1..9
          BY <3>3
    <3>2. cut \subseteq {Storage!Order[k] : k \in 1..9}
          BY DEF MigInv, StoreTypes
    <3> QED  BY <2>1, <3>1, <3>2
  <2>7. aborted' \in BOOLEAN
        BY <2>1
  <2>5. StoreTypes' /\ Own'
        BY <2>1, <2>2, <2>4, <2>7 DEF MigInv, StoreTypes, Own
  <2>6. Fit(store, cut')
        BY <2>1, WritesConcern
  <2>9. Had(store, 1)
        BY DEF Had
  <2> QED  BY <2>1, <2>2, <2>3, <2>5, <2>6, <2>9 DEF MigInv
<1>4. ASSUME UNCHANGED migVars PROVE MigInv'
      BY <1>4 DEF migVars, MigInv, StoreTypes, Own
<1> QED  BY <1>1, <1>2, <1>3, <1>4 DEF Storage!MigrationsNext

\* An item is of the present version once the migrations that it goes through are over.
LEMMA ItemIsPresent ==
    ASSUME MigInv, NEW i \in Storage!Items, Storage!Through(i) \subseteq Storage!Past \ cut
    PROVE  store[i] \in Storage!Present(i)
<1> DEFINE s == Written(store, unwritten)
<1>1. step \in 1..10 /\ Had(s, step) /\ Fit(s, cut)
      BY DEF MigInv, StoreTypes
<1>2. i \notin DOMAIN unwritten
  <2>1. ASSUME i \in DOMAIN unwritten PROVE FALSE
    <3>1. step \in 1..9 /\ Storage!Order[step] \in Storage!Through(i)
          BY <2>1 DEF MigInv, StoreTypes, Own
    <3>2. PICK k \in 1 .. step - 1 : Storage!Order[k] = Storage!Order[step]
          BY <3>1 DEF Storage!Past
    <3> QED  BY <3>1, <3>2 DEF Storage!Order
  <2> QED  BY <2>1
<1>3. store[i] = s[i]
      BY <1>2 DEF Written
<1> HIDE DEF s
<1>4. \A n \in Storage!Through(i) : n \notin cut /\ \E k \in 1 .. step - 1 : n = Storage!Order[k]
      BY DEF Storage!Past
<1>5. /\ \A k \in 1 .. step - 1 : Storage!Order[k] # "humanizer" => Storage!Order[k] \in s["passed"]
      /\ (\E k \in 1 .. step - 1 : Storage!Order[k] = "humanizer") => s["obsolete"] = None
      BY <1>1 DEF Had, Storage!Order
<1>6. \A n \in Storage!Through(i) : n \notin cut /\ (n # "humanizer" => n \in s["passed"])
      BY <1>4, <1>5
<1>7. CASE i = "networks"
      BY <1>1, <1>3, <1>6, <1>7 DEF Storage!Through, Storage!Present, Fit, HistoryFit
<1>8. CASE i = "history"
      BY <1>1, <1>3, <1>6, <1>8 DEF Storage!Through, Storage!Present, Fit, HistoryFit
<1>9. CASE i = "tokenPreferences"
      BY <1>1, <1>3, <1>6, <1>9 DEF Storage!Through, Storage!Present, Fit, TokensFit
<1>10. CASE i = "customTokens"
      BY <1>1, <1>3, <1>6, <1>10 DEF Storage!Through, Storage!Present, Fit, TokensFit
<1>11. CASE i = "accounts"
      BY <1>1, <1>3, <1>6, <1>11 DEF Storage!Through, Storage!Present, Fit, AccountsFit
<1>12. CASE i = "accountPreferences"
      BY <1>1, <1>3, <1>6, <1>12 DEF Storage!Through, Storage!Present, Fit, AccountsFit
<1>13. CASE i = "keystoreKeys"
      BY <1>1, <1>3, <1>6, <1>13 DEF Storage!Through, Storage!Present, Fit, KeysFit
<1>14. CASE i = "keystoreSeeds"
      BY <1>1, <1>3, <1>6, <1>14 DEF Storage!Through, Storage!Present, Fit, SeedsFit
<1>15. CASE i = "cashbackStatus"
      BY <1>1, <1>3, <1>6, <1>15 DEF Storage!Through, Storage!Present, Fit, CashbackFit
<1>16. CASE i = "networkPreferences"
      BY <1>1, <1>3, <1>6, <1>16 DEF Storage!Through, Storage!Present, Fit, PrefsFit
<1>17. CASE i = "keyPreferences"
      BY <1>1, <1>3, <1>6, <1>17 DEF Storage!Through, Storage!Present, Fit, LabelsFit
<1>18. CASE i = "obsolete"
      BY <1>3, <1>4, <1>5, <1>18 DEF Storage!Through, Storage!Present
<1> QED  BY <1>7, <1>8, <1>9, <1>10, <1>11, <1>12, <1>13, <1>14, <1>15, <1>16, <1>17, <1>18 DEF Storage!Items

\* Every item is of the present version when its migrations are over.
LEMMA MigIsReached == MigInv => Storage!MigrationsTypeOK /\ Storage!ReachedMeansMigrated
BY ItemIsPresent DEF Storage!ReachedMeansMigrated, MigInv, StoreTypes, Storage!MigrationsTypeOK,
   Storage!Order, Migrations

-----------------------------------------------------------------------------
(* Dapps *)

\* A queue that gets a write or loses its first one has no others.
LEMMA QueueGoes ==
    ASSUME NEW S, NEW q \in Seq(S)
    PROVE  /\ \A x \in S : /\ Append(q, x) \in Seq(S)
                          /\ \A i \in 1 .. Len(Append(q, x)) :
                                Append(q, x)[i] = x \/ \E j \in 1 .. Len(q) : Append(q, x)[i] = q[j]
           /\ q # <<>> => /\ Head(q) \in S /\ Tail(q) \in Seq(S)
                          /\ \E j \in 1 .. Len(q) : Head(q) = q[j]
                          /\ \A i \in 1 .. Len(Tail(q)) : \E j \in 1 .. Len(q) : Tail(q)[i] = q[j]
<1>1. ASSUME NEW x \in S, NEW i \in 1 .. Len(Append(q, x))
      PROVE  Append(q, x)[i] = x \/ \E j \in 1 .. Len(q) : Append(q, x)[i] = q[j]
      BY <1>1, AppendProperties
<1>2. ASSUME q # <<>>
      PROVE  /\ Head(q) \in S /\ Tail(q) \in Seq(S) /\ 1 \in 1 .. Len(q) /\ Head(q) = q[1]
             /\ \A i \in 1 .. Len(Tail(q)) : i + 1 \in 1 .. Len(q) /\ Tail(q)[i] = q[i + 1]
      BY <1>2, HeadTailProperties, EmptySeq
<1> QED  BY <1>1, <1>2, AppendProperties

\* A write that is on its way leaves what was agreed by then.
DapWrites == [list : [DappIds -> Dap!Dapp], agreed : [DappIds -> Dap!Dapp]]
DapWritten(w) == Dap!Combined(w.list) = w.agreed
\* Unless there was a change before the catalog was loaded, so does what is stored, and what was read
\* of it and, once it is loaded, what is in memory is what was agreed.
DapInv ==
    /\ Dap!TypeOK
    /\ ~early => /\ Dap!Combined(savedDapps) = keptDapps
                 /\ \A i \in 1 .. Len(dappWrites) : DapWritten(dappWrites[i])
    /\ ~early /\ readDapps # None => Dap!Combined(readDapps) = agreed
    /\ Dap!ConnectionsAreKept

\* A dapp of the catalog is one.
LEMMA CatalogEntry == Dap!Unknown \in Dap!Dapp /\ Dap!Unknown # None
<1>1. Dap!Unknown \in [connected : BOOLEAN, account : Wallets \cup {None}]
      BY DEF Dap!Unknown
<1> QED  BY <1>1, ServicesAssumption DEF Dap!Dapp

\* At first nothing is stored, and the catalog is what is agreed.
LEMMA DapInvInit == ASSUME Dap!Init PROVE DapInv
<1> USE ServicesAssumption DEF Dap!Init
<1>1. Dap!TypeOK
  <2>5. dappChanges \in 0..DappChanges /\ dappRestarts \in 0..Restarts
        BY ServicesAssumption
  <2>6. /\ dappWrites = <<>> /\ keptDapps = agreed /\ readDapps = savedDapps /\ savedDapps = dapps
        /\ early \in BOOLEAN
        OBVIOUS
  <2>7. dapps \in [DappIds -> Dap!Dapp] /\ agreed \in [DappIds -> Dap!Dapp]
        BY CatalogEntry DEF Dap!Dapp
  <2>8. <<>> \in Seq([list : [DappIds -> Dap!Dapp], agreed : [DappIds -> Dap!Dapp]])
        BY EmptySeq
  <2>9. sessions \in [Tabs \X DappIds -> {"none", "new", "open", "gone"}]
        OBVIOUS
  <2> HIDE DEF Dap!Init
  <2> QED  BY <2>5, <2>6, <2>7, <2>8, <2>9 DEF Dap!TypeOK
<1>2. Len(dappWrites) = 0
      OBVIOUS
<1> QED  BY <1>1, <1>2 DEF DapInv, Dap!ConnectionsAreKept, Dap!Combined, DapWritten

\* One dapp of the catalog as it is shown is replaced, if at all by nothing, then not one of the catalog's.
LEMMA DapChanges ==
    ASSUME NEW own \in [DappIds -> Dap!Dapp], NEW id \in DappIds, NEW dapp \in Dap!Dapp,
           id \in Catalog => dapp # None
    PROVE  /\ [Dap!Combined(own) EXCEPT ![id] = dapp] \in [DappIds -> Dap!Dapp]
           /\ Dap!Combined([Dap!Combined(own) EXCEPT ![id] = dapp]) = [Dap!Combined(own) EXCEPT ![id] = dapp]
<1> QED  BY CatalogEntry DEF Dap!Combined

\* What the user and the dapps change is changed in memory, in what is to be stored and in what was
\* agreed alike.
LEMMA DapIsChanged ==
    ASSUME DapInv, NEW id \in DappIds, NEW dapp \in Dap!Dapp, id \in Catalog => dapp # None,
           Dap!Changed, Dap!Set(id, dapp)
    PROVE  DapInv'
<1> DEFINE new == [Dap!Combined(dapps) EXCEPT ![id] = dapp]
<1>1. new \in [DappIds -> Dap!Dapp] /\ Dap!Combined(new) = new
      BY DapChanges DEF DapInv, Dap!TypeOK
<1>2. /\ dapps' = new /\ early' = (early \/ readDapps # None) /\ agreed' = [agreed EXCEPT ![id] = dapp]
      /\ dappWrites' = Append(dappWrites, [list |-> new, agreed |-> agreed'])
      /\ dappChanges' \in 0..DappChanges /\ UNCHANGED <<savedDapps, keptDapps, readDapps, sessions, dappRestarts>>
      BY ServicesAssumption DEF Dap!Changed, Dap!Set, DapInv, Dap!TypeOK
<1>3. agreed' \in [DappIds -> Dap!Dapp] /\ early \in BOOLEAN
      BY <1>2 DEF DapInv, Dap!TypeOK
<1>4. ~early' => Dap!Combined(new) = agreed'
      BY <1>1, <1>2 DEF DapInv, Dap!ConnectionsAreKept
<1> HIDE DEF new
<1>5. PICK w : w = [list |-> new, agreed |-> agreed']
      OBVIOUS
<1>6. w \in DapWrites /\ (~early' => DapWritten(w)) /\ dappWrites' = Append(dappWrites, w)
      BY <1>1, <1>2, <1>3, <1>4, <1>5 DEF DapWrites, DapWritten
<1>7. dappWrites \in Seq(DapWrites)
      BY DEF DapInv, Dap!TypeOK, DapWrites
<1>8. /\ dappWrites' \in Seq(DapWrites)
      /\ \A i \in 1 .. Len(dappWrites') :
            dappWrites'[i] = w \/ \E j \in 1 .. Len(dappWrites) : dappWrites'[i] = dappWrites[j]
      BY <1>6, <1>7, QueueGoes
<1>9. Dap!TypeOK'
      BY <1>1, <1>2, <1>3, <1>8 DEF DapInv, Dap!TypeOK, DapWrites
<1>10. ~early' => \A i \in 1 .. Len(dappWrites') : DapWritten(dappWrites'[i])
       BY <1>2, <1>6, <1>8 DEF DapInv
<1> QED  BY <1>1, <1>2, <1>4, <1>9, <1>10 DEF DapInv, Dap!ConnectionsAreKept, Dap!Combined

\* A write that is done leaves what it is to leave.
LEMMA DapIsWritten == ASSUME DapInv, Dap!Write \/ Dap!WriteFails PROVE DapInv'
<1>1. dappWrites \in Seq(DapWrites)
      BY DEF DapInv, Dap!TypeOK, DapWrites
<1>2. /\ dappWrites # <<>> /\ dappWrites' = Tail(dappWrites)
      /\ UNCHANGED <<dapps, readDapps, sessions, agreed, early, dappChanges, dappRestarts>>
      BY DEF Dap!Write, Dap!WriteFails
<1>3. /\ Head(dappWrites) \in DapWrites /\ dappWrites' \in Seq(DapWrites)
      /\ \E j \in 1 .. Len(dappWrites) : Head(dappWrites) = dappWrites[j]
      /\ \A i \in 1 .. Len(dappWrites') : \E j \in 1 .. Len(dappWrites) : dappWrites'[i] = dappWrites[j]
      BY <1>1, <1>2, QueueGoes
<1>4. ~early => DapWritten(Head(dappWrites)) /\ \A i \in 1 .. Len(dappWrites') : DapWritten(dappWrites'[i])
      BY <1>3 DEF DapInv
<1>5. \/ savedDapps' = Head(dappWrites).list /\ keptDapps' = Head(dappWrites).agreed
      \/ UNCHANGED <<savedDapps, keptDapps>>
      BY DEF Dap!Write, Dap!WriteFails
<1>6. Dap!TypeOK'
      BY <1>2, <1>3, <1>5 DEF DapInv, Dap!TypeOK, DapWrites
<1> QED  BY <1>2, <1>4, <1>5, <1>6 DEF DapInv, Dap!ConnectionsAreKept, Dap!Combined, DapWritten

\* What is loaded is what was agreed, and the sessions do not matter.
LEMMA DapInvNext == ASSUME DapInv, [Dap!Next]_dapVars PROVE DapInv'
<1>1. ASSUME NEW id \in DappIds, NEW connected \in BOOLEAN, NEW owner \in Wallets,
             Dap!AddDapp(id, [connected |-> connected, account |-> owner])
      PROVE  DapInv'
  <2>2. /\ [connected |-> connected, account |-> owner] # None
        /\ [connected |-> connected, account |-> owner] \in Dap!Dapp
        BY ServicesAssumption DEF Dap!Dapp
  <2> QED  BY <1>1, <2>2, DapIsChanged DEF Dap!AddDapp, Dap!UpdateDapp
<1>2. ASSUME NEW id \in DappIds, Dap!RemoveDapp(id) PROVE DapInv'
      BY <1>2, DapIsChanged DEF Dap!RemoveDapp, Dap!Dapp
<1>3. ASSUME Dap!Load PROVE DapInv'
      BY <1>3 DEF Dap!Load, DapInv, Dap!TypeOK, Dap!ConnectionsAreKept, Dap!Combined, DapWritten
<1>4. ASSUME Dap!Restart PROVE DapInv'
      BY <1>4, ServicesAssumption DEF DapInv, Dap!TypeOK, Dap!ConnectionsAreKept, Dap!Combined, Dap!Restart,
         Dap!Dapp, DapWritten
<1>5. ASSUME NEW tab \in Tabs, NEW id \in DappIds,
             \/ Dap!GetOrCreateDappSession(tab, id) \/ Dap!SetSessionMessenger(tab, id)
             \/ Dap!TabClosed(tab, id) \/ Dap!DeleteDappSession(tab, id)
      PROVE  DapInv'
  <2>1. UNCHANGED Dap!storeVars /\ sessions' \in [Tabs \X DappIds -> {"none", "new", "open", "gone"}]
        BY <1>5 DEF Dap!GetOrCreateDappSession, Dap!SetSessionMessenger, Dap!TabClosed, Dap!DeleteDappSession,
           DapInv, Dap!TypeOK
  <2> QED  BY <2>1 DEF DapInv, Dap!TypeOK, Dap!ConnectionsAreKept, Dap!storeVars, Dap!Combined, DapWritten
<1>6. ASSUME NEW ids, Dap!BroadcastDappSessionEvent(ids) PROVE DapInv'
      BY <1>6 DEF DapInv, Dap!TypeOK, Dap!ConnectionsAreKept, Dap!storeVars, Dap!Combined, DapWritten,
         Dap!BroadcastDappSessionEvent
<1>7. ASSUME UNCHANGED dapVars PROVE DapInv'
      BY <1>7 DEF dapVars, DapInv, Dap!TypeOK, Dap!ConnectionsAreKept, Dap!Combined, DapWritten
<1> QED  BY <1>1, <1>2, <1>3, <1>4, <1>5, <1>6, <1>7, DapIsWritten DEF Dap!Next

-----------------------------------------------------------------------------
(* AddressBook *)

\* A list holds, of every address that was not added twice, what the user asked for.
BookHolds(list, names, twice) ==
    \A a \in Addresses :
        IF names[a] = None THEN \A c \in list : c.address # a
        ELSE a \notin twice => \E c \in list : c.name = names[a] /\ c.address = a
                                                /\ \A d \in list : d.address = a => d = c
BookWrites ==
    [list : SUBSET Book!Contacts, asked : [Addresses -> Names \cup {None}], doubled : SUBSET Addresses]
BookWritten(w) == BookHolds(w.list, w.asked, w.doubled)
\* Until a load fails that is true of the storage, of every write that is on its way, and of what is
\* shown once it was loaded.
BookInv ==
    /\ Book!TypeOK
    /\ bookLoad = "failed" => spoiled
    /\ bookLoad = "loading" => bookWrites = <<>> /\ asked = keptBook.asked /\ doubled = keptBook.doubled
    /\ ~spoiled => /\ BookHolds(savedContacts, keptBook.asked, keptBook.doubled)
                   /\ \A i \in 1 .. Len(bookWrites) : BookWritten(bookWrites[i])
    /\ ~spoiled /\ bookLoad = "loaded" => BookHolds(contacts, asked, doubled)

\* At first there is none, in memory and in the storage.
LEMMA BookInvInit == ASSUME Book!Init PROVE BookInv
<1>1. bookRestarts \in 0..Restarts /\ edits \in 0..Edits
      BY ServicesAssumption DEF Book!Init
<1>2. /\ contacts = {} /\ savedContacts = {} /\ bookWrites = <<>> /\ bookLoad = "loading"
      /\ asked = [b \in Addresses |-> None] /\ doubled = {} /\ spoiled = FALSE
      /\ keptBook.asked = asked /\ keptBook.doubled = doubled
      BY DEF Book!Init
<1>5. <<>> \in Seq([list : SUBSET Book!Contacts, asked : [Addresses -> Names \cup {None}],
                    doubled : SUBSET Addresses])
      BY EmptySeq
<1>3. Book!TypeOK
      BY <1>1, <1>2, <1>5 DEF Book!Init, Book!TypeOK
<1>4. Len(bookWrites) = 0 /\ BookHolds({}, asked, doubled)
      BY <1>2 DEF BookHolds
<1> QED  BY <1>2, <1>3, <1>4 DEF BookInv

\* A contact is written to the list, and the list is to be stored.
LEMMA BookIsEdited ==
    ASSUME BookInv, Book!MayEdit, NEW list \in SUBSET Book!Contacts, NEW a \in Addresses,
           NEW name \in Names \cup {None}, NEW twice \in SUBSET Addresses,
           Book!Edit(list, [asked EXCEPT ![a] = name], twice),
           ~spoiled => BookHolds(list, asked', doubled')
    PROVE  BookInv'
<1>1. PICK w : w = [list |-> list, asked |-> asked', doubled |-> twice]
      OBVIOUS
<1>2. /\ contacts' = list /\ asked' = [asked EXCEPT ![a] = name] /\ doubled' = twice
      /\ bookWrites' = Append(bookWrites, w) /\ bookLoad # "loading" /\ edits' = edits + 1 /\ edits < Edits
      /\ UNCHANGED <<savedContacts, bookAccounts, bookSelected, bookLoad, keptBook, spoiled, bookRestarts>>
      BY <1>1 DEF Book!Edit, Book!MayEdit
<1>3. asked' \in [Addresses -> Names \cup {None}] /\ edits' \in 0..Edits
      BY <1>2, ServicesAssumption DEF BookInv, Book!TypeOK
<1>4. w \in BookWrites /\ (~spoiled => BookWritten(w)) /\ bookWrites \in Seq(BookWrites)
      BY <1>1, <1>2, <1>3 DEF BookWrites, BookWritten, BookInv, Book!TypeOK
<1>5. /\ bookWrites' \in Seq(BookWrites)
      /\ \A i \in 1 .. Len(bookWrites') :
            bookWrites'[i] = w \/ \E j \in 1 .. Len(bookWrites) : bookWrites'[i] = bookWrites[j]
      BY <1>2, <1>4, QueueGoes
<1>6. Book!TypeOK'
      BY <1>2, <1>3, <1>5 DEF BookInv, Book!TypeOK, BookWrites, Book!Contacts
<1>7. ~spoiled => \A i \in 1 .. Len(bookWrites') : BookWritten(bookWrites'[i])
      BY <1>4, <1>5 DEF BookInv
<1> QED  BY <1>2, <1>6, <1>7 DEF BookInv, BookHolds

\* A write that is done leaves what it is to leave.
LEMMA BookIsWritten == ASSUME BookInv, Book!Write \/ Book!WriteFails PROVE BookInv'
<1>1. bookWrites \in Seq(BookWrites)
      BY DEF BookInv, Book!TypeOK, BookWrites
<1>2. /\ bookWrites # <<>> /\ bookWrites' = Tail(bookWrites)
      /\ UNCHANGED <<contacts, bookAccounts, bookSelected, bookLoad, asked, doubled, spoiled, edits, bookRestarts>>
      BY DEF Book!Write, Book!WriteFails, Book!userVars
<1>3. /\ Head(bookWrites) \in BookWrites /\ bookWrites' \in Seq(BookWrites)
      /\ \E j \in 1 .. Len(bookWrites) : Head(bookWrites) = bookWrites[j]
      /\ \A i \in 1 .. Len(bookWrites') : \E j \in 1 .. Len(bookWrites) : bookWrites'[i] = bookWrites[j]
      BY <1>1, <1>2, QueueGoes
<1>4. ~spoiled => BookWritten(Head(bookWrites)) /\ \A i \in 1 .. Len(bookWrites') : BookWritten(bookWrites'[i])
      BY <1>3 DEF BookInv
<1>5. \/ /\ savedContacts' = Head(bookWrites).list
         /\ keptBook' = [asked |-> Head(bookWrites).asked, doubled |-> Head(bookWrites).doubled]
      \/ UNCHANGED <<savedContacts, keptBook>>
      BY DEF Book!Write, Book!WriteFails, Book!userVars
<1>6. Book!TypeOK'
      BY <1>2, <1>3, <1>5 DEF BookInv, Book!TypeOK, BookWrites
<1>7. ~spoiled => BookHolds(savedContacts', keptBook'.asked, keptBook'.doubled)
      BY <1>4, <1>5 DEF BookInv, BookWritten, BookHolds
<1>8. ~spoiled /\ bookLoad = "loaded" => BookHolds(contacts', asked', doubled')
      BY <1>2 DEF BookInv, BookHolds
<1> QED  BY <1>2, <1>4, <1>6, <1>7, <1>8 DEF BookInv

\* Added: it is the only one, unless there was one that was not shown.
LEMMA BookAdds ==
    ASSUME BookInv, NEW typed \in Book!Typed, NEW name \in Names, Book!AddContact(name, typed)
    PROVE  BookInv'
<1> DEFINE a == typed.of
           new == [address |-> a, name |-> name, createdAt |-> edits]
           list == contacts \cup {new}
           twice == IF Book!Added(a) THEN doubled \cup {a} ELSE doubled
<1>1. /\ a \in Addresses /\ Book!MayEdit /\ Book!Edit(list, [asked EXCEPT ![a] = name], twice)
      /\ asked' = [asked EXCEPT ![a] = name] /\ doubled' = twice
      BY DEF Book!AddContact, Book!Typed, Book!Edit
<1>3. list \subseteq Book!Contacts /\ twice \subseteq Addresses
      BY <1>1 DEF BookInv, Book!TypeOK, Book!Contacts
<1>5. ~spoiled => BookHolds(list, asked', doubled')
  <2> SUFFICES ASSUME ~spoiled, NEW b \in Addresses
               PROVE  IF asked'[b] = None THEN \A c \in list : c.address # b
                      ELSE b \notin doubled' => \E c \in list :
                               /\ c.name = asked'[b] /\ c.address = b
                               /\ \A d \in list : d.address = b => d = c
      BY DEF BookHolds
  <2>3. new.address = a /\ new.name = name
        OBVIOUS
  <2> HIDE DEF new
  <2>5. CASE b = a
        BY <1>1, <2>3, <2>5, ServicesAssumption DEF Book!Added, BookInv, Book!TypeOK
  <2>6. CASE b # a
        BY <1>1, <2>3, <2>6 DEF BookHolds, BookInv, Book!TypeOK, Book!MayEdit
  <2> QED  BY <2>5, <2>6
<1> HIDE DEF a, list
<1> QED  BY <1>1, <1>3, <1>5, BookIsEdited DEF BookInv, Book!TypeOK

\* Renamed: it is still the only one.
LEMMA BookRenames ==
    ASSUME BookInv, NEW typed \in Book!Typed, NEW name \in Names, Book!RenameContact(typed, name)
    PROVE  BookInv'
<1> DEFINE a == typed.of
           Contact == Book!Contacts
           Renamed(c) == IF c.address = a THEN [c EXCEPT !.name = name] ELSE c
           list == {Renamed(c) : c \in contacts}
<1>1. /\ a \in Addresses /\ Book!MayEdit /\ Book!Added(a)
      /\ Book!Edit(list, [asked EXCEPT ![a] = name], doubled)
      /\ asked' = [asked EXCEPT ![a] = name] /\ doubled' = doubled
      BY DEF Book!RenameContact, Book!Typed, Book!Matches, Book!Edit
<1>3. \A c \in contacts : Renamed(c) \in Contact /\ Renamed(c).address = c.address
                          /\ Renamed(c).name = IF c.address = a THEN name ELSE c.name
      BY <1>1 DEF BookInv, Book!TypeOK, Book!Contacts
<1>4. list \subseteq Contact
      BY <1>3
<1>5. ~spoiled => BookHolds(list, asked', doubled')
  <2> SUFFICES ASSUME ~spoiled, NEW b \in Addresses
               PROVE  IF asked'[b] = None THEN \A c \in list : c.address # b
                      ELSE b \notin doubled' => \E c \in list :
                               /\ c.name = asked'[b] /\ c.address = b
                               /\ \A d \in list : d.address = b => d = c
      BY DEF BookHolds
  <2>2. BookHolds(contacts, asked, doubled)
        BY <1>1 DEF BookInv, Book!TypeOK, Book!MayEdit
  <2>4. asked \in [Addresses -> Names \cup {None}]
        BY DEF BookInv, Book!TypeOK
  <2>6. ASSUME asked'[b] # None, b \notin doubled'
        PROVE  \E c \in list : c.name = asked'[b] /\ c.address = b /\ \A d \in list : d.address = b => d = c
    <3>2. PICK c \in contacts : /\ c.name = asked[b] /\ c.address = b
                                /\ \A d \in contacts : d.address = b => d = c
          BY <1>1, <2>2, <2>4, <2>6 DEF BookHolds, Book!Added
    <3>3. Renamed(c) \in list /\ Renamed(c).address = b
          BY <1>3, <3>2
    <3>4. Renamed(c).name = asked'[b]
          BY <1>1, <1>3, <2>4, <3>2
    <3>5. ASSUME NEW d \in list, d.address = b PROVE d = Renamed(c)
      <4>1. PICK e \in contacts : d = Renamed(e)
            OBVIOUS
      <4>2. e.address = b
            BY <1>3, <3>5, <4>1
      <4> QED  BY <3>2, <4>1, <4>2
    <3> QED  BY <3>3, <3>4, <3>5
  <2> HIDE DEF Renamed
  <2> QED  BY <1>1, <1>3, <2>2, <2>4, <2>6, ServicesAssumption DEF BookHolds
<1> HIDE DEF a, list
<1> QED  BY <1>1, <1>4, <1>5, BookIsEdited DEF BookInv, Book!TypeOK

\* Removed: there is none left, however it was typed.
LEMMA BookRemoves ==
    ASSUME BookInv, NEW typed \in Book!Typed, Book!RemoveContact(typed)
    PROVE  BookInv'
<1> DEFINE a == typed.of
           list == {c \in contacts : c.address # a}
           twice == doubled \ {a}
<1>1. /\ a \in Addresses /\ Book!MayEdit
      /\ Book!Edit(list, [asked EXCEPT ![a] = None], twice)
      /\ asked' = [asked EXCEPT ![a] = None] /\ doubled' = twice
      BY DEF Book!RemoveContact, Book!Typed, Book!Matches, Book!Edit
<1>2. list \in SUBSET Book!Contacts /\ twice \in SUBSET Addresses
      BY DEF BookInv, Book!TypeOK
<1>3. ~spoiled => BookHolds(list, asked', doubled')
      BY <1>1 DEF BookHolds, BookInv, Book!TypeOK, Book!MayEdit
<1>4. a \in Addresses /\ None \in Names \cup {None} /\ Book!MayEdit
      BY <1>1
<1>5. Book!Edit(list, [asked EXCEPT ![a] = None], twice)
      BY <1>1
<1> HIDE DEF a, list, twice
<1> QED  BY <1>2, <1>3, <1>4, <1>5, BookIsEdited

\* The book is edited, loaded, or nothing in it changes.
LEMMA BookInvNext == ASSUME BookInv, [Book!Next]_bookVars PROVE BookInv'
<1>1. ASSUME NEW a \in Addresses, Book!SetAccount(a) \/ Book!AddAccount(a) \/ Book!RemoveAccount(a)
      PROVE  BookInv'
      BY <1>1 DEF BookInv, Book!TypeOK, BookHolds, BookWritten, Book!userVars, Book!SetAccount,
         Book!AddAccount, Book!RemoveAccount
<1>2. ASSUME Book!Load PROVE BookInv'
      BY <1>2 DEF Book!Load, BookInv, Book!TypeOK, BookHolds, BookWritten, Book!userVars
<1>3. ASSUME Book!LoadFails PROVE BookInv'
      BY <1>3 DEF Book!LoadFails, BookInv, Book!TypeOK, BookHolds, BookWritten, Book!userVars
<1>4. ASSUME Book!Restart PROVE BookInv'
      BY <1>4, ServicesAssumption DEF Book!Restart, BookInv, Book!TypeOK, BookHolds, BookWritten
<1>5. ASSUME UNCHANGED bookVars PROVE BookInv'
      BY <1>5 DEF bookVars, BookInv, Book!TypeOK, BookHolds, BookWritten
<1> QED  BY <1>1, <1>2, <1>3, <1>4, <1>5, BookAdds, BookRenames, BookRemoves, BookIsWritten
         DEF Book!Next

\* What is stored is what is shown.
LEMMA BookIsQuiet == BookInv => Book!BookIsKept
<1> SUFFICES ASSUME BookInv, bookLoad = "loaded", ~spoiled, NEW a \in Addresses
             PROVE  LET entries == {c \in contacts : c.address = a}
                    IN IF asked[a] = None THEN entries = {}
                       ELSE a \notin doubled => \E c \in entries : entries = {c} /\ c.name = asked[a]
    BY DEF Book!BookIsKept
<1> QED  BY DEF BookHolds, BookInv

-----------------------------------------------------------------------------
(* Phishing *)

Detections == [lists : [Phish!Lists -> 1..Published], age : {"recent", "old"}]
Updating(c) == phishingCalls[c].at \in {"fetching", "storing"}

\* What each call holds.  Nothing is stored or fetched that was not published.
PhishTypes ==
    /\ Phish!TypeOK
    /\ phishingCalls \in [Updaters \cup {LoadCall} ->
          [at : {"idle", "reading", "fetching", "storing"}, read : Detections \cup {None},
           got : [Phish!Lists -> 0..Published]]]
    /\ detection # None => \A l \in Phish!Lists : detection.lists[l] <= published
    /\ \A c \in Updaters \cup {LoadCall} : phishingCalls[c].at = "storing" =>
          \A l \in Phish!Lists : phishingCalls[c].got[l] \in 1..published

\* As long as no two updates ran at once, the one that runs has read what is stored, and the lists in
\* use are at least those, once they have been read.
OneUpdates ==
    /\ \A c, d \in Updaters \cup {LoadCall} : Updating(c) /\ Updating(d) => c = d
    /\ \A c \in Updaters \cup {LoadCall} : Updating(c) => phishingCalls[c].read = detection
    /\ updateStatus = "LOADING" => \E c \in Updaters \cup {LoadCall} : Updating(c)
    /\ phishingCalls[LoadCall].at # "reading" /\ detection # None =>
          \A l \in Phish!Lists : blacklist[l] >= detection.lists[l]
    /\ lastUpdate = "recent" => detection # None /\ detection.age = "recent"
PhishInv == PhishTypes /\ (~overlapped => OneUpdates)

\* At first the stored lists are about to be read.
LEMMA PhishInvInit == ASSUME Phish!Init PROVE PhishInv
<1>1. PhishTypes
  <2>1. /\ [lists |-> [l \in Phish!Lists |-> 1], age |-> "old"] \in Detections
        /\ Phish!NoLists \in [Phish!Lists -> 0..Published]
        BY ServicesAssumption DEF Detections, Phish!NoLists
  <2> HIDE DEF Detections, Phish!NoLists, Phish!Lists
  <2>5. Phish!TypeOK
    <3>2. published \in 1..Published /\ phishingRestarts \in 0..Restarts
          BY ServicesAssumption DEF Phish!Init
    <3> QED  BY <2>1, <3>2 DEF Phish!TypeOK, Detections, Phish!Init, Phish!Idle
  <2> QED  BY <2>1, <2>5 DEF PhishTypes, Phish!Init, Phish!Idle
<1> QED  BY <1>1, ServicesAssumption DEF PhishInv, Phish!Init, OneUpdates, Updating, Phish!Idle

\* What an update that ends puts in use are lists.
LEMMA Kept ==
    ASSUME NEW call \in [at : {"fetching", "storing"}, read : Detections \cup {None},
                         got : [Phish!Lists -> 0..Published]]
    PROVE  Phish!Fallback(call) \in [Phish!Lists -> 0..Published]
<1> QED  BY ServicesAssumption DEF Phish!Fallback, Detections

\* A call that ends holds nothing.
LEMMA UpdateEnds ==
    Phish!Idle = [at |-> "idle", read |-> None, got |-> [l \in Phish!Lists |-> 0]]
    /\ Phish!Idle \in [at : {"idle"}, read : {None}, got : [Phish!Lists -> 0..Published]]
BY ServicesAssumption DEF Phish!Idle, Phish!NoLists

\* An update that ends puts at least what was stored in use.
LEMMA PhishInvNext == ASSUME PhishInv, [Phish!Next]_phishVars PROVE PhishInv'
<1> DEFINE C == Updaters \cup {LoadCall}
<1>d. DOMAIN phishingCalls = C
      BY DEF PhishInv, PhishTypes
<1>1. ASSUME NEW c \in Updaters, Phish!UpdateIfNeeded(c) PROVE PhishInv'
  <2>3. ASSUME ~overlapped PROVE OneUpdates'
        BY <1>1, <2>3 DEF PhishInv, PhishTypes, OneUpdates, Phish!UpdateIfNeeded, Phish!Goes, Phish!Idle,
           Updating
  <2> QED  BY <1>1, <2>3, ServicesAssumption DEF PhishInv, Phish!UpdateIfNeeded, PhishTypes, Phish!TypeOK,
              Phish!Goes, Phish!Idle, Phish!NoLists
<1>2. ASSUME NEW c \in C, Phish!Read(c) PROVE PhishInv'
  <2>1. phishingCalls[c].at = "reading" /\ UNCHANGED <<published, detection, lastUpdate, phishingRestarts>>
        BY <1>2 DEF Phish!Read
  <2>2. CASE phishingCalls' = [phishingCalls EXCEPT ![c] = Phish!Idle] /\ UNCHANGED <<blacklist, updateStatus, overlapped>> /\ c # LoadCall
    <3>2. ASSUME ~overlapped PROVE OneUpdates'
          BY <2>1, <2>2, <3>2, UpdateEnds DEF PhishInv, PhishTypes, OneUpdates, Updating
    <3> QED  BY <2>1, <2>2, <3>2, UpdateEnds DEF PhishInv, PhishTypes, Phish!TypeOK
  <2>3. CASE /\ phishingCalls' = [phishingCalls EXCEPT ![c] = [at |-> "fetching", read |-> detection, got |-> Phish!NoLists]]
             /\ blacklist' = IF c = LoadCall /\ detection # None THEN detection.lists ELSE blacklist
             /\ updateStatus' = "LOADING"
             /\ overlapped' = (overlapped \/ \E d \in C : Updating(d))
    <3> DEFINE begun == [at |-> "fetching", read |-> detection, got |-> Phish!NoLists]
    <3>1. /\ detection \in Detections \cup {None}
          /\ detection # None => detection.lists \in [Phish!Lists -> 0..Published]
          BY ServicesAssumption DEF PhishInv, PhishTypes, Phish!TypeOK, Detections
    <3>3. /\ begun \in [at : {"fetching"}, read : Detections \cup {None}, got : [Phish!Lists -> 0..Published]]
          /\ begun.read = detection
          BY <3>1, ServicesAssumption DEF Phish!NoLists
    <3>4. phishingCalls' = [phishingCalls EXCEPT ![c] = begun]
          BY <2>3
    <3> HIDE DEF begun
    <3>6. ASSUME ~overlapped' PROVE OneUpdates'
      <4>3. phishingCalls'[LoadCall].at # "reading" /\ detection # None =>
                \A l \in Phish!Lists : blacklist'[l] >= detection.lists[l]
        <5>1. CASE c = LoadCall
              BY <2>3, <3>1, <5>1, ServicesAssumption
        <5>2. CASE c # LoadCall
              BY <2>3, <3>6, <5>2 DEF PhishInv, OneUpdates, PhishTypes
        <5> QED  BY <5>1, <5>2
      <4> QED  BY <2>1, <2>3, <3>3, <3>4, <3>6, <4>3 DEF PhishInv, OneUpdates, PhishTypes, Updating
    <3> QED  BY <2>1, <2>3, <3>1, <3>3, <3>4, <3>6 DEF PhishInv, PhishTypes, Phish!TypeOK
  <2> QED  BY <1>2, <1>d, <2>2, <2>3 DEF Phish!Read, Phish!Goes, Updating
<1>3. ASSUME NEW c \in C, NEW missing \in SUBSET Phish!Lists, Phish!Fetched(c, missing) PROVE PhishInv'
  <2> DEFINE call == [phishingCalls[c] EXCEPT !.got = [l \in Phish!Lists |-> IF l \in missing THEN 0 ELSE published]]
  <2>1. /\ phishingCalls[c].at = "fetching" /\ published \in 1..Published
        /\ call \in [at : {"fetching"}, read : Detections \cup {None}, got : [Phish!Lists -> 0..Published]]
        /\ call.read = phishingCalls[c].read
        /\ \A l \in Phish!Lists : call.got[l] = IF l \in missing THEN 0 ELSE published
        BY <1>3, ServicesAssumption DEF PhishInv, PhishTypes, Phish!TypeOK, Phish!Fetched
  <2>2. UNCHANGED <<published, detection, overlapped, phishingRestarts>>
        BY <1>3 DEF Phish!Fetched
  <2> HIDE DEF call
  <2>3. CASE missing = {}
    <3>1. /\ phishingCalls' = [phishingCalls EXCEPT ![c] = [call EXCEPT !.at = "storing"]]
          /\ UNCHANGED <<blacklist, updateStatus, lastUpdate>>
          BY <1>3, <2>3 DEF Phish!Fetched, Phish!Goes, call
    <3>4. ASSUME ~overlapped PROVE OneUpdates'
          BY <2>1, <2>2, <3>1, <3>4 DEF PhishInv, PhishTypes, OneUpdates, Updating
    <3> QED  BY <2>1, <2>2, <2>3, <3>1, <3>4 DEF PhishInv, PhishTypes, Phish!TypeOK
  <2>4. CASE missing # {}
    <3>1. /\ phishingCalls' = [phishingCalls EXCEPT ![c] = Phish!Idle]
          /\ blacklist' = Phish!Fallback(call) /\ updateStatus' = "INITIAL"
          /\ lastUpdate' = IF lastUpdate = None /\ call.read # None THEN call.read.age ELSE lastUpdate
          BY <1>3, <2>4 DEF Phish!Fetched, Phish!Goes, Phish!Ends, call
    <3>4. ASSUME ~overlapped PROVE OneUpdates'
          BY <2>1, <2>2, <3>1, <3>4, ServicesAssumption DEF OneUpdates, PhishInv, PhishTypes, Updating,
             Phish!Idle, Phish!TypeOK, Phish!Fallback
    <3> QED  BY <2>1, <2>2, <3>1, <3>4, Kept, UpdateEnds DEF PhishInv, PhishTypes, Phish!TypeOK, Detections
  <2> QED  BY <2>3, <2>4
<1>4. ASSUME NEW c \in C, Phish!Stored(c) PROVE PhishInv'
  <2> DEFINE got == phishingCalls[c].got
  <2>1. /\ phishingCalls[c].at = "storing" /\ got \in [Phish!Lists -> 1..Published]
        /\ \A l \in Phish!Lists : got[l] <= published /\ got[l] # 0
        /\ published \in 1..Published
        /\ phishingCalls[c] \in [at : {"storing"}, read : Detections \cup {None}, got : [Phish!Lists -> 0..Published]]
        BY <1>4, ServicesAssumption DEF PhishInv, PhishTypes, Phish!TypeOK, Phish!Stored
  <2>2. /\ UNCHANGED <<published, overlapped, phishingRestarts>>
        /\ phishingCalls' = [phishingCalls EXCEPT ![c] = Phish!Idle]
        /\ detection' = [lists |-> got, age |-> "recent"] /\ lastUpdate' = "recent" /\ updateStatus' = "INITIAL"
        /\ blacklist' = Phish!Fallback(phishingCalls[c])
        BY <1>4 DEF Phish!Stored, Phish!Ends, Phish!Goes
  <2>6. ASSUME ~overlapped PROVE OneUpdates'
        BY <2>1, <2>2, <2>6, ServicesAssumption DEF OneUpdates, Phish!Fallback, Detections, PhishInv,
           PhishTypes, Updating, Phish!Idle
  <2> QED  BY <2>1, <2>2, <2>6, UpdateEnds, ServicesAssumption DEF PhishInv, PhishTypes, Phish!TypeOK,
              Detections, Phish!Fallback
<1>5. ASSUME Phish!Publish PROVE PhishInv'
      BY <1>5, ServicesAssumption DEF PhishInv, PhishTypes, Phish!TypeOK, OneUpdates, Phish!Publish, Updating, Detections
<1>6. ASSUME Phish!SixHoursPass PROVE PhishInv'
      BY <1>6, <1>d, ServicesAssumption DEF PhishInv, PhishTypes, Phish!TypeOK, OneUpdates, Phish!SixHoursPass, Updating, Detections
<1>7. ASSUME Phish!Restart PROVE PhishInv'
  <2>3. /\ phishingCalls' = [c \in C |-> IF c = LoadCall THEN [Phish!Idle EXCEPT !.at = "reading"] ELSE Phish!Idle]
        /\ lastUpdate' = None /\ updateStatus' = "INITIAL" /\ overlapped' = FALSE
        /\ phishingRestarts' \in 0..Restarts /\ blacklist' \in [Phish!Lists -> 0..Published]
        /\ UNCHANGED <<published, detection>>
        BY <1>7, <1>d, ServicesAssumption DEF Phish!Restart, Phish!NoLists, PhishInv, PhishTypes, Phish!TypeOK
  <2> QED  BY <2>3, ServicesAssumption, UpdateEnds DEF PhishInv, PhishTypes, Phish!TypeOK, OneUpdates,
              Updating, Phish!Idle, Phish!NoLists
<1>8. ASSUME UNCHANGED phishVars PROVE PhishInv'
      BY <1>8 DEF phishVars, PhishInv, PhishTypes, Phish!TypeOK, OneUpdates, Updating
<1> QED  BY <1>d, <1>1, <1>2, <1>3, <1>4, <1>5, <1>6, <1>7, <1>8 DEF Phish!Next

\* When no call runs, the status is that of no update.
LEMMA PhishIsQuiet == ASSUME PhishInv PROVE Phish!TypeOK /\ Phish!QuietBlacklistIsKept
<1> DEFINE C == Updaters \cup {LoadCall}
<1>2. ASSUME \A c \in C : phishingCalls[c].at = "idle", ~overlapped PROVE Phish!QuietBlacklistIsKept
      BY <1>2 DEF OneUpdates, Phish!QuietBlacklistIsKept, PhishInv, PhishTypes, Phish!TypeOK, Updating
<1> QED  BY <1>2 DEF Phish!QuietBlacklistIsKept, PhishInv, PhishTypes, Phish!TypeOK

-----------------------------------------------------------------------------
(* Domains *)

\* Every address is looked up once or not at all; what is shown of it is a name or that it has none.
DomInv ==
    /\ Dom!TypeOK
    /\ domains \in [Addresses -> [ens : Names \cup {None}, expired : BOOLEAN] \cup {None}]
    /\ lookups \in [Addresses -> {0, 1}]
    /\ \A a \in Addresses : resolved[a] # None => domains[a] # None
    /\ Dom!LookupsAreShown

\* At first nothing is looked up.
LEMMA DomInvInit == ASSUME Dom!Init PROVE DomInv
BY ServicesAssumption DEF Dom!Init, DomInv, Dom!TypeOK, Dom!LookupsAreShown

\* A lookup begins only for an address that does not load, and ends the loading.
LEMMA DomInvNext == ASSUME DomInv, [Dom!Next]_domVars PROVE DomInv'
<1> USE ServicesAssumption DEF DomInv, Dom!TypeOK, Dom!LookupsAreShown
<1>1. ASSUME NEW addrs \in SUBSET Addresses, Dom!BatchReverseLookup(addrs) PROVE DomInv'
      BY <1>1 DEF Dom!Needed, Dom!BatchReverseLookup
<1>2. ASSUME NEW a \in Addresses, NEW name \in Names \cup {None}, Dom!Found(a, name) PROVE DomInv'
  <2>1. lookups[a] = 1
        BY <1>2 DEF Dom!Found
  <2> QED  BY <1>2, <2>1 DEF Dom!Found
<1>3. ASSUME NEW a \in Addresses, NEW name \in Names, Dom!SaveResolvedReverseLookup(a, name) PROVE DomInv'
  <2>4. domains'[a] # None /\ domains'[a].ens = name /\ resolved'[a] \in {name, None}
    <3>1. [ens |-> name, expired |-> FALSE] \in [ens : Names \cup {None}, expired : BOOLEAN]
          OBVIOUS
    <3> QED  BY <1>3, <3>1 DEF Dom!SaveResolvedReverseLookup
  <2> QED  BY <1>3, <2>4 DEF Dom!SaveResolvedReverseLookup
<1>4. ASSUME Dom!QuarterPasses PROVE DomInv'
      BY <1>4 DEF Dom!QuarterPasses
<1>5. ASSUME UNCHANGED domVars PROVE DomInv'
      BY <1>5 DEF domVars
<1> QED  BY <1>1, <1>2, <1>3, <1>4, <1>5 DEF Dom!Next

-----------------------------------------------------------------------------
(* KeystoreSeeds *)

SeedEntry == [id : 1..Adds, phrase : Phrases, pass : Passphrases \cup {Null}, label : 0..Adds, path : Paths]
SeedCall == [stage : {"idle", "begun", "storing", "done"}, seed : Seed!Given \cup {None}, id : 0..Adds,
             label : {0, None}, path : Paths \cup {None}]
SeedWrite == [list : SUBSET SeedEntry, live : BOOLEAN, by : Seed!Methods]
\* A list has no more seeds than were added.
SeedList(list, n) == list \subseteq SeedEntry /\ IsFiniteSet(list) /\ Cardinality(list) <= n

SeedTypes ==
    /\ unlocked \in BOOLEAN /\ seedOvertaken \in BOOLEAN
    /\ tempSeed \in Seed!Given \cup {None} /\ wanted \in Seed!Given \cup {None}
    /\ SeedList(seeds, seedAdds) /\ SeedList(savedSeeds, seedAdds)
    /\ seedWrites \in Seq(SeedWrite)
    /\ \A i \in DOMAIN seedWrites : SeedList(seedWrites[i].list, seedAdds)
    /\ seedCalls \in [Seed!Methods -> SeedCall]
    /\ seedsAsked \subseteq Phrases \X (Passphrases \cup {Null})
    /\ seedAdds \in 0..Adds /\ seedTurns \in 0..SeedTurns /\ seedRestarts \in 0..Restarts

\* A list has the seed, and has it as the one that a call has added.
Has(list, seed) == \E entry \in list : Seed!SeedOf(entry) = seed
Holds(list, call) == \E entry \in list : entry.id = call.id /\ Seed!SeedOf(entry) = Seed!SeedOf(call.seed)
\* A call whose write is queued awaits it, has one write, and what it added is in every list to be
\* written from then on, unless it was deleted.  So are the seeds that are asked for, and the last
\* list to be written is what is shown.
SeedQueue ==
    /\ \A i \in DOMAIN seedWrites : seedCalls[seedWrites[i].by].stage = "storing"
    /\ \A i, j \in DOMAIN seedWrites : seedWrites[i].by = seedWrites[j].by => i = j
    /\ IF seedWrites = <<>> THEN savedSeeds = seeds ELSE seedWrites[Len(seedWrites)].live
    /\ \A seed \in seedsAsked :
          /\ Has(savedSeeds, seed) /\ Has(seeds, seed)
          /\ \A i \in DOMAIN seedWrites : Has(Seed!Held(i), seed)
    /\ \A i \in DOMAIN seedWrites : LET call == seedCalls[seedWrites[i].by] IN
          call.seed # None /\ (\E entry \in seeds : entry.id = call.id) =>
             Holds(seeds, call) /\ \A j \in DOMAIN seedWrites : i <= j => Holds(Seed!Held(j), call)
    /\ \A m \in Seed!Methods : seedCalls[m].seed # None => seedCalls[m].id <= seedAdds
\* The temporary seed is what is wanted, and what is being persisted is that seed.
SeedTemp ==
    LET call == seedCalls["persistTempSeed"] IN
    /\ tempSeed # None => wanted # None
    /\ wanted # None /\ ~seedOvertaken => tempSeed = wanted
    /\ call.stage \in {"idle", "storing"}
    /\ call.stage = "storing" => call.seed # None
    /\ call.stage = "storing" /\ wanted # None /\ ~seedOvertaken => Seed!SeedOf(wanted) = Seed!SeedOf(call.seed)
\* The call that adds a seed was given one, the others refer to one by its id.
SeedGiven ==
    /\ seedCalls["addSeed"].stage = "begun" => seedCalls["addSeed"].seed # None
    /\ seedCalls["updateSeed"].seed = None /\ seedCalls["deleteSeed"].seed = None
SeedInv == SeedTypes /\ SeedQueue /\ SeedTemp /\ SeedGiven

\* No call runs and there is no seed.
LEMMA SeedInvInit == ASSUME Seed!Init PROVE SeedInv
<1>4. SeedTypes
  <2>2. unlocked \in BOOLEAN /\ seedOvertaken \in BOOLEAN
        BY DEF Seed!Init
  <2> QED  BY <2>2, FS_EmptySet, ServicesAssumption DEF SeedTypes, Seed!Init, SeedList, SeedCall, Seed!Idle
<1> QED  BY <1>4, ServicesAssumption DEF SeedInv, SeedQueue, SeedTemp, SeedGiven, Seed!Init, SeedCall,
            Seed!Idle, Seed!Methods

\* The queue is a sequence of writes, each of a method.
LEMMA WritesAreTyped ==
    ASSUME SeedTypes
    PROVE  /\ DOMAIN seedWrites = 1..Len(seedWrites) /\ Len(seedWrites) \in Nat
           /\ \A i \in DOMAIN seedWrites : /\ seedWrites[i] \in SeedWrite /\ seedWrites[i].by \in Seed!Methods
                                           /\ seedWrites[i].live \in BOOLEAN
                                           /\ SeedList(seedWrites[i].list, seedAdds)
                                           /\ SeedList(Seed!Held(i), seedAdds)
<1>3. \A i \in DOMAIN seedWrites : seedWrites[i] \in SeedWrite
      BY DEF SeedTypes
<1> QED  BY <1>3 DEF SeedWrite, Seed!Held, SeedTypes

\* Calls whose write is not queued may change.
LEMMA CallsMayChange ==
    ASSUME SeedTypes, SeedQueue, UNCHANGED <<seeds, savedSeeds, seedWrites, seedsAsked, seedAdds>>,
           \A m \in Seed!Methods : seedCalls[m].stage = "storing" => seedCalls'[m] = seedCalls[m],
           \A m \in Seed!Methods : seedCalls'[m].seed # None => seedCalls'[m].id <= seedAdds
    PROVE  SeedQueue'
<1> QED  BY WritesAreTyped DEF SeedQueue, Seed!Held

\* A set of entries has a first one.
LEMMA FirstIsOne ==
    ASSUME NEW list, list \subseteq SeedEntry, list # {}
    PROVE  Seed!First(list) \in list
<1> DEFINE ids == {entry.id : entry \in list}
<1>1. ids \subseteq Nat /\ ids # {}
      BY DEF SeedEntry
<1> HIDE DEF ids
<1>2. PICK n \in ids : \A m \in ids : n <= m
      BY <1>1, LeastNumber
<1> QED  BY <1>2 DEF Seed!First, ids

\* A call that takes the picker's path is of the seed that is found.
LEMMA PathIsTaken ==
    ASSUME NEW given, NEW way \in Paths \cup {None}, NEW before \in [Seed!Methods -> SeedCall], SeedTypes,
           Seed!TakePath(given, way, before)
    PROVE  /\ seedCalls' \in [Seed!Methods -> SeedCall]
           /\ \A m \in Seed!Methods : seedCalls'[m] # before[m] =>
                 m = "updateSeed" /\ before[m].stage = "idle" /\ seedCalls'[m].seed = None
<1> DEFINE found == Seed!FindSeed(given)
           new == [stage |-> "begun", seed |-> None, id |-> Seed!First(found).id, label |-> None, path |-> way]
<1>1. CASE unlocked /\ found # {} /\ before["updateSeed"].stage = "idle"
  <2>2. Seed!First(found) \in found
        BY <1>1, FirstIsOne DEF SeedTypes, SeedList, Seed!FindSeed
  <2>4. new \in SeedCall /\ new.seed = None
        BY <2>2 DEF SeedCall, SeedEntry, SeedTypes, SeedList, Seed!FindSeed
  <2>5. seedCalls' = [before EXCEPT !["updateSeed"] = new]
        BY <1>1 DEF Seed!TakePath
  <2> HIDE DEF new
  <2> QED  BY <1>1, <2>4, <2>5
<1>2. CASE ~(unlocked /\ found # {} /\ before["updateSeed"].stage = "idle")
      BY <1>2 DEF Seed!TakePath
<1> QED  BY <1>1, <1>2

\* A given seed and the entry that is made of it are the same seed.
LEMMA GivenSeeds ==
    ASSUME NEW given \in Seed!Given
    PROVE  /\ Seed!Kept(given.pass) \in Passphrases \cup {Null}
           /\ Seed!SeedOf(given) \in Phrases \X (Passphrases \cup {Null})
           /\ given # None
           /\ \A entry : entry.phrase = given.phrase /\ entry.pass = Seed!Kept(given.pass) =>
                 Seed!SeedOf(entry) = Seed!SeedOf(given)
           /\ \A entry : Seed!Same(entry, given) => Seed!SeedOf(entry) = Seed!SeedOf(given)
BY ServicesAssumption DEF Seed!Given, Seed!Kept, Seed!NoPassphrase, Seed!SeedOf, Seed!Same

\* Nothing but the calls, the temporary seed and what is wanted changes.
SeedsStay == UNCHANGED <<seeds, savedSeeds, seedWrites, seedsAsked, seedAdds>>

\* The types of what stays and of what changes.
LEMMA SeedTypesStay ==
    ASSUME SeedTypes, SeedsStay, unlocked' \in BOOLEAN, seedOvertaken' \in BOOLEAN,
           tempSeed' \in Seed!Given \cup {None}, wanted' \in Seed!Given \cup {None},
           seedCalls' \in [Seed!Methods -> SeedCall], Seed!Turn \/ UNCHANGED seedTurns, UNCHANGED seedRestarts
    PROVE  SeedTypes'
<1> QED  BY ServicesAssumption DEF SeedTypes, SeedsStay, Seed!Turn

\* The temporary seed is set, changed, given up or locked away.
LEMMA TempSeedChanges ==
    ASSUME SeedInv,
           \/ \E given \in Seed!Given : Seed!AddTempSeed(given)
           \/ Seed!DeleteTempSeed \/ Seed!Unlock \/ Seed!Lock
           \/ \E way \in Paths : Seed!ChangeTempSeedHdPath(way)
    PROVE  SeedInv'
<1>1. SeedsStay /\ UNCHANGED <<seedCalls, seedRestarts>> /\ (Seed!Turn \/ UNCHANGED seedTurns)
      BY DEF SeedsStay, Seed!AddTempSeed, Seed!DeleteTempSeed, Seed!Unlock, Seed!Lock, Seed!ChangeTempSeedHdPath
<1>4. /\ tempSeed' \in Seed!Given \cup {None} /\ wanted' \in Seed!Given \cup {None}
      /\ SeedTemp'
  <2>1. ASSUME NEW given \in Seed!Given, Seed!AddTempSeed(given)
        PROVE  tempSeed' \in Seed!Given \cup {None} /\ wanted' \in Seed!Given \cup {None} /\ SeedTemp'
        BY <1>1, <2>1 DEF Seed!AddTempSeed, SeedInv, SeedTemp
  <2>2. ASSUME Seed!DeleteTempSeed \/ Seed!Lock
        PROVE  tempSeed' \in Seed!Given \cup {None} /\ wanted' \in Seed!Given \cup {None} /\ SeedTemp'
        BY <1>1, <2>2 DEF Seed!DeleteTempSeed, Seed!Lock, SeedInv, SeedTemp
  <2>3. ASSUME Seed!Unlock
        PROVE  tempSeed' \in Seed!Given \cup {None} /\ wanted' \in Seed!Given \cup {None} /\ SeedTemp'
        BY <1>1, <2>3 DEF Seed!Unlock, SeedInv, SeedTypes, SeedTemp
  <2>4. ASSUME NEW way \in Paths, Seed!ChangeTempSeedHdPath(way)
        PROVE  tempSeed' \in Seed!Given \cup {None} /\ wanted' \in Seed!Given \cup {None} /\ SeedTemp'
        BY <1>1, <2>4, GivenSeeds DEF SeedInv, SeedTemp, Seed!Given, SeedTypes, Seed!ChangeTempSeedHdPath,
           Seed!SeedOf, Seed!Kept, Seed!NoPassphrase
  <2> QED  BY <2>1, <2>2, <2>3, <2>4
<1>6. SeedTypes'
      BY <1>1, <1>4, SeedTypesStay DEF SeedInv, SeedTypes, Seed!AddTempSeed, Seed!DeleteTempSeed,
         Seed!Unlock, Seed!Lock, Seed!ChangeTempSeedHdPath
<1> QED  BY <1>1, <1>4, <1>6, CallsMayChange DEF SeedInv, SeedGiven, SeedsStay, SeedQueue

\* A call starts, of which no write is queued.
LEMMA SeedCallStarts ==
    ASSUME SeedInv, NEW m \in Seed!Methods \ {"persistTempSeed"}, NEW call \in SeedCall, Seed!Start(m, call),
           call.seed # None => call.id = 0, m # "addSeed" => call.seed = None, m = "addSeed" => call.seed # None
    PROVE  SeedInv'
<1> DEFINE new == [call EXCEPT !.stage = "begun"]
<1>1. /\ SeedsStay /\ UNCHANGED <<unlocked, tempSeed, wanted, seedOvertaken, seedRestarts>> /\ Seed!Turn
      /\ seedCalls[m].stage = "idle" /\ seedCalls' = [seedCalls EXCEPT ![m] = new]
      BY DEF Seed!Start, Seed!MayStart, SeedsStay
<1>2. new \in SeedCall /\ new.seed = call.seed /\ new.id = call.id
      BY DEF SeedCall
<1> HIDE DEF new
<1>3. seedCalls \in [Seed!Methods -> SeedCall] /\ seedAdds \in Nat
      BY ServicesAssumption DEF SeedInv, SeedTypes
<1> QED  BY <1>1, <1>2, <1>3, SeedTypesStay, CallsMayChange DEF SeedInv, SeedTemp, Seed!Methods, SeedTypes,
            SeedsStay, SeedQueue, SeedGiven

\* A call returns.
LEMMA SeedCallReturns ==
    ASSUME SeedInv, NEW m \in Seed!Methods, Seed!Return(m)
    PROVE  SeedInv'
<1>2. Seed!Idle \in SeedCall /\ Seed!Idle.seed = None
      BY ServicesAssumption DEF SeedCall, Seed!Idle
<1>10. SeedGiven'
       BY <1>2 DEF SeedInv, SeedGiven, Seed!Idle, Seed!Methods, SeedTemp, Seed!Return, SeedsStay, SeedTypes
<1> QED  BY <1>2, <1>10, SeedTypesStay, CallsMayChange DEF SeedInv, SeedTemp, Seed!Methods, SeedTypes,
            SeedsStay, SeedQueue, Seed!Return

\* The picker's path is taken.
LEMMA SeedIsPicked ==
    ASSUME SeedInv, NEW given \in Seed!Given, NEW way \in Paths, Seed!PickedFromSeed(given, way)
    PROVE  SeedInv'
<1>3. /\ seedCalls' \in [Seed!Methods -> SeedCall]
      /\ \A m \in Seed!Methods : seedCalls'[m] # seedCalls[m] =>
                 m = "updateSeed" /\ seedCalls[m].stage = "idle" /\ seedCalls'[m].seed = None
      BY PathIsTaken DEF SeedInv, SeedTypes, Seed!PickedFromSeed, SeedsStay
<1> QED  BY <1>3, SeedTypesStay, CallsMayChange DEF SeedInv, SeedTemp, SeedGiven, SeedTypes, SeedsStay,
            SeedQueue, Seed!PickedFromSeed, Seed!Methods

\* What is queued when a call adds a seed, or changes those that there are.
SeedIsQueued(list, kept, m) ==
    /\ seeds' = list
    /\ \A i \in DOMAIN seedWrites : /\ seedWrites'[i].by = seedWrites[i].by
                                    /\ Seed!Held(i)' = kept[i]
    /\ seedWrites' \in Seq(SeedWrite) /\ Len(seedWrites') = Len(seedWrites) + 1
    /\ seedWrites'[Len(seedWrites')].by = m /\ seedWrites'[Len(seedWrites')].live

\* Every list keeps its seeds, those of the calls that run and those that are asked for.
LEMMA QueueIsExtended ==
    ASSUME SeedTypes, SeedQueue, NEW m \in Seed!Methods, NEW list, NEW kept,
           SeedIsQueued(list, kept, m), UNCHANGED savedSeeds,
           seedCalls' \in [Seed!Methods -> SeedCall], seedCalls[m].stage # "storing",
           \A n \in Seed!Methods : seedCalls[n].stage = "storing" => seedCalls'[n] = seedCalls[n],
           seedCalls'[m].stage = "storing",
           seedCalls'[m].seed # None /\ (\E entry \in list : entry.id = seedCalls'[m].id) => Holds(list, seedCalls'[m]),
           \A n \in Seed!Methods : seedCalls'[n].seed # None => seedCalls'[n].id <= seedAdds',
           seedsAsked' \subseteq seedsAsked,
           \A seed \in seedsAsked' : Has(seeds, seed) => Has(list, seed),
           \A i \in DOMAIN seedWrites : \A seed \in seedsAsked : Has(Seed!Held(i), seed) => Has(kept[i], seed),
           \A n \in Seed!Methods : LET call == seedCalls[n] IN
              call.stage = "storing" /\ call.seed # None /\ (\E entry \in list : entry.id = call.id) =>
                 /\ \E entry \in seeds : entry.id = call.id
                 /\ Holds(seeds, call) => Holds(list, call)
                 /\ \A i \in DOMAIN seedWrites : Holds(Seed!Held(i), call) => Holds(kept[i], call)
    PROVE  SeedQueue'
<1>1. /\ DOMAIN seedWrites = 1..Len(seedWrites) /\ Len(seedWrites) \in Nat
      /\ \A i \in DOMAIN seedWrites : seedWrites[i].by \in Seed!Methods
      BY WritesAreTyped
<1>0. PICK end \in Nat : end = Len(seedWrites) + 1
      BY <1>1
<1>2. /\ DOMAIN seedWrites' = DOMAIN seedWrites \cup {end} /\ Len(seedWrites') = end /\ seedWrites' # <<>>
      /\ end \notin DOMAIN seedWrites /\ \A i \in DOMAIN seedWrites : i < end
      /\ end \in DOMAIN seedWrites'
      BY <1>0, <1>1 DEF SeedIsQueued
<1>3. /\ seedWrites'[end].by = m /\ seedWrites'[end].live /\ Seed!Held(end)' = list
      BY <1>2 DEF SeedIsQueued, Seed!Held
<1>9. ASSUME NEW i \in DOMAIN seedWrites', NEW call, call = seedCalls'[seedWrites'[i].by],
             call.seed # None, \E entry \in list : entry.id = call.id
      PROVE  Holds(list, call) /\ \A j \in DOMAIN seedWrites' : i <= j => Holds(Seed!Held(j)', call)
  <2>1. CASE i = end
        BY <1>1, <1>2, <1>3, <1>9, <2>1
  <2>2. CASE i \in DOMAIN seedWrites
        BY <1>1, <1>2, <1>3, <1>9, <2>2 DEF SeedIsQueued, SeedQueue
  <2> QED  BY <1>2, <2>1, <2>2
<1>12. \A i \in DOMAIN seedWrites' : LET call == seedCalls'[seedWrites'[i].by] IN
          call.seed # None /\ (\E entry \in seeds' : entry.id = call.id) =>
             Holds(seeds', call) /\ \A j \in DOMAIN seedWrites' : i <= j => Holds(Seed!Held(j)', call)
       BY <1>9 DEF SeedIsQueued
<1> QED  BY <1>1, <1>2, <1>3, <1>12 DEF SeedQueue, Has, Holds, SeedIsQueued

\* The library's Cardinality is the one that the module extends.
LEMMA SameCardinality == \A list : Seed!Cardinality(list) = Cardinality(list)
BY DEF Seed!Cardinality, Cardinality

\* A seed that is not there is pushed: its id is new.
LEMMA SeedIsPushed ==
    ASSUME SeedTypes, SeedQueue, NEW m \in {"addSeed", "persistTempSeed"}, NEW given \in Seed!Given,
           Seed!PushSeed(m, given), ~Seed!Exists(given), seedCalls[m].stage # "storing",
           NEW call \in SeedCall, call.stage = "storing", call.seed = given, call.id = seedAdds + 1,
           seedCalls' = [seedCalls EXCEPT ![m] = call],
           UNCHANGED <<savedSeeds, unlocked, seedOvertaken, seedRestarts>>,
           tempSeed' \in Seed!Given \cup {None}, wanted' \in Seed!Given \cup {None},
           Seed!Turn \/ UNCHANGED seedTurns
    PROVE  SeedTypes' /\ SeedQueue'
<1> DEFINE new == [id |-> seedAdds + 1, phrase |-> given.phrase, pass |-> Seed!Kept(given.pass),
                   label |-> Seed!Cardinality(seeds) + 1, path |-> given.path]
           list == seeds \cup {new}
           write == Seed!Queued({}, m)
           kept == [i \in DOMAIN seedWrites |-> IF seedWrites[i].live THEN list ELSE seedWrites[i].list]
<1>1. /\ seedAdds < Adds /\ seedAdds' = seedAdds + 1 /\ seeds' = list
      /\ seedWrites' = Append(seedWrites, write) /\ seedsAsked' = seedsAsked
  <2> HIDE DEF new
  <2>1. /\ seedAdds < Adds /\ seedAdds' = seedAdds + 1
        /\ seedWrites' = Append(seedWrites, write) /\ seedsAsked' = seedsAsked
        BY DEF Seed!PushSeed
  <2>2. seeds' = seeds \cup {new}
        BY DEF Seed!PushSeed, new
  <2> QED  BY <2>1, <2>2
<1>2. /\ seedAdds \in Nat /\ seedAdds' \in 0..Adds /\ seedAdds + 1 \in 1..Adds /\ Adds \in Nat
      /\ seedTurns' \in 0..SeedTurns
      BY <1>1, ServicesAssumption, SMTT(30) DEF SeedTypes, Seed!Turn
<1>3. SeedList(seeds, seedAdds)
      BY DEF SeedTypes
<1>4. Cardinality(seeds) \in Nat /\ Seed!Cardinality(seeds) + 1 \in 0..Adds
      BY <1>1, <1>2, <1>3, FS_CardinalityType, SameCardinality DEF SeedList
<1>5. new \in SeedEntry
      BY <1>2, <1>4, GivenSeeds DEF SeedEntry, Seed!Given
<1>6. new.id = seedAdds + 1 /\ new.phrase = given.phrase /\ new.pass = Seed!Kept(given.pass)
      OBVIOUS
<1>7. Seed!SeedOf(new) = Seed!SeedOf(given)
      BY <1>6, GivenSeeds
<1> HIDE DEF new
<1>8. \A any : SeedList(any, seedAdds) => SeedList(any, seedAdds')
      BY <1>1, <1>2, FS_CardinalityType DEF SeedList
<1>9. SeedList(list, seedAdds')
  <2>1. IsFiniteSet(list) /\ Cardinality(list) <= Cardinality(seeds) + 1
    <3>1. IsFiniteSet(seeds)
          BY <1>3 DEF SeedList
    <3>2. /\ IsFiniteSet(seeds \cup {new})
          /\ Cardinality(seeds \cup {new}) = Cardinality(seeds) \/ Cardinality(seeds \cup {new}) = Cardinality(seeds) + 1
          BY <3>1, FS_AddElement
    <3> QED  BY <1>4, <3>2
  <2>2. Cardinality(list) \in Nat
        BY <2>1, FS_CardinalityType
  <2> QED  BY <1>1, <1>2, <1>3, <1>4, <1>5, <2>1, <2>2 DEF SeedList
<1>10. write \in SeedWrite /\ write.by = m /\ write.live /\ write.list = {}
       BY DEF SeedWrite, Seed!Queued, Seed!Methods
<1> HIDE DEF write
<1>11. /\ DOMAIN seedWrites = 1..Len(seedWrites) /\ Len(seedWrites) \in Nat /\ seedWrites \in Seq(SeedWrite)
       /\ \A i \in DOMAIN seedWrites : SeedList(seedWrites[i].list, seedAdds)
       BY WritesAreTyped DEF SeedTypes
<1>12. PICK end \in Nat : end = Len(seedWrites) + 1
       BY <1>11
<1>13. /\ seedWrites' \in Seq(SeedWrite) /\ Len(seedWrites') = end /\ DOMAIN seedWrites' = 1..end
       /\ seedWrites'[end] = write
       /\ \A i \in DOMAIN seedWrites : seedWrites'[i] = seedWrites[i]
       BY <1>1, <1>10, <1>11, <1>12
<1>14. SeedIsQueued(list, kept, m)
  <2>1. \A i \in DOMAIN seedWrites : Seed!Held(i)' = kept[i]
        BY <1>1, <1>13 DEF Seed!Held
  <2> HIDE DEF kept, list
  <2> QED  BY <1>1, <1>10, <1>12, <1>13, <2>1 DEF SeedIsQueued
<1>15. seedCalls \in [Seed!Methods -> SeedCall] /\ m \in Seed!Methods
       BY DEF SeedTypes, Seed!Methods
<1>16. seedCalls' \in [Seed!Methods -> SeedCall] /\ seedCalls'[m] = call
       /\ \A n \in Seed!Methods : n # m => seedCalls'[n] = seedCalls[n]
       BY <1>15
<1>17. SeedTypes'
  <2>1. \A i \in DOMAIN seedWrites' : SeedList(seedWrites'[i].list, seedAdds')
    <3>1. SeedList({}, seedAdds')
          BY <1>1, <1>2, FS_EmptySet DEF SeedList
    <3>2. \A i \in DOMAIN seedWrites : SeedList(seedWrites'[i].list, seedAdds')
          BY <1>8, <1>11, <1>13
    <3>3. \A i \in DOMAIN seedWrites' : i \in DOMAIN seedWrites \/ i = end
          BY <1>11, <1>12, <1>13
    <3>4. SeedList(seedWrites'[end].list, seedAdds')
          BY <1>10, <1>13, <3>1
    <3> QED  BY <3>2, <3>3, <3>4
  <2>2. SeedList(savedSeeds', seedAdds')
        BY <1>8 DEF SeedTypes
  <2> HIDE DEF list
  <2> QED  BY <1>1, <1>2, <1>9, <1>13, <1>16, <2>1, <2>2 DEF SeedTypes
<1>18. \A n \in Seed!Methods : seedCalls[n].stage = "storing" => seedCalls'[n] = seedCalls[n]
       BY <1>16
<1>19. new \in list /\ Holds(list, call)
       BY <1>6, <1>7 DEF Holds
<1>20. \A n \in Seed!Methods : seedCalls'[n].seed # None => seedCalls'[n].id <= seedAdds'
  <2>1. \A n \in Seed!Methods : seedCalls[n].id \in Nat
        BY <1>15 DEF SeedCall
  <2> QED  BY <1>1, <1>2, <1>16, <2>1 DEF SeedQueue
<1>21. \A any, seed : Has(any, seed) => Has(any \cup {new}, seed)
       BY DEF Has
<1>22. \A seed : Has(seeds, seed) => Has(list, seed)
       BY <1>21
<1>23. \A i \in DOMAIN seedWrites : \A seed : Has(Seed!Held(i), seed) => Has(kept[i], seed)
       BY <1>22 DEF Seed!Held
<1>24. \A n \in Seed!Methods : seedCalls[n].seed # None /\ (\E entry \in list : entry.id = seedCalls[n].id) =>
          \E entry \in seeds : entry.id = seedCalls[n].id
  <2>1. \A n \in Seed!Methods : seedCalls[n].seed # None => seedCalls[n].id # new.id
    <3>1. \A n \in Seed!Methods : seedCalls[n].id \in Nat
          BY <1>15 DEF SeedCall
    <3> QED  BY <1>2, <1>6, <3>1 DEF SeedQueue
  <2> QED  BY <2>1
<1>25. \A any : /\ Holds(seeds, any) => Holds(list, any)
                /\ \A i \in DOMAIN seedWrites : Holds(Seed!Held(i), any) => Holds(kept[i], any)
       BY DEF Holds, Seed!Held
<1> HIDE DEF list, kept
<1>26. SeedQueue'
       BY <1>1, <1>14, <1>15, <1>16, <1>18, <1>19, <1>20, <1>22, <1>23, <1>24, <1>25, QueueIsExtended
<1> QED  BY <1>17, <1>26

\* A call goes to its next stage and is otherwise the same.
LEMMA CallGoesOn ==
    ASSUME seedCalls \in [Seed!Methods -> SeedCall], NEW m \in Seed!Methods,
           NEW stage \in {"idle", "begun", "storing", "done"}, Seed!Goto(m, stage)
    PROVE  /\ seedCalls' \in [Seed!Methods -> SeedCall]
           /\ seedCalls'[m].stage = stage /\ seedCalls'[m].seed = seedCalls[m].seed
           /\ seedCalls'[m].id = seedCalls[m].id
           /\ \A n \in Seed!Methods : n # m => seedCalls'[n] = seedCalls[n]
<1> DEFINE new == [seedCalls[m] EXCEPT !.stage = stage]
<1>1. seedCalls' = [seedCalls EXCEPT ![m] = new]
      BY DEF Seed!Goto
<1>2. new \in SeedCall /\ new.stage = stage /\ new.seed = seedCalls[m].seed /\ new.id = seedCalls[m].id
      BY DEF SeedCall
<1> HIDE DEF new
<1> QED  BY <1>1, <1>2

\* With an empty queue what is shown is stored, and may be asked for; calls may change as before.
LEMMA FoundIsAsked ==
    ASSUME SeedTypes, SeedQueue, UNCHANGED <<seeds, savedSeeds, seedWrites, seedAdds>>,
           \A seed \in seedsAsked' \ seedsAsked : seedWrites = <<>> /\ Has(seeds, seed),
           \A m \in Seed!Methods : seedCalls[m].stage = "storing" => seedCalls'[m] = seedCalls[m],
           \A m \in Seed!Methods : seedCalls'[m].seed # None => seedCalls'[m].id <= seedAdds
    PROVE  SeedQueue'
<1> QED  BY WritesAreTyped DEF SeedQueue, Seed!Held

\* A seed that is there is not pushed again.
LEMMA SeedIsFound ==
    ASSUME SeedTypes, SeedQueue, NEW m \in Seed!Methods, NEW given \in Seed!Given,
           Seed!PushSeed(m, given), Seed!Exists(given)
    PROVE  /\ UNCHANGED <<seeds, seedWrites, seedAdds>>
           /\ seedsAsked' \subseteq Phrases \X (Passphrases \cup {Null})
           /\ \A seed \in seedsAsked' \ seedsAsked : seedWrites = <<>> /\ Has(seeds, seed)
<1> QED  BY GivenSeeds DEF SeedTypes, Seed!PushSeed, Seed!Exists, Has

\* addSeed pushes its seed, finds it, or is refused.
LEMMA SeedIsAdded == ASSUME SeedInv, Seed!AddSeed PROVE SeedInv'
<1> DEFINE call == seedCalls["addSeed"]
           new == [call EXCEPT !.stage = "storing", !.id = seedAdds + 1]
<1>1. /\ call.stage = "begun" /\ UNCHANGED <<unlocked, tempSeed, savedSeeds, wanted, seedOvertaken, seedTurns,
                                             seedRestarts>>
      BY DEF Seed!AddSeed
<1>2. /\ seedCalls \in [Seed!Methods -> SeedCall] /\ call \in SeedCall /\ "addSeed" \in Seed!Methods
      /\ {"persistTempSeed", "updateSeed", "deleteSeed"} \subseteq Seed!Methods
      BY DEF SeedInv, SeedTypes, Seed!Methods
<1>3. call.seed \in Seed!Given /\ call.seed # None
      BY <1>1, <1>2 DEF SeedCall, SeedInv, SeedGiven
<1> HIDE DEF call
<1>5. CASE ~unlocked
      BY <1>1, <1>2, <1>5, SeedTypesStay, CallGoesOn, CallsMayChange DEF SeedInv, SeedTemp, SeedGiven,
         SeedTypes, call, Seed!AddSeed, SeedsStay, SeedQueue
<1>6. CASE unlocked /\ Seed!Exists(call.seed)
      BY <1>1, <1>2, <1>3, <1>6, CallGoesOn, SeedIsFound, FoundIsAsked DEF SeedInv, SeedTemp, SeedGiven,
         SeedTypes, call, Seed!AddSeed, SeedQueue
<1>7. CASE unlocked /\ ~Seed!Exists(call.seed)
  <2>1. seedCalls' = [seedCalls EXCEPT !["addSeed"] = new] /\ Seed!PushSeed("addSeed", call.seed)
        BY <1>7 DEF Seed!AddSeed, call
  <2>2. seedAdds + 1 \in 0..Adds
        BY <1>7, <2>1, ServicesAssumption DEF Seed!PushSeed, SeedInv, SeedTypes
  <2>3. new.stage = "storing" /\ new.seed = call.seed /\ new.id = seedAdds + 1 /\ new \in SeedCall
        BY <1>2, <2>2 DEF SeedCall
  <2> HIDE DEF new
  <2> QED  BY <1>1, <1>2, <1>3, <1>7, <2>1, <2>3, SeedIsPushed DEF SeedInv, SeedTemp, SeedGiven, call,
              SeedTypes
<1> QED  BY <1>5, <1>6, <1>7

\* persistTempSeed pushes the temporary seed, or finds it and gives it up.
LEMMA SeedIsPersisted == ASSUME SeedInv, NEW way \in Paths, Seed!PersistTempSeed(way) PROVE SeedInv'
<1> DEFINE new == [stage |-> "storing", seed |-> tempSeed, id |-> seedAdds + 1, label |-> 0, path |-> way]
<1>1. /\ Seed!Turn /\ tempSeed # None /\ seedCalls["persistTempSeed"].stage = "idle" /\ unlocked
      /\ Seed!PushSeed("persistTempSeed", tempSeed)
      /\ UNCHANGED <<unlocked, savedSeeds, seedOvertaken, seedRestarts>>
      BY DEF Seed!PersistTempSeed
<1>2. /\ tempSeed \in Seed!Given /\ wanted \in Seed!Given /\ seedCalls \in [Seed!Methods -> SeedCall]
      /\ {"persistTempSeed", "addSeed", "updateSeed", "deleteSeed"} \subseteq Seed!Methods
      BY <1>1 DEF SeedInv, SeedTypes, SeedTemp, Seed!Methods
<1>4. CASE Seed!Exists(tempSeed)
  <2>1. /\ Seed!TakePath(tempSeed, way, seedCalls) /\ tempSeed' = None
        /\ wanted' = IF wanted = tempSeed THEN None ELSE wanted
        BY <1>4 DEF Seed!PersistTempSeed
  <2>2. /\ seedCalls' \in [Seed!Methods -> SeedCall]
        /\ \A m \in Seed!Methods : seedCalls'[m] # seedCalls[m] =>
                 m = "updateSeed" /\ seedCalls[m].stage = "idle" /\ seedCalls'[m].seed = None
        BY <1>2, <2>1, PathIsTaken DEF SeedInv
  <2>4. wanted' \in Seed!Given \cup {None} /\ seedTurns' \in 0..SeedTurns
        BY <1>1, <1>2, <2>1, ServicesAssumption DEF SeedInv, SeedTypes, Seed!Turn
  <2> QED  BY <1>1, <1>2, <1>4, <2>1, <2>2, <2>4, SeedIsFound, FoundIsAsked DEF SeedInv, SeedTemp,
              SeedGiven, SeedTypes, SeedQueue
<1>5. CASE ~Seed!Exists(tempSeed)
  <2>1. seedCalls' = [seedCalls EXCEPT !["persistTempSeed"] = new] /\ UNCHANGED <<tempSeed, wanted>>
        BY <1>5 DEF Seed!PersistTempSeed
  <2>2. seedAdds + 1 \in 0..Adds
        BY <1>1, <1>5, ServicesAssumption DEF Seed!PushSeed, SeedInv, SeedTypes
  <2>3. new.stage = "storing" /\ new.seed = tempSeed /\ new.id = seedAdds + 1 /\ new \in SeedCall
        BY <1>2, <2>2 DEF SeedCall
  <2> HIDE DEF new
  <2> QED  BY <1>1, <1>2, <1>5, <2>1, <2>3, SeedIsPushed DEF SeedInv, SeedGiven, SeedTemp
<1> QED  BY <1>4, <1>5

\* A relabelled list has the same seeds.
LEMMA ListIsRelabelled ==
    ASSUME NEW list, NEW n \in Nat, SeedList(list, n), NEW id, NEW label \in 0..Adds, NEW way \in Paths
    PROVE  /\ SeedList(Seed!Relabel(list, id, label, way), n)
           /\ \A seed : Has(list, seed) => Has(Seed!Relabel(list, id, label, way), seed)
           /\ \A call : Holds(list, call) => Holds(Seed!Relabel(list, id, label, way), call)
           /\ \A x : (\E entry \in Seed!Relabel(list, id, label, way) : entry.id = x)
                        => \E entry \in list : entry.id = x
<1> DEFINE R(entry) == IF entry.id = id THEN [entry EXCEPT !.label = label, !.path = way] ELSE entry
           new == Seed!Relabel(list, id, label, way)
           f == [entry \in list |-> R(entry)]
<1>1. \A entry \in SeedEntry : /\ R(entry) \in SeedEntry /\ R(entry).id = entry.id
                               /\ R(entry).phrase = entry.phrase /\ R(entry).pass = entry.pass
      BY DEF SeedEntry
<1>2. new = {R(entry) : entry \in list}
      BY DEF Seed!Relabel
<1> HIDE DEF R
<1> HIDE DEF new
<1>6. f \in Surjection(list, new)
      BY <1>2, Fun_IsSurj
<1> HIDE DEF f
<1> QED  BY <1>1, <1>2, <1>6, FS_Surjection, FS_CardinalityType DEF new, Has, Seed!SeedOf, Holds, SeedList

\* What is queued keeps the types.
LEMMA QueuedTypes ==
    ASSUME SeedTypes, NEW m \in Seed!Methods, NEW kept, NEW list, SeedList(list, seedAdds),
           \A i \in DOMAIN seedWrites : SeedList(kept[i], seedAdds),
           seeds' = list,
           seedWrites' = Append([i \in DOMAIN seedWrites |->
                                    [list |-> kept[i], live |-> FALSE, by |-> seedWrites[i].by]],
                                Seed!Queued({}, m)),
           seedCalls' \in [Seed!Methods -> SeedCall], seedsAsked' \subseteq seedsAsked,
           UNCHANGED <<unlocked, tempSeed, savedSeeds, wanted, seedOvertaken, seedAdds, seedTurns, seedRestarts>>
    PROVE  SeedTypes' /\ SeedIsQueued(list, kept, m)
<1> DEFINE old == [i \in DOMAIN seedWrites |-> [list |-> kept[i], live |-> FALSE, by |-> seedWrites[i].by]]
           write == Seed!Queued({}, m)
<1>1. /\ DOMAIN seedWrites = 1..Len(seedWrites) /\ Len(seedWrites) \in Nat
      /\ \A i \in DOMAIN seedWrites : seedWrites[i].by \in Seed!Methods
      BY WritesAreTyped
<1>3. \A i \in DOMAIN seedWrites : /\ old[i] \in SeedWrite /\ old[i].list = kept[i] /\ ~old[i].live
                                   /\ old[i].by = seedWrites[i].by
      BY <1>1 DEF SeedWrite, SeedList
<1>4. write \in SeedWrite /\ write.by = m /\ write.live /\ write.list = {}
      BY DEF SeedWrite, Seed!Queued
<1>5. old \in [1..Len(seedWrites) -> SeedWrite]
      BY <1>1, <1>3
<1> HIDE DEF old, write
<1>9. PICK end \in Nat : end = Len(seedWrites) + 1
      BY <1>1
<1>10. /\ seedWrites' \in Seq(SeedWrite) /\ Len(seedWrites') = end /\ DOMAIN seedWrites' = 1..end
       /\ seedWrites'[end] = write
       /\ \A i \in DOMAIN seedWrites : seedWrites'[i] = old[i]
       BY <1>1, <1>4, <1>5, <1>9 DEF old, write
<1>11. \A i \in DOMAIN seedWrites' : SeedList(seedWrites'[i].list, seedAdds)
  <2>2. SeedList({}, seedAdds)
        BY ServicesAssumption, FS_EmptySet DEF SeedList, SeedTypes
  <2>4. SeedList(seedWrites'[end].list, seedAdds)
        BY <1>4, <1>10, <2>2
  <2> QED  BY <1>1, <1>3, <1>9, <1>10, <2>4
<1>14. SeedIsQueued(list, kept, m)
       BY <1>3, <1>4, <1>9, <1>10 DEF SeedIsQueued, Seed!Held
<1> QED  BY <1>10, <1>11, <1>14 DEF SeedTypes

\* updateSeed changes its seed in every list, or finds none.
LEMMA SeedIsUpdated == ASSUME SeedInv, Seed!UpdateSeed PROVE SeedInv'
<1> DEFINE call == seedCalls["updateSeed"]
           entry == Seed!First({e \in seeds : e.id = call.id})
           label == IF call.label = None THEN entry.label ELSE call.label
           way == IF call.path = None THEN entry.path ELSE call.path
           R(list) == Seed!Relabel(list, call.id, label, way)
           list == R(seeds)
           kept == [i \in DOMAIN seedWrites |-> R(Seed!Held(i))]
<1>1. /\ call.stage = "begun"
      /\ UNCHANGED <<unlocked, tempSeed, savedSeeds, seedsAsked, wanted, seedOvertaken, seedAdds, seedTurns,
                     seedRestarts>>
      BY DEF Seed!UpdateSeed
<1>2. /\ seedCalls \in [Seed!Methods -> SeedCall] /\ "updateSeed" \in Seed!Methods /\ call \in SeedCall
      /\ {"persistTempSeed", "addSeed", "deleteSeed"} \subseteq Seed!Methods
      BY DEF SeedInv, SeedTypes, Seed!Methods
<1>3. \A n \in Seed!Methods : seedCalls[n].seed # None => seedCalls[n].id <= seedAdds
      BY DEF SeedInv, SeedQueue
<1>4. CASE \A e \in seeds : e.id # call.id
  <2>1. Seed!Goto("updateSeed", "done") /\ SeedsStay
        BY <1>1, <1>4 DEF Seed!UpdateSeed, SeedsStay
  <2>2. /\ seedCalls' \in [Seed!Methods -> SeedCall]
        /\ seedCalls'["updateSeed"].seed = call.seed
        /\ seedCalls'["updateSeed"].id = call.id
        /\ \A n \in Seed!Methods : n # "updateSeed" => seedCalls'[n] = seedCalls[n]
        BY <1>2, <2>1, CallGoesOn
  <2>3. SeedTypes'
        BY <1>1, <2>1, <2>2, SeedTypesStay DEF SeedInv, SeedTypes
  <2>4. /\ \A n \in Seed!Methods : seedCalls[n].stage = "storing" => seedCalls'[n] = seedCalls[n]
        /\ \A n \in Seed!Methods : seedCalls'[n].seed # None => seedCalls'[n].id <= seedAdds
        BY <1>1, <1>2, <1>3, <2>2
  <2>5. SeedQueue'
        BY <2>1, <2>4, CallsMayChange DEF SeedInv, SeedsStay
  <2>6. /\ seedCalls'["persistTempSeed"] = seedCalls["persistTempSeed"] /\ seedCalls'["addSeed"] = seedCalls["addSeed"]
        /\ seedCalls'["deleteSeed"] = seedCalls["deleteSeed"] /\ seedCalls'["updateSeed"].seed = None
        BY <1>2, <2>2 DEF SeedInv, SeedGiven
  <2> QED  BY <1>1, <2>3, <2>5, <2>6 DEF SeedInv, SeedTemp, SeedGiven
<1>5. CASE ~(\A e \in seeds : e.id # call.id)
  <2>1. /\ Seed!Goto("updateSeed", "storing") /\ seeds' = list
        /\ seedWrites' = Append([i \in DOMAIN seedWrites |->
               [list |-> R(Seed!Held(i)), live |-> FALSE, by |-> seedWrites[i].by]], Seed!Queued({}, "updateSeed"))
        BY <1>5 DEF Seed!UpdateSeed
  <2>2. {e \in seeds : e.id = call.id} \subseteq SeedEntry /\ {e \in seeds : e.id = call.id} # {}
        BY <1>5 DEF SeedInv, SeedTypes, SeedList
  <2>3. entry \in SeedEntry
        BY <2>2, FirstIsOne
  <2> HIDE DEF entry
  <2>4. label \in 0..Adds /\ way \in Paths
        BY <1>2, <2>3, ServicesAssumption DEF SeedEntry, SeedCall
  <2> HIDE DEF label, way, call
  <2>5. seedAdds \in Nat /\ SeedList(seeds, seedAdds) /\ \A i \in DOMAIN seedWrites : SeedList(Seed!Held(i), seedAdds)
        BY WritesAreTyped DEF SeedInv, SeedTypes
  <2>6. \A any : SeedList(any, seedAdds) =>
           /\ SeedList(R(any), seedAdds)
           /\ \A seed : Has(any, seed) => Has(R(any), seed)
           /\ \A c : Holds(any, c) => Holds(R(any), c)
           /\ \A x : (\E e \in R(any) : e.id = x) => \E e \in any : e.id = x
    <3> SUFFICES ASSUME NEW any, SeedList(any, seedAdds)
                 PROVE  /\ SeedList(R(any), seedAdds)
                        /\ \A seed : Has(any, seed) => Has(R(any), seed)
                        /\ \A c : Holds(any, c) => Holds(R(any), c)
                        /\ \A x : (\E e \in R(any) : e.id = x) => \E e \in any : e.id = x
          OBVIOUS
    <3>1. PICK id : id = call.id
          OBVIOUS
    <3>2. PICK to \in 0..Adds : to = label
          BY <2>4
    <3>3. PICK by \in Paths : by = way
          BY <2>4
    <3>4. PICK n \in Nat : n = seedAdds
          BY <2>5
    <3>5. R(any) = Seed!Relabel(any, id, to, by) /\ SeedList(any, n)
          BY <3>1, <3>2, <3>3, <3>4
    <3> HIDE DEF R
    <3>6. /\ SeedList(Seed!Relabel(any, id, to, by), n)
          /\ \A seed : Has(any, seed) => Has(Seed!Relabel(any, id, to, by), seed)
          /\ \A c : Holds(any, c) => Holds(Seed!Relabel(any, id, to, by), c)
          /\ \A x : (\E e \in Seed!Relabel(any, id, to, by) : e.id = x) => \E e \in any : e.id = x
          BY <3>5, ListIsRelabelled
    <3> QED  BY <3>4, <3>5, <3>6
  <2> HIDE DEF R
  <2>7. /\ seedCalls' \in [Seed!Methods -> SeedCall]
        /\ seedCalls'["updateSeed"].seed = call.seed
        /\ seedCalls'["updateSeed"].id = call.id
        /\ seedCalls'["updateSeed"].stage = "storing"
        /\ \A n \in Seed!Methods : n # "updateSeed" => seedCalls'[n] = seedCalls[n]
        BY <1>2, <2>1, CallGoesOn DEF call
  <2>8. \A i \in DOMAIN seedWrites : kept[i] = R(Seed!Held(i))
        OBVIOUS
  <2>9. seedWrites' = Append([i \in DOMAIN seedWrites |->
               [list |-> kept[i], live |-> FALSE, by |-> seedWrites[i].by]], Seed!Queued({}, "updateSeed"))
    <3>1. [i \in DOMAIN seedWrites |-> [list |-> kept[i], live |-> FALSE, by |-> seedWrites[i].by]]
             = [i \in DOMAIN seedWrites |-> [list |-> R(Seed!Held(i)), live |-> FALSE, by |-> seedWrites[i].by]]
          BY <2>8
    <3> QED  BY <2>1, <3>1
  <2> HIDE DEF list, kept
  <2>10. SeedTypes' /\ SeedIsQueued(list, kept, "updateSeed")
    <3>1. SeedList(list, seedAdds) /\ \A i \in DOMAIN seedWrites : SeedList(kept[i], seedAdds)
          BY <2>5, <2>6, <2>8 DEF list
    <3> QED  BY <1>1, <1>2, <2>1, <2>7, <2>9, <3>1, QueuedTypes DEF SeedInv
  <2>11. SeedQueue'
    <3>1. seedCalls["updateSeed"].stage # "storing"
          BY <1>1 DEF call
    <3>2. \A n \in Seed!Methods : seedCalls[n].stage = "storing" => seedCalls'[n] = seedCalls[n]
          BY <2>7, <3>1
    <3>3. \A n \in Seed!Methods : seedCalls'[n].seed # None => seedCalls'[n].id <= seedAdds'
          BY <1>1, <1>2, <1>3, <2>7 DEF call
    <3>5. seedCalls'["updateSeed"].seed # None /\ (\E e \in list : e.id = seedCalls'["updateSeed"].id) =>
             Holds(list, seedCalls'["updateSeed"])
          BY <2>7 DEF SeedInv, SeedGiven, call
    <3>6. /\ \A seed : Has(seeds, seed) => Has(list, seed)
          /\ \A i \in DOMAIN seedWrites : \A seed : Has(Seed!Held(i), seed) => Has(kept[i], seed)
          BY <2>5, <2>6, <2>8 DEF list
    <3>7. \A c : (\E e \in list : e.id = c.id) =>
                 /\ \E e \in seeds : e.id = c.id
                 /\ Holds(seeds, c) => Holds(list, c)
                 /\ \A i \in DOMAIN seedWrites : Holds(Seed!Held(i), c) => Holds(kept[i], c)
          BY <2>5, <2>6, <2>8 DEF list
    <3> QED  BY <1>1, <1>2, <2>7, <2>10, <3>1, <3>2, <3>3, <3>5, <3>6, <3>7, QueueIsExtended DEF SeedInv
  <2>12. /\ seedCalls'["persistTempSeed"] = seedCalls["persistTempSeed"] /\ seedCalls'["addSeed"] = seedCalls["addSeed"]
         /\ seedCalls'["deleteSeed"] = seedCalls["deleteSeed"] /\ seedCalls'["updateSeed"].seed = None
         BY <1>2, <2>7 DEF SeedInv, SeedGiven, call
  <2> QED  BY <1>1, <2>10, <2>11, <2>12 DEF SeedInv, SeedTemp, SeedGiven
<1> QED  BY <1>4, <1>5

\* deleteSeed takes its seed from what is shown; lists that wait are written as they were.
LEMMA SeedIsDeleted == ASSUME SeedInv, Seed!DeleteSeed PROVE SeedInv'
<1> DEFINE id == seedCalls["deleteSeed"].id
           list == {entry \in seeds : entry.id # id}
           kept == [i \in DOMAIN seedWrites |-> Seed!Held(i)]
<1>1. /\ seedCalls["deleteSeed"].stage = "begun" /\ seeds' = list
      /\ seedsAsked' = seedsAsked \ {Seed!SeedOf(entry) : entry \in seeds \ list}
      /\ seedWrites' = Append(Seed!Detached, Seed!Queued({}, "deleteSeed"))
      /\ Seed!Goto("deleteSeed", "storing")
      /\ UNCHANGED <<unlocked, tempSeed, savedSeeds, wanted, seedOvertaken, seedAdds, seedTurns, seedRestarts>>
      BY DEF Seed!DeleteSeed
<1>2. /\ seedCalls \in [Seed!Methods -> SeedCall] /\ "deleteSeed" \in Seed!Methods
      /\ {"persistTempSeed", "addSeed", "updateSeed"} \subseteq Seed!Methods
      BY DEF SeedInv, SeedTypes, Seed!Methods
<1>3. /\ seedCalls' \in [Seed!Methods -> SeedCall]
      /\ seedCalls'["deleteSeed"].seed = seedCalls["deleteSeed"].seed
      /\ seedCalls'["deleteSeed"].stage = "storing"
      /\ \A n \in Seed!Methods : n # "deleteSeed" => seedCalls'[n] = seedCalls[n]
      BY <1>1, <1>2, CallGoesOn
<1>4. seedCalls'["deleteSeed"].seed = None
      BY <1>3 DEF SeedInv, SeedGiven
<1>5. /\ SeedList(seeds, seedAdds) /\ seedAdds \in Nat
      /\ \A i \in DOMAIN seedWrites : SeedList(Seed!Held(i), seedAdds)
      BY WritesAreTyped, ServicesAssumption DEF SeedInv, SeedTypes
<1>6. SeedList(list, seedAdds)
      BY <1>5, FS_Subset, FS_CardinalityType DEF SeedList
<1>7. \A i \in DOMAIN seedWrites : kept[i] = Seed!Held(i)
      OBVIOUS
<1> HIDE DEF kept
<1>9. SeedTypes' /\ SeedIsQueued(list, kept, "deleteSeed")
  <2> HIDE DEF list
  <2> QED  BY <1>1, <1>2, <1>3, <1>5, <1>6, <1>7, QueuedTypes DEF SeedInv, Seed!Detached
<1>10. \A seed \in seedsAsked' : Has(seeds, seed) => Has(list, seed)
       BY <1>1 DEF Has
<1>11. \A c : (\E e \in list : e.id = c.id) =>
                 /\ \E e \in seeds : e.id = c.id
                 /\ Holds(seeds, c) => Holds(list, c)
       BY DEF Holds
<1> HIDE DEF list, id
<1>12. SeedQueue'
  <2>1. seedCalls["deleteSeed"].stage # "storing" /\ seedsAsked' \subseteq seedsAsked
        BY <1>1
  <2>2. \A n \in Seed!Methods : seedCalls[n].stage = "storing" => seedCalls'[n] = seedCalls[n]
        BY <1>3, <2>1
  <2>3. \A n \in Seed!Methods : seedCalls'[n].seed # None => seedCalls'[n].id <= seedAdds'
        BY <1>1, <1>2, <1>3, <1>4 DEF SeedInv, SeedQueue
  <2>4. \A i \in DOMAIN seedWrites : /\ \A seed \in seedsAsked : Has(Seed!Held(i), seed) => Has(kept[i], seed)
                                     /\ \A c : Holds(Seed!Held(i), c) => Holds(kept[i], c)
        BY <1>7
  <2> QED  BY <1>1, <1>2, <1>3, <1>4, <1>9, <1>10, <1>11, <2>1, <2>2, <2>3, <2>4, QueueIsExtended DEF SeedInv
<1> QED  BY <1>1, <1>2, <1>3, <1>4, <1>9, <1>12 DEF SeedInv, SeedTemp, SeedGiven

\* A restart reads what is stored, and no call runs.
LEMMA SeedsAreReadAgain == ASSUME SeedInv, Seed!Restart PROVE SeedInv'
<1>1. /\ unlocked' = FALSE /\ tempSeed' = None /\ wanted' = None
      /\ seeds' = savedSeeds /\ seedWrites' = <<>> /\ seedCalls' = [m \in Seed!Methods |-> Seed!Idle]
      /\ seedOvertaken' = FALSE /\ UNCHANGED <<savedSeeds, seedsAsked, seedAdds, seedTurns>>
      /\ seedRestarts < Restarts /\ seedRestarts' = seedRestarts + 1
      BY DEF Seed!Restart
<1>2. Seed!Idle \in SeedCall /\ Seed!Idle.stage = "idle" /\ Seed!Idle.seed = None
      BY ServicesAssumption DEF SeedCall, Seed!Idle
<1>5. seedRestarts' \in 0..Restarts
      BY <1>1, ServicesAssumption DEF SeedInv, SeedTypes
<1>6. seedWrites' \in Seq(SeedWrite) /\ DOMAIN seedWrites' = {}
      BY <1>1
<1> QED  BY <1>1, <1>2, <1>5, <1>6 DEF SeedInv, SeedTemp, SeedGiven, Seed!Methods, SeedQueue, SeedTypes

\* The tail of the queue.
LEMMA QueueGoesOn ==
    ASSUME SeedTypes, seedWrites # <<>>, seedWrites' = Tail(seedWrites), UNCHANGED seeds
    PROVE  /\ seedWrites' \in Seq(SeedWrite) /\ Len(seedWrites) \in Nat \ {0} /\ 1 \in DOMAIN seedWrites
           /\ Len(seedWrites') = Len(seedWrites) - 1 /\ DOMAIN seedWrites' = 1..(Len(seedWrites) - 1)
           /\ \A i \in DOMAIN seedWrites' : /\ i + 1 \in DOMAIN seedWrites /\ i + 1 # 1
                                            /\ seedWrites'[i] = seedWrites[i + 1]
                                            /\ Seed!Held(i)' = Seed!Held(i + 1)
<1> QED  BY DEF Seed!Held, SeedTypes

\* A write is done: what its call has added is now asked for, and the queue is otherwise as before.
LEMMA QueueIsWritten ==
    ASSUME SeedTypes, SeedQueue, seedWrites # <<>>, seedWrites' = Tail(seedWrites),
           savedSeeds' = Seed!Held(1), UNCHANGED <<seeds, seedAdds>>,
           LET call == seedCalls[seedWrites[1].by] IN
              \A seed \in seedsAsked' : seed \notin seedsAsked =>
                 /\ call.seed # None /\ (\E entry \in seeds : entry.id = call.id)
                 /\ seed = Seed!SeedOf(call.seed),
           \A n \in Seed!Methods \ {seedWrites[1].by} :
              seedCalls[n].stage = "storing" => seedCalls'[n] = seedCalls[n],
           \A n \in Seed!Methods : seedCalls'[n].seed # None => seedCalls'[n].id <= seedAdds
    PROVE  SeedQueue'
<1> DEFINE first == seedWrites[1].by
           call == seedCalls[first]
<1>1. /\ Len(seedWrites) \in Nat \ {0} /\ 1 \in DOMAIN seedWrites /\ DOMAIN seedWrites = 1..Len(seedWrites)
      /\ Len(seedWrites') = Len(seedWrites) - 1 /\ DOMAIN seedWrites' = 1..(Len(seedWrites) - 1)
      /\ \A i \in DOMAIN seedWrites' : /\ i + 1 \in DOMAIN seedWrites /\ i + 1 # 1
                                       /\ seedWrites'[i] = seedWrites[i + 1]
                                       /\ Seed!Held(i)' = Seed!Held(i + 1)
      BY QueueGoesOn, WritesAreTyped
<1>3. \A i \in DOMAIN seedWrites' : /\ seedWrites'[i].by = seedWrites[i + 1].by
                                    /\ seedWrites[i + 1].by # first
                                    /\ seedCalls[seedWrites[i + 1].by].stage = "storing"
                                    /\ seedCalls'[seedWrites'[i].by] = seedCalls[seedWrites[i + 1].by]
      BY <1>1, WritesAreTyped DEF SeedQueue
<1>5. \A i, j \in DOMAIN seedWrites' : seedWrites'[i].by = seedWrites'[j].by => i = j
      BY <1>1, <1>3 DEF SeedQueue
<1>6. IF seedWrites' = <<>> THEN savedSeeds' = seeds' ELSE seedWrites'[Len(seedWrites')].live
  <2>2. CASE Len(seedWrites) = 1
        BY <1>1, <2>2 DEF SeedTypes, Seed!Held, SeedQueue
  <2>3. CASE Len(seedWrites) # 1
    <3>1. Len(seedWrites') \in DOMAIN seedWrites' /\ Len(seedWrites') + 1 = Len(seedWrites)
          BY <1>1, <2>3
    <3> QED  BY <1>1, <3>1 DEF SeedQueue
  <2> QED  BY <2>2, <2>3
<1>7. \A seed \in seedsAsked' : Has(seeds, seed) /\ \A i \in DOMAIN seedWrites : Has(Seed!Held(i), seed)
  <2>1. ASSUME NEW seed \in seedsAsked', seed \notin seedsAsked
        PROVE  Has(seeds, seed) /\ \A i \in DOMAIN seedWrites : Has(Seed!Held(i), seed)
        BY <1>1, <2>1 DEF SeedQueue, Holds, Has
  <2> QED  BY <2>1 DEF SeedQueue
<1>9. ASSUME NEW i \in DOMAIN seedWrites', NEW c, c = seedCalls'[seedWrites'[i].by],
             c.seed # None, \E entry \in seeds : entry.id = c.id
      PROVE  Holds(seeds, c) /\ \A j \in DOMAIN seedWrites' : i <= j => Holds(Seed!Held(j)', c)
      BY <1>1, <1>3, <1>9 DEF SeedQueue
<1>10. \A i \in DOMAIN seedWrites' : LET c == seedCalls'[seedWrites'[i].by] IN
          c.seed # None /\ (\E entry \in seeds' : entry.id = c.id) =>
             Holds(seeds', c) /\ \A j \in DOMAIN seedWrites' : i <= j => Holds(Seed!Held(j)', c)
       BY <1>9
<1> HIDE DEF first, call
<1> QED  BY <1>1, <1>3, <1>5, <1>6, <1>7, <1>10 DEF SeedQueue, Has, Holds

\* The call whose seed is stored goes on.
LEMMA SeedIsStored == ASSUME SeedInv, Seed!Stored PROVE SeedInv'
<1> DEFINE m == seedWrites[1].by
           call == seedCalls[m]
<1>1. /\ seedWrites # <<>> /\ savedSeeds' = Seed!Held(1) /\ seedWrites' = Tail(seedWrites)
      /\ seedsAsked' = IF call.seed # None /\ (\E entry \in seeds : entry.id = call.id)
                       THEN seedsAsked \cup {Seed!SeedOf(call.seed)} ELSE seedsAsked
      /\ UNCHANGED <<unlocked, seeds, seedOvertaken, seedAdds, seedTurns, seedRestarts>>
  <2>2. Head(seedWrites) = seedWrites[1]
        BY DEF Seed!Stored, SeedInv, SeedTypes
  <2> QED  BY <2>2 DEF Seed!Stored, SeedInv, SeedTypes
<1>2. /\ 1 \in DOMAIN seedWrites /\ m \in Seed!Methods /\ SeedList(Seed!Held(1), seedAdds)
      /\ seedCalls \in [Seed!Methods -> SeedCall]
      /\ {"persistTempSeed", "addSeed", "updateSeed", "deleteSeed"} \subseteq Seed!Methods
      BY <1>1, QueueGoesOn, WritesAreTyped DEF SeedInv, SeedTypes, Seed!Methods
<1>3. call.stage = "storing" /\ call \in SeedCall
      BY <1>2 DEF SeedInv, SeedQueue
<1>4. seedsAsked' \subseteq Phrases \X (Passphrases \cup {Null})
      BY <1>1, <1>3, GivenSeeds DEF SeedInv, SeedTypes, SeedCall
<1>6. ASSUME seedCalls' \in [Seed!Methods -> SeedCall], tempSeed' \in Seed!Given \cup {None},
             wanted' \in Seed!Given \cup {None}
      PROVE  SeedTypes'
      BY <1>1, <1>2, <1>4, <1>6, QueueGoesOn, WritesAreTyped DEF SeedInv, SeedTypes
<1>7. ASSUME \A n \in Seed!Methods \ {m} : seedCalls[n].stage = "storing" => seedCalls'[n] = seedCalls[n],
             \A n \in Seed!Methods : seedCalls'[n].seed # None => seedCalls'[n].id <= seedAdds
      PROVE  SeedQueue'
      BY <1>1, <1>7, QueueIsWritten DEF SeedInv
<1>8. CASE m = "persistTempSeed"
  <2> DEFINE before == [seedCalls EXCEPT !["persistTempSeed"] = Seed!Idle]
  <2>1. /\ tempSeed' = None /\ Seed!TakePath(call.seed, call.path, before)
        /\ wanted' = IF wanted # None /\ Seed!SeedOf(wanted) = Seed!SeedOf(call.seed) THEN None ELSE wanted
        BY <1>1, <1>8 DEF Seed!Stored, SeedInv, SeedTypes
  <2>2. Seed!Idle \in SeedCall /\ Seed!Idle.stage = "idle" /\ Seed!Idle.seed = None
        BY ServicesAssumption DEF SeedCall, Seed!Idle
  <2>3. /\ before \in [Seed!Methods -> SeedCall] /\ before["persistTempSeed"] = Seed!Idle
        /\ \A n \in Seed!Methods : n # m => before[n] = seedCalls[n]
        BY <1>2, <1>8, <2>2
  <2> HIDE DEF before
  <2>5. /\ seedCalls' \in [Seed!Methods -> SeedCall]
        /\ \A n \in Seed!Methods : seedCalls'[n] # before[n] =>
                 n = "updateSeed" /\ before[n].stage = "idle" /\ seedCalls'[n].seed = None
    <3>1. PICK given : given = call.seed
          OBVIOUS
    <3>2. PICK way \in Paths \cup {None} : way = call.path
          BY <1>3 DEF SeedCall
    <3>3. PICK then \in [Seed!Methods -> SeedCall] : then = before
          BY <2>3
    <3>4. Seed!TakePath(given, way, then)
          BY <2>1, <3>1, <3>2, <3>3
    <3> QED  BY <3>3, <3>4, PathIsTaken DEF SeedInv
  <2>7. \A n \in Seed!Methods : seedCalls'[n].seed # None => seedCalls'[n].id <= seedAdds
        BY <1>8, <2>2, <2>3, <2>5 DEF SeedInv, SeedQueue
  <2>10. SeedTemp'
         BY <1>1, <1>2, <1>3, <1>8, <2>1, <2>2, <2>3, <2>5 DEF SeedTemp, SeedInv
  <2>11. SeedGiven'
         BY <1>2, <1>8, <2>3, <2>5 DEF SeedInv, SeedGiven
  <2> QED  BY <1>6, <1>7, <2>1, <2>3, <2>5, <2>7, <2>10, <2>11 DEF SeedInv, SeedTypes
<1>9. CASE m # "persistTempSeed"
  <2>1. Seed!Goto(m, "done") /\ UNCHANGED <<tempSeed, wanted>>
        BY <1>1, <1>9 DEF Seed!Stored, SeedInv, SeedTypes
  <2>7. SeedTemp' /\ SeedGiven'
        BY <1>1, <1>2, <1>9, <2>1, CallGoesOn DEF SeedInv, SeedTemp, SeedGiven
  <2> QED  BY <1>2, <1>6, <1>7, <2>1, <2>7, CallGoesOn DEF SeedInv, SeedQueue, SeedTypes
<1> QED  BY <1>8, <1>9

\* Every step keeps the queue and the temporary seed.
LEMMA SeedInvNext == ASSUME SeedInv, [Seed!Next]_seedVars PROVE SeedInv'
<1>1. CASE UNCHANGED seedVars
      BY <1>1 DEF SeedInv, seedVars, SeedTypes, SeedTemp, SeedGiven, SeedQueue, Seed!Held
<1>2. ASSUME NEW given \in Seed!Given, Seed!Start("addSeed", [Seed!Idle EXCEPT !.seed = given])
      PROVE  SeedInv'
  <2> DEFINE call == [Seed!Idle EXCEPT !.seed = given]
  <2>1. call \in SeedCall /\ call.seed = given /\ call.id = 0 /\ given # None
        BY ServicesAssumption, GivenSeeds DEF SeedCall, Seed!Idle
  <2>3. Seed!Start("addSeed", call)
        BY <1>2
  <2> HIDE DEF call
  <2> QED  BY <2>1, <2>3, SeedCallStarts DEF Seed!Methods
<1>3. ASSUME NEW entry \in seeds, Seed!Start("updateSeed", [Seed!Idle EXCEPT !.id = entry.id, !.label = Seed!Named])
      PROVE  SeedInv'
  <2> DEFINE call == [Seed!Idle EXCEPT !.id = entry.id, !.label = Seed!Named]
  <2>0. entry.id \in 0..Adds
        BY DEF SeedInv, SeedTypes, SeedList, SeedEntry
  <2>1. call \in SeedCall /\ call.seed = None
        BY <2>0, ServicesAssumption DEF SeedCall, Seed!Idle, Seed!Named
  <2>3. Seed!Start("updateSeed", call)
        BY <1>3
  <2> HIDE DEF call
  <2> QED  BY <2>1, <2>3, SeedCallStarts DEF Seed!Methods
<1>4. ASSUME NEW entry \in seeds, Seed!Start("deleteSeed", [Seed!Idle EXCEPT !.id = entry.id])
      PROVE  SeedInv'
  <2> DEFINE call == [Seed!Idle EXCEPT !.id = entry.id]
  <2>1. call \in SeedCall /\ call.seed = None
        BY ServicesAssumption DEF SeedCall, Seed!Idle, SeedInv, SeedTypes, SeedList, SeedEntry
  <2>3. Seed!Start("deleteSeed", call)
        BY <1>4
  <2> HIDE DEF call
  <2> QED  BY <2>1, <2>3, SeedCallStarts DEF Seed!Methods
<1>5. CASE Seed!Next
      BY <1>2, <1>3, <1>4, <1>5, TempSeedChanges, SeedCallReturns, SeedIsPicked, SeedIsAdded, SeedIsPersisted,
         SeedIsUpdated, SeedIsDeleted, SeedsAreReadAgain, SeedIsStored DEF Seed!Next
<1> QED  BY <1>1, <1>5

\* The invariant implies what the run checks.
LEMMA SeedsAreQuiet == ASSUME SeedInv PROVE Seed!TypeOK /\ Seed!SeedsAreKept
<1>3. Seed!TypeOK
      BY DEF SeedInv, SeedTypes, SeedEntry, Seed!TypeOK, SeedList, SeedCall
<1> QED  BY <1>3 DEF SeedInv, SeedQueue, SeedTemp, Seed!SeedsAreKept, Has

-----------------------------------------------------------------------------
(* All the parts together.  A step is one of the part that a behaviour is  *)
(* about, and leaves the variables of the others as they are.              *)

SelectionInv ==
    /\ part = "networks" => NetInv
    /\ part = "accounts" => AccInv
    /\ part = "picker" => PickInv
PortfolioInv ==
    /\ part = "portfolio" => PfInv
    /\ part = "defi" => DefiInv
    /\ part = "selected" => SelInv
    /\ part = "hints" => HintInv
StorageInv ==
    /\ part = "keys" => StoreInv
    /\ part = "migrations" => MigInv
    /\ part = "dapps" => DapInv
    /\ part = "book" => BookInv
    /\ part = "phishing" => PhishInv
    /\ part = "domains" => DomInv
    /\ part = "seeds" => SeedInv
ServicesInv == SelectionInv /\ PortfolioInv /\ StorageInv /\ Inv /\ AccountInv

\* At first every part is as its own module starts it.
LEMMA ServicesInvInit == ASSUME Init PROVE ServicesInv
<1>6. PortfolioInv
      BY PfInvInit, DefiInvInit, SelInvInit, HintInvInit DEF PortfolioInv, Init
<1>7. StorageInv
      BY StoreInvInit, MigInvInit, DapInvInit, BookInvInit, PhishInvInit, DomInvInit, SeedInvInit DEF
         StorageInv, Init
<1> QED  BY <1>6, <1>7, NetInvInit, AccInvInit, PickInvInit, PoolInit, InvInit DEF ServicesInv,
            SelectionInv, Init, OthersIdle

\* What a part that does not move holds.
LEMMA PartsRest ==
    /\ AccInv /\ UNCHANGED accVars => AccInv'
    /\ PickInv /\ UNCHANGED pickVars => PickInv'
    /\ HintInv /\ UNCHANGED hintVars => HintInv'
<1>1. AccInv /\ UNCHANGED accVars => AccInv'
      BY DEF accVars, AccInv, AccTypes, AccOnce, AccChosen, AccServed, AccThere, AccAt, AccHas, AccWaits
<1>3. HintInv /\ UNCHANGED hintVars => HintInv'
      BY DEF hintVars, HintInv, HintTypes, HintCounts, HintList, HintListed, HintStored, HintFresh, HintMarked,
             HintIsShown
<1> QED  BY <1>1, <1>3 DEF pickVars, PickInv, PickTypes, PickPage, PickKeys

\* A step of one part keeps the invariant of that part, and those of the others.
LEMMA ServicesInvNext == ASSUME ServicesInv, [Next]_vars PROVE ServicesInv' /\ [KeepsShareValue]_stakingVars
<1>1. SelectionInv /\ PortfolioInv /\ StorageInv /\ Inv /\ AccountInv
      BY DEF ServicesInv
<1>2. part' = part
      BY DEF Next, OthersUnchanged, vars
<1>3. SelectionInv'
      BY <1>1, <1>2, NetInvNext, AccInvNext, PickInvNext, PartsRest DEF SelectionInv, Next, vars
<1>4. PortfolioInv'
      BY <1>1, <1>2, PfInvNext, DefiInvNext, SelInvNext, HintInvNext, PartsRest DEF PortfolioInv, Next, vars
<1>5. StorageInv'
  <2>1. /\ part = "keys" => [Storage!QueueNext]_keyStoreVars
        /\ part = "migrations" => [Storage!MigrationsNext]_migVars
        /\ part = "dapps" => [Dap!Next]_dapVars
        /\ part = "book" => [Book!Next]_bookVars
        /\ part = "phishing" => [Phish!Next]_phishVars
        /\ part = "domains" => [Dom!Next]_domVars
        /\ part = "seeds" => [Seed!Next]_seedVars
        BY DEF Next, vars
  <2> QED  BY <1>1, <1>2, <2>1, StoreInvNext, MigInvNext, DapInvNext, BookInvNext, PhishInvNext, DomInvNext,
              SeedInvNext DEF StorageInv
<1> QED  BY <1>1, <1>3, <1>4, <1>5, PoolNext, InvNext DEF ServicesInv, Next, OthersUnchanged, vars

\* Every variable of every part keeps its type.
THEOREM ServicesAreTyped == Spec => []ServicesTypeOK
<1>2. PortfolioInv => /\ part = "portfolio" => Pf!TypeOK
                      /\ part = "defi" => Defi!TypeOK
                      /\ part = "selected" => Sel!TypeOK
                      /\ part = "hints" => Hint!TypeOK
      BY PfKeeps, DefiKeeps, SelKeeps, HintKeeps DEF PortfolioInv
<1>3. StorageInv => /\ part = "keys" => Storage!QueueTypeOK
                    /\ part = "migrations" => Storage!MigrationsTypeOK
                    /\ part = "dapps" => Dap!TypeOK
                    /\ part = "book" => Book!TypeOK
                    /\ part = "phishing" => Phish!TypeOK
                    /\ part = "domains" => Dom!TypeOK
                    /\ part = "seeds" => Seed!TypeOK
      BY StoreIsQuiet, MigIsReached, PhishIsQuiet, SeedsAreQuiet DEF StorageInv, DapInv, BookInv, DomInv
<1>6. ServicesInv => ServicesTypeOK
      BY <1>2, <1>3, NetKeeps, AccKeeps, PickKeeps, PoolInvIsTyped DEF ServicesInv, ServicesTypeOK,
         SelectionInv, Inv, AccountInv
<1> QED  BY <1>6, ServicesInvInit, ServicesInvNext, PTL DEF Spec

\* For all chains, urls, accounts, networks and key sources, however loads, syncs, additions, removals and
\* page turns interleave: every enabled network is served by a provider of its url, the selected account is
\* one that is there and has its state, and an account that the picker added has its keys, once nothing runs.
THEOREM SelectionServes == Spec => []QuietSelectionServes
<1>1. ServicesInv => QuietSelectionServes
      BY NetKeeps, AccKeeps, PickKeeps DEF ServicesInv, SelectionInv, QuietSelectionServes
<1> QED  BY <1>1, ServicesInvInit, ServicesInvNext, PTL DEF Spec

\* For all networks, operations, accounts and tokens, with any number of loads and whatever queues behind
\* them: once nothing runs, no network loads for ever, what was simulated is what was asked for last, what is
\* shown was calculated from what was fetched last, and hints, positions and preferences are the latest.
THEOREM PortfolioIsCurrent == Spec => []QuietPortfolioIsCurrent
<1>1. ServicesInv => QuietPortfolioIsCurrent
      BY PfKeeps, DefiKeeps, SelKeeps, HintKeeps DEF ServicesInv, PortfolioInv, QuietPortfolioIsCurrent
<1> QED  BY <1>1, ServicesInvInit, ServicesInvNext, PTL DEF Spec

\* However writes, failures, restarts and calls interleave, for all keys, dapps, contacts, lists, names and
\* seeds: the migrations leave no item in an old format, what is stored is what is shown once nothing
\* waits to be written, and nothing that the user agreed to is lost.
THEOREM StoreStaysTrue == Spec => []StoreIsTrue
<1>2. ServicesInv => StoreIsTrue
      BY StoreIsQuiet, MigIsReached, PhishIsQuiet, SeedsAreQuiet, BookIsQuiet DEF ServicesInv, StorageInv,
         StoreIsTrue, DapInv, DomInv
<1> QED  BY <1>2, ServicesInvInit, ServicesInvNext, PTL DEF Spec

=============================================================================
