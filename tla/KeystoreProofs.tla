--------------------------- MODULE KeystoreProofs ---------------------------
(***************************************************************************)
(* Theorems about Keystore and KeystoreRecovery, for all values, addresses *)
(* and bounds.                                                             *)
(*                                                                         *)
(* What is in memory, in the storage, in the queued writes and in the      *)
(* calls must agree on the last main key that was made (OneKey, GoodWrite, *)
(* GoodCall).  A call makes another one only when it finds no secret: so   *)
(* nothing may exist, or be on its way to the storage, before there is a   *)
(* secret in memory (Backed), and nothing but secrets before there is one  *)
(* in the storage (Founded).  Only a change of the password takes secrets  *)
(* away, and it holds the main key until the new one is in memory.         *)
(* The last write that waits of each part of the storage writes what is in *)
(* memory (CaughtUp).                                                      *)
(*                                                                         *)
(* All of it stays true when the flows of the email vault call the         *)
(* keystore as well (KeystoreRecovery).  What is new is removeSecret: the  *)
(* vault takes the password away on its own.  It does so only after it     *)
(* unlocked the keystore with its own secret, and no call takes that one   *)
(* away (Recoverable).                                                     *)
(***************************************************************************)
EXTENDS KeystoreRecovery, SequenceTheorems, TLAPS

-----------------------------------------------------------------------------
(* Types *)

\* What a call holds at each of its stages: keys that are said to be on a device
\* are, a call that adds a secret has one, and a main key is held once it was
\* looked up.
Holding == {"unlocking", "wrapping", "storing", "storingUid"}
Over == {"idle", "done"}
Fits(m, call) ==
    /\ call \in Call
    /\ m = "addKeysExternallyStored" => call.adds \subseteq External
    /\ m \in {"addSecret", "changeKeystorePassword"} /\ call.stage \notin Over =>
           call.value \in Values
    /\ call.stage \in Holding => call.wraps # 0

CallsFit == \A m \in Methods : Fits(m, calls[m])

TypeInv == TypeOK /\ CallsFit

LEMMA IdleIsCall == Idle \in Call
BY KeystoreAssumption DEF Idle, Call, Stages, Ids, Owners

LEMMA WritesAreWrites ==
    ASSUME TypeOK, NEW m \in Methods \cup {"none"}, NEW n \in Nat, NEW new \in SUBSET Key
    PROVE  OfSecrets(m) \in Write /\ OfUid(n, m) \in Write /\ OfKeys(new, m) \in Write
BY DEF OfSecrets, OfUid, OfKeys, Write, Blank, Stored

LEMMA DetachedIsQueue == TypeOK => Detached \in Seq(Write) /\ Len(Detached) = Len(queue)
<1> SUFFICES ASSUME TypeOK PROVE Detached \in Seq(Write) /\ Len(Detached) = Len(queue)
  OBVIOUS
<1>1. queue \in Seq(Write) /\ Len(queue) \in Nat /\ DOMAIN queue = 1..Len(queue)
  BY DEF TypeOK
<1>2. \A i \in 1..Len(queue) : queue[i] \in Write
  BY <1>1
<1>3. [Blank EXCEPT !.secrets = secrets] \in Stored
  BY DEF TypeOK, Blank, Stored
<1>4. \A w \in Write, to \in Stored : [w EXCEPT !.live = FALSE, !.to = to] \in Write
  BY DEF Write
<1>5. \A i \in 1..Len(queue) : Detached[i] \in Write
  BY <1>1, <1>2, <1>3, <1>4 DEF Detached
<1>6. Detached \in [1..Len(queue) -> Write]
  BY <1>1, <1>5 DEF Detached
<1> QED
  BY <1>1, <1>6, SeqDef

LEMMA PersistKeepsType ==
    ASSUME TypeOK, queue # <<>>, Persist
    PROVE  disk' \in Stored /\ disturbed' \in BOOLEAN /\ Tail(queue) \in Seq(Write)
<1>1. Head(queue) \in Write /\ Tail(queue) \in Seq(Write)
  BY HeadTailProperties DEF TypeOK
<1>2. disk' \in Stored
  BY <1>1 DEF TypeOK, Persist, Write, Stored
<1> QED
  BY <1>1, <1>2 DEF TypeOK, Persist

LEMMA NewIsKeys ==
    ASSUME TypeOK, NEW adds \in SUBSET Addrs, mainKey # 0 \/ adds \cap Internal = {}
    PROVE  New(adds) \subseteq Key
BY KeystoreAssumption DEF New, Encrypted, Key, TypeOK, Addrs

\* Calls one by one.
CallsGood == calls \in [Methods -> Call] /\ CallsFit

LEMMA OneCallFits ==
    ASSUME TypeInv, NEW m \in Methods, NEW call, Fits(m, call),
           calls' = [calls EXCEPT ![m] = call]
    PROVE  CallsGood'
BY DEF TypeInv, TypeOK, CallsGood, CallsFit, Fits

LEMMA StartFits ==
    ASSUME TypeInv, NEW m \in Methods, NEW call \in Call, Start(m, call),
           m = "addKeysExternallyStored" => call.adds \subseteq External,
           m \in {"addSecret", "changeKeystorePassword"} => call.value \in Values
    PROVE  CallsGood'
<1>1. Fits(m, [call EXCEPT !.stage = "begun"])
  BY DEF Fits, Call, Stages, Holding
<1> QED
  BY <1>1, OneCallFits DEF Start

LEMMA GotoFits ==
    ASSUME TypeInv, NEW m \in Methods, NEW stage \in Stages, Goto(m, stage),
           calls[m].stage \notin Over, stage \in Holding => calls[m].stage \in Holding
    PROVE  CallsGood'
<1>1. calls' = [calls EXCEPT ![m] = [calls[m] EXCEPT !.stage = stage]]
  BY DEF Goto
<1>2. Fits(m, [calls[m] EXCEPT !.stage = stage])
  BY DEF TypeInv, CallsFit, Fits, Call
<1> QED
  BY <1>1, <1>2, OneCallFits

LEMMA EndFits ==
    ASSUME TypeInv, NEW m \in Methods, End(m)
    PROVE  CallsGood'
<1>1. calls[m].owner \in Owners
  BY DEF TypeInv, TypeOK, Call
<1>2. Fits(m, [Idle EXCEPT !.stage = "done", !.owner = calls[m].owner])
  BY <1>1, IdleIsCall DEF Fits, Idle, Call, Stages, Holding, Over
<1> QED
  BY <1>2, OneCallFits DEF End

LEMMA ReturnFits ==
    ASSUME TypeInv, NEW m \in Methods, calls' = [calls EXCEPT ![m] = Idle]
    PROVE  CallsGood'
<1>1. Fits(m, Idle)
  BY IdleIsCall DEF Fits, Idle, Holding, Over
<1> QED
  BY <1>1, OneCallFits

LEMMA DeriveKeepsType ==
    ASSUME TypeInv, NEW m \in Methods, NEW id, NEW value, Derive(m, id, value)
    PROVE  TypeInv'
<1>1. CASE SecretsOf(id) = {} /\ End(m)
  BY <1>1, EndFits DEF Derive, TypeInv, CallsGood, TypeOK, memory
<1>2. ASSUME NEW s \in SecretsOf(id),
             calls' = [calls EXCEPT ![m] = [calls[m] EXCEPT
                  !.stage = "unlocking", !.wraps = s.wraps, !.opens = (s.value = value)]]
      PROVE  TypeInv'
  <2>1. s.wraps \in Nat \ {0} /\ Fits(m, calls[m]) /\ calls[m].stage = "begun"
    BY DEF SecretsOf, TypeInv, TypeOK, Secret, CallsFit, Derive
  <2>2. Fits(m, [calls[m] EXCEPT !.stage = "unlocking", !.wraps = s.wraps,
                                 !.opens = (s.value = value)])
    BY <2>1 DEF Fits, Call, Stages, Over
  <2>3. CallsGood'
    BY <1>2, <2>2, OneCallFits
  <2> QED
    BY <2>3 DEF Derive, TypeInv, CallsGood, TypeOK, memory
<1> QED
  BY <1>1, <1>2 DEF Derive

LEMMA RemoveKeepsType ==
    ASSUME TypeInv, NEW m \in Methods, NEW id, Remove(m, id), mainKey' \in Nat,
           calls[m].stage \notin Over
    PROVE  TypeInv'
<1>1. CASE SecretsOf(id) = {}
  BY <1>1, EndFits DEF Remove, TypeInv, CallsGood, TypeOK
<1>2. CASE SecretsOf(id) # {}
  <2>1. OfSecrets(m) \in Write
    BY WritesAreWrites DEF TypeInv
  <2>2. Append(Detached, OfSecrets(m)) \in Seq(Write)
    BY <2>1, DetachedIsQueue, AppendProperties DEF TypeInv
  <2>3. CallsGood'
    BY <1>2, GotoFits DEF Remove, Stages, Holding
  <2> QED
    BY <1>2, <2>2, <2>3 DEF Remove, TypeInv, CallsGood, TypeOK
<1> QED
  BY <1>1, <1>2

\* Wrap says what the main key, the calls and the counter become.
LEMMA WrapKeepsType ==
    ASSUME TypeInv, NEW m \in Methods, Wrap(m), calls[m].stage \notin Over
    PROVE  mainKey' \in Nat /\ made' \in Nat /\ CallsGood'
<1> USE DEF TypeInv
<1>1. \A n \in Nat \ {0} : Fits(m, [calls[m] EXCEPT !.stage = "wrapping", !.wraps = n])
  BY DEF CallsFit, Fits, Call, Stages
<1>2. CASE End(m) /\ UNCHANGED <<mainKey, made>>
  BY <1>2, EndFits DEF TypeOK
<1>3. CASE /\ calls' = [calls EXCEPT ![m] = [calls[m] EXCEPT !.stage = "wrapping", !.wraps = mainKey]]
           /\ mainKey # 0
           /\ UNCHANGED <<mainKey, made>>
  BY <1>1, <1>3, OneCallFits DEF TypeOK
<1>4. CASE /\ made' = made + 1
           /\ mainKey' = IF calls[m].leave THEN made' ELSE mainKey
           /\ calls' = [calls EXCEPT ![m] = [calls[m] EXCEPT !.stage = "wrapping", !.wraps = made']]
  <2>1. made' \in Nat \ {0}
    BY <1>4 DEF TypeOK
  <2> QED
    BY <1>1, <1>4, <2>1, OneCallFits DEF TypeOK
<1> QED
  BY <1>2, <1>3, <1>4 DEF Wrap

LEMMA MakeReadyKeepsType ==
    ASSUME TypeInv, NEW m \in Methods, NEW pending \in Seq(Write), MakeReady(m, pending)
    PROVE  /\ keys' \subseteq Key /\ ready' \in BOOLEAN /\ uid' \in Nat
           /\ queue' \in Seq(Write) /\ CallsGood'
<1> USE DEF TypeInv
<1> DEFINE private == IF mainKey = 0 THEN {} ELSE New(waiting \cap Internal)
           devices == New(waiting \cap External)
           first == IF private = {} THEN <<>> ELSE <<OfKeys(keys \cup private, "none")>>
           second == IF devices = {} THEN <<>>
                     ELSE <<OfKeys(keys \cup private \cup devices, "none")>>
<1>1. private \subseteq Key
  BY NewIsKeys DEF TypeOK, Addrs
<1>2. (waiting \cap External) \cap Internal = {}
  BY KeystoreAssumption
<1>3. devices \subseteq Key
  BY <1>2, NewIsKeys DEF TypeOK, Addrs
<1>4. \A w \in Write : <<w>> \in Seq(Write)
  OBVIOUS
<1>5. keys \cup private \in SUBSET Key /\ keys \cup private \cup devices \in SUBSET Key
  BY <1>1, <1>3 DEF TypeOK
<1>6. OfKeys(keys \cup private, "none") \in Write
      /\ OfKeys(keys \cup private \cup devices, "none") \in Write
  BY <1>5, WritesAreWrites, 0 \in Nat
<1>7. first \in Seq(Write) /\ second \in Seq(Write)
  BY <1>4, <1>6
<1>8. pending \o first \o second \in Seq(Write)
  BY <1>7, ConcatProperties
<1> QED
  BY <1>5, <1>8, EndFits DEF MakeReady, TypeOK

LEMMA BeginAddKeysKeepsType ==
    ASSUME TypeInv, NEW m \in Methods, BeginAddKeys(m)
    PROVE  TypeInv'
<1> USE DEF TypeInv
<1> DEFINE new == New(calls[m].adds)
<1>1. calls[m].adds \subseteq Addrs /\ calls[m].stage = "begun"
  BY DEF TypeOK, Call, BeginAddKeys
<1>2. CASE /\ mainKey # 0 \/ calls[m].adds \cap Internal = {}
           /\ keys' = keys \cup new
           /\ queue' = Append(queue, OfKeys(keys', m))
           /\ Goto(m, "storingKeys")
           /\ UNCHANGED waiting
  <2>1. keys' \in SUBSET Key
    BY <1>1, <1>2, NewIsKeys DEF TypeOK
  <2>2. OfKeys(keys', m) \in Write
    BY <2>1, WritesAreWrites, 0 \in Nat
  <2>3. queue' \in Seq(Write)
    BY <1>2, <2>2, AppendProperties DEF TypeOK
  <2>4. CallsGood'
    BY <1>1, <1>2, GotoFits DEF Stages, Holding, Over
  <2> QED
    BY <1>2, <2>1, <2>3, <2>4 DEF BeginAddKeys, TypeOK, CallsGood
<1>3. CASE /\ waiting' = IF ready THEN waiting ELSE waiting \cup calls[m].adds
           /\ End(m)
           /\ UNCHANGED <<keys, queue>>
  BY <1>1, <1>3, EndFits DEF BeginAddKeys, TypeOK, CallsGood
<1>4. m # "addKeys" => m = "addKeysExternallyStored"
  BY DEF BeginAddKeys, AddMethods
<1>5. mainKey # 0 \/ m # "addKeys" => mainKey # 0 \/ calls[m].adds \cap Internal = {}
  BY <1>4, KeystoreAssumption DEF CallsFit, Fits
<1> QED
  BY <1>2, <1>3, <1>5 DEF BeginAddKeys

\* What the user calls is a method with arguments of the right type.
Startable == Methods \ {"removeSecret"}
UserStarts ==
    \E m \in Startable, call \in Call :
        /\ Start(m, call)
        /\ m = "addKeysExternallyStored" => call.adds \subseteq External
        /\ m \in {"addSecret", "changeKeystorePassword"} => call.value \in Values

LEMMA UserCallStarts == UserCall => UserStarts
<1> SUFFICES ASSUME UserCall PROVE UserStarts
  OBVIOUS
<1> USE DEF UserStarts, Startable, Methods, AddMethods, Exclusive
<1>1. ASSUME NEW v \in Values, StartUnlock("password", v, "user")
      PROVE  UserStarts
  <2> DEFINE call == [Idle EXCEPT !.id = "password", !.value = v, !.owner = "user"]
  <2>1. call \in Call /\ call.value = v
    BY IdleIsCall, KeystoreAssumption DEF Call, Ids, Owners, Addrs
  <2> QED
    BY <1>1, <2>1 DEF StartUnlock
<1>2. ASSUME NEW v \in Passwords, NEW leave \in BOOLEAN, StartAddSecret("password", v, leave, "user")
      PROVE  UserStarts
  <2> DEFINE call == [Idle EXCEPT !.id = "password", !.value = v, !.leave = leave,
                                  !.owner = "user"]
  <2>1. call \in Call /\ call.value = v /\ v \in Values
    BY IdleIsCall, KeystoreAssumption DEF Call, Ids, Owners, Addrs
  <2> QED
    BY <1>2, <2>1 DEF StartAddSecret
<1>3. ASSUME NEW v \in Passwords, NEW old \in Values \cup {NoValue}, StartChange(v, old)
      PROVE  UserStarts
  <2> DEFINE call == [Idle EXCEPT !.value = v, !.old = old, !.leave = TRUE]
  <2>1. call \in Call /\ call.value = v /\ v \in Values
    BY IdleIsCall, KeystoreAssumption DEF Call, Ids, Owners, Addrs
  <2> QED
    BY <1>3, <2>1 DEF StartChange
<1>4. ASSUME NEW a \in Internal, StartAddKeys("addKeys", {a})
      PROVE  UserStarts
  <2> DEFINE call == [Idle EXCEPT !.adds = {a}]
  <2>1. call \in Call /\ call.adds = {a}
    BY IdleIsCall, KeystoreAssumption DEF Call, Ids, Owners, Addrs
  <2> QED
    BY <1>4, <2>1 DEF StartAddKeys
<1>5. ASSUME NEW a \in External, StartAddKeys("addKeysExternallyStored", {a})
      PROVE  UserStarts
  <2> DEFINE call == [Idle EXCEPT !.adds = {a}]
  <2>1. call \in Call /\ call.adds = {a}
    BY IdleIsCall, KeystoreAssumption DEF Call, Ids, Owners, Addrs
  <2>2. Start("addKeysExternallyStored", call) /\ call.adds \subseteq External
    BY <1>5, <2>1 DEF StartAddKeys
  <2> HIDE DEF call
  <2> QED
    BY <2>1, <2>2
<1> QED
  BY <1>1, <1>2, <1>3, <1>4, <1>5 DEF UserCall

\* The type invariant, for every step.
LEMMA TypeStep ==
    ASSUME TypeInv, [Next]_vars
    PROVE  TypeInv'
<1> USE DEF TypeInv, CallsGood, Over, Holding
<1>0. /\ {"unlockWithSecret", "addSecret", "removeSecret", "changeKeystorePassword"} \subseteq Methods
      /\ UNCHANGED calls => CallsGood'
  BY DEF Methods, Exclusive, TypeOK, CallsFit
<1>1. ASSUME NEW m \in Methods, NEW stage, NEW of, Written(m, stage, of)
      PROVE  /\ disk' \in Stored /\ disturbed' \in BOOLEAN /\ Tail(queue) \in Seq(Write)
  BY <1>1, PersistKeepsType DEF Written
<1>2. CASE UserCall /\ UNCHANGED <<memory, queue, disk, made, disturbed>>
  <2>1. CallsGood'
    <3>1. PICK m \in Startable, call \in Call :
              /\ Start(m, call)
              /\ m = "addKeysExternallyStored" => call.adds \subseteq External
              /\ m \in {"addSecret", "changeKeystorePassword"} => call.value \in Values
      BY <1>2, UserCallStarts DEF UserStarts
    <3> QED
      BY <3>1, StartFits DEF Startable
  <2> QED
    BY <1>2, <2>1 DEF TypeOK, memory
<1>3. CASE \E k \in keys : RemoveKey(k)
  <2>1. keys' \in SUBSET Key /\ OfKeys(keys', "none") \in Write
    BY <1>3, WritesAreWrites, 0 \in Nat DEF RemoveKey, TypeOK
  <2>2. queue' \in Seq(Write)
    BY <1>3, <2>1, AppendProperties DEF RemoveKey, TypeOK
  <2> QED
    BY <1>0, <1>3, <2>1, <2>2 DEF RemoveKey, TypeOK
<1>4. CASE Lock
  BY <1>0, <1>4 DEF Lock, TypeOK
<1>5. CASE BeginUnlock \/ CheckOldPassword
  BY <1>0, <1>5, DeriveKeepsType DEF BeginUnlock, CheckOldPassword
<1>6. CASE Unlocked
  <2>1. calls["unlockWithSecret"].wraps \in Nat 
    BY <1>0 DEF TypeOK, Call
  <2> QED
    BY <1>0, <1>6, <2>1, EndFits DEF Unlocked, TypeOK
<1>7. CASE RemoveOldPassword
  <2>1. mainKey' \in Nat
    BY <1>0, <1>7 DEF RemoveOldPassword, TypeOK, Call
  <2> QED
    BY <1>0, <1>7, <2>1, RemoveKeepsType DEF RemoveOldPassword
<1>8. CASE RefuseChange
  BY <1>0, <1>8, EndFits DEF RefuseChange, TypeOK, memory
<1>9. CASE BeginAdd
  BY <1>0, <1>9, WrapKeepsType DEF BeginAdd, TypeOK
<1>10. ASSUME NEW m \in Methods, StoredRemoval(m)
       PROVE  TypeInv'
  <2>1. CASE m = "changeKeystorePassword"
    BY <1>1, <1>10, <2>1, WrapKeepsType DEF StoredRemoval, Written, TypeOK
  <2>2. CASE m # "changeKeystorePassword"
    BY <1>1, <1>10, <2>2, EndFits DEF StoredRemoval, TypeOK
  <2> QED
    BY <2>1, <2>2
<1>11. ASSUME NEW m \in Methods, Wrapped(m)
       PROVE  TypeInv'
  <2> DEFINE new == [id |-> calls[m].id, value |-> calls[m].value, wraps |-> calls[m].wraps]
  <2>1. new \in Secret
    BY <1>11 DEF Wrapped, TypeOK, CallsFit, Fits, Call, Secret
  <2>2. OfSecrets(m) \in Write
    BY WritesAreWrites
  <2> QED
    BY <1>11, <2>1, <2>2, AppendProperties, GotoFits DEF Wrapped, TypeOK, Stages
<1>12. ASSUME NEW m \in Methods, StoredSecret(m)
       PROVE  TypeInv'
  <2>1. calls[m].wraps \in Nat
    BY DEF TypeOK, Call
  <2>2. CASE uid = 0
    <3>1. OfUid(uid', m) \in Write /\ uid' \in Nat
      BY <1>12, <2>1, <2>2, WritesAreWrites DEF StoredSecret
    <3>2. queue' \in Seq(Write)
      BY <1>1, <1>12, <2>2, <3>1, AppendProperties DEF StoredSecret
    <3>3. CallsGood'
      BY <1>12, <2>2, GotoFits DEF StoredSecret, Written, Stages
    <3> QED
      BY <1>1, <1>12, <2>2, <3>1, <3>2, <3>3 DEF StoredSecret, TypeOK
  <2>3. CASE uid # 0
    BY <1>1, <1>12, <2>3, MakeReadyKeepsType DEF StoredSecret, TypeOK
  <2> QED
    BY <2>2, <2>3
<1>13. ASSUME NEW m \in Methods, StoredUid(m)
       PROVE  TypeInv'
  BY <1>1, <1>13, MakeReadyKeepsType DEF StoredUid, TypeOK
<1>14. ASSUME NEW m \in Methods, BeginAddKeys(m)
       PROVE  TypeInv'
  BY <1>14, BeginAddKeysKeepsType
<1>15. ASSUME NEW m \in Methods, StoredKeys(m)
       PROVE  TypeInv'
  BY <1>1, <1>15, EndFits DEF StoredKeys, TypeOK, memory
<1>16. CASE StoredAlone
  BY <1>0, <1>16, PersistKeepsType DEF StoredAlone, TypeOK, memory
<1>17. CASE Restart
  <2>1. CallsGood'
    BY <1>17, IdleIsCall DEF Restart, CallsFit, Fits, Idle
  <2>2. <<>> \in Seq(Write)
    OBVIOUS
  <2> QED
    BY <1>17, <2>1, <2>2 DEF Restart, TypeOK, Stored, Addrs
<1>18. ASSUME NEW m \in Methods, Return(m)
       PROVE  TypeInv'
  BY <1>18, ReturnFits DEF Return, TypeOK, memory
<1>19. CASE UNCHANGED vars
  BY <1>0, <1>19 DEF vars, memory, TypeOK
<1> QED
  BY <1>2, <1>3, <1>4, <1>5, <1>6, <1>7, <1>8, <1>9, <1>10, <1>11, <1>12, <1>13, <1>14,
     <1>15, <1>16, <1>17, <1>18, <1>19 DEF Next, UserStep, CallStep

LEMMA TypeInit == Init => TypeInv
<1> SUFFICES ASSUME Init PROVE TypeInv
  OBVIOUS
<1>1. <<>> \in Seq(Write) /\ Blank \in Stored
  BY DEF Blank, Stored
<1>2. CallsFit
  BY IdleIsCall DEF Init, CallsFit, Fits, Idle, Holding, Over
<1> QED
  BY <1>1, <1>2, IdleIsCall DEF Init, TypeInv, TypeOK

LEMMA TypesHold == Spec => []TypeInv
BY TypeInit, TypeStep, PTL DEF Spec

\* Every variable of the keystore keeps its type, in particular every private
\* key and every secret names a main key: for all values, addresses and bounds.
THEOREM TypeCorrect == Spec => []TypeOK
BY TypesHold, PTL DEF TypeInv

-----------------------------------------------------------------------------
(* One main key *)

\* A secret is in memory, or the change of the password that took it away is
\* about to add one; the same for the storage.
Backed == secrets # {} \/ ChangeStage \in {"removing", "wrapping"}
Founded == disk.secrets # {} \/ ChangeStage \in Window

\* All there is depends on the last main key that was made.
GoodWrite == {w \in Write :
    /\ w.to.uid \in {0, made}
    /\ \A s \in w.to.secrets : s.wraps = made
    /\ \A k \in PrivateKeys(w.to.keys) : k.wraps = made
    /\ IF w.of = "secrets" THEN Backed /\ (w.live \/ w.to.secrets # {}) ELSE Founded}

GoodCall(m) ==
    /\ calls[m].stage \in Holding => calls[m].wraps = made
    /\ calls[m].stage \in {"unlocking", "storing"} => Backed
    /\ calls[m].stage = "storingUid" => Founded
    /\ calls[m].stage = "wrapping" => m \in {"addSecret", "changeKeystorePassword"}

OneKey ==
    /\ {mainKey, uid, disk.uid} \subseteq {0, made}
    /\ \A s \in secrets \cup disk.secrets : s.wraps = made
    /\ \A k \in PrivateKeys(keys \cup disk.keys) : k.wraps = made

\* Another secret is in memory when the password is about to be removed alone.
RemovesPassword ==
    calls["removeSecret"].stage = "begun" =>
        calls["removeSecret"].id = "password" /\ SecretsOf("recovery") # {}

LEMMA RemovalStays ==
    ASSUME RemovesPassword, UNCHANGED <<calls, secrets>>
    PROVE  RemovesPassword'
BY DEF RemovesPassword, SecretsOf

\* The order in which things come to exist: a secret in memory, on the disk, and
\* only then what needs it.
InOrder ==
    /\ disk.secrets # {} => Backed
    /\ uid # 0 \/ disk.uid # 0 \/ ready \/ keys # {} \/ disk.keys # {} => Founded
    /\ ChangeStage \in {"removing", "wrapping"} => mainKey # 0
    /\ RemovesPassword

SoundInv ==
    /\ OneKey
    /\ InOrder
    /\ queue \in Seq(GoodWrite)
    /\ \A m \in Methods : GoodCall(m)

Inv == TypeInv /\ (~disturbed => SoundInv)

\* How the three forms of a step of a call change the calls.
LEMMA CallMoves ==
    ASSUME TypeInv, NEW m \in Methods, NEW stage
    PROVE  /\ End(m) => /\ calls'[m].stage = "done"
                        /\ \A n \in Methods \ {m} : calls'[n] = calls[n]
           /\ Goto(m, stage) => /\ calls'[m].stage = stage
                                /\ calls'[m].wraps = calls[m].wraps
                                /\ \A n \in Methods \ {m} : calls'[n] = calls[n]
<1>1. calls \in [Methods -> Call] /\ calls[m] \in Call
  BY DEF TypeInv, TypeOK
<1>2. [Idle EXCEPT !.stage = "done", !.owner = calls[m].owner].stage = "done"
  BY DEF Idle
<1>3. /\ [calls[m] EXCEPT !.stage = stage].stage = stage
      /\ [calls[m] EXCEPT !.stage = stage].wraps = calls[m].wraps
  BY <1>1 DEF Call
<1>4. Goto(m, stage) => calls' = [calls EXCEPT ![m] = [calls[m] EXCEPT !.stage = stage]]
  BY <1>1 DEF Goto
<1> QED
  BY <1>1, <1>2, <1>3, <1>4 DEF End

\* A step of the call m of this shape keeps the invariant.
LEMMA SoundStep ==
    ASSUME Inv, ~disturbed, NEW m \in Methods,
           \A n \in Methods \ {m} : calls'[n] = calls[n],
           made' = made, Backed => Backed', Founded => Founded',
           OneKey', InOrder', queue' \in Seq(GoodWrite'), GoodCall(m)'
    PROVE  SoundInv'
<1>1. ASSUME NEW n \in Methods \ {m} PROVE GoodCall(n)'
  <2>1. GoodCall(n) /\ calls'[n] = calls[n]
    BY DEF Inv, SoundInv
  <2> QED
    BY <2>1 DEF GoodCall
<1> QED
  BY <1>1 DEF SoundInv

LEMMA GoodWritesStay ==
    ASSUME made' = made, Backed => Backed', Founded => Founded'
    PROVE  GoodWrite \subseteq GoodWrite'
BY DEF GoodWrite

LEMMA QueueStays ==
    ASSUME made' = made, Backed => Backed', Founded => Founded',
           NEW q \in Seq(GoodWrite)
    PROVE  q \in Seq(GoodWrite')
BY GoodWritesStay, SeqMonotonic

\* The writes that are made.
LEMMA WritesAreGood ==
    ASSUME TypeOK, NEW m \in Methods \cup {"none"}
    PROVE  /\ Backed => OfSecrets(m) \in GoodWrite
           /\ Founded => OfUid(made, m) \in GoodWrite
           /\ \A new \in SUBSET Key :
                  Founded /\ (\A k \in PrivateKeys(new) : k.wraps = made) =>
                      OfKeys(new, m) \in GoodWrite
<1>1. /\ OfSecrets(m) \in Write
      /\ OfUid(made, m) \in Write
      /\ \A new \in SUBSET Key : OfKeys(new, m) \in Write
  BY WritesAreWrites, 0 \in Nat DEF TypeOK
<1>2. OfSecrets(m).to = Blank /\ OfSecrets(m).live /\ OfSecrets(m).of = "secrets"
  BY DEF OfSecrets
<1>3. /\ OfUid(made, m).to.uid = made /\ OfUid(made, m).to.secrets = {}
      /\ OfUid(made, m).to.keys = {} /\ OfUid(made, m).of = "uid"
  BY DEF OfUid, Blank
<1>4. \A new \in SUBSET Key :
          /\ OfKeys(new, m).to.uid = 0 /\ OfKeys(new, m).to.secrets = {}
          /\ OfKeys(new, m).to.keys = new /\ OfKeys(new, m).of = "keys"
  BY DEF OfKeys, Blank
<1> QED
  BY <1>1, <1>2, <1>3, <1>4 DEF GoodWrite, Blank, PrivateKeys

\* What the first write does to the storage.
LEMMA PersistIsSound ==
    ASSUME Inv, ~disturbed, queue # <<>>, Persist
    PROVE  /\ Tail(queue) \in Seq(GoodWrite)
           /\ disk'.uid \in {0, made}
           /\ \A s \in disk'.secrets : s.wraps = made
           /\ \A k \in PrivateKeys(disk'.keys) : k.wraps = made
           /\ disk'.secrets # {} => Backed
           /\ disk'.uid # 0 \/ disk'.keys # {} => Founded
           /\ disk.secrets # {} =>
                  disk'.secrets # {} \/ ChangeStage \in {"removing", "wrapping"}
           /\ Head(queue).of = "secrets" =>
                  disk'.secrets # {} \/ (secrets = {} /\ ChangeStage \in {"removing", "wrapping"})
<1> DEFINE write == Head(queue)
<1>1. write \in GoodWrite /\ Tail(queue) \in Seq(GoodWrite)
  BY HeadTailProperties DEF Inv, SoundInv
<1>2. disk \in Stored /\ write.of \in {"secrets", "keys", "uid"} /\ write.to \in Stored
  BY <1>1 DEF Inv, TypeInv, TypeOK, GoodWrite, Write
<1>3. OneKey /\ InOrder
  BY DEF Inv, SoundInv
<1> HIDE DEF write
<1>4. CASE write.of = "secrets"
  <2>1. disk' = [disk EXCEPT !.secrets = IF write.live THEN secrets ELSE write.to.secrets]
    BY <1>4 DEF Persist, write
  <2>2. /\ disk'.secrets = IF write.live THEN secrets ELSE write.to.secrets
        /\ disk'.uid = disk.uid /\ disk'.keys = disk.keys
    BY <1>2, <2>1 DEF Stored
  <2>3. Backed /\ (write.live \/ write.to.secrets # {})
        /\ \A s \in write.to.secrets : s.wraps = made
    BY <1>1, <1>4 DEF GoodWrite
  <2> QED
    BY <1>1, <1>3, <1>4, <2>2, <2>3 DEF OneKey, InOrder, Backed, PrivateKeys
<1>5. CASE write.of = "keys"
  <2>1. disk' = [disk EXCEPT !.keys = write.to.keys]
    BY <1>5 DEF Persist, write
  <2>2. disk'.keys = write.to.keys /\ disk'.uid = disk.uid /\ disk'.secrets = disk.secrets
    BY <1>2, <2>1 DEF Stored
  <2>3. Founded /\ \A k \in PrivateKeys(write.to.keys) : k.wraps = made
    BY <1>1, <1>5 DEF GoodWrite
  <2> QED
    BY <1>1, <1>3, <1>5, <2>2, <2>3 DEF OneKey, InOrder, write
<1>6. CASE write.of = "uid"
  <2>1. disk' = [disk EXCEPT !.uid = write.to.uid]
    BY <1>6 DEF Persist, write
  <2>2. disk'.keys = disk.keys /\ disk'.uid = write.to.uid /\ disk'.secrets = disk.secrets
    BY <1>2, <2>1 DEF Stored
  <2>3. Founded /\ write.to.uid \in {0, made}
    BY <1>1, <1>6 DEF GoodWrite
  <2> QED
    BY <1>1, <1>3, <1>6, <2>2, <2>3 DEF OneKey, InOrder, PrivateKeys, write
<1> QED
  BY <1>2, <1>4, <1>5, <1>6

-----------------------------------------------------------------------------
(* Every action keeps it *)

LEMMA StartIsSound ==
    ASSUME Inv, ~disturbed, NEW m \in Methods, NEW call \in Call, Start(m, call),
           UNCHANGED <<memory, queue, disk, made>>,
           m = "removeSecret" => call.id = "password" /\ SecretsOf("recovery") # {}
    PROVE  SoundInv'
<1>1. calls \in [Methods -> Call]
  BY DEF Inv, TypeInv, TypeOK
<1>2. /\ calls[m].stage = "idle"
      /\ calls'[m].stage = "begun" /\ calls'[m].id = call.id
      /\ \A n \in Methods \ {m} : calls'[n] = calls[n]
  <2>1. [call EXCEPT !.stage = "begun"].stage = "begun"
        /\ [call EXCEPT !.stage = "begun"].id = call.id
    BY DEF Call
  <2> QED
    BY <1>1, <2>1 DEF Start, MayStart
<1>3. "changeKeystorePassword" \in Methods /\ "removeSecret" \in Methods
  BY DEF Methods, Exclusive
<1>4. ChangeStage' = ChangeStage \/ (ChangeStage = "idle" /\ ChangeStage' = "begun")
  BY <1>2, <1>3 DEF ChangeStage
<1>5. RemovesPassword'
  <2>1. SecretsOf("recovery")' = SecretsOf("recovery")
    BY DEF SecretsOf, memory
  <2>2. RemovesPassword
    BY DEF Inv, SoundInv, InOrder
  <2> QED
    BY <1>2, <1>3, <2>1, <2>2 DEF RemovesPassword
<1>6. (Backed => Backed') /\ (Founded => Founded')
  BY <1>4 DEF Backed, Founded, memory, Window
<1>7. OneKey' /\ InOrder' /\ queue' \in Seq(GoodWrite')
  <2>1. OneKey' /\ InOrder'
    BY <1>4, <1>5, <1>6 DEF Inv, SoundInv, OneKey, InOrder, memory
  <2> QED
    BY <1>6, <2>1, QueueStays DEF Inv, SoundInv
<1>8. GoodCall(m)'
  BY <1>2 DEF GoodCall, Holding
<1> QED
  BY <1>2, <1>6, <1>7, <1>8, SoundStep

LEMMA StartSound ==
    ASSUME Inv, ~disturbed, UserCall, UNCHANGED <<memory, queue, disk, made, disturbed>>
    PROVE  SoundInv'
BY UserCallStarts, StartIsSound DEF UserStarts, Startable

\* The stage of the change is that of another call's step, or its own.
LEMMA ChangeMoves ==
    ASSUME Inv, NEW m \in Methods, \A n \in Methods \ {m} : calls'[n] = calls[n],
           calls'[m].stage # "begun",
           secrets \subseteq secrets' \cup SecretsOf("password")
    PROVE  /\ m # "changeKeystorePassword" => ChangeStage' = ChangeStage
           /\ m = "changeKeystorePassword" =>
                  ChangeStage = calls[m].stage /\ ChangeStage' = calls'[m].stage
           /\ ~disturbed => RemovesPassword'
<1>1. "changeKeystorePassword" \in Methods /\ "removeSecret" \in Methods
  BY DEF Methods, Exclusive
<1>2. /\ m # "changeKeystorePassword" => ChangeStage' = ChangeStage
      /\ m = "changeKeystorePassword" =>
             ChangeStage = calls[m].stage /\ ChangeStage' = calls'[m].stage
  BY <1>1 DEF ChangeStage
<1>3. CASE m = "removeSecret"
  BY <1>2, <1>3 DEF RemovesPassword
<1>4. CASE m # "removeSecret"
  <2>1. SecretsOf("recovery") \subseteq SecretsOf("recovery")'
    BY DEF SecretsOf
  <2> QED
    BY <1>1, <1>2, <1>4, <2>1 DEF RemovesPassword, Inv, SoundInv, InOrder
<1> QED
  BY <1>3, <1>4

\* A call that ends without a write, and not in the middle of a change.
LEMMA EndSound ==
    ASSUME Inv, ~disturbed, NEW m \in Methods, End(m), calls[m].stage # "idle",
           m = "changeKeystorePassword" => calls[m].stage \notin Window,
           UNCHANGED <<secrets, keys, uid, ready, queue, disk, made>>,
           mainKey' \in {0, made}, mainKey # 0 => mainKey' # 0
    PROVE  SoundInv'
<1>1. calls'[m].stage = "done" /\ \A n \in Methods \ {m} : calls'[n] = calls[n]
  BY CallMoves DEF Inv
<1>2. /\ ChangeStage' = ChangeStage \/ (ChangeStage \notin Window /\ ChangeStage' = "done")
      /\ RemovesPassword'
  BY <1>1, ChangeMoves
<1>3. (Backed => Backed') /\ (Founded => Founded')
  BY <1>2 DEF Backed, Founded, Window
<1>4. OneKey' /\ InOrder'
  BY <1>2, <1>3 DEF Inv, SoundInv, OneKey, InOrder, Window
<1>5. queue' \in Seq(GoodWrite')
  BY <1>3, QueueStays DEF Inv, SoundInv
<1>6. GoodCall(m)'
  BY <1>1 DEF GoodCall, Holding
<1> QED
  BY <1>1, <1>3, <1>4, <1>5, <1>6, SoundStep

LEMMA DeriveSound ==
    ASSUME Inv, ~disturbed, NEW m \in Methods, NEW id, NEW value, Derive(m, id, value)
    PROVE  SoundInv'
<1>1. calls[m].stage = "begun" /\ calls[m] \in Call /\ calls \in [Methods -> Call]
  BY DEF Derive, Inv, TypeInv, TypeOK
<1>2. CASE End(m)
  BY <1>1, <1>2, EndSound DEF Derive, Inv, SoundInv, OneKey, Window, memory
<1>3. ASSUME NEW s \in SecretsOf(id),
             calls' = [calls EXCEPT ![m] = [calls[m] EXCEPT
                  !.stage = "unlocking", !.wraps = s.wraps, !.opens = (s.value = value)]]
      PROVE  SoundInv'
  <2>1. /\ calls'[m].stage = "unlocking" /\ calls'[m].wraps = s.wraps
        /\ \A n \in Methods \ {m} : calls'[n] = calls[n]
    BY <1>1, <1>3 DEF Call
  <2>2. s \in secrets /\ s.wraps = made
    BY DEF SecretsOf, Inv, SoundInv, OneKey
  <2>3. /\ ChangeStage' = ChangeStage \/ (ChangeStage = "begun" /\ ChangeStage' = "unlocking")
        /\ RemovesPassword'
    BY <1>1, <2>1, ChangeMoves DEF Derive, memory
  <2>4. (Backed => Backed') /\ (Founded => Founded') /\ made' = made
    BY <2>3 DEF Derive, Backed, Founded, Window, memory
  <2>5. OneKey' /\ InOrder'
    BY <2>3, <2>4 DEF Derive, Inv, SoundInv, OneKey, InOrder, memory
  <2>6. queue' \in Seq(GoodWrite')
    BY <2>4, QueueStays DEF Derive, Inv, SoundInv
  <2>7. GoodCall(m)'
    BY <2>1, <2>2, <2>4 DEF GoodCall, Holding, Backed, Derive, memory
  <2> QED
    BY <2>1, <2>4, <2>5, <2>6, <2>7, SoundStep
<1> QED
  BY <1>2, <1>3 DEF Derive

LEMMA UnlockedSound ==
    ASSUME Inv, ~disturbed, Unlocked
    PROVE  SoundInv'
<1> DEFINE m == "unlockWithSecret"
<1>1. m \in Methods /\ calls[m].stage = "unlocking" /\ Fits(m, calls[m]) /\ GoodCall(m)
  BY DEF Unlocked, Methods, Inv, TypeInv, CallsFit, SoundInv
<1>2. mainKey' \in {0, made} /\ (mainKey # 0 => mainKey' # 0)
  BY <1>1 DEF Unlocked, GoodCall, Fits, Holding, Inv, SoundInv, OneKey
<1> QED
  BY <1>1, <1>2, EndSound DEF Unlocked

\* The queued writes of the secrets keep the list that is replaced.
LEMMA DetachedIsGood ==
    ASSUME Inv, ~disturbed, secrets # {}
    PROVE  Detached \in Seq(GoodWrite)
<1>1. queue \in Seq(GoodWrite) /\ Len(queue) \in Nat /\ DOMAIN queue = 1..Len(queue)
  BY DEF Inv, SoundInv
<1>2. [Blank EXCEPT !.secrets = secrets] \in Stored
  BY DEF Inv, TypeInv, TypeOK, Blank, Stored
<1>3. /\ [Blank EXCEPT !.secrets = secrets].secrets = secrets
      /\ [Blank EXCEPT !.secrets = secrets].keys = {}
      /\ [Blank EXCEPT !.secrets = secrets].uid = 0
  BY DEF Blank
<1>4. ASSUME NEW w \in GoodWrite
      PROVE  [w EXCEPT !.live = FALSE, !.to = [Blank EXCEPT !.secrets = secrets]] \in GoodWrite
  <2> DEFINE v == [w EXCEPT !.live = FALSE, !.to = [Blank EXCEPT !.secrets = secrets]]
  <2>1. w \in Write
    BY DEF GoodWrite
  <2>2. v \in Write /\ v.of = w.of /\ v.to = [Blank EXCEPT !.secrets = secrets]
    BY <1>2, <2>1 DEF Write
  <2>3. \A s \in secrets : s.wraps = made
    BY DEF Inv, SoundInv, OneKey
  <2> HIDE DEF v
  <2>4. v \in GoodWrite
    BY <1>3, <2>2, <2>3 DEF GoodWrite, PrivateKeys, Backed
  <2> QED
    BY <2>4 DEF v
<1>5. \A i \in 1..Len(queue) : queue[i] \in GoodWrite
  BY <1>1
<1>6. Detached \in [1..Len(queue) -> GoodWrite]
  BY <1>1, <1>4, <1>5 DEF Detached
<1> QED
  BY <1>1, <1>6, SeqDef

LEMMA RemoveSound ==
    ASSUME Inv, ~disturbed, RemoveOldPassword
    PROVE  SoundInv'
<1> DEFINE m == "changeKeystorePassword"
<1>1. /\ m \in Methods /\ calls[m].stage \in {"begun", "unlocking"}
      /\ Fits(m, calls[m]) /\ GoodCall(m)
  BY DEF RemoveOldPassword, Methods, Exclusive, Inv, TypeInv, CallsFit, SoundInv
<1>2. mainKey' # 0 /\ mainKey' \in {0, made}
  BY <1>1 DEF RemoveOldPassword, GoodCall, Fits, Holding, Inv, SoundInv, OneKey
<1>3. CASE SecretsOf("password") = {}
  BY <1>1, <1>2, <1>3, EndSound DEF RemoveOldPassword, Remove, Window
<1>4. CASE SecretsOf("password") # {}
  <2>1. /\ secrets' = secrets \ SecretsOf("password")
        /\ queue' = Append(Detached, OfSecrets(m))
        /\ Goto(m, "removing")
        /\ UNCHANGED <<keys, uid, ready, disk, made, disturbed>>
    BY <1>4 DEF RemoveOldPassword, Remove
  <2>2. calls'[m].stage = "removing" /\ \A n \in Methods \ {m} : calls'[n] = calls[n]
    BY <1>1, <2>1, CallMoves DEF Inv
  <2>3. ChangeStage' = "removing" /\ RemovesPassword'
    BY <1>1, <2>1, <2>2, ChangeMoves
  <2>4. Backed' /\ Founded'
    BY <2>3 DEF Backed, Founded, Window
  <2>5. OneKey' /\ InOrder'
    BY <1>2, <2>1, <2>3, <2>4 DEF Inv, SoundInv, OneKey, InOrder
  <2>6. secrets # {}
    BY <1>4 DEF SecretsOf
  <2>7. Backed /\ OfSecrets(m) \in GoodWrite
    BY <1>1, <2>6, WritesAreGood DEF Backed, Inv, TypeInv
  <2>8. queue' \in Seq(GoodWrite)
    BY <2>1, <2>6, <2>7, DetachedIsGood, AppendProperties
  <2>9. queue' \in Seq(GoodWrite')
    BY <2>1, <2>4, <2>8, QueueStays
  <2>10. GoodCall(m)'
    BY <2>2 DEF GoodCall, Holding
  <2> QED
    BY <1>1, <2>1, <2>2, <2>4, <2>5, <2>9, <2>10, SoundStep
<1> QED
  BY <1>3, <1>4

\* A call that goes on with a main key.
LEMMA WrappingMoves ==
    ASSUME Inv, NEW m \in Methods, NEW n,
           calls' = [calls EXCEPT ![m] = [calls[m] EXCEPT !.stage = "wrapping", !.wraps = n]]
    PROVE  /\ calls'[m].stage = "wrapping" /\ calls'[m].wraps = n
           /\ \A o \in Methods \ {m} : calls'[o] = calls[o]
BY DEF Inv, TypeInv, TypeOK, Call

\* When addSecret makes a main key, nothing depends on an older one.
LEMMA NothingYet ==
    ASSUME Inv, ~disturbed, NeedsFresh, calls["addSecret"].stage = "begun"
    PROVE  /\ ~Backed /\ ~Founded
           /\ uid = 0 /\ disk.uid = 0 /\ keys = {} /\ disk.keys = {} /\ ready = FALSE
           /\ secrets = {} /\ disk.secrets = {}
           /\ queue = <<>>
           /\ \A m \in Methods : calls[m].stage \notin Holding
<1>1. InOrder /\ mainKey = 0 /\ secrets = {} /\ ready \in BOOLEAN
  BY DEF Inv, TypeInv, TypeOK, SoundInv, NeedsFresh
<1>2. ~Backed /\ disk.secrets = {}
  BY <1>1 DEF InOrder, Backed
<1>3. "changeKeystorePassword" \in Methods
  BY DEF Methods, Exclusive
<1>4. ~Founded
  BY <1>2, <1>3 DEF Founded, Backed, Window, Inv, SoundInv, GoodCall, ChangeStage
<1>5. queue = <<>>
  <2>1. GoodWrite = {}
    BY <1>2, <1>4 DEF GoodWrite
  <2> QED
    BY <2>1, HeadTailProperties DEF Inv, SoundInv
<1>6. ASSUME NEW m \in Methods PROVE calls[m].stage \notin Holding
  BY <1>2, <1>4 DEF Inv, SoundInv, GoodCall, Holding, Backed, ChangeStage
<1> QED
  BY <1>1, <1>2, <1>4, <1>5, <1>6 DEF InOrder

LEMMA BeginAddSound ==
    ASSUME Inv, ~disturbed, BeginAdd
    PROVE  SoundInv'
<1> DEFINE m == "addSecret"
<1>1. /\ m \in Methods /\ calls[m].stage = "begun" /\ Wrap(m)
      /\ UNCHANGED <<secrets, keys, uid, ready, waiting, queue, disk, disturbed>>
  BY DEF BeginAdd, Methods
<1>2. CASE End(m) /\ UNCHANGED <<mainKey, made>>
  BY <1>1, <1>2, EndSound DEF Inv, SoundInv, OneKey
<1>3. CASE /\ calls' = [calls EXCEPT ![m] = [calls[m] EXCEPT !.stage = "wrapping", !.wraps = mainKey]]
           /\ mainKey # 0
           /\ UNCHANGED <<mainKey, made>>
  <2>1. /\ calls'[m].stage = "wrapping" /\ calls'[m].wraps = mainKey
        /\ \A o \in Methods \ {m} : calls'[o] = calls[o]
    BY <1>1, <1>3, WrappingMoves
  <2>2. ChangeStage' = ChangeStage /\ RemovesPassword'
    BY <1>1, <2>1, ChangeMoves
  <2>3. (Backed => Backed') /\ (Founded => Founded')
    BY <1>1, <2>2 DEF Backed, Founded
  <2>4. OneKey' /\ InOrder' /\ mainKey = made
    BY <1>1, <1>3, <2>2, <2>3 DEF Inv, SoundInv, OneKey, InOrder
  <2>5. queue' \in Seq(GoodWrite')
    BY <1>1, <1>3, <2>3, QueueStays DEF Inv, SoundInv
  <2>6. GoodCall(m)'
    BY <1>3, <2>1, <2>4 DEF GoodCall
  <2> QED
    BY <1>1, <1>3, <2>1, <2>3, <2>4, <2>5, <2>6, SoundStep
<1>4. CASE /\ NeedsFresh
           /\ made' = made + 1
           /\ mainKey' = IF calls[m].leave THEN made' ELSE mainKey
           /\ calls' = [calls EXCEPT ![m] = [calls[m] EXCEPT !.stage = "wrapping", !.wraps = made']]
  <2>1. /\ calls'[m].stage = "wrapping" /\ calls'[m].wraps = made'
        /\ \A o \in Methods \ {m} : calls'[o] = calls[o]
    BY <1>1, <1>4, WrappingMoves
  <2>2. ChangeStage' = ChangeStage /\ RemovesPassword'
    BY <1>1, <2>1, ChangeMoves
  <2>3. /\ uid' = 0 /\ disk'.uid = 0 /\ keys' = {} /\ disk'.keys = {} /\ ready' = FALSE
        /\ secrets' = {} /\ disk'.secrets = {} /\ queue' = <<>>
        /\ \A o \in Methods : calls[o].stage \notin Holding
        /\ ChangeStage \notin {"removing", "wrapping"}
    BY <1>1, <1>4, NothingYet DEF Backed
  <2>4. mainKey' \in {0, made'}
    BY <1>4 DEF NeedsFresh
  <2>5. OneKey' /\ InOrder'
    BY <2>2, <2>3, <2>4 DEF OneKey, InOrder, PrivateKeys
  <2>6. <<>> \in Seq(GoodWrite')
    OBVIOUS
  <2>7. ASSUME NEW o \in Methods PROVE GoodCall(o)'
    BY <2>1, <2>3 DEF GoodCall, Holding
  <2> QED
    BY <2>3, <2>5, <2>6, <2>7 DEF SoundInv
<1> QED
  BY <1>1, <1>2, <1>3, <1>4 DEF Wrap

\* A write that is done while no change is in the middle of its steps, or none
\* moves, takes nothing away.
LEMMA PersistStays ==
    ASSUME Inv, ~disturbed, queue # <<>>, Persist, UNCHANGED secrets,
           ChangeStage' = ChangeStage \/ (ChangeStage \notin Window /\ ChangeStage' \notin Window)
    PROVE  (Backed => Backed') /\ (Founded => Founded')
BY PersistIsSound DEF Backed, Founded, Window

LEMMA StoredRemovalSound ==
    ASSUME Inv, ~disturbed, NEW m \in Methods, StoredRemoval(m)
    PROVE  SoundInv'
<1>1. /\ queue # <<>> /\ Persist /\ Head(queue).of = "secrets"
      /\ calls[m].stage = "removing" /\ queue' = Tail(queue)
      /\ UNCHANGED <<secrets, keys, uid, ready>>
  BY DEF StoredRemoval, Written
<1>2. CASE m # "changeKeystorePassword"
  <2>1. End(m) /\ UNCHANGED <<mainKey, made>>
    BY <1>2 DEF StoredRemoval
  <2>2. calls'[m].stage = "done" /\ \A n \in Methods \ {m} : calls'[n] = calls[n]
    BY <2>1, CallMoves DEF Inv
  <2>3. ChangeStage' = ChangeStage /\ RemovesPassword'
    BY <1>1, <1>2, <2>2, ChangeMoves
  <2>4. (Backed => Backed') /\ (Founded => Founded')
    BY <1>1, <2>3, PersistStays
  <2>5. OneKey' /\ InOrder'
    BY <1>1, <2>1, <2>3, <2>4, PersistIsSound DEF Inv, SoundInv, OneKey, InOrder, PrivateKeys
  <2>6. queue' \in Seq(GoodWrite')
    BY <1>1, <2>1, <2>4, PersistIsSound, QueueStays
  <2>7. GoodCall(m)'
    BY <2>2 DEF GoodCall, Holding
  <2> QED
    BY <2>1, <2>2, <2>4, <2>5, <2>6, <2>7, SoundStep
<1>3. CASE m = "changeKeystorePassword"
  <2>1. Wrap(m) /\ ChangeStage = "removing" /\ mainKey # 0
    BY <1>1, <1>3 DEF StoredRemoval, Inv, SoundInv, InOrder, ChangeStage
  <2>2. CASE SecretsOf(calls[m].id) # {} /\ End(m) /\ UNCHANGED <<mainKey, made>>
    <3>1. calls'[m].stage = "done" /\ \A n \in Methods \ {m} : calls'[n] = calls[n]
      BY <2>2, CallMoves DEF Inv
    <3>2. ChangeStage' = "done" /\ RemovesPassword'
      BY <1>1, <1>3, <3>1, ChangeMoves
    <3>3. secrets # {} /\ disk'.secrets # {}
      BY <1>1, <2>2, PersistIsSound DEF SecretsOf
    <3>4. Backed' /\ Founded'
      BY <1>1, <3>3 DEF Backed, Founded
    <3>5. OneKey' /\ InOrder'
      BY <1>1, <2>2, <3>2, <3>4, PersistIsSound DEF Inv, SoundInv, OneKey, InOrder, PrivateKeys
    <3>6. queue' \in Seq(GoodWrite')
      BY <1>1, <2>2, <3>4, PersistIsSound, QueueStays
    <3>7. GoodCall(m)'
      BY <3>1 DEF GoodCall, Holding
    <3> QED
      BY <2>2, <3>1, <3>4, <3>5, <3>6, <3>7, SoundStep
  <2>3. CASE /\ calls' = [calls EXCEPT ![m] = [calls[m] EXCEPT !.stage = "wrapping", !.wraps = mainKey]]
             /\ UNCHANGED <<mainKey, made>>
    <3>1. /\ calls'[m].stage = "wrapping" /\ calls'[m].wraps = mainKey
          /\ \A o \in Methods \ {m} : calls'[o] = calls[o]
      BY <2>3, WrappingMoves
    <3>2. ChangeStage' = "wrapping" /\ RemovesPassword'
      BY <1>1, <1>3, <3>1, ChangeMoves
    <3>3. Backed' /\ Founded' /\ mainKey = made
      BY <2>1, <3>2 DEF Backed, Founded, Window, Inv, SoundInv, OneKey
    <3>4. OneKey' /\ InOrder'
      BY <1>1, <2>1, <2>3, <3>2, <3>3, PersistIsSound
         DEF Inv, SoundInv, OneKey, InOrder, PrivateKeys
    <3>5. queue' \in Seq(GoodWrite')
      BY <1>1, <2>3, <3>3, PersistIsSound, QueueStays
    <3>6. GoodCall(m)'
      BY <1>3, <2>3, <3>1, <3>3 DEF GoodCall
    <3> QED
      BY <2>3, <3>1, <3>3, <3>4, <3>5, <3>6, SoundStep
  <2> QED
    BY <2>1, <2>2, <2>3 DEF Wrap, NeedsFresh
<1> QED
  BY <1>2, <1>3

LEMMA WrappedSound ==
    ASSUME Inv, ~disturbed, NEW m \in Methods, Wrapped(m)
    PROVE  SoundInv'
<1> DEFINE new == [id |-> calls[m].id, value |-> calls[m].value, wraps |-> calls[m].wraps]
<1>1. /\ calls[m].stage = "wrapping" /\ Goto(m, "storing")
      /\ secrets' = secrets \cup {new}
      /\ queue' = Append(queue, OfSecrets(m))
      /\ UNCHANGED <<mainKey, keys, uid, ready, disk, made>>
  BY DEF Wrapped
<1>2. /\ calls'[m].stage = "storing" /\ calls'[m].wraps = made
      /\ \A n \in Methods \ {m} : calls'[n] = calls[n]
  BY <1>1, CallMoves DEF Inv, SoundInv, GoodCall, Holding
<1>3. /\ ChangeStage' = ChangeStage \/ (ChangeStage = "wrapping" /\ ChangeStage' = "storing")
      /\ RemovesPassword'
  BY <1>1, <1>2, ChangeMoves
<1>4. new.wraps = made
  BY <1>1 DEF Inv, SoundInv, GoodCall, Holding
<1>5. Backed' /\ (Founded => Founded')
  BY <1>1, <1>3 DEF Backed, Founded, Window
<1>6. OneKey' /\ InOrder'
  BY <1>1, <1>3, <1>4, <1>5 DEF Inv, SoundInv, OneKey, InOrder
<1>7. queue' \in Seq(GoodWrite')
  <2>1. queue \in Seq(GoodWrite')
    BY <1>1, <1>5, QueueStays DEF Inv, SoundInv
  <2>2. OfSecrets(m) \in GoodWrite'
    BY <1>5, WritesAreWrites, 0 \in Nat DEF GoodWrite, OfSecrets, Blank, PrivateKeys, Inv, TypeInv
  <2> QED
    BY <1>1, <2>1, <2>2, AppendProperties
<1>8. GoodCall(m)'
  BY <1>1, <1>2, <1>5 DEF GoodCall
<1> QED
  BY <1>1, <1>2, <1>5, <1>6, <1>7, <1>8, SoundStep

\* The keys that are added are encrypted with the main key.
LEMMA NewKeysAreGood ==
    ASSUME Inv, ~disturbed, NEW adds \in SUBSET Addrs,
           mainKey # 0 \/ adds \cap Internal = {}
    PROVE  \A k \in PrivateKeys(New(adds)) : k.wraps = made
BY DEF Inv, SoundInv, OneKey, New, Encrypted, PrivateKeys

\* The keystore becomes ready after a secret is on the disk.
LEMMA MakeReadySound ==
    ASSUME Inv, ~disturbed, NEW m \in Methods, NEW pending \in Seq(GoodWrite'),
           MakeReady(m, pending), calls[m].stage # "idle",
           UNCHANGED <<mainKey, secrets, made>>, Backed => Backed', Founded',
           disk'.uid \in {0, made}, \A s \in disk'.secrets : s.wraps = made,
           \A k \in PrivateKeys(disk'.keys) : k.wraps = made,
           disk'.secrets # {} => Backed,
           m = "changeKeystorePassword" => calls[m].stage \notin {"removing", "wrapping"}
    PROVE  SoundInv'
<1> DEFINE private == IF mainKey = 0 THEN {} ELSE New(waiting \cap Internal)
           devices == New(waiting \cap External)
           first == IF private = {} THEN <<>> ELSE <<OfKeys(keys \cup private, "none")>>
           second == IF devices = {} THEN <<>>
                     ELSE <<OfKeys(keys \cup private \cup devices, "none")>>
<1>1. /\ keys' = keys \cup private \cup devices /\ ready' /\ UNCHANGED uid /\ End(m)
      /\ queue' = pending \o first \o second
  BY DEF MakeReady
<1>2. waiting \subseteq Addrs /\ (waiting \cap External) \cap Internal = {}
  BY KeystoreAssumption DEF Inv, TypeInv, TypeOK
<1>3. /\ private \in SUBSET Key /\ devices \in SUBSET Key
      /\ \A k \in PrivateKeys(private) : k.wraps = made
      /\ \A k \in PrivateKeys(devices) : k.wraps = made
  <2>1. waiting \cap Internal \in SUBSET Addrs /\ waiting \cap External \in SUBSET Addrs
    BY <1>2
  <2>2. PrivateKeys({}) = {}
    BY DEF PrivateKeys
  <2> QED
    BY <1>2, <2>1, <2>2, NewKeysAreGood, NewIsKeys DEF Inv, TypeInv
<1>4. /\ keys \cup private \in SUBSET Key /\ keys \cup private \cup devices \in SUBSET Key
      /\ \A k \in PrivateKeys(keys \cup private) : k.wraps = made
      /\ \A k \in PrivateKeys(keys \cup private \cup devices) : k.wraps = made
  BY <1>3 DEF Inv, TypeInv, TypeOK, SoundInv, OneKey, PrivateKeys
<1> HIDE DEF private, devices
<1>5. \A new \in SUBSET Key :
          (\A k \in PrivateKeys(new) : k.wraps = made) => OfKeys(new, "none") \in GoodWrite'
  <2> TAKE new \in SUBSET Key
  <2> HAVE \A k \in PrivateKeys(new) : k.wraps = made
  <2>1. /\ OfKeys(new, "none") \in Write
        /\ OfKeys(new, "none").to.uid = 0 /\ OfKeys(new, "none").to.secrets = {}
        /\ OfKeys(new, "none").to.keys = new /\ OfKeys(new, "none").of = "keys"
    BY WritesAreWrites, 0 \in Nat DEF OfKeys, Blank, Inv, TypeInv
  <2> QED
    BY <2>1 DEF GoodWrite
<1>6. first \in Seq(GoodWrite') /\ second \in Seq(GoodWrite')
  <2>1. OfKeys(keys \cup private, "none") \in GoodWrite'
        /\ OfKeys(keys \cup private \cup devices, "none") \in GoodWrite'
    BY <1>4, <1>5
  <2> QED
    BY <2>1
<1>7. queue' \in Seq(GoodWrite')
  BY <1>1, <1>6, ConcatProperties
<1>8. calls'[m].stage = "done" /\ \A n \in Methods \ {m} : calls'[n] = calls[n]
  BY <1>1, CallMoves DEF Inv
<1>9. /\ ChangeStage' = ChangeStage \/ ChangeStage' = "done"
      /\ RemovesPassword'
  BY <1>8, ChangeMoves
<1>10. OneKey'
  BY <1>1, <1>4 DEF Inv, SoundInv, OneKey, PrivateKeys
<1>11. InOrder'
  BY <1>1, <1>9 DEF Inv, SoundInv, InOrder
<1>12. GoodCall(m)'
  BY <1>8 DEF GoodCall, Holding
<1> QED
  BY <1>7, <1>8, <1>10, <1>11, <1>12, SoundStep

LEMMA StoredSecretSound ==
    ASSUME Inv, ~disturbed, NEW m \in Methods, StoredSecret(m)
    PROVE  SoundInv'
<1>1. /\ queue # <<>> /\ Persist /\ Head(queue).of = "secrets"
      /\ calls[m].stage = "storing"
      /\ UNCHANGED <<mainKey, secrets, made>>
  BY DEF StoredSecret, Written
<1>2. Backed /\ calls[m].wraps = made
  BY <1>1 DEF Inv, SoundInv, GoodCall, Holding
<1>3. CASE uid = 0
  <2>1. /\ uid' = made
        /\ queue' = Append(Tail(queue), OfUid(made, m))
        /\ Goto(m, "storingUid")
        /\ UNCHANGED <<ready, keys>>
    BY <1>2, <1>3 DEF StoredSecret
  <2>2. /\ calls'[m].stage = "storingUid" /\ calls'[m].wraps = made
        /\ \A n \in Methods \ {m} : calls'[n] = calls[n]
    BY <1>2, <2>1, CallMoves DEF Inv
  <2>3. /\ m # "changeKeystorePassword" => ChangeStage' = ChangeStage
        /\ m = "changeKeystorePassword" => ChangeStage = "storing" /\ ChangeStage' = "storingUid"
        /\ RemovesPassword'
    BY <1>1, <2>2, ChangeMoves
  <2>4. Backed' /\ Founded'
    BY <1>1, <1>2, <2>3, PersistIsSound DEF Backed, Founded, Window
  <2>5. OneKey' /\ InOrder'
    BY <1>1, <2>1, <2>3, <2>4, PersistIsSound DEF Inv, SoundInv, OneKey, InOrder, PrivateKeys
  <2>6. queue' \in Seq(GoodWrite')
    <3>1. Tail(queue) \in Seq(GoodWrite')
      BY <1>1, <2>4, PersistIsSound, QueueStays
    <3>2. OfUid(made, m) \in GoodWrite'
      <4>1. /\ OfUid(made, m) \in Write
            /\ OfUid(made, m).to.uid = made /\ OfUid(made, m).to.secrets = {}
            /\ OfUid(made, m).to.keys = {} /\ OfUid(made, m).of = "uid"
        BY WritesAreWrites DEF OfUid, Blank, Inv, TypeInv, TypeOK
      <4> QED
        BY <1>1, <2>4, <4>1 DEF GoodWrite, PrivateKeys
    <3> QED
      BY <2>1, <3>1, <3>2, AppendProperties
  <2>7. GoodCall(m)'
    BY <1>1, <2>2, <2>4 DEF GoodCall
  <2> QED
    BY <1>1, <2>2, <2>4, <2>5, <2>6, <2>7, SoundStep
<1>4. CASE uid # 0
  <2>1. MakeReady(m, Tail(queue)) /\ End(m)
    BY <1>4 DEF StoredSecret, MakeReady
  <2>2. calls'[m].stage = "done" /\ \A n \in Methods \ {m} : calls'[n] = calls[n]
    BY <2>1, CallMoves DEF Inv
  <2>3. /\ m # "changeKeystorePassword" => ChangeStage' = ChangeStage
        /\ m = "changeKeystorePassword" => ChangeStage = "storing" /\ ChangeStage' = "done"
    BY <1>1, <2>2, ChangeMoves
  <2>4. Backed' /\ Founded'
    BY <1>1, <1>2, <2>3, PersistIsSound DEF Backed, Founded, Window
  <2>5. Tail(queue) \in Seq(GoodWrite')
    BY <1>1, <2>4, PersistIsSound, QueueStays
  <2> QED
    BY <1>1, <2>1, <2>4, <2>5, PersistIsSound, MakeReadySound
<1> QED
  BY <1>3, <1>4

LEMMA StoredUidSound ==
    ASSUME Inv, ~disturbed, NEW m \in Methods, StoredUid(m)
    PROVE  SoundInv'
<1>1. /\ queue # <<>> /\ Persist /\ calls[m].stage = "storingUid"
      /\ MakeReady(m, Tail(queue)) /\ End(m)
      /\ UNCHANGED <<mainKey, secrets, made>>
  BY DEF StoredUid, Written, MakeReady
<1>2. calls'[m].stage = "done" /\ \A n \in Methods \ {m} : calls'[n] = calls[n]
  BY <1>1, CallMoves DEF Inv
<1>3. ChangeStage' = ChangeStage \/ (ChangeStage \notin Window /\ ChangeStage' \notin Window)
  BY <1>1, <1>2, ChangeMoves DEF Window
<1>4. Founded /\ (Backed => Backed') /\ (Founded => Founded')
  BY <1>1, <1>3, PersistStays DEF Inv, SoundInv, GoodCall
<1>5. Tail(queue) \in Seq(GoodWrite')
  BY <1>1, <1>4, PersistIsSound, QueueStays
<1> QED
  BY <1>1, <1>4, <1>5, PersistIsSound, MakeReadySound

LEMMA BeginAddKeysSound ==
    ASSUME Inv, ~disturbed, NEW m \in Methods, BeginAddKeys(m)
    PROVE  SoundInv'
<1> DEFINE new == New(calls[m].adds)
<1>1. /\ m \in AddMethods /\ calls[m].stage = "begun"
      /\ calls[m].adds \in SUBSET Addrs /\ Fits(m, calls[m])
      /\ UNCHANGED <<mainKey, secrets, uid, ready, disk, made>>
  BY DEF BeginAddKeys, Inv, TypeInv, TypeOK, Call, CallsFit
<1>2. m # "changeKeystorePassword"
  BY <1>1 DEF AddMethods
<1>3. CASE /\ ready /\ ~(m = "addKeys" /\ mainKey = 0)
           /\ keys' = keys \cup new
           /\ queue' = Append(queue, OfKeys(keys', m))
           /\ Goto(m, "storingKeys")
  <2>1. calls'[m].stage = "storingKeys" /\ \A n \in Methods \ {m} : calls'[n] = calls[n]
    BY <1>3, CallMoves DEF Inv
  <2>2. ChangeStage' = ChangeStage /\ RemovesPassword'
    BY <1>1, <1>2, <2>1, ChangeMoves
  <2>3. Founded /\ (Backed => Backed') /\ (Founded => Founded')
    BY <1>1, <1>3, <2>2 DEF Backed, Founded, Inv, SoundInv, InOrder
  <2>4. mainKey # 0 \/ calls[m].adds \cap Internal = {}
    BY <1>1, <1>3, KeystoreAssumption DEF Fits, AddMethods
  <2>5. /\ keys' \in SUBSET Key
        /\ \A k \in PrivateKeys(keys') : k.wraps = made
    BY <1>1, <1>3, <2>4, NewIsKeys, NewKeysAreGood
       DEF Inv, TypeInv, TypeOK, SoundInv, OneKey, PrivateKeys
  <2>6. OneKey' /\ InOrder'
    BY <1>1, <2>2, <2>3, <2>5 DEF Inv, SoundInv, OneKey, InOrder, PrivateKeys
  <2>7. OfKeys(keys', m) \in GoodWrite
    BY <2>3, <2>5, WritesAreGood DEF Inv, TypeInv
  <2>8. queue' \in Seq(GoodWrite')
    BY <1>1, <1>3, <2>3, <2>7, AppendProperties, QueueStays DEF Inv, SoundInv
  <2>9. GoodCall(m)'
    BY <2>1 DEF GoodCall, Holding
  <2> QED
    BY <1>1, <2>1, <2>3, <2>6, <2>8, <2>9, SoundStep
<1>4. CASE End(m) /\ UNCHANGED <<keys, queue>>
  BY <1>1, <1>2, <1>4, EndSound DEF Inv, SoundInv, OneKey
<1> QED
  BY <1>3, <1>4 DEF BeginAddKeys

LEMMA StoredKeysSound ==
    ASSUME Inv, ~disturbed, NEW m \in Methods, StoredKeys(m)
    PROVE  SoundInv'
<1>1. /\ queue # <<>> /\ Persist /\ calls[m].stage = "storingKeys"
      /\ queue' = Tail(queue) /\ End(m)
      /\ UNCHANGED <<mainKey, secrets, keys, uid, ready, made>>
  BY DEF StoredKeys, Written, memory
<1>2. calls'[m].stage = "done" /\ \A n \in Methods \ {m} : calls'[n] = calls[n]
  BY <1>1, CallMoves DEF Inv
<1>3. /\ ChangeStage' = ChangeStage \/ (ChangeStage \notin Window /\ ChangeStage' = "done")
      /\ RemovesPassword'
  BY <1>1, <1>2, ChangeMoves DEF Window
<1>4. (Backed => Backed') /\ (Founded => Founded')
  BY <1>1, <1>3, PersistStays DEF Window
<1>5. OneKey' /\ InOrder'
  BY <1>1, <1>3, <1>4, PersistIsSound DEF Inv, SoundInv, OneKey, InOrder, PrivateKeys
<1>6. queue' \in Seq(GoodWrite')
  BY <1>1, <1>4, PersistIsSound, QueueStays
<1>7. GoodCall(m)'
  BY <1>2 DEF GoodCall, Holding
<1> QED
  BY <1>1, <1>2, <1>4, <1>5, <1>6, <1>7, SoundStep

\* A step that leaves all calls as they are.
LEMMA QuietStep ==
    ASSUME Inv, ~disturbed, UNCHANGED <<calls, made>>,
           Backed => Backed', Founded => Founded',
           OneKey', InOrder', queue' \in Seq(GoodWrite')
    PROVE  SoundInv'
BY DEF Inv, SoundInv, GoodCall

LEMMA StoredAloneSound ==
    ASSUME Inv, ~disturbed, StoredAlone
    PROVE  SoundInv'
<1>1. /\ queue # <<>> /\ Persist /\ queue' = Tail(queue)
      /\ UNCHANGED <<mainKey, secrets, keys, uid, ready, calls, made>>
  BY DEF StoredAlone, memory
<1>2. ChangeStage' = ChangeStage /\ (Backed => Backed') /\ (Founded => Founded')
  BY <1>1, PersistStays DEF ChangeStage
<1>3. OneKey' /\ InOrder'
  BY <1>1, <1>2, RemovalStays, PersistIsSound DEF Inv, SoundInv, OneKey, InOrder, PrivateKeys
<1>4. queue' \in Seq(GoodWrite')
  BY <1>1, <1>2, PersistIsSound, QueueStays
<1> QED
  BY <1>1, <1>2, <1>3, <1>4, QuietStep

LEMMA RemoveKeySound ==
    ASSUME Inv, ~disturbed, NEW k \in keys, RemoveKey(k)
    PROVE  SoundInv'
<1>1. /\ keys' = keys \ {k} /\ queue' = Append(queue, OfKeys(keys', "none"))
      /\ UNCHANGED <<mainKey, secrets, uid, ready, calls, disk, made>>
  BY DEF RemoveKey
<1>2. /\ ChangeStage' = ChangeStage /\ Founded
      /\ (Backed => Backed') /\ (Founded => Founded')
  BY <1>1 DEF ChangeStage, Backed, Founded, Inv, SoundInv, InOrder
<1>3. OneKey' /\ InOrder'
  BY <1>1, <1>2, RemovalStays DEF Inv, SoundInv, OneKey, InOrder, PrivateKeys
<1>4. keys' \in SUBSET Key /\ \A l \in PrivateKeys(keys') : l.wraps = made
  BY <1>1 DEF Inv, TypeInv, TypeOK, SoundInv, OneKey, PrivateKeys
<1>5. OfKeys(keys', "none") \in GoodWrite
  BY <1>2, <1>4, WritesAreGood DEF Inv, TypeInv
<1>6. queue' \in Seq(GoodWrite')
  BY <1>1, <1>2, <1>5, AppendProperties, QueueStays DEF Inv, SoundInv
<1> QED
  BY <1>1, <1>2, <1>3, <1>6, QuietStep

LEMMA LockSound ==
    ASSUME Inv, ~disturbed', Lock
    PROVE  SoundInv'
<1>1. /\ ~disturbed /\ ChangeStage \notin {"removing", "wrapping"} /\ mainKey' = 0
      /\ UNCHANGED <<secrets, keys, uid, ready, calls, queue, disk, made>>
  BY DEF Lock, Inv, TypeInv, TypeOK
<1>2. ChangeStage' = ChangeStage /\ (Backed => Backed') /\ (Founded => Founded')
  BY <1>1 DEF ChangeStage, Backed, Founded
<1>3. OneKey' /\ InOrder'
  BY <1>1, <1>2, RemovalStays DEF Inv, SoundInv, OneKey, InOrder
<1>4. queue' \in Seq(GoodWrite')
  BY <1>1, <1>2, QueueStays DEF Inv, SoundInv
<1> QED
  BY <1>1, <1>2, <1>3, <1>4, QuietStep

\* Without a change in the middle of its steps, what the storage holds is enough.
LEMMA RestartSound ==
    ASSUME Inv, ~disturbed', Restart
    PROVE  SoundInv'
<1>1. /\ ~disturbed /\ ChangeStage \notin Window
      /\ mainKey' = 0 /\ secrets' = disk.secrets /\ keys' = disk.keys
      /\ uid' = disk.uid /\ ready' = (disk.secrets # {})
      /\ calls' = [m \in Methods |-> Idle] /\ queue' = <<>>
      /\ UNCHANGED <<disk, made>>
  BY DEF Restart, Inv, TypeInv, TypeOK
<1>2. \A m \in Methods : calls'[m].stage = "idle"
  BY <1>1 DEF Idle
<1>3. ChangeStage' = "idle" /\ RemovesPassword'
  BY <1>2 DEF ChangeStage, RemovesPassword, Methods, Exclusive
<1>4. OneKey /\ InOrder /\ (Founded => disk.secrets # {})
  BY <1>1 DEF Founded, Inv, SoundInv
<1>5. OneKey' /\ InOrder'
  <2>1. OneKey'
    BY <1>1, <1>4 DEF OneKey, PrivateKeys
  <2>2. uid' # 0 \/ disk'.uid # 0 \/ ready' \/ keys' # {} \/ disk'.keys # {} => disk.secrets # {}
    BY <1>1, <1>4 DEF InOrder
  <2>3. InOrder'
    BY <1>1, <1>3, <2>2 DEF InOrder, Backed, Founded
  <2> QED
    BY <2>1, <2>3
<1>6. queue' \in Seq(GoodWrite')
  BY <1>1
<1>7. \A m \in Methods : GoodCall(m)'
  BY <1>2 DEF GoodCall, Holding
<1> QED
  BY <1>5, <1>6, <1>7 DEF SoundInv

LEMMA ReturnSound ==
    ASSUME Inv, ~disturbed, NEW m \in Methods, Return(m)
    PROVE  SoundInv'
<1>1. /\ calls[m].stage = "done" /\ calls' = [calls EXCEPT ![m] = Idle]
      /\ UNCHANGED <<mainKey, secrets, keys, uid, ready, queue, disk, made>>
  BY DEF Return, memory
<1>2. /\ calls'[m].stage = "idle"
      /\ \A n \in Methods \ {m} : calls'[n] = calls[n]
  BY <1>1 DEF Idle, Inv, TypeInv, TypeOK
<1>3. /\ ChangeStage' = ChangeStage \/ (ChangeStage = "done" /\ ChangeStage' = "idle")
      /\ RemovesPassword'
  BY <1>1, <1>2, ChangeMoves
<1>4. (Backed => Backed') /\ (Founded => Founded')
  BY <1>1, <1>3 DEF Backed, Founded, Window
<1>5. OneKey' /\ InOrder'
  BY <1>1, <1>3, <1>4 DEF Inv, SoundInv, OneKey, InOrder
<1>6. queue' \in Seq(GoodWrite')
  BY <1>1, <1>4, QueueStays DEF Inv, SoundInv
<1>7. GoodCall(m)'
  BY <1>2 DEF GoodCall, Holding
<1> QED
  BY <1>1, <1>2, <1>4, <1>5, <1>6, <1>7, SoundStep

LEMMA RefuseSound ==
    ASSUME Inv, ~disturbed, RefuseChange
    PROVE  SoundInv'
<1> DEFINE m == "changeKeystorePassword"
<1>1. /\ m \in Methods /\ End(m) /\ calls[m].stage \in {"begun", "unlocking"}
      /\ UNCHANGED <<mainKey, secrets, keys, uid, ready, queue, disk, made>>
  BY DEF RefuseChange, Methods, Exclusive, memory
<1>2. mainKey' \in {0, made} /\ calls[m].stage \notin Window
  BY <1>1 DEF Inv, SoundInv, OneKey, Window
<1> QED
  BY <1>1, <1>2, EndSound

LEMMA StutterSound ==
    ASSUME Inv, ~disturbed,
           UNCHANGED <<mainKey, secrets, keys, uid, ready, calls, queue, disk, made>>
    PROVE  SoundInv'
<1>1. SoundInv
  BY DEF Inv
<1>2. UNCHANGED <<Backed, Founded>>
  BY DEF Backed, Founded, ChangeStage
<1>3. OneKey' /\ InOrder'
  BY <1>1, <1>2, RemovalStays DEF SoundInv, OneKey, InOrder, ChangeStage
<1>4. queue' \in Seq(GoodWrite')
  BY <1>1, <1>2, QueueStays DEF SoundInv
<1> QED
  BY <1>2, <1>3, <1>4, QuietStep

LEMMA InvInit == Init => Inv
<1> SUFFICES ASSUME Init PROVE Inv
  OBVIOUS
<1>1. \A m \in Methods : calls[m].stage = "idle"
  BY DEF Init, Idle
<1>2. ChangeStage = "idle" /\ calls["removeSecret"].stage = "idle"
  BY <1>1 DEF ChangeStage, Methods, Exclusive
<1>3. OneKey /\ InOrder
  BY <1>2 DEF Init, RemovesPassword, OneKey, InOrder, Backed, Founded, Blank, PrivateKeys
<1>4. queue \in Seq(GoodWrite)
  BY DEF Init
<1>5. \A m \in Methods : GoodCall(m)
  BY <1>1 DEF GoodCall, Holding
<1> QED
  BY <1>3, <1>4, <1>5, TypeInit DEF Inv, SoundInv

\* A disturbance is not forgotten.
LEMMA DisturbedStays ==
    ASSUME TypeInv, [Next]_vars, ~disturbed'
    PROVE  ~disturbed
BY DEF Next, UserStep, CallStep, RemoveKey, Lock, Restart, Return, BeginUnlock, Unlocked,
       CheckOldPassword, Derive, RemoveOldPassword, RefuseChange, Remove,
       BeginAdd, StoredRemoval, Wrapped, StoredSecret, StoredUid, BeginAddKeys, StoredKeys,
       StoredAlone, Written, Persist, vars, TypeInv, TypeOK

LEMMA InvStep == Inv /\ [Next]_vars => Inv'
<1> SUFFICES ASSUME Inv, [Next]_vars PROVE Inv'
  OBVIOUS
<1>1. TypeInv'
  BY TypeStep DEF Inv
<1> SUFFICES ASSUME ~disturbed' PROVE SoundInv'
  BY <1>1 DEF Inv
<1>2. ~disturbed
  BY DisturbedStays DEF Inv
<1>3. CASE UserMay /\ UserCall /\ UNCHANGED <<memory, queue, disk, made, disturbed>>
  BY <1>2, <1>3, StartSound
<1>4. ASSUME NEW k \in keys, RemoveKey(k) PROVE SoundInv'
  BY <1>2, <1>4, RemoveKeySound
<1>5. CASE Lock
  BY <1>5, LockSound
<1>6. CASE BeginUnlock \/ CheckOldPassword
  <2>1. "unlockWithSecret" \in Methods /\ "changeKeystorePassword" \in Methods
    BY DEF Methods, Exclusive
  <2> QED
    BY <1>2, <1>6, <2>1, DeriveSound DEF BeginUnlock, CheckOldPassword
<1>7. CASE Unlocked
  BY <1>2, <1>7, UnlockedSound
<1>8. CASE RemoveOldPassword
  BY <1>2, <1>8, RemoveSound
<1>9. CASE RefuseChange
  BY <1>2, <1>9, RefuseSound
<1>10. CASE BeginAdd
  BY <1>2, <1>10, BeginAddSound
<1>11. ASSUME NEW m \in Methods,
              StoredRemoval(m) \/ Wrapped(m) \/ StoredSecret(m) \/ StoredUid(m)
       PROVE  SoundInv'
  BY <1>2, <1>11, StoredRemovalSound, WrappedSound, StoredSecretSound, StoredUidSound
<1>12. ASSUME NEW m \in Methods, BeginAddKeys(m) \/ StoredKeys(m)
       PROVE  SoundInv'
  BY <1>2, <1>12, BeginAddKeysSound, StoredKeysSound
<1>13. CASE StoredAlone
  BY <1>2, <1>13, StoredAloneSound
<1>14. CASE Restart
  BY <1>14, RestartSound
<1>15. ASSUME NEW m \in Methods, Return(m) PROVE SoundInv'
  BY <1>2, <1>15, ReturnSound
<1>16. CASE UNCHANGED vars
  BY <1>2, <1>16, StutterSound DEF vars, memory
<1> QED
  BY <1>3, <1>4, <1>5, <1>6, <1>7, <1>8, <1>9, <1>10, <1>11, <1>12, <1>13, <1>14,
     <1>15, <1>16 DEF Next, UserStep, CallStep

LEMMA InvHolds == Spec => []Inv
BY InvInit, InvStep, PTL DEF Spec

LEMMA InvGivesOneMainKey == Inv => OneMainKey
BY DEF Inv, SoundInv, OneKey, OneMainKey, MainKeys, PrivateKeys

LEMMA InvGivesKeys == Inv => KeysSurviveRestart
<1> SUFFICES ASSUME Inv, ~disturbed, ChangeStage \notin Window,
                    NEW k \in PrivateKeys(disk.keys)
             PROVE  \E s \in disk.secrets : s.wraps = k.wraps
  BY DEF KeysSurviveRestart
<1>1. OneKey /\ InOrder
  BY DEF Inv, SoundInv
<1>2. disk.secrets # {}
  BY <1>1 DEF InOrder, Founded, PrivateKeys
<1>3. PICK s \in disk.secrets : TRUE
  BY <1>2
<1>4. s.wraps = made /\ k.wraps = made
  BY <1>1 DEF OneKey, PrivateKeys
<1> QED
  BY <1>4

\* The secrets, the private keys, the uid and the memory depend on one main key,
\* whatever calls of the keystore overlap and wherever a lock or a restart falls,
\* as long as none falls into a change of the password: for all values, addresses
\* and bounds.
THEOREM OneMainKeyOnly == Spec => []OneMainKey
BY InvGivesOneMainKey, InvHolds, PTL

\* Every private key in the storage can be read with a secret in the storage,
\* except while a password is being changed: whenever the browser is closed, no
\* key is lost.
THEOREM KeysAreSafe == Spec => []KeysSurviveRestart
BY InvGivesKeys, InvHolds, PTL

-----------------------------------------------------------------------------
(* The storage catches up *)

\* The last queued write of each part of the storage writes what is in memory,
\* and a part without a queued write holds it: for a queue q, a storage d and a
\* memory mem.
Memory == [secrets |-> secrets, keys |-> keys, uid |-> uid]
Parts == {"secrets", "keys", "uid"}
Waits(q, part) == \E i \in 1..Len(q) : q[i].of = part
Latest(q, i) == \A j \in 1..Len(q) : j > i => q[j].of # q[i].of
Writes(w, mem) ==
    /\ w.of = "secrets" => w.live
    /\ w.of = "keys" => w.to.keys = mem.keys
    /\ w.of = "uid" => w.to.uid = mem.uid
Same(part, d, mem) ==
    /\ part = "secrets" => d.secrets = mem.secrets
    /\ part = "keys" => d.keys = mem.keys
    /\ part = "uid" => d.uid = mem.uid
CatchesUp(q, d, mem) ==
    /\ \A i \in 1..Len(q) : q[i].live => q[i].of = "secrets"
    /\ \A i \in 1..Len(q) : Latest(q, i) => Writes(q[i], mem)
    /\ \A part \in Parts : ~Waits(q, part) => Same(part, d, mem)

CaughtUp == CatchesUp(queue, disk, Memory)

\* A write of what is new in memory is added to the queue.
LEMMA AppendCatchesUp ==
    ASSUME NEW q \in Seq(Write), NEW w \in Write, NEW d, NEW mem, NEW mem2,
           CatchesUp(q, d, mem), Writes(w, mem2), w.live => w.of = "secrets",
           \A part \in Parts \ {w.of} : Same(part, mem, mem2)
    PROVE  CatchesUp(Append(q, w), d, mem2)
<1> DEFINE p == Append(q, w)
<1>1. /\ Len(q) \in Nat /\ Len(p) = Len(q) + 1
      /\ \A i \in 1..Len(q) : p[i] = q[i] /\ q[i] \in Write
      /\ p[Len(q) + 1] = w /\ w.of \in Parts
  <2>1. w.of \in Parts
    BY DEF Write, Parts
  <2> QED
    BY <2>1, AppendProperties
<1> HIDE DEF p
<1>2. ASSUME NEW i \in 1..Len(p), Latest(p, i) PROVE Writes(p[i], mem2)
  <2>1. CASE i = Len(q) + 1
    BY <1>1, <2>1
  <2>2. CASE i # Len(q) + 1
    <3>1. i \in 1..Len(q) /\ Latest(q, i) /\ w.of # q[i].of /\ q[i].of \in Parts
      BY <1>1, <1>2, <2>2 DEF Latest, Write, Parts
    <3>2. Writes(q[i], mem) /\ Same(q[i].of, mem, mem2)
      BY <3>1 DEF CatchesUp
    <3> QED
      BY <1>1, <3>1, <3>2 DEF Writes, Same
  <2> QED
    BY <2>1, <2>2
<1>3. ASSUME NEW part \in Parts, ~Waits(p, part) PROVE Same(part, d, mem2)
  <2>1. part # w.of /\ ~Waits(q, part)
    BY <1>1, <1>3 DEF Waits
  <2> QED
    BY <2>1 DEF CatchesUp, Same, Parts
<1>4. ASSUME NEW i \in 1..Len(p), p[i].live PROVE p[i].of = "secrets"
  BY <1>1, <1>4 DEF CatchesUp
<1> QED
  BY <1>2, <1>3, <1>4 DEF CatchesUp, p

\* The first write is done.
LEMMA TailCatchesUp ==
    ASSUME TypeOK, queue # <<>>, Persist, CaughtUp
    PROVE  CatchesUp(Tail(queue), disk', Memory)
<1> DEFINE w == queue[1]
           q == Tail(queue)
<1>1. /\ queue \in Seq(Write) /\ Len(queue) \in Nat \ {0} /\ Head(queue) = w /\ w \in Write
      /\ Len(q) = Len(queue) - 1
      /\ \A i \in 1..Len(q) : q[i] = queue[i + 1] /\ i + 1 \in 1..Len(queue)
  BY HeadTailProperties, EmptySeq DEF TypeOK
<1>2. disk \in Stored /\ w.of \in Parts
  BY <1>1 DEF TypeOK, Write, Parts
<1> HIDE DEF q
<1>3. ASSUME NEW i \in 1..Len(q), Latest(q, i) PROVE Writes(q[i], Memory)
  <2>1. Latest(queue, i + 1)
    <3> SUFFICES ASSUME NEW j \in 1..Len(queue), j > i + 1
                 PROVE  queue[j].of # queue[i + 1].of
      BY DEF Latest
    <3>1. j - 1 \in 1..Len(q) /\ j - 1 > i /\ q[j - 1] = queue[j]
      BY <1>1
    <3> QED
      BY <1>1, <1>3, <3>1 DEF Latest
  <2> QED
    BY <1>1, <2>1 DEF CaughtUp, CatchesUp
<1>4. ASSUME NEW part \in Parts, ~Waits(q, part) PROVE Same(part, disk', Memory)
  <2>1. \A j \in 1..Len(queue) : j > 1 => queue[j].of # part
    <3> SUFFICES ASSUME NEW j \in 1..Len(queue), j > 1 PROVE queue[j].of # part
      OBVIOUS
    <3>1. j - 1 \in 1..Len(q) /\ q[j - 1] = queue[j]
      BY <1>1
    <3> QED
      BY <1>4, <3>1 DEF Waits
  <2>2. CASE w.of = part
    <3>1. Writes(w, Memory)
      BY <1>1, <2>1, <2>2 DEF CaughtUp, CatchesUp, Latest
    <3>2. CASE part = "secrets"
      <4>1. disk' = [disk EXCEPT !.secrets = IF w.live THEN secrets ELSE w.to.secrets]
        BY <1>1, <2>2, <3>2 DEF Persist
      <4> QED
        BY <1>2, <2>2, <3>1, <3>2, <4>1 DEF Writes, Same, Memory, Stored
    <3>3. CASE part = "keys"
      <4>1. disk' = [disk EXCEPT !.keys = w.to.keys]
        BY <1>1, <2>2, <3>3 DEF Persist
      <4> QED
        BY <1>2, <2>2, <3>1, <3>3, <4>1 DEF Writes, Same, Memory, Stored
    <3>4. CASE part = "uid"
      <4>1. disk' = [disk EXCEPT !.uid = w.to.uid]
        BY <1>1, <2>2, <3>4 DEF Persist
      <4> QED
        BY <1>2, <2>2, <3>1, <3>4, <4>1 DEF Writes, Same, Memory, Stored
    <3> QED
      BY <3>2, <3>3, <3>4 DEF Parts
  <2>3. CASE w.of # part
    <3>1. ~Waits(queue, part)
      BY <2>1, <2>3, <1>1 DEF Waits
    <3>2. Same(part, disk, Memory)
      BY <3>1 DEF CaughtUp, CatchesUp
    <3>3. CASE w.of = "secrets"
      <4>1. disk' = [disk EXCEPT !.secrets = IF w.live THEN secrets ELSE w.to.secrets]
        BY <1>1, <3>3 DEF Persist
      <4> QED
        BY <1>2, <2>3, <3>2, <3>3, <4>1 DEF Same, Stored
    <3>4. CASE w.of = "keys"
      <4>1. disk' = [disk EXCEPT !.keys = w.to.keys]
        BY <1>1, <3>4 DEF Persist
      <4> QED
        BY <1>2, <2>3, <3>2, <3>4, <4>1 DEF Same, Stored
    <3>5. CASE w.of = "uid"
      <4>1. disk' = [disk EXCEPT !.uid = w.to.uid]
        BY <1>1, <3>5 DEF Persist
      <4> QED
        BY <1>2, <2>3, <3>2, <3>5, <4>1 DEF Same, Stored
    <3> QED
      BY <1>2, <3>3, <3>4, <3>5 DEF Parts
  <2> QED
    BY <2>2, <2>3
<1>5. ASSUME NEW i \in 1..Len(q), q[i].live PROVE q[i].of = "secrets"
  BY <1>1, <1>5 DEF CaughtUp, CatchesUp
<1> QED
  BY <1>3, <1>4, <1>5 DEF CatchesUp, q

\* The writes of a call that is made.
LEMMA WritesAreLatest ==
    ASSUME NEW m, NEW mem
    PROVE  /\ Writes(OfSecrets(m), mem) /\ OfSecrets(m).of = "secrets" /\ OfSecrets(m).live
           /\ \A n : /\ mem.uid = n => Writes(OfUid(n, m), mem)
                    /\ OfUid(n, m).of = "uid" /\ ~OfUid(n, m).live
           /\ \A new : /\ mem.keys = new => Writes(OfKeys(new, m), mem)
                      /\ OfKeys(new, m).of = "keys" /\ ~OfKeys(new, m).live
BY DEF Writes, OfSecrets, OfUid, OfKeys, Blank

\* A removal: the writes that wait keep the old list, and the new one follows.
LEMMA RemoveCatchesUp ==
    ASSUME TypeOK, CaughtUp, NEW m \in Methods, NEW id, Remove(m, id)
    PROVE  CaughtUp'
<1>1. CASE SecretsOf(id) = {}
  BY <1>1 DEF Remove, CaughtUp, Memory
<1>2. CASE SecretsOf(id) # {}
  <2> DEFINE w == OfSecrets(m)
             q == Append(Detached, w)
  <2>1. queue' = q /\ disk' = disk /\ keys' = keys /\ uid' = uid
    BY <1>2 DEF Remove
  <2>2. /\ Len(queue) \in Nat /\ DOMAIN queue = 1..Len(queue)
        /\ Detached \in Seq(Write) /\ Len(Detached) = Len(queue)
        /\ \A i \in 1..Len(queue) : queue[i] \in Write
    BY DetachedIsQueue DEF TypeOK
  <2>3. \A i \in 1..Len(queue) :
            /\ Detached[i].of = queue[i].of /\ ~Detached[i].live
            /\ queue[i].of # "secrets" => Detached[i] = queue[i]
    BY <2>2 DEF Detached, Write, CaughtUp, CatchesUp
  <2>4. /\ w \in Write /\ w.of = "secrets" /\ w.live
        /\ Len(q) = Len(queue) + 1
        /\ \A i \in 1..Len(queue) : q[i] = Detached[i]
        /\ q[Len(queue) + 1] = w
    <3>1. w \in Write /\ w.of = "secrets" /\ w.live
      BY WritesAreWrites, WritesAreLatest
    <3> HIDE DEF w
    <3> QED
      BY <2>2, <3>1, AppendProperties
  <2> HIDE DEF w, q
  <2>5. ASSUME NEW i \in 1..Len(q), Latest(q, i) PROVE Writes(q[i], Memory')
    <3>1. CASE i = Len(queue) + 1
      BY <2>4, <3>1 DEF Writes
    <3>2. CASE i # Len(queue) + 1
      <4>1. /\ i \in 1..Len(queue) /\ q[i] = Detached[i] /\ q[i].of = queue[i].of
            /\ q[i].of # "secrets" /\ q[i] = queue[i]
        BY <2>2, <2>3, <2>4, <2>5, <3>2 DEF Latest
      <4>2. Latest(queue, i)
        BY <2>2, <2>3, <2>4, <2>5, <4>1 DEF Latest
      <4> QED
        BY <2>1, <4>1, <4>2 DEF CaughtUp, CatchesUp, Writes, Memory
    <3> QED
      BY <3>1, <3>2
  <2>6. ASSUME NEW part \in Parts, ~Waits(q, part) PROVE Same(part, disk, Memory')
    <3>1. part # "secrets" /\ ~Waits(queue, part)
      BY <2>2, <2>3, <2>4, <2>6 DEF Waits
    <3> QED
      BY <2>1, <3>1 DEF CaughtUp, CatchesUp, Same, Memory
  <2>7. ASSUME NEW i \in 1..Len(q), q[i].live PROVE q[i].of = "secrets"
    BY <2>2, <2>3, <2>4, <2>7
  <2> QED
    BY <2>1, <2>5, <2>6, <2>7 DEF CaughtUp, CatchesUp
<1> QED
  BY <1>1, <1>2

\* The keys that waited are added and written, in up to two writes.
LEMMA MakeReadyCatchesUp ==
    ASSUME TypeInv, NEW m \in Methods, NEW pending \in Seq(Write), NEW d,
           CatchesUp(pending, d, Memory), MakeReady(m, pending), UNCHANGED secrets
    PROVE  CatchesUp(queue', d, Memory')
<1> DEFINE private == IF mainKey = 0 THEN {} ELSE New(waiting \cap Internal)
           devices == New(waiting \cap External)
           one == OfKeys(keys \cup private, "none")
           two == OfKeys(keys \cup private \cup devices, "none")
           first == IF private = {} THEN <<>> ELSE <<one>>
           second == IF devices = {} THEN <<>> ELSE <<two>>
           mem1 == [secrets |-> secrets, keys |-> keys \cup private, uid |-> uid]
           mem2 == [secrets |-> secrets, keys |-> keys \cup private \cup devices, uid |-> uid]
<1>1. /\ keys' = keys \cup private \cup devices /\ UNCHANGED <<secrets, uid>>
      /\ queue' = pending \o first \o second
  BY DEF MakeReady
<1>2. private \subseteq Key /\ devices \subseteq Key
  <2>1. (waiting \cap External) \cap Internal = {}
    BY KeystoreAssumption
  <2> QED
    BY <2>1, NewIsKeys DEF TypeInv, TypeOK, Addrs
<1>3. one \in Write /\ two \in Write
  BY <1>2, WritesAreWrites, 0 \in Nat DEF TypeInv, TypeOK
<1>4. /\ mem1.keys = keys \cup private /\ mem1.secrets = secrets /\ mem1.uid = uid
      /\ mem2.keys = keys \cup private \cup devices /\ mem2.secrets = secrets
      /\ mem2.uid = uid /\ Memory.keys = keys /\ Memory.secrets = secrets
      /\ Memory.uid = uid
  <2> HIDE DEF private, devices
  <2> QED
    BY DEF Memory
<1>5. /\ Writes(one, mem1) /\ one.of = "keys" /\ ~one.live
      /\ Writes(two, mem2) /\ two.of = "keys" /\ ~two.live
  BY <1>4, WritesAreLatest
<1>6. /\ \A part \in Parts \ {"keys"} : Same(part, Memory, mem1) /\ Same(part, mem1, mem2)
  BY <1>4 DEF Same
<1>7. /\ private = {} => mem1 = Memory
      /\ devices = {} => mem2 = mem1
      /\ Memory' = mem2
  <2> HIDE DEF private, devices
  <2> QED
    BY <1>1 DEF Memory
<1> HIDE DEF one, two, mem1, mem2, private, devices
<1>8. pending \o first \in Seq(Write) /\ CatchesUp(pending \o first, d, mem1)
  <2>1. CASE private = {}
    BY <1>7, <2>1, ConcatEmptySeq
  <2>2. CASE private # {}
    <3>1. pending \o first = Append(pending, one)
      BY <1>3, <2>2, AppendIsConcat
    <3>2. Append(pending, one) \in Seq(Write)
      BY <1>3, AppendProperties
    <3>3. CatchesUp(Append(pending, one), d, mem1)
      BY <1>3, <1>5, <1>6, AppendCatchesUp
    <3> QED
      BY <3>1, <3>2, <3>3
  <2> QED
    BY <2>1, <2>2
<1>9. CatchesUp((pending \o first) \o second, d, mem2)
  <2>1. CASE devices = {}
    BY <1>7, <1>8, <2>1, ConcatEmptySeq
  <2>2. CASE devices # {}
    <3>1. (pending \o first) \o second = Append(pending \o first, two)
      BY <1>3, <1>8, <2>2, AppendIsConcat
    <3> QED
      BY <1>3, <1>5, <1>6, <1>8, <3>1, AppendCatchesUp
  <2> QED
    BY <2>1, <2>2
<1> QED
  BY <1>1, <1>7, <1>9

\* Every step of the keystore.
LEMMA CaughtUpStep ==
    ASSUME TypeInv, CaughtUp, [Next]_vars
    PROVE  CaughtUp'
<1> USE DEF TypeInv
<1>1. ASSUME UNCHANGED <<secrets, keys, uid, queue, disk>>
      PROVE  CaughtUp'
  BY <1>1 DEF CaughtUp, Memory
<1>2. ASSUME NEW w \in Write, Writes(w, Memory'), w.live => w.of = "secrets",
             queue' = Append(queue, w), UNCHANGED disk,
             \A part \in Parts \ {w.of} : Same(part, Memory, Memory')
      PROVE  CaughtUp'
  BY <1>2, AppendCatchesUp DEF CaughtUp, TypeOK
<1>3. ASSUME NEW m \in Methods \cup {"none"}, NEW new \in SUBSET Key, keys' = new,
             queue' = Append(queue, OfKeys(new, m)), UNCHANGED <<secrets, uid, disk>>
      PROVE  CaughtUp'
  <2>1. OfKeys(new, m) \in Write
    BY WritesAreWrites, 0 \in Nat
  <2>2. Memory'.keys = new /\ \A part \in Parts \ {"keys"} : Same(part, Memory, Memory')
    BY <1>3 DEF Memory, Same
  <2> QED
    BY <1>2, <1>3, <2>1, <2>2, WritesAreLatest
<1>4. ASSUME queue # <<>>, Persist, queue' = Tail(queue), UNCHANGED <<secrets, keys, uid>>
      PROVE  CaughtUp'
  BY <1>4, TailCatchesUp DEF CaughtUp, Memory
<1>5. CASE \/ UserCall /\ UNCHANGED <<memory, queue, disk, made, disturbed>>
           \/ Lock \/ BeginUnlock \/ CheckOldPassword \/ Unlocked \/ RefuseChange
           \/ BeginAdd \/ (\E m \in Methods : Return(m)) \/ UNCHANGED vars
  BY <1>1, <1>5 DEF memory, vars, Lock, BeginUnlock, CheckOldPassword, Derive, Unlocked,
                    RefuseChange, BeginAdd, Return
<1>6. ASSUME NEW k \in keys, RemoveKey(k) PROVE CaughtUp'
  BY <1>3, <1>6 DEF RemoveKey, TypeOK
<1>7. CASE RemoveOldPassword
  <2>1. "changeKeystorePassword" \in Methods
    BY DEF Methods, Exclusive
  <2> QED
    BY <1>7, <2>1, RemoveCatchesUp DEF RemoveOldPassword
<1>8. ASSUME NEW m \in Methods, StoredRemoval(m) \/ StoredKeys(m) PROVE CaughtUp'
  BY <1>4, <1>8 DEF StoredRemoval, StoredKeys, Written, memory
<1>9. CASE StoredAlone
  BY <1>4, <1>9 DEF StoredAlone, memory
<1>10. ASSUME NEW m \in Methods, Wrapped(m) PROVE CaughtUp'
  <2>1. OfSecrets(m) \in Write
    BY WritesAreWrites
  <2>2. \A part \in Parts \ {"secrets"} : Same(part, Memory, Memory')
    BY <1>10 DEF Wrapped, Memory, Same
  <2> QED
    BY <1>2, <1>10, <2>1, <2>2, WritesAreLatest DEF Wrapped
<1>11. ASSUME NEW m \in Methods, StoredSecret(m) PROVE CaughtUp'
  <2>1. /\ queue # <<>> /\ Persist /\ UNCHANGED secrets
        /\ Tail(queue) \in Seq(Write) /\ CatchesUp(Tail(queue), disk', Memory)
    BY <1>11, PersistKeepsType, TailCatchesUp DEF StoredSecret, Written
  <2>2. CASE uid = 0
    <3> DEFINE w == OfUid(uid', m)
    <3>1. queue' = Append(Tail(queue), w) /\ UNCHANGED keys /\ uid' \in Nat
      BY <1>11, <2>2 DEF StoredSecret, TypeOK, Call
    <3>2. w \in Write /\ Memory'.uid = uid'
      BY <3>1, WritesAreWrites DEF Memory
    <3>3. \A part \in Parts \ {"uid"} : Same(part, Memory, Memory')
      BY <2>1, <3>1 DEF Memory, Same
    <3>4. Writes(w, Memory') /\ w.of = "uid" /\ ~w.live
      BY <3>2, WritesAreLatest
    <3> HIDE DEF w
    <3> QED
      BY <2>1, <3>1, <3>2, <3>3, <3>4, AppendCatchesUp DEF CaughtUp
  <2>3. CASE uid # 0
    BY <1>11, <2>1, <2>3, MakeReadyCatchesUp DEF StoredSecret, CaughtUp
  <2> QED
    BY <2>2, <2>3
<1>12. ASSUME NEW m \in Methods, StoredUid(m) PROVE CaughtUp'
  <2>1. /\ UNCHANGED secrets /\ MakeReady(m, Tail(queue))
        /\ Tail(queue) \in Seq(Write) /\ CatchesUp(Tail(queue), disk', Memory)
    BY <1>12, PersistKeepsType, TailCatchesUp DEF StoredUid, Written
  <2> QED
    BY <2>1, MakeReadyCatchesUp DEF CaughtUp
<1>13. ASSUME NEW m \in Methods, BeginAddKeys(m) PROVE CaughtUp'
  <2>1. CASE UNCHANGED <<keys, queue>>
    BY <1>1, <1>13, <2>1 DEF BeginAddKeys
  <2>2. CASE queue' = Append(queue, OfKeys(keys', m))
    <3>1. keys' \in SUBSET Key
      BY <1>13, BeginAddKeysKeepsType DEF TypeOK
    <3> QED
      BY <1>3, <1>13, <2>2, <3>1 DEF BeginAddKeys
  <2> QED
    BY <1>13, <2>1, <2>2 DEF BeginAddKeys
<1>14. CASE Restart
  BY <1>14 DEF Restart, CaughtUp, CatchesUp, Memory, Same
<1> QED
  BY <1>5, <1>6, <1>7, <1>8, <1>9, <1>10, <1>11, <1>12, <1>13, <1>14
     DEF Next, UserStep, CallStep

LEMMA CaughtUpInit == Init => CaughtUp
BY DEF Init, CaughtUp, CatchesUp, Memory, Same, Blank

\* A keystore without calls and writes: the storage has what the memory has.
LEMMA QuietIsStored ==
    ASSUME TypeInv, CaughtUp, Quiet
    PROVE  disk = Memory
<1>1. \A part \in Parts : Same(part, disk, Memory)
  BY DEF Quiet, CaughtUp, CatchesUp, Waits
<1>2. disk.secrets = secrets /\ disk.keys = keys /\ disk.uid = uid
  BY <1>1 DEF Same, Parts, Memory
<1> QED
  BY <1>2 DEF TypeInv, TypeOK, Stored, Memory

LEMMA QuietOpens == Inv /\ CaughtUp => QuietKeystoreOpens
<1> SUFFICES ASSUME Inv, CaughtUp, ~disturbed, Quiet
             PROVE  /\ disk = [secrets |-> secrets, keys |-> keys, uid |-> uid]
                    /\ uid # 0 => secrets # {}
  BY DEF QuietKeystoreOpens
<1>1. disk = [secrets |-> secrets, keys |-> keys, uid |-> uid]
  BY QuietIsStored DEF Inv, Memory
<1>2. ChangeStage \notin Window
  BY DEF Quiet, ChangeStage, Window, Methods, Exclusive
<1>3. uid # 0 => disk.secrets # {}
  BY <1>2 DEF Inv, SoundInv, InOrder, Founded
<1> QED
  BY <1>1, <1>3

\* When no call is in flight and no write waits, a restart loses nothing, and a
\* keystore that was set up has a secret that opens it, whatever calls overlapped
\* before: for all values, addresses and bounds.
THEOREM QuietKeystoreIsStored == Spec => []QuietKeystoreOpens
<1>1. Init => CaughtUp
  BY CaughtUpInit
<1>2. Inv /\ CaughtUp /\ [Next]_vars => CaughtUp'
  BY CaughtUpStep DEF Inv
<1>3. Inv /\ CaughtUp => QuietKeystoreOpens
  BY QuietOpens
<1> QED
  BY <1>1, <1>2, <1>3, InvHolds, PTL DEF Spec

-----------------------------------------------------------------------------
(* The methods implement the lock of withStatus *)

Shown == [m \in Methods |-> StatusOf(calls[m])]

\* A step of the call m shows as a step of its status alone.
LEMMA OneStatusMoves ==
    ASSUME TypeInv, NEW m \in Methods, NEW call, calls' = [calls EXCEPT ![m] = call]
    PROVE  Shown' = [Shown EXCEPT ![m] = StatusOf(call)]
BY DEF TypeInv, TypeOK, Shown

\* A call that is in flight goes on, which does not show, or ends.
LEMMA GoesOnOrEnds ==
    ASSUME TypeInv, NEW m \in Methods, calls[m].stage \notin Over,
           NEW call, calls' = [calls EXCEPT ![m] = call], call.stage # "idle"
    PROVE  Shown' = Shown \/ Statuses!Outcome(m)
<1>1. Shown \in [Methods -> {"INITIAL", "ENDED", "LOADING"}] /\ Shown[m] = "LOADING"
  BY DEF Shown, StatusOf, Over
<1>2. Shown' = [Shown EXCEPT ![m] = StatusOf(call)]
  BY OneStatusMoves
<1>3. StatusOf(call) \in {"LOADING", "ENDED"}
  BY DEF StatusOf
<1>4. Statuses!Outcome(m) <=> Shown[m] = "LOADING" /\ Shown' = [Shown EXCEPT ![m] = "ENDED"]
  BY DEF Statuses!Outcome, Shown
<1> QED
  BY <1>1, <1>2, <1>3, <1>4

\* The forms that such a step has.
LEMMA EndShows ==
    ASSUME TypeInv, NEW m \in Methods, calls[m].stage \notin Over, End(m)
    PROVE  Shown' = Shown \/ Statuses!Outcome(m)
<1>1. [Idle EXCEPT !.stage = "done", !.owner = calls[m].owner].stage # "idle"
  BY DEF Idle
<1> QED
  BY <1>1, GoesOnOrEnds DEF End

LEMMA GotoShows ==
    ASSUME TypeInv, NEW m \in Methods, calls[m].stage \notin Over,
           NEW stage, stage # "idle", Goto(m, stage)
    PROVE  Shown' = Shown \/ Statuses!Outcome(m)
<1>1. [calls[m] EXCEPT !.stage = stage].stage # "idle"
  BY DEF TypeInv, TypeOK, Call
<1> QED
  BY <1>1, GoesOnOrEnds DEF Goto

LEMMA DeriveShows ==
    ASSUME TypeInv, NEW m \in Methods, NEW id, NEW value, Derive(m, id, value)
    PROVE  Shown' = Shown \/ Statuses!Outcome(m)
<1>1. calls[m].stage \notin Over
  BY DEF Derive, Over
<1>2. ASSUME NEW s \in SecretsOf(id)
      PROVE  [calls[m] EXCEPT !.stage = "unlocking", !.wraps = s.wraps,
                              !.opens = (s.value = value)].stage # "idle"
  BY DEF TypeInv, TypeOK, Call
<1> QED
  BY <1>1, <1>2, EndShows, GoesOnOrEnds DEF Derive

LEMMA WrapShows ==
    ASSUME TypeInv, NEW m \in Methods, calls[m].stage \notin Over, Wrap(m)
    PROVE  Shown' = Shown \/ Statuses!Outcome(m)
<1>1. \A n : [calls[m] EXCEPT !.stage = "wrapping", !.wraps = n].stage # "idle"
  BY DEF TypeInv, TypeOK, Call
<1> QED
  BY <1>1, EndShows, GoesOnOrEnds DEF Wrap

LEMMA RemoveShows ==
    ASSUME TypeInv, NEW m \in Methods, calls[m].stage \notin Over, NEW id, Remove(m, id)
    PROVE  Shown' = Shown \/ Statuses!Outcome(m)
BY EndShows, GotoShows DEF Remove

\* A method that starts claims the lock.
LEMMA StartClaims ==
    ASSUME TypeInv, NEW m \in Methods, NEW call \in Call, Start(m, call)
    PROVE  Statuses!Claim(m)
<1>1. /\ calls[m].stage = "idle"
      /\ m \in Exclusive => \A n \in Methods : calls[n].stage = "idle"
  BY DEF Start, MayStart
<1>2. /\ Shown[m] = "INITIAL"
      /\ m \in Methods \ Exclusive \/ \A n \in Methods : Shown[n] = "INITIAL"
  BY <1>1 DEF Shown, StatusOf
<1>3. [call EXCEPT !.stage = "begun"].stage = "begun"
  BY DEF Call
<1>4. Shown' = [Shown EXCEPT ![m] = "LOADING"]
  BY <1>3, OneStatusMoves DEF Start, StatusOf
<1> QED
  BY <1>2, <1>4 DEF Statuses!Claim, Shown

\* Every step of the keystore is a step of the lock, or does not show.
LEMMA StatusStep ==
    ASSUME TypeInv, [Next]_vars
    PROVE  Statuses!StatusNext \/ Shown' = Shown
<1> DEFINE Shows(m) == Shown' = Shown \/ Statuses!Outcome(m)
<1>0. /\ "unlockWithSecret" \in Methods /\ "addSecret" \in Methods
      /\ "changeKeystorePassword" \in Methods
  BY DEF Methods, Exclusive
<1>1. ASSUME NEW m \in Methods, Shows(m)
      PROVE  Statuses!StatusNext \/ Shown' = Shown
  BY <1>1 DEF Statuses!StatusNext
<1>2. UNCHANGED calls => Shown' = Shown
  BY DEF Shown
<1> HIDE DEF Shows
<1>3. CASE UserCall
  BY <1>3, UserCallStarts, StartClaims DEF UserStarts, Startable, Statuses!StatusNext
<1>4. CASE (\E k \in keys : RemoveKey(k)) \/ Lock \/ StoredAlone \/ UNCHANGED vars
  BY <1>2, <1>4 DEF RemoveKey, Lock, StoredAlone, vars
<1>5. CASE BeginUnlock \/ CheckOldPassword
  BY <1>0, <1>1, <1>5, DeriveShows DEF BeginUnlock, CheckOldPassword, Shows
<1>6. CASE Unlocked \/ RefuseChange
  BY <1>0, <1>1, <1>6, EndShows DEF Unlocked, RefuseChange, Shows, Over
<1>7. CASE RemoveOldPassword
  BY <1>0, <1>1, <1>7, RemoveShows DEF RemoveOldPassword, Shows, Over
<1>8. CASE BeginAdd
  BY <1>0, <1>1, <1>8, WrapShows DEF BeginAdd, Shows, Over
<1>9. ASSUME NEW m \in Methods, StoredRemoval(m)
      PROVE  Shows(m)
  BY <1>9, WrapShows, EndShows DEF StoredRemoval, Written, Shows, Over
<1>10. ASSUME NEW m \in Methods, Wrapped(m)
       PROVE  Shows(m)
  BY <1>10, GotoShows DEF Wrapped, Shows, Over
<1>11. ASSUME NEW m \in Methods, StoredSecret(m) \/ StoredUid(m) \/ StoredKeys(m)
       PROVE  Shows(m)
  BY <1>11, GotoShows, EndShows
     DEF StoredSecret, StoredUid, StoredKeys, Written, MakeReady, Shows, Over
<1>12. ASSUME NEW m \in Methods, BeginAddKeys(m)
       PROVE  Shows(m)
  BY <1>12, GotoShows, EndShows DEF BeginAddKeys, Shows, Over
<1>13. CASE Restart
  BY <1>13 DEF Restart, Idle, StatusOf, Statuses!StatusNext, Statuses!Reload
<1>14. ASSUME NEW m \in Methods, Return(m)
       PROVE  Statuses!Release(m)
  <2>1. Shown[m] = "ENDED" /\ StatusOf(Idle) = "INITIAL"
    BY <1>14 DEF Return, Shown, StatusOf, Idle
  <2>2. Shown' = [Shown EXCEPT ![m] = "INITIAL"]
    BY <1>14, <2>1, OneStatusMoves DEF Return
  <2> QED
    BY <2>1, <2>2 DEF Statuses!Release, Shown
<1>15. ASSUME NEW m \in Methods, Return(m)
       PROVE  Statuses!StatusNext
  BY <1>14, <1>15 DEF Statuses!StatusNext
<1> QED
  BY <1>1, <1>3, <1>4, <1>5, <1>6, <1>7, <1>8, <1>9, <1>10, <1>11, <1>12, <1>13, <1>15
     DEF Next, UserStep, CallStep

\* The keystore implements StatusLock: whatever is awaited in a method and
\* whoever calls it, each method is in flight at most once, removeSecret and
\* changeKeystorePassword start only when no method is, and each call shows its
\* outcome before the next one, for all values, addresses and bounds.
THEOREM KeystoreImplementsStatusLock == Spec => ImplementsStatusLock
<1>1. Init => Statuses!StatusInit
  BY DEF Init, Idle, StatusOf, Statuses!StatusInit
<1>2. TypeInv /\ [Next]_vars => [Statuses!StatusNext]_Shown
  BY StatusStep
<1>3. TypeInv /\ [Next]_vars =>
          [Statuses!StatusNext]_([m \in Methods |-> StatusOf(calls[m])])
  BY <1>2 DEF Shown
<1> QED
  BY <1>1, <1>3, TypesHold, PTL DEF Spec, ImplementsStatusLock, Statuses!StatusSpec

-----------------------------------------------------------------------------
(* With the email vault: types *)

\* The flow that sets a password carries one, the other one a random value.
FlowInv ==
    /\ flow \in Flow
    /\ remote \in Randoms \cup {NoValue}
    /\ drawn \subseteq Randoms
    /\ flow.stage \in {"adding", "sending"} => flow.value \in Randoms
    /\ flow.stage \in {"retrieving", "unlocking", "unlocked", "removing",
                       "removed", "resetting"} => flow.value \in Passwords

\* The vault starts a method of the keystore.
VaultStarts ==
    \E m \in Methods, call \in Call :
        /\ Start(m, call)
        /\ m \notin AddMethods
        /\ m \in {"addSecret", "changeKeystorePassword"} => call.value \in Values
        /\ m = "removeSecret" => call.id = "password" /\ flow.stage = "unlocked"

LEMMA StartOfVault ==
    ASSUME NEW id \in Ids, NEW value \in Values \cup {NoValue}
    PROVE  /\ StartUnlock(id, value, "vault") => VaultStarts
           /\ value \in Values /\ StartAddSecret(id, value, FALSE, "vault") => VaultStarts
           /\ flow.stage = "unlocked" /\ StartRemoveSecret("password", "vault") => VaultStarts
<1> USE DEF VaultStarts, Methods, AddMethods, Exclusive
<1>1. ASSUME StartUnlock(id, value, "vault") PROVE VaultStarts
  <2> DEFINE call == [Idle EXCEPT !.id = id, !.value = value, !.owner = "vault"]
  <2>1. call \in Call
    BY IdleIsCall DEF Call, Owners
  <2> QED
    BY <1>1, <2>1 DEF StartUnlock
<1>2. ASSUME value \in Values, StartAddSecret(id, value, FALSE, "vault") PROVE VaultStarts
  <2> DEFINE call == [Idle EXCEPT !.id = id, !.value = value, !.leave = FALSE,
                                  !.owner = "vault"]
  <2>1. call \in Call /\ call.value = value
    BY IdleIsCall DEF Call, Owners
  <2>2. Start("addSecret", call)
    BY <1>2 DEF StartAddSecret
  <2> HIDE DEF call
  <2> QED
    BY <1>2, <2>1, <2>2
<1>3. ASSUME flow.stage = "unlocked", StartRemoveSecret("password", "vault") PROVE VaultStarts
  <2> DEFINE call == [Idle EXCEPT !.id = "password", !.owner = "vault"]
  <2>1. call \in Call /\ call.id = "password"
    BY IdleIsCall DEF Call, Owners, Ids
  <2>2. Start("removeSecret", call)
    BY <1>3 DEF StartRemoveSecret
  <2> HIDE DEF call
  <2> QED
    BY <1>3, <2>1, <2>2
<1> QED
  BY <1>1, <1>2, <1>3

\* A step of the vault starts a method or leaves the keystore alone.
LEMMA VaultStepStarts ==
    ASSUME VaultStep, FlowInv
    PROVE  /\ VaultStarts \/ UNCHANGED calls
           /\ UNCHANGED <<memory, queue, disk, made>>
           /\ disturbed' = disturbed \/ (Retrieved /\ disturbed' = (disturbed \/ ~KnowsRemote))
<1>1. Randoms \subseteq Values /\ Passwords \subseteq Values
      /\ "password" \in Ids /\ "recovery" \in Ids
  BY KeystoreAssumption DEF Randoms, Ids
<1>2. CASE \/ StartUpload \/ Uploaded \/ UploadFailed \/ RetrieveFailed
           \/ \E v \in Passwords : StartRecover(v)
  BY <1>2 DEF StartUpload, Uploaded, UploadFailed, StartRecover, RetrieveFailed, OnlyFlow
<1>3. CASE Confirmed
  <2>1. /\ \/ \E v \in Randoms : StartAddSecret("recovery", v, FALSE, "vault")
           \/ UNCHANGED calls
        /\ UNCHANGED <<memory, queue, disk, made, disturbed>>
    BY <1>3 DEF Confirmed, OnlyFlow
  <2> QED
    BY <1>1, <2>1, StartOfVault
<1>4. CASE Retrieved
  <2>1. remote \in Values \cup {NoValue}
    BY <1>1 DEF FlowInv
  <2>2. StartUnlock("recovery", remote, "vault") => VaultStarts
    BY <1>1, <2>1, StartOfVault
  <2> QED
    BY <1>4, <2>2 DEF Retrieved, Calls
<1>5. CASE RemovePassword
  <2>1. StartRemoveSecret("password", "vault") => VaultStarts
    BY <1>1, <1>5, StartOfVault DEF RemovePassword
  <2> QED
    BY <1>5, <2>1 DEF RemovePassword, Calls, OnlyFlow
<1>6. CASE SetPassword
  <2>1. flow.value \in Values
    BY <1>1, <1>6 DEF SetPassword, FlowInv
  <2>2. StartAddSecret("password", flow.value, FALSE, "vault") => VaultStarts
    BY <1>1, <2>1, StartOfVault
  <2> QED
    BY <1>6, <2>2 DEF SetPassword, Calls, OnlyFlow
<1> QED
  BY <1>2, <1>3, <1>4, <1>5, <1>6 DEF VaultStep

LEMMA FlowStep ==
    ASSUME TypeInv, FlowInv, [RecoveryNext]_allVars
    PROVE  FlowInv'
<1> USE DEF FlowInv
<1>0. NoFlow \in Flow /\ NoFlow.stage = "idle"
  BY DEF NoFlow, Flow, FlowStages
<1>1. ASSUME UNCHANGED vaultVars PROVE FlowInv'
  BY <1>1 DEF vaultVars
<1>2. ASSUME flow' = NoFlow, UNCHANGED <<remote, drawn>> PROVE FlowInv'
  BY <1>0, <1>2
<1>3. ASSUME NEW stage \in FlowStages, flow' = [flow EXCEPT !.stage = stage],
             UNCHANGED remote, drawn' \subseteq Randoms,
             stage \in {"adding", "sending"} => flow.value \in Randoms,
             stage \in {"retrieving", "unlocking", "unlocked", "removing",
                        "removed", "resetting"} => flow.value \in Passwords
      PROVE  FlowInv'
  BY <1>3 DEF Flow
<1>4. ASSUME NEW v \in Values, NEW stage \in FlowStages,
             flow' = [stage |-> stage, value |-> v], UNCHANGED remote,
             drawn' \subseteq Randoms, stage \in {"adding", "sending"}, v \in Randoms
      PROVE  FlowInv'
  BY <1>4 DEF Flow
<1>5. CASE StartUpload
  BY <1>5 DEF StartUpload, NoFlow, Flow, FlowStages, OnlyFlow
<1>6. CASE Confirmed
  <2>1. PICK v \in Randoms \ drawn, stage \in {"adding", "sending"} :
            drawn' = drawn \cup {v} /\ flow' = [stage |-> stage, value |-> v]
    BY <1>6 DEF Confirmed
  <2> QED
    BY <1>4, <1>6, <2>1 DEF Confirmed, OnlyFlow, Randoms, FlowStages
<1>7. CASE Uploaded
  BY <1>0, <1>7 DEF Uploaded
<1>8. CASE UploadFailed \/ RetrieveFailed
  BY <1>2, <1>8 DEF UploadFailed, RetrieveFailed, OnlyFlow
<1>9. ASSUME NEW v \in Passwords, StartRecover(v) PROVE FlowInv'
  BY <1>9, KeystoreAssumption DEF StartRecover, OnlyFlow, Flow, FlowStages
<1>10. CASE Retrieved
  <2>1. PICK stage \in {"unlocking", "unlocked"} : flow' = [flow EXCEPT !.stage = stage]
    BY <1>10 DEF Retrieved, Calls
  <2> QED
    BY <1>3, <1>10, <2>1 DEF Retrieved, FlowStages
<1>11. CASE RemovePassword
  <2>1. PICK stage \in {"removing", "removed"} : flow' = [flow EXCEPT !.stage = stage]
    BY <1>11 DEF RemovePassword, Calls
  <2> QED
    BY <1>3, <1>11, <2>1 DEF RemovePassword, OnlyFlow, FlowStages
<1>12. CASE SetPassword
  <2>1. PICK stage \in {"resetting", "idle"} : flow' = [flow EXCEPT !.stage = stage]
    BY <1>12 DEF SetPassword, Calls
  <2> QED
    BY <1>3, <1>12, <2>1 DEF SetPassword, OnlyFlow, FlowStages
<1>13. ASSUME NEW m \in Methods, ReturnTo(m) PROVE FlowInv'
  <2>1. CASE flow' = Resume
    <3>1. \/ flow' = NoFlow
          \/ flow.stage = "adding" /\ flow' = [flow EXCEPT !.stage = "sending"]
          \/ flow.stage = "unlocking" /\ flow' = [flow EXCEPT !.stage = "unlocked"]
          \/ flow.stage = "removing" /\ flow' = [flow EXCEPT !.stage = "removed"]
      BY <2>1 DEF Resume
    <3> QED
      BY <1>2, <1>3, <1>13, <3>1 DEF ReturnTo, FlowStages
  <2>2. CASE flow' = flow
    BY <1>1, <1>13, <2>2 DEF ReturnTo, vaultVars
  <2> QED
    BY <1>13, <2>1, <2>2 DEF ReturnTo
<1>14. CASE RestartAll
  BY <1>2, <1>14 DEF RestartAll
<1> QED
  BY <1>1, <1>5, <1>6, <1>7, <1>8, <1>9, <1>10, <1>11, <1>12, <1>13, <1>14
     DEF RecoveryNext, VaultStep, allVars

\* A step that is neither the vault's nor removeSecret's is one of the keystore.
LEMMA KeystoreStep ==
    ASSUME [RecoveryNext]_allVars, ~VaultStep, ~BeginRemove
    PROVE  [Next]_vars
BY DEF RecoveryNext, Next, ReturnTo, RestartAll, allVars

LEMMA RecoveryTypeStep ==
    ASSUME TypeInv, FlowInv, [RecoveryNext]_allVars
    PROVE  TypeInv'
<1>1. CASE BeginRemove
  <2>1. "removeSecret" \in Methods
    BY DEF Methods, Exclusive
  <2> QED
    BY <1>1, <2>1, RemoveKeepsType DEF BeginRemove, TypeInv, TypeOK, Over
<1>2. CASE VaultStep
  <2>1. CallsGood'
    <3>1. CASE UNCHANGED calls
      BY <3>1 DEF TypeInv, TypeOK, CallsGood, CallsFit
    <3>2. CASE VaultStarts
      BY <3>2, StartFits DEF VaultStarts, AddMethods
    <3> QED
      BY <1>2, <3>1, <3>2, VaultStepStarts
  <2>2. UNCHANGED <<memory, queue, disk, made>> /\ disturbed' \in BOOLEAN
    BY <1>2, VaultStepStarts DEF TypeInv, TypeOK
  <2> QED
    BY <2>1, <2>2 DEF TypeInv, TypeOK, CallsGood, memory
<1>3. CASE ~BeginRemove /\ ~VaultStep
  BY <1>3, KeystoreStep, TypeStep
<1> QED
  BY <1>1, <1>2, <1>3

LEMMA RecoveryTypeInit == RecoveryInit => TypeInv /\ FlowInv
BY TypeInit DEF RecoveryInit, FlowInv, NoFlow, Flow, FlowStages

LEMMA RecoveryTypesHold == RecoverySpec => [](TypeInv /\ FlowInv)
<1>1. (TypeInv /\ FlowInv) /\ [RecoveryNext]_allVars => (TypeInv /\ FlowInv)'
  BY FlowStep, RecoveryTypeStep
<1> QED
  BY <1>1, RecoveryTypeInit, PTL DEF RecoverySpec

\* The keystore and the flows of the email vault keep their types: what a flow
\* carries is a password when it will set one and a random value when it will
\* upload one, for all values, addresses and bounds.
THEOREM RecoveryTypeCorrect == RecoverySpec => []RecoveryTypeOK
<1>1. TypeInv /\ FlowInv => RecoveryTypeOK
  BY DEF TypeInv, FlowInv, RecoveryTypeOK
<1> QED
  BY <1>1, RecoveryTypesHold, PTL

-----------------------------------------------------------------------------
(* One main key, and all of it stored *)

\* Between the answer of the vault and the removal of the password, the secret
\* that the keystore was unlocked with is there.
Recoverable == flow.stage \in {"unlocking", "unlocked"} => SecretsOf("recovery") # {}

RecoveryInv ==
    /\ Inv
    /\ CaughtUp
    /\ FlowInv
    /\ ~disturbed => Recoverable

\* Only the password is ever removed.
LEMMA RecoverySecretStays ==
    ASSUME UserStep \/ CallStep \/ BeginRemove \/ (\E m \in Methods : Return(m)),
           BeginRemove => calls["removeSecret"].id = "password"
    PROVE  SecretsOf("recovery") \subseteq SecretsOf("recovery")'
<1>1. secrets' = secrets => SecretsOf("recovery")' = SecretsOf("recovery")
  BY DEF SecretsOf
<1>2. ASSUME NEW m, Remove(m, "password")
      PROVE  SecretsOf("recovery") \subseteq SecretsOf("recovery")'
  BY <1>2 DEF Remove, SecretsOf
<1>3. ASSUME NEW m \in Methods, Wrapped(m)
      PROVE  SecretsOf("recovery") \subseteq SecretsOf("recovery")'
  BY <1>3 DEF Wrapped, SecretsOf
<1>4. CASE BeginRemove
  BY <1>2, <1>4 DEF BeginRemove
<1>5. CASE RemoveOldPassword
  BY <1>2, <1>5 DEF RemoveOldPassword
<1>6. CASE UserStep \/ \E m \in Methods : Return(m)
  BY <1>1, <1>6 DEF UserStep, RemoveKey, Lock, Return, memory
<1>7. CASE \/ BeginUnlock \/ Unlocked \/ CheckOldPassword \/ RefuseChange \/ BeginAdd
           \/ StoredAlone
           \/ \E m \in Methods : \/ StoredRemoval(m) \/ StoredSecret(m) \/ StoredUid(m)
                                 \/ BeginAddKeys(m) \/ StoredKeys(m)
  BY <1>1, <1>7 DEF BeginUnlock, Unlocked, CheckOldPassword, Derive, RefuseChange, BeginAdd,
     StoredAlone, StoredRemoval, StoredSecret, StoredUid, BeginAddKeys, StoredKeys, memory
<1> QED
  BY <1>3, <1>4, <1>5, <1>6, <1>7 DEF CallStep

\* removeSecret takes the password away, and the vault's secret stays.
LEMMA BeginRemoveSound ==
    ASSUME Inv, ~disturbed, BeginRemove
    PROVE  SoundInv'
<1> DEFINE m == "removeSecret"
<1>1. /\ m \in Methods /\ calls[m].stage = "begun" /\ Remove(m, "password")
      /\ SecretsOf("recovery") # {} /\ UNCHANGED <<mainKey, keys, uid, ready, disk, made>>
  BY DEF BeginRemove, Remove, Methods, Exclusive, Inv, SoundInv, InOrder, RemovesPassword
<1>2. mainKey' \in {0, made}
  BY <1>1 DEF Inv, SoundInv, OneKey
<1>3. CASE SecretsOf("password") = {}
  BY <1>1, <1>2, <1>3, EndSound DEF Remove
<1>4. CASE SecretsOf("password") # {}
  <2>1. /\ secrets' = secrets \ SecretsOf("password")
        /\ queue' = Append(Detached, OfSecrets(m))
        /\ Goto(m, "removing")
    BY <1>1, <1>4 DEF Remove
  <2>2. calls'[m].stage = "removing" /\ \A n \in Methods \ {m} : calls'[n] = calls[n]
    BY <1>1, <2>1, CallMoves DEF Inv
  <2>3. ChangeStage' = ChangeStage /\ RemovesPassword'
    BY <1>1, <2>1, <2>2, ChangeMoves
  <2>4. secrets # {} /\ secrets' # {}
    BY <1>1, <2>1 DEF SecretsOf
  <2>5. Backed' /\ (Founded => Founded')
    BY <1>1, <2>3, <2>4 DEF Backed, Founded
  <2>6. OneKey' /\ InOrder'
    BY <1>1, <2>1, <2>3, <2>5 DEF Inv, SoundInv, OneKey, InOrder
  <2>7. Backed /\ OfSecrets(m) \in GoodWrite
    BY <1>1, <2>4, WritesAreGood DEF Backed, Inv, TypeInv
  <2>8. queue' \in Seq(GoodWrite)
    BY <2>1, <2>4, <2>7, DetachedIsGood, AppendProperties
  <2>9. queue' \in Seq(GoodWrite')
    BY <1>1, <2>5, <2>8, QueueStays
  <2>10. GoodCall(m)'
    BY <2>2 DEF GoodCall, Holding
  <2> QED
    BY <1>1, <2>2, <2>5, <2>6, <2>9, <2>10, SoundStep
<1> QED
  BY <1>3, <1>4

LEMMA VaultSound ==
    ASSUME RecoveryInv, ~disturbed, VaultStep
    PROVE  SoundInv'
<1>1. /\ VaultStarts \/ UNCHANGED calls
      /\ UNCHANGED <<memory, queue, disk, made>>
  BY VaultStepStarts DEF RecoveryInv
<1>2. CASE UNCHANGED calls
  BY <1>1, <1>2, StutterSound DEF RecoveryInv, memory
<1>3. CASE VaultStarts
  <2>1. PICK m \in Methods, call \in Call :
            /\ Start(m, call)
            /\ m = "removeSecret" => call.id = "password" /\ flow.stage = "unlocked"
    BY <1>3 DEF VaultStarts
  <2>2. m = "removeSecret" => SecretsOf("recovery") # {}
    BY <2>1 DEF RecoveryInv, Recoverable
  <2> QED
    BY <1>1, <2>1, <2>2, StartIsSound DEF RecoveryInv
<1> QED
  BY <1>1, <1>2, <1>3

LEMMA RecoverableStep ==
    ASSUME RecoveryInv, [RecoveryNext]_allVars, ~disturbed', ~disturbed
    PROVE  Recoverable'
<1> DEFINE Here == SecretsOf("recovery") # {}
<1>1. Recoverable /\ flow \in Flow
  BY DEF RecoveryInv, FlowInv
<1>2. NoFlow.stage = "idle" /\ \A stage \in FlowStages : [flow EXCEPT !.stage = stage].stage = stage
  BY <1>1 DEF NoFlow, Flow
<1>3. CASE RestartAll
  BY <1>2, <1>3 DEF RestartAll, Recoverable
<1>4. CASE VaultStep
  <2>1. SecretsOf("recovery")' = SecretsOf("recovery")
    BY <1>4, VaultStepStarts DEF SecretsOf, memory, RecoveryInv
  <2>2. CASE Retrieved
    BY <2>1, <2>2 DEF Retrieved, KnowsRemote, Recoverable
  <2>3. CASE flow'.stage \notin {"unlocking", "unlocked"}
    BY <2>3 DEF Recoverable
  <2>4. ~Retrieved => flow'.stage \notin {"unlocking", "unlocked"}
    <3>1. \A v : [stage |-> "adding", value |-> v].stage = "adding"
                 /\ [stage |-> "sending", value |-> v].stage = "sending"
                 /\ [stage |-> "retrieving", value |-> v].stage = "retrieving"
      OBVIOUS
    <3>2. CASE StartUpload \/ Uploaded \/ UploadFailed \/ RetrieveFailed
      BY <1>2, <3>2 DEF StartUpload, Uploaded, UploadFailed, RetrieveFailed, NoFlow
    <3>3. CASE Confirmed \/ \E v \in Passwords : StartRecover(v)
      BY <3>1, <3>3 DEF Confirmed, StartRecover
    <3>4. CASE RemovePassword \/ SetPassword
      BY <1>2, <3>4 DEF RemovePassword, SetPassword, Calls, FlowStages
    <3> QED
      BY <1>4, <3>2, <3>3, <3>4 DEF VaultStep
  <2> QED
    BY <2>2, <2>3, <2>4
<1>5. ASSUME flow' = flow, Here => Here' PROVE Recoverable'
  BY <1>1, <1>5 DEF Recoverable
<1>6. BeginRemove => calls["removeSecret"].id = "password"
  BY DEF BeginRemove, RecoveryInv, Inv, SoundInv, InOrder, RemovesPassword
<1>7. CASE (UserStep \/ CallStep \/ BeginRemove) /\ UNCHANGED vaultVars
  BY <1>5, <1>6, <1>7, RecoverySecretStays DEF vaultVars
<1>8. ASSUME NEW m \in Methods, ReturnTo(m) PROVE Recoverable'
  <2>1. Here => Here'
    BY <1>6, <1>8, RecoverySecretStays DEF ReturnTo
  <2>2. CASE flow' = flow
    BY <1>5, <2>1, <2>2
  <2>3. CASE flow' = Resume
    <3>1. \/ flow' = NoFlow
          \/ flow' = [flow EXCEPT !.stage = "sending"]
          \/ flow' = [flow EXCEPT !.stage = "removed"]
          \/ flow.stage = "unlocking"
      BY <2>3 DEF Resume
    <3> QED
      BY <1>1, <1>2, <2>1, <3>1 DEF Recoverable, FlowStages
  <2> QED
    BY <1>8, <2>2, <2>3 DEF ReturnTo
<1>9. CASE UNCHANGED allVars
  BY <1>5, <1>9 DEF allVars, vars, memory, vaultVars, SecretsOf
<1> QED
  BY <1>3, <1>4, <1>7, <1>8, <1>9 DEF RecoveryNext

LEMMA RecoveryInvInit == RecoveryInit => RecoveryInv
BY InvInit, CaughtUpInit, RecoveryTypeInit
   DEF RecoveryInit, RecoveryInv, Recoverable, NoFlow

LEMMA RecoveryInvStep ==
    ASSUME RecoveryInv, [RecoveryNext]_allVars
    PROVE  RecoveryInv'
<1>1. TypeInv' /\ FlowInv'
  BY FlowStep, RecoveryTypeStep DEF RecoveryInv, Inv
<1>2. CaughtUp'
  <2>1. CASE BeginRemove
    <3>1. "removeSecret" \in Methods
      BY DEF Methods, Exclusive
    <3> QED
      BY <2>1, <3>1, RemoveCatchesUp DEF BeginRemove, RecoveryInv, Inv, TypeInv
  <2>2. CASE VaultStep
    BY <2>2, VaultStepStarts DEF RecoveryInv, CaughtUp, Memory, memory
  <2>3. CASE ~BeginRemove /\ ~VaultStep
    BY <2>3, KeystoreStep, CaughtUpStep DEF RecoveryInv, Inv
  <2> QED
    BY <2>1, <2>2, <2>3
<1>3. ASSUME ~disturbed' PROVE SoundInv' /\ Recoverable'
  <2>1. CASE BeginRemove
    <3>1. ~disturbed
      BY <1>3, <2>1 DEF BeginRemove, Remove
    <3> QED
      BY <1>3, <2>1, <3>1, BeginRemoveSound, RecoverableStep DEF RecoveryInv
  <2>2. CASE VaultStep
    <3>1. ~disturbed
      BY <1>3, <2>2, VaultStepStarts DEF RecoveryInv, Inv, TypeInv, TypeOK
    <3> QED
      BY <1>3, <2>2, <3>1, VaultSound, RecoverableStep
  <2>3. CASE ~BeginRemove /\ ~VaultStep
    <3>1. [Next]_vars
      BY <2>3, KeystoreStep
    <3>2. SoundInv' /\ ~disturbed
      BY <1>3, <3>1, InvStep, DisturbedStays DEF RecoveryInv, Inv
    <3> QED
      BY <1>3, <3>2, RecoverableStep
  <2> QED
    BY <2>1, <2>2, <2>3
<1> QED
  BY <1>1, <1>2, <1>3 DEF RecoveryInv, Inv

LEMMA RecoveryInvHolds == RecoverySpec => []RecoveryInv
BY RecoveryInvInit, RecoveryInvStep, PTL DEF RecoverySpec

\* With the flows of the email vault as well, all secrets, keys and the uid
\* depend on one main key, although the vault removes the password, wherever a
\* refused call, a lock or a restart falls outside a change of the password.
THEOREM RecoveryKeepsOneMainKey == RecoverySpec => []OneMainKey
<1>1. RecoveryInv => OneMainKey
  BY InvGivesOneMainKey DEF RecoveryInv
<1> QED
  BY <1>1, RecoveryInvHolds, PTL

\* A restart in the middle of a recovery loses no private key: there is a secret
\* in the storage that reads it.
THEOREM RecoveryKeepsKeys == RecoverySpec => []KeysSurviveRestart
<1>1. RecoveryInv => KeysSurviveRestart
  BY InvGivesKeys DEF RecoveryInv
<1> QED
  BY <1>1, RecoveryInvHolds, PTL

\* After a recovery, or a part of one, the storage has what the memory has and a
\* keystore that was set up has a secret that opens it.
THEOREM RecoveryIsStored == RecoverySpec => []QuietKeystoreOpens
<1>1. RecoveryInv => QuietKeystoreOpens
  BY QuietOpens DEF RecoveryInv
<1> QED
  BY <1>1, RecoveryInvHolds, PTL

\* The methods keep the promise of withStatus when the vault calls them too.
THEOREM RecoveryImplementsStatusLock == RecoverySpec => ImplementsStatusLock
<1>1. RecoveryInit => Statuses!StatusInit
  BY DEF RecoveryInit, Init, Idle, StatusOf, Statuses!StatusInit
<1>2. ASSUME TypeInv, FlowInv, [RecoveryNext]_allVars
      PROVE  Statuses!StatusNext \/ Shown' = Shown
  <2>1. CASE BeginRemove
    <3>1. "removeSecret" \in Methods
      BY DEF Methods, Exclusive
    <3>2. Shown' = Shown \/ Statuses!Outcome("removeSecret")
      BY <1>2, <2>1, <3>1, RemoveShows DEF BeginRemove, Over
    <3> QED
      BY <3>1, <3>2 DEF Statuses!StatusNext
  <2>2. CASE VaultStep
    <3>1. CASE VaultStarts
      BY <1>2, <3>1, StartClaims DEF VaultStarts, Statuses!StatusNext
    <3>2. CASE UNCHANGED calls
      BY <3>2 DEF Shown
    <3> QED
      BY <1>2, <2>2, <3>1, <3>2, VaultStepStarts
  <2>3. CASE ~BeginRemove /\ ~VaultStep
    BY <1>2, <2>3, KeystoreStep, StatusStep
  <2> QED
    BY <2>1, <2>2, <2>3
<1>3. TypeInv /\ FlowInv /\ [RecoveryNext]_allVars =>
          [Statuses!StatusNext]_([m \in Methods |-> StatusOf(calls[m])])
  BY <1>2 DEF Shown
<1> QED
  BY <1>1, <1>3, RecoveryTypesHold, PTL
     DEF RecoverySpec, ImplementsStatusLock, Statuses!StatusSpec
=============================================================================
