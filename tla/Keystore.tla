------------------------------ MODULE Keystore ------------------------------
(***************************************************************************)
(* KeystoreController: secrets (a password, a recovery secret) that each   *)
(* wrap one main key, and private keys that are encrypted with it.         *)
(*                                                                         *)
(* Its methods run under withStatus, so each of them is in flight at most  *)
(* once; a call is a process that does one segment between two awaits per  *)
(* action.  What it persists goes through the queue of StorageController,  *)
(* and the browser may be closed between any two steps.                    *)
(***************************************************************************)
EXTENDS Naturals, Sequences, FiniteSets

CONSTANTS
    Values,       \* what a secret can be: passwords and random strings
    Passwords,    \* the values a user chooses
    NoValue,      \* "no old password is given"
    Internal,     \* addresses of keys whose private key is stored
    External,     \* addresses of keys on hardware wallets
    MaxMainKeys,  \* bound: main keys generated in a behaviour
    MaxTogether   \* bound: calls in flight when the user makes another one

VARIABLES
    mainKey,    \* #mainKey, or 0 while the keystore is locked
    secrets,    \* #keystoreSecrets
    keys,       \* #keystoreKeys
    uid,        \* keyStoreUid: the main key it was derived from, or 0
    ready,      \* isReadyToStoreKeys
    waiting,    \* #internalKeysToAddOnKeystoreReady and the external ones
    calls,      \* the call of each method that is in flight
    queue,      \* StorageController's queue of writes
    disk,       \* what the browser's storage holds
    made,       \* how many main keys were generated
    disturbed   \* history: a lock or a restart hit a change of the password

memory == <<mainKey, secrets, keys, uid, ready, waiting>>
vars == <<memory, calls, queue, disk, made, disturbed>>

-----------------------------------------------------------------------------
(* Types *)

Ids == {"password", "recovery"}
Addrs == Internal \cup External
Owners == {"user", "vault"}

ASSUME KeystoreAssumption ==
    /\ Passwords \subseteq Values
    /\ NoValue \notin Values
    /\ Internal \cap External = {}
    /\ MaxMainKeys \in Nat
    /\ MaxTogether \in Nat

\* wraps is the main key a secret unlocks, or a private key is encrypted with.
Secret == [id: Ids, value: Values, wraps: Nat \ {0}]
Key == [addr: Internal, wraps: Nat \ {0}] \cup [addr: External, wraps: {0}]
Stored == [secrets: SUBSET Secret, keys: SUBSET Key, uid: Nat]

AddMethods == {"addKeys", "addKeysExternallyStored"}
Exclusive == {"removeSecret", "changeKeystorePassword"}
Methods == AddMethods \cup Exclusive \cup {"unlockWithSecret", "addSecret"}

\* "begun": LOADING is shown; "unlocking", "wrapping": scrypt runs; the next
\* four await a write; "done": SUCCESS or ERROR is shown.
Stages == {"idle", "begun", "unlocking", "wrapping",
           "removing", "storing", "storingUid", "storingKeys", "done"}
Call == [stage: Stages, id: Ids, value: Values \cup {NoValue},
         old: Values \cup {NoValue}, leave: BOOLEAN, wraps: Nat, opens: BOOLEAN,
         adds: SUBSET Addrs, owner: Owners]
Idle == [stage |-> "idle", id |-> "password", value |-> NoValue, old |-> NoValue,
         leave |-> FALSE, wraps |-> 0, opens |-> FALSE, adds |-> {}, owner |-> "user"]

\* A write of one part of the storage.  The list of secrets is pushed to in
\* place: a live write stores what the list is when its turn comes.
Write == [of: {"secrets", "keys", "uid"}, live: BOOLEAN, to: Stored,
          by: Methods \cup {"none"}]
Blank == [secrets |-> {}, keys |-> {}, uid |-> 0]

TypeOK ==
    /\ mainKey \in Nat
    /\ secrets \subseteq Secret
    /\ keys \subseteq Key
    /\ uid \in Nat
    /\ ready \in BOOLEAN
    /\ waiting \subseteq Addrs
    /\ calls \in [Methods -> Call]
    /\ queue \in Seq(Write)
    /\ disk \in Stored
    /\ made \in Nat
    /\ disturbed \in BOOLEAN

-----------------------------------------------------------------------------
(* withStatus *)

\* Mistake: an exclusive method only asks for its own status.
MayStartUnlessSelf(m) == calls[m].stage = "idle"

\* A method is refused while it runs; an exclusive one while any method runs.
\* The caller of a refused method is not told.
MayStart(m) ==
    /\ calls[m].stage = "idle"
    /\ m \in Exclusive => \A n \in Methods : calls[n].stage = "idle"

Start(m, call) ==
    /\ MayStart(m)
    /\ calls' = [calls EXCEPT ![m] = [call EXCEPT !.stage = "begun"]]

Goto(m, stage) == calls' = [calls EXCEPT ![m].stage = stage]

\* The user's calls are bounded, those of the email vault are not.
Busy == {m \in Methods : calls[m].stage # "idle"}
UserMay == Cardinality(Busy) < MaxTogether

\* Errors are shown and swallowed: the caller sees the same as after a success.
End(m) == calls' = [calls EXCEPT ![m] = [Idle EXCEPT !.stage = "done",
                                                     !.owner = calls[m].owner]]

Return(m) ==
    /\ calls[m].stage = "done"
    /\ calls' = [calls EXCEPT ![m] = Idle]
    /\ UNCHANGED <<memory, queue, disk, made, disturbed>>

StartUnlock(id, value, owner) ==
    Start("unlockWithSecret", [Idle EXCEPT !.id = id, !.value = value, !.owner = owner])
StartAddSecret(id, value, leave, owner) ==
    Start("addSecret", [Idle EXCEPT !.id = id, !.value = value, !.leave = leave,
                                    !.owner = owner])
StartRemoveSecret(id, owner) ==
    Start("removeSecret", [Idle EXCEPT !.id = id, !.owner = owner])

\* changeKeystorePassword unlocks, removes and adds the password in one call.
StartChange(value, old) ==
    Start("changeKeystorePassword", [Idle EXCEPT !.value = value, !.old = old,
                                                 !.leave = TRUE])
StartAddKeys(m, adds) == Start(m, [Idle EXCEPT !.adds = adds])

-----------------------------------------------------------------------------
(* The storage queue *)

OfSecrets(m) == [of |-> "secrets", live |-> TRUE, to |-> Blank, by |-> m]
OfUid(n, m) == [of |-> "uid", live |-> FALSE, to |-> [Blank EXCEPT !.uid = n], by |-> m]
OfKeys(new, m) ==
    [of |-> "keys", live |-> FALSE, to |-> [Blank EXCEPT !.keys = new], by |-> m]

\* A removal replaces the list: earlier writes keep the one they were given.
Detached == [i \in DOMAIN queue |->
    IF queue[i].live
    THEN [queue[i] EXCEPT !.live = FALSE, !.to = [Blank EXCEPT !.secrets = secrets]]
    ELSE queue[i]]

\* The first write is done.
Persist ==
    LET write == Head(queue) IN
    /\ disk' = CASE write.of = "secrets" ->
                     [disk EXCEPT !.secrets = IF write.live THEN secrets ELSE write.to.secrets]
                 [] write.of = "keys" -> [disk EXCEPT !.keys = write.to.keys]
                 [] write.of = "uid" -> [disk EXCEPT !.uid = write.to.uid]
    /\ UNCHANGED disturbed

\* The write that a call awaits is done.
Written(m, stage, of) ==
    /\ queue # <<>>
    /\ Head(queue).by = m
    /\ Head(queue).of = of
    /\ calls[m].stage = stage
    /\ Persist

-----------------------------------------------------------------------------
(* unlockWithSecret, and the first part of changeKeystorePassword *)

SecretsOf(id) == {s \in secrets : s.id = id}

\* The entry is looked up, and scrypt derives a key from the given secret.
Derive(m, id, value) ==
    /\ calls[m].stage = "begun"
    /\ \/ SecretsOf(id) = {} /\ End(m)
       \/ \E s \in SecretsOf(id) :
              calls' = [calls EXCEPT ![m] = [calls[m] EXCEPT
                  !.stage = "unlocking", !.wraps = s.wraps, !.opens = (s.value = value)]]
    /\ UNCHANGED <<memory, queue, disk, made, disturbed>>

BeginUnlock ==
    LET call == calls["unlockWithSecret"] IN
    Derive("unlockWithSecret", call.id, call.value)
CheckOldPassword ==
    LET call == calls["changeKeystorePassword"] IN
    call.old # NoValue /\ Derive("changeKeystorePassword", "password", call.old)

Unlocked ==
    LET call == calls["unlockWithSecret"] IN
    /\ call.stage = "unlocking"
    /\ mainKey' = IF call.opens THEN call.wraps ELSE mainKey
    /\ End("unlockWithSecret")
    /\ UNCHANGED <<secrets, keys, uid, ready, waiting, queue, disk, made, disturbed>>

-----------------------------------------------------------------------------
(* removeSecret, and the second part of changeKeystorePassword *)

Remove(m, id) ==
    /\ IF SecretsOf(id) = {}
       THEN End(m) /\ UNCHANGED <<secrets, queue>>
       ELSE /\ secrets' = secrets \ SecretsOf(id)
            /\ queue' = Append(Detached, OfSecrets(m))
            /\ Goto(m, "removing")
    /\ UNCHANGED <<keys, uid, ready, waiting, disk, made, disturbed>>

\* Only the email vault calls removeSecret (KeystoreRecovery).
BeginRemove ==
    /\ calls["removeSecret"].stage = "begun"
    /\ Remove("removeSecret", calls["removeSecret"].id)
    /\ UNCHANGED mainKey

\* The old password is right, or the keystore is unlocked and none was given.
\* Mistake: a wrong old password is not noticed.
RemoveUnchecked ==
    LET call == calls["changeKeystorePassword"] IN
    /\ call.stage \in {"begun", "unlocking"}
    /\ mainKey' = IF call.opens THEN call.wraps ELSE mainKey
    /\ Remove("changeKeystorePassword", "password")
RemoveOldPassword ==
    LET call == calls["changeKeystorePassword"] IN
    /\ \/ call.stage = "unlocking" /\ call.opens /\ mainKey' = call.wraps
       \/ call.stage = "begun" /\ call.old = NoValue /\ mainKey # 0 /\ UNCHANGED mainKey
    /\ Remove("changeKeystorePassword", "password")

RefuseChange ==
    LET call == calls["changeKeystorePassword"] IN
    /\ \/ call.stage = "unlocking" /\ ~call.opens
       \/ call.stage = "begun" /\ call.old = NoValue /\ mainKey = 0
    /\ End("changeKeystorePassword")
    /\ UNCHANGED <<memory, queue, disk, made, disturbed>>

-----------------------------------------------------------------------------
(* addSecret, and the last part of changeKeystorePassword *)

\* Without a main key in memory a new one is made, but only when there are no
\* secrets, so that none can wrap another one.
\* Mistake: the check for other secrets is left out.
AlwaysFresh == mainKey = 0
NeedsFresh == mainKey = 0 /\ secrets = {}

Wrap(m) ==
    \/ /\ \/ SecretsOf(calls[m].id) # {}
          \/ mainKey = 0 /\ ~NeedsFresh
       /\ End(m)
       /\ UNCHANGED <<mainKey, made>>
    \/ /\ SecretsOf(calls[m].id) = {}
       /\ mainKey # 0
       /\ calls' = [calls EXCEPT ![m] = [calls[m] EXCEPT
                        !.stage = "wrapping", !.wraps = mainKey]]
       /\ UNCHANGED <<mainKey, made>>
    \/ /\ SecretsOf(calls[m].id) = {}
       /\ NeedsFresh
       /\ made < MaxMainKeys
       /\ made' = made + 1
       /\ mainKey' = IF calls[m].leave THEN made' ELSE mainKey
       /\ calls' = [calls EXCEPT ![m] = [calls[m] EXCEPT
                        !.stage = "wrapping", !.wraps = made']]

BeginAdd ==
    /\ calls["addSecret"].stage = "begun"
    /\ Wrap("addSecret")
    /\ UNCHANGED <<secrets, keys, uid, ready, waiting, queue, disk, disturbed>>

\* The removal is stored: removeSecret ends, a change of the password goes on.
StoredRemoval(m) ==
    /\ Written(m, "removing", "secrets")
    /\ queue' = Tail(queue)
    /\ IF m = "changeKeystorePassword"
       THEN Wrap(m)
       ELSE End(m) /\ UNCHANGED <<mainKey, made>>
    /\ UNCHANGED <<secrets, keys, uid, ready, waiting>>

\* scrypt is done and the main key encrypted.
Wrapped(m) ==
    /\ m \in {"addSecret", "changeKeystorePassword"}
    /\ calls[m].stage = "wrapping"
    /\ secrets' = secrets \cup
           {[id |-> calls[m].id, value |-> calls[m].value, wraps |-> calls[m].wraps]}
    /\ queue' = Append(queue, OfSecrets(m))
    /\ Goto(m, "storing")
    /\ UNCHANGED <<mainKey, keys, uid, ready, waiting, disk, made, disturbed>>

-----------------------------------------------------------------------------
(* Keys *)

Encrypted(addr) == [addr |-> addr, wraps |-> IF addr \in Internal THEN mainKey ELSE 0]

\* An address that is there already is not added again.
New(adds) == {Encrypted(a) : a \in {b \in adds : \A k \in keys : k.addr # b}}

\* isReadyToStoreKeys = true: the keys that wait are added, internal ones only
\* to an unlocked keystore.  They keep waiting for the next time.
MakeReady(m, pending) ==
    LET private == IF mainKey = 0 THEN {} ELSE New(waiting \cap Internal)
        devices == New(waiting \cap External)
        first == IF private = {} THEN <<>> ELSE <<OfKeys(keys \cup private, "none")>>
        second == IF devices = {} THEN <<>>
                  ELSE <<OfKeys(keys \cup private \cup devices, "none")>>
    IN  /\ ready' = TRUE
        /\ keys' = keys \cup private \cup devices
        /\ queue' = pending \o first \o second
        /\ End(m)
        /\ UNCHANGED uid

\* The secret is stored.  The uid is made once, from the main key.
StoredSecret(m) ==
    /\ Written(m, "storing", "secrets")
    /\ IF uid = 0
       THEN /\ uid' = calls[m].wraps
            /\ queue' = Append(Tail(queue), OfUid(uid', m))
            /\ Goto(m, "storingUid")
            /\ UNCHANGED <<ready, keys>>
       ELSE MakeReady(m, Tail(queue))
    /\ UNCHANGED <<mainKey, secrets, waiting, made>>

StoredUid(m) ==
    /\ Written(m, "storingUid", "uid")
    /\ MakeReady(m, Tail(queue))
    /\ UNCHANGED <<mainKey, secrets, waiting, made>>

\* Mistake: keys are not made to wait for the first secret.
BeginAddKeysEarly(m) ==
    LET new == New(calls[m].adds) IN
    /\ m \in AddMethods
    /\ calls[m].stage = "begun"
    /\ ~(m = "addKeys" /\ mainKey = 0)
    /\ keys' = keys \cup new
    /\ queue' = Append(queue, OfKeys(keys', m))
    /\ Goto(m, "storingKeys")
    /\ UNCHANGED <<mainKey, secrets, uid, ready, waiting, disk, made, disturbed>>
\* Mistake: a locked keystore is not noticed.
BeginAddKeysLocked(m) ==
    LET new == New(calls[m].adds) IN
    /\ m \in AddMethods
    /\ calls[m].stage = "begun"
    /\ keys' = keys \cup new
    /\ queue' = Append(queue, OfKeys(keys', m))
    /\ Goto(m, "storingKeys")
    /\ UNCHANGED <<mainKey, secrets, uid, ready, waiting, disk, made, disturbed>>
BeginAddKeys(m) ==
    LET new == New(calls[m].adds) IN
    /\ m \in AddMethods
    /\ calls[m].stage = "begun"
    /\ IF ready /\ ~(m = "addKeys" /\ mainKey = 0) /\ new # {}
       THEN /\ keys' = keys \cup new
            /\ queue' = Append(queue, OfKeys(keys', m))
            /\ Goto(m, "storingKeys")
            /\ UNCHANGED waiting
       ELSE /\ waiting' = IF ready THEN waiting ELSE waiting \cup calls[m].adds
            /\ End(m)
            /\ UNCHANGED <<keys, queue>>
    /\ UNCHANGED <<mainKey, secrets, uid, ready, disk, made, disturbed>>

StoredKeys(m) ==
    /\ Written(m, "storingKeys", "keys")
    /\ queue' = Tail(queue)
    /\ End(m)
    /\ UNCHANGED <<memory, made>>

\* A write nobody waits for.
StoredAlone ==
    /\ queue # <<>>
    /\ Head(queue).by = "none"
    /\ Persist
    /\ queue' = Tail(queue)
    /\ UNCHANGED <<memory, calls, made>>

\* removeKey, when an account is removed.
\* Mistake: the removal is not stored.
RemoveKeyUnsaved(k) ==
    /\ mainKey # 0
    /\ k \in keys
    /\ keys' = keys \ {k}
    /\ UNCHANGED <<mainKey, secrets, uid, ready, waiting, calls, queue, disk, made, disturbed>>
RemoveKey(k) ==
    /\ mainKey # 0
    /\ k \in keys
    /\ keys' = keys \ {k}
    /\ queue' = Append(queue, OfKeys(keys', "none"))
    /\ UNCHANGED <<mainKey, secrets, uid, ready, waiting, calls, disk, made, disturbed>>

-----------------------------------------------------------------------------
(* Locks and restarts *)

\* The password is off the disk, or on its way, and the new one is not on it.
Window == {"removing", "wrapping", "storing"}
ChangeStage == calls["changeKeystorePassword"].stage

\* The user or a timer locks the keystore.
Lock ==
    /\ mainKey # 0
    /\ mainKey' = 0
    /\ disturbed' = (disturbed \/ ChangeStage \in {"removing", "wrapping"})
    /\ UNCHANGED <<secrets, keys, uid, ready, waiting, calls, queue, disk, made>>

\* The extension is closed at any point and loads what it stored.
Restart ==
    /\ mainKey' = 0
    /\ secrets' = disk.secrets
    /\ keys' = disk.keys
    /\ uid' = disk.uid
    /\ ready' = (disk.secrets # {})
    /\ waiting' = {}
    /\ calls' = [m \in Methods |-> Idle]
    /\ queue' = <<>>
    /\ disturbed' = (disturbed \/ ChangeStage \in Window)
    /\ UNCHANGED <<disk, made>>

-----------------------------------------------------------------------------
Init ==
    /\ mainKey = 0
    /\ secrets = {}
    /\ keys = {}
    /\ uid = 0
    /\ ready = FALSE
    /\ waiting = {}
    /\ calls = [m \in Methods |-> Idle]
    /\ queue = <<>>
    /\ disk = Blank
    /\ made = 0
    /\ disturbed = FALSE

\* What the user's screens call.  Any value may be typed as the password.
UserCall ==
    \/ \E v \in Values : StartUnlock("password", v, "user")
    \/ \E v \in Passwords, leave \in BOOLEAN : StartAddSecret("password", v, leave, "user")
    \/ \E v \in Passwords, old \in Values \cup {NoValue} : StartChange(v, old)
    \/ \E a \in Internal : StartAddKeys("addKeys", {a})
    \/ \E a \in External : StartAddKeys("addKeysExternallyStored", {a})

\* What an await resolves to.
CallStep ==
    \/ BeginUnlock \/ Unlocked
    \/ CheckOldPassword \/ RemoveOldPassword \/ RefuseChange
    \/ BeginAdd
    \/ \E m \in Methods :
           \/ StoredRemoval(m) \/ Wrapped(m) \/ StoredSecret(m) \/ StoredUid(m)
           \/ BeginAddKeys(m) \/ StoredKeys(m)
    \/ StoredAlone

UserStep ==
    \/ UserMay /\ UserCall /\ UNCHANGED <<memory, queue, disk, made, disturbed>>
    \/ \E k \in keys : RemoveKey(k)
    \/ Lock

Next == UserStep \/ CallStep \/ Restart \/ \E m \in Methods : Return(m)

Spec == Init /\ [][Next]_vars

\* Bound of the runs: behaviours are followed until a change of the password is
\* disturbed.
Undisturbed == ~disturbed

-----------------------------------------------------------------------------
(* Properties *)

PrivateKeys(ks) == {k \in ks : k.addr \in Internal}

\* Every main key that anything depends on: the secrets, the private keys, the
\* uid and the memory.
MainKeys ==
    {s.wraps : s \in secrets \cup disk.secrets}
        \cup {k.wraps : k \in PrivateKeys(keys \cup disk.keys)}
        \cup ({mainKey, uid, disk.uid} \ {0})

\* "Encryption works via one master key which is itself stored encrypted via any
\* number of secrets": however calls overlap, locks, restarts and retries come,
\* there is one, as long as none of them hits a change of the password.
OneMainKey == ~disturbed => \A k, l \in MainKeys : k = l

\* If the browser is closed now, every private key in the storage can be read
\* with a secret in the storage, except while a password is being changed.
KeysSurviveRestart ==
    ~disturbed /\ ChangeStage \notin Window =>
        \A k \in PrivateKeys(disk.keys) : \E s \in disk.secrets : s.wraps = k.wraps

\* When nothing is in flight, the storage has all that the memory has, and a
\* keystore that was set up can be unlocked.
Quiet == queue = <<>> /\ \A m \in Methods : calls[m].stage = "idle"
QuietKeystoreOpens ==
    ~disturbed /\ Quiet =>
        /\ disk = [secrets |-> secrets, keys |-> keys, uid |-> uid]
        /\ uid # 0 => secrets # {}

\* "All individual keys are encrypted with the mainKey", as the documentation of
\* the class says.  A lock during a change of the password makes a new one.
MainKeyEncryptsAllKeys ==
    mainKey # 0 => \A k \in PrivateKeys(keys) : k.wraps = mainKey

\* The methods of the keystore are run the way withStatus of EventEmitter promises
\* (StatusLock), whatever is awaited in them and whoever calls them.
StatusOf(call) ==
    CASE call.stage = "idle" -> "INITIAL"
      [] call.stage = "done" -> "ENDED"
      [] OTHER -> "LOADING"
Statuses == INSTANCE StatusLock WITH
    Concurrent <- Methods \ Exclusive, status <- [m \in Methods |-> StatusOf(calls[m])]
ImplementsStatusLock == Statuses!StatusSpec
=============================================================================
