------------------------------- MODULE Storage -------------------------------
(***************************************************************************)
(* StorageController, in two parts that are looked at apart.               *)
(*                                                                         *)
(* #loadMigrations: at every start the migrations run one after the other  *)
(* over what is stored, in whatever version it was stored.  Each reads     *)
(* what it needs, and writes its name into passedMigrations and the        *)
(* migrated items all at once; the extension may be stopped before all of  *)
(* them are written.                                                       *)
(*                                                                         *)
(* The write queue, seen by KeystoreController, which keeps its keys in    *)
(* memory and stores them whole at every change, and by the migration that *)
(* associates the keys with the legacy saved seed after an unlock.  That   *)
(* migration reads and writes the keys past the queue.                     *)
(***************************************************************************)
EXTENDS Integers, Sequences

CONSTANTS
    Stops,    \* bound: times the extension is stopped while migrations run, or after them
    Keys,
    Changes,  \* bound: keys added or removed, writes that fail
    None

-----------------------------------------------------------------------------
(* The migrations *)

VARIABLES
    store,      \* what is stored: the format of each item, None if there is none, and passed
    step,       \* the migration that runs, Len(Order) + 1 when all have run
    unwritten,  \* the writes that it has begun: functions from items to values
    aborted,    \* it threw, which ends the migrations of this start
    stops,
    cut         \* (history) the migrations that threw, or were stopped before all their writes were done
migrationVars == <<store, step, unwritten, aborted, stops, cut>>

\* The items, by the format of the network keys that they use: previousHints, accountsOps,
\* signedMessages and the networks with assets and positions migrate alike, as history.
Items == {"networks", "networkPreferences", "accounts", "accountPreferences", "keystoreSeeds",
          "keystoreKeys", "keyPreferences", "tokenPreferences", "customTokens", "cashbackStatus",
          "history", "obsolete"}

\* -- What each migration writes, given what it has read -------------------

Nothing == [i \in {} |-> None]
Named(m, s, new) ==
    [i \in {"passed"} \cup DOMAIN new |-> IF i = "passed" THEN s.passed \cup {m} ELSE new[i]]
Networks(m, s) == Named(m, s,
    IF s.networks = None /\ s.networkPreferences # None
    THEN [networks |-> "ids", networkPreferences |-> None] ELSE Nothing)
\* accountPreferences are looked up in the storage object itself, which has no such property:
\* with an account to migrate, this throws when the name has been written.
ThrowsOn(m, s) == m = "accountPreferences" /\ s.accountPreferences # None /\ s.accounts # None
Accounts(m, s) == Named(m, s,
    IF s.accountPreferences # None /\ s.accounts = None THEN [accountPreferences |-> None] ELSE Nothing)
Seeds(m, s) == Named(m, s, IF s.keystoreSeeds = "strings" THEN [keystoreSeeds |-> "new"] ELSE Nothing)
\* keys get their labels and then their createdAt
Labels(m, s) == Named(m, s,
    IF s.keyPreferences # None
    THEN [keyPreferences |-> None,
          keystoreKeys |-> IF s.keystoreKeys = "bare" THEN "labelled" ELSE s.keystoreKeys]
    ELSE Nothing)
Dates(m, s) == Named(m, s,
    [keystoreKeys |-> CASE s.keystoreKeys = "labelled" -> "new" [] s.keystoreKeys = "bare" -> "unlabelled"
                        [] OTHER -> s.keystoreKeys])
Tokens(m, s) == Named(m, s,
    IF s.tokenPreferences = "legacy" THEN [tokenPreferences |-> "ids", customTokens |-> "ids"] ELSE Nothing)
Cashback(m, s) == Named(m, s, [cashbackStatus |-> IF s.cashbackStatus = None THEN None ELSE "new"])
\* The ids of the networks are looked up among the stored ones; once these have none, every key
\* of the other items becomes undefined.
Rekeyed(s, item) ==
    CASE s[item] = None -> None
      [] s[item] = "ids" /\ s.networks = "ids" -> "chains"
      [] OTHER -> "broken"
ChainIds(m, s) == Named(m, s,
    IF s.networks = None THEN Nothing
    ELSE [i \in {"networks", "history", "tokenPreferences", "customTokens"} |->
             IF i = "networks" THEN "chains" ELSE Rekeyed(s, i)])

Order == <<"networkPreferences", "accountPreferences", "hdPath", "keyPreferences", "createdAt",
           "humanizer", "tokenPreferences", "cashback", "networkIds">>
Writes(m, s) ==
    CASE m = "networkPreferences" -> Networks(m, s)
      [] m = "accountPreferences" -> Accounts(m, s)
      [] m = "hdPath" -> Seeds(m, s)
      [] m = "keyPreferences" -> Labels(m, s)
      [] m = "createdAt" -> Dates(m, s)
      [] m = "humanizer" -> [obsolete |-> None]
      [] m = "tokenPreferences" -> Tokens(m, s)
      [] m = "cashback" -> Cashback(m, s)
      [] m = "networkIds" -> ChainIds(m, s)

\* -- The steps -----------------------------------------------------------

Running == step <= Len(Order) /\ ~aborted
\* The items are read, and all writes begin.
Migrate ==
    /\ Running /\ DOMAIN unwritten = {}
    /\ LET m == Order[step]
           done == m \in store.passed
       IN /\ unwritten' = IF done THEN Nothing ELSE Writes(m, store)
          /\ aborted' = (~done /\ ThrowsOn(m, store))
          /\ step' = IF done THEN step + 1 ELSE step
          /\ cut' = IF aborted' THEN cut \cup {m} ELSE cut
    /\ UNCHANGED <<store, stops>>
Written(i) ==
    /\ store' = [store EXCEPT ![i] = unwritten[i]]
    /\ unwritten' = [j \in DOMAIN unwritten \ {i} |-> unwritten[j]]
    /\ step' = IF DOMAIN unwritten = {i} /\ ~aborted THEN step + 1 ELSE step
    /\ UNCHANGED <<aborted, stops, cut>>
\* The extension is stopped and starts again; a single write is done or not.
Restart ==
    /\ stops > 0 /\ stops' = stops - 1
    /\ step' = 1 /\ unwritten' = Nothing /\ aborted' = FALSE
    /\ cut' = IF DOMAIN unwritten \subseteq {"obsolete"} THEN cut ELSE cut \cup {Order[step]}
    /\ UNCHANGED store

\* What the versions of the extension have stored: the first migrations have passed, and every
\* item is in the format that they leave.
Oldest == [passed |-> {}, networks |-> None, networkPreferences |-> "ids", accounts |-> "bare",
           accountPreferences |-> "there", keystoreSeeds |-> "strings", keystoreKeys |-> "bare",
           keyPreferences |-> "there", tokenPreferences |-> "legacy", customTokens |-> None,
           cashbackStatus |-> None, history |-> "ids", obsolete |-> "there"]
V425 == [Oldest EXCEPT !.passed = {"networkPreferences", "accountPreferences"}, !.networks = "ids",
         !.networkPreferences = None, !.accounts = "new", !.accountPreferences = None]
V450 == [V425 EXCEPT !.passed = V425.passed \cup {"hdPath", "keyPreferences", "createdAt"}, !.keystoreSeeds = "new",
         !.keystoreKeys = "new", !.keyPreferences = None, !.cashbackStatus = "legacy", !.obsolete = None]
V453 == [V450 EXCEPT !.passed = V450.passed \cup {"tokenPreferences", "cashback"}, !.tokenPreferences = "ids",
         !.customTokens = "ids", !.cashbackStatus = "new"]
Fresh == [i \in Items \cup {"passed"} |-> IF i = "passed" THEN {} ELSE None]
Versions == {Oldest, V425, V450, V453, Fresh}

MigrationsInit ==
    /\ store \in Versions
    /\ step = 1 /\ unwritten = Nothing /\ aborted = FALSE /\ stops = Stops /\ cut = {}
MigrationsNext == Migrate \/ (\E i \in DOMAIN unwritten : Written(i)) \/ Restart
MigrationsSpec == MigrationsInit /\ [][MigrationsNext]_migrationVars

Formats == {None, "ids", "chains", "bare", "labelled", "unlabelled", "new", "there", "strings", "legacy",
            "broken"}
\* Type correctness.
MigrationsTypeOK ==
    /\ store.passed \subseteq {Order[i] : i \in DOMAIN Order}
    /\ \A i \in Items : store[i] \in Formats
    /\ DOMAIN unwritten \subseteq Items \cup {"passed"}
    /\ step \in 1 .. Len(Order) + 1

\* The migrations that an item goes through, and the formats that the last of them leaves.
Through(i) ==
    CASE i \in {"networks", "history"} -> {"networkPreferences", "networkIds"}
      [] i \in {"tokenPreferences", "customTokens"} -> {"networkPreferences", "tokenPreferences", "networkIds"}
      [] i \in {"accounts", "accountPreferences"} -> {"accountPreferences"}
      [] i = "keystoreKeys" -> {"keyPreferences", "createdAt"}
      [] i = "keystoreSeeds" -> {"hdPath"}
      [] i = "cashbackStatus" -> {"cashback"}
      [] i = "obsolete" -> {"humanizer"}
      [] OTHER -> {i}
Present(i) ==
    CASE i \in {"networks", "history", "tokenPreferences", "customTokens"} -> {None, "chains"}
      [] i \in {"accounts", "keystoreKeys", "keystoreSeeds", "cashbackStatus"} -> {None, "new"}
      [] OTHER -> {None}
Past == {Order[k] : k \in 1 .. step - 1}

\* Whichever version the storage is of, and in however many starts, the order of the migrations
\* ("should be ordered by versions", storage.ts:49) leaves no item in an old format and none
\* migrated twice, once the migrations that the item goes through are over.  A migration that is
\* stopped between its writes spoils no item but those that go through it, and neither does that of
\* the accounts, which throws on any that have preferences (storage.ts:122).  The start in which it
\* throws lets the items be read that the migrations after it have not reached (storage.ts:61-63,
\* 472); the next start goes on from there.
ReachedMeansMigrated == \A i \in Items : Through(i) \subseteq Past \ cut => store[i] \in Present(i)

-----------------------------------------------------------------------------
(* The write queue *)

VARIABLES
    keystoreKeys,  \* KeystoreController.#keystoreKeys
    stored,        \* the stored keys
    writes,        \* #storageUpdateQueue
    migration,     \* where the migration is
    read,          \* the keys that it, or the reload after it, has read
    ahead,         \* the writes that the reload waits for
    failed,        \* a write has failed
    changes
keyVars == <<keystoreKeys, stored, writes, migration, read, ahead, failed, changes>>

\* StorageController.set
Set(value) == writes' = Append(writes, value)
\* addKeys and removeKey: memory first
Change(keys) ==
    /\ changes > 0 /\ changes' = changes - 1
    /\ keystoreKeys' = keys /\ Set(keys)
    /\ UNCHANGED <<stored, migration, read, ahead, failed>>
AddKey(k) == k \notin keystoreKeys /\ Change(keystoreKeys \cup {k})
RemoveKey(k) == k \in keystoreKeys /\ Change(keystoreKeys \ {k})

\* The queue goes on when a write fails.
Dequeue == writes # <<>> /\ writes' = Tail(writes) /\ ahead' = IF ahead > 0 THEN ahead - 1 ELSE 0
Write ==
    /\ Dequeue /\ stored' = Head(writes)
    /\ UNCHANGED <<keystoreKeys, migration, read, failed, changes>>
WriteFails ==
    /\ changes > 0 /\ changes' = changes - 1
    /\ Dequeue /\ failed' = TRUE
    /\ UNCHANGED <<keystoreKeys, stored, migration, read>>

\* #associateAccountKeysWithLegacySavedSeedMigration: derives up to ten pages of accounts between
\* reading the keys and writing them, then onSuccess reloads them into the keystore, by a get
\* that waits for the queue.
MigrationReads ==
    /\ migration = "no" /\ migration' = "derives" /\ read' = stored
    /\ UNCHANGED <<keystoreKeys, stored, writes, ahead, failed, changes>>
MigrationWrites ==
    /\ migration = "derives" /\ migration' = "waits" /\ stored' = read /\ ahead' = Len(writes)
    /\ UNCHANGED <<keystoreKeys, writes, read, failed, changes>>
ReloadReads ==
    /\ migration = "waits" /\ ahead = 0 /\ migration' = "reloads" /\ read' = stored
    /\ UNCHANGED <<keystoreKeys, stored, writes, ahead, failed, changes>>
UpdateKeystoreKeys ==
    /\ migration = "reloads" /\ migration' = "done" /\ keystoreKeys' = read
    /\ UNCHANGED <<stored, writes, read, ahead, failed, changes>>

QueueInit ==
    /\ keystoreKeys \in SUBSET Keys /\ stored = keystoreKeys
    /\ writes = <<>> /\ migration = "no" /\ read = {} /\ ahead = 0
    /\ failed = FALSE /\ changes = Changes
QueueNext ==
    \/ \E k \in Keys : AddKey(k) \/ RemoveKey(k)
    \/ Write \/ WriteFails
    \/ MigrationReads \/ MigrationWrites \/ ReloadReads \/ UpdateKeystoreKeys
QueueSpec == QueueInit /\ [][QueueNext]_keyVars

\* Type correctness.
QueueTypeOK ==
    /\ stored \subseteq Keys /\ keystoreKeys \subseteq Keys
    /\ migration \in {"no", "derives", "waits", "reloads", "done"}

\* When the queue is empty and no write has failed, what is stored is what the keystore has in
\* memory, however many changes overlapped; until the migration reads the keys.
QuietKeysAreStored == writes = <<>> /\ ~failed /\ migration = "no" => stored = keystoreKeys
=============================================================================
