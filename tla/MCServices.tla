----------------------------- MODULE MCServices ------------------------------
(***************************************************************************)
(* The components that keep data for the others, and the contracts that    *)
(* the wallet's accounts and tokens are, each by itself: part is the one   *)
(* that a behaviour is about.                                              *)
(***************************************************************************)
EXTENDS ServiceParts, StakingPool, AmbireAccount, TLC, Integers, Sequences

CONSTANTS
    Stops, KeystoreKeys, KeyChanges, Updaters, LoadCall, Published, DappIds, Catalog, Tabs,
    DappChanges, Addresses, Names, Edits, Saves, Phrases, Passphrases, Null, Undefined, Adds,
    SeedTurns,
    urlA, urlB, addrA, addrB, k1, k2
VARIABLES
    part,
    store, step, unwritten, aborted, stops, cut,
    keystoreKeys, stored, writes, migration, read, ahead, failed, changes,
    published, detection, blacklist, lastUpdate, updateStatus, phishingCalls, overlapped,
    phishingRestarts,
    dapps, savedDapps, dappWrites, readDapps, sessions, agreed, keptDapps, early, dappChanges, dappRestarts,
    contacts, savedContacts, bookWrites, bookAccounts, bookSelected, bookLoad, asked, doubled, keptBook,
    spoiled, edits, bookRestarts,
    domains, loadingAddresses, lookups, resolved, saves,
    unlocked, tempSeed, seeds, savedSeeds, seedWrites, seedCalls, seedsAsked, wanted, seedOvertaken,
    seedAdds, seedTurns, seedRestarts

migVars == <<store, step, unwritten, aborted, stops, cut>>
keyStoreVars == <<keystoreKeys, stored, writes, migration, read, ahead, failed, changes>>
phishVars == <<published, detection, blacklist, lastUpdate, updateStatus, phishingCalls, overlapped,
               phishingRestarts>>
dapVars == <<dapps, savedDapps, dappWrites, readDapps, sessions, agreed, keptDapps, early, dappChanges, dappRestarts>>
bookVars == <<contacts, savedContacts, bookWrites, bookAccounts, bookSelected, bookLoad, asked, doubled, keptBook,
              spoiled, edits, bookRestarts>>
domVars == <<domains, loadingAddresses, lookups, resolved, saves>>
seedVars == <<unlocked, tempSeed, seeds, savedSeeds, seedWrites, seedCalls, seedsAsked, wanted,
              seedOvertaken, seedAdds, seedTurns, seedRestarts>>

\* What the constants stand for when the model is checked.
Stores(c, r, p, version) ==
    c :> [chain |-> c, rpc |-> r, off |-> FALSE, predefined |-> p, version |-> version, info |-> r]
ThreeStorages == {<<>>, Stores(1, urlA, TRUE, 0), Stores(1, urlA, TRUE, 1) @@ Stores(2, urlB, FALSE, 0)}
Answer(c, r, off) == c :> [rpc |-> r, version |-> 1, off |-> off]
TwoConfigs == {Answer(1, urlB, FALSE), Answer(1, urlA, FALSE) @@ Answer(2, urlA, TRUE)}
TwoBudgets == {[mode |-> "testnet", screens |-> 1, updates |-> 2, syncs |-> 0],
               [mode |-> "mainnet", screens |-> 0, updates |-> 1, syncs |-> 2]}
TwoStarts == {<<addrA>>, <<addrB, addrA>>}
TwoSelections == {[loads |-> 3, turns |-> 0], [loads |-> 2, turns |-> 1]}
Storage == INSTANCE Storage WITH
    Keys <- KeystoreKeys, Changes <- KeyChanges
Phish == INSTANCE Phishing WITH
    Calls <- Updaters, Load <- LoadCall, Versions <- Published,
    calls <- phishingCalls, restarts <- phishingRestarts
Dap == INSTANCE Dapps WITH
    Ids <- DappIds, Predefined <- Catalog, Accounts <- Wallets, Changes <- DappChanges,
    saved <- savedDapps, writes <- dappWrites, kept <- keptDapps, read <- readDapps, changes <- dappChanges,
    restarts <- dappRestarts
Book == INSTANCE AddressBook WITH
    saved <- savedContacts, writes <- bookWrites, kept <- keptBook, accounts <- bookAccounts, selected <- bookSelected,
    load <- bookLoad, restarts <- bookRestarts
Dom == INSTANCE Domains
Seed == INSTANCE KeystoreSeeds WITH
    Turns <- SeedTurns, saved <- savedSeeds, writes <- seedWrites, calls <- seedCalls, asked <- seedsAsked,
    overtaken <- seedOvertaken, adds <- seedAdds, turns <- seedTurns, restarts <- seedRestarts
\* The bounds are numbers, and None is nothing that a variable of a part can hold.
ASSUME ServicesAssumption ==
    /\ Edits \in Nat /\ Restarts \in Nat /\ DappChanges \in Nat /\ Saves \in Nat
    /\ Stops \in Nat /\ Adds \in Nat /\ SeedTurns \in Nat
    /\ Published \in Nat \ {0}
    /\ None \notin Names \cup [ens : Names \cup {None}, expired : BOOLEAN]
    /\ None \notin [connected : BOOLEAN, account : Wallets \cup {None}]
    /\ None \notin [DappIds -> Dap!Dapp] \cup Seed!Given
    /\ None \notin [lists : [Phish!Lists -> 1..Published], age : {"recent", "old"}]
    /\ None \notin {"ids", "chains", "bare", "labelled", "unlabelled", "new", "there", "strings", "legacy",
                    "broken", "recent", "old"}
OneVesting == {[end |-> 2, rate |-> 1]}
OneRoot == {[u \in Users |-> 1]}
Alone == [mode |-> "OnlyDKIM", key |-> "own", addr |-> k2, priv |-> "on"]
Together == [mode |-> "Both", key |-> "added", addr |-> Rec, priv |-> "other"]
TwoRecoveries == {Alone, Together}
ThreeSettings == {<<k1, "none">>, <<Entry, "entry">>, <<Rec, "none">>}

\* The variables of the parts that a behaviour is not about are None, those of the
\* contracts as they are at first.
NetIdle == /\ loaded = None /\ networks = None /\ pending = None /\ infos = None /\ providers = None
           /\ adding = None /\ updating = None /\ held = None /\ torn = None /\ left = None
AccIdle == /\ accounts = None /\ states = None /\ loading = None /\ missed = None /\ enabled = None
           /\ selected = None /\ selecting = None /\ removing = None /\ added = None
           /\ overtaken = None /\ moves = None
PfIdle == /\ there = None /\ object = None /\ latest = None /\ pendingState = None /\ queue = None
          /\ tank = None /\ tankOf = None /\ unusual = None /\ last = None /\ light = None
          /\ asks = None /\ upsets = None
SelIdle == /\ account = None /\ latestOf = None /\ pendingOf = None /\ defiOf = None
           /\ byNetworks = None /\ portfolio = None /\ positions = None /\ fromScratch = None
           /\ started = None /\ debounced = None /\ head = None /\ loads = None /\ turns = None
DefiIdle == /\ known = None /\ selectedOwner = None /\ remembered = None /\ storedNetworks = None
            /\ leftOut = None /\ updates = None /\ crossedRemoval = None /\ defiStarted = None /\ removals = None
            /\ defiRestarts = None
MigIdle == /\ store = None /\ step = None /\ unwritten = None /\ aborted = None /\ stops = None
           /\ cut = None
KeyStoreIdle == /\ keystoreKeys = None /\ stored = None /\ writes = None /\ migration = None
                /\ read = None /\ ahead = None /\ failed = None /\ changes = None
PickIdle == /\ source = None /\ path = None /\ page = None /\ derived = None
            /\ accountsLoading = None /\ linkedLoading = None /\ pageError = None
            /\ pageCalls = None /\ picked = None /\ ready = None /\ addCall = None /\ onReady = None
            /\ keystoreReady = None /\ keystoreLocked = None /\ leaving = None
            /\ addedAccounts = None /\ addedKeys = None /\ refused = None /\ crossed = None /\ pickerTurns = None
PhishIdle == /\ published = None /\ detection = None /\ blacklist = None /\ lastUpdate = None
             /\ updateStatus = None /\ phishingCalls = None /\ overlapped = None
             /\ phishingRestarts = None
DapIdle == /\ dapps = None /\ savedDapps = None /\ dappWrites = None /\ keptDapps = None /\ readDapps = None /\ sessions = None
           /\ agreed = None /\ early = None /\ dappChanges = None /\ dappRestarts = None
BookIdle == /\ contacts = None /\ savedContacts = None /\ bookWrites = None /\ keptBook = None /\ bookAccounts = None /\ bookSelected = None
            /\ bookLoad = None /\ asked = None /\ doubled = None /\ spoiled = None /\ edits = None
            /\ bookRestarts = None
DomIdle == /\ domains = None /\ loadingAddresses = None /\ lookups = None /\ resolved = None
           /\ saves = None
HintIdle == /\ owned = None /\ toBeLearned = None /\ learned = None /\ custom = None
            /\ hidden = None /\ savedHints = None /\ toggles = None /\ queued = None
            /\ hintsUpdate = None /\ hintsShown = None /\ knownTokens = None /\ clock = None
            /\ hintChanges = None /\ hintRestarts = None
SeedIdle == /\ unlocked = None /\ tempSeed = None /\ seeds = None /\ savedSeeds = None
            /\ seedWrites = None /\ seedCalls = None /\ seedsAsked = None /\ wanted = None
            /\ seedOvertaken = None /\ seedAdds = None /\ seedTurns = None /\ seedRestarts = None
OthersIdle ==
    /\ IF part = "networks" THEN TRUE ELSE NetIdle
    /\ IF part = "accounts" THEN TRUE ELSE AccIdle
    /\ IF part = "portfolio" THEN TRUE ELSE PfIdle
    /\ IF part = "selected" THEN TRUE ELSE SelIdle
    /\ IF part = "defi" THEN TRUE ELSE DefiIdle
    /\ IF part = "migrations" THEN TRUE ELSE MigIdle
    /\ IF part = "keys" THEN TRUE ELSE KeyStoreIdle
    /\ IF part = "picker" THEN TRUE ELSE PickIdle
    /\ IF part = "phishing" THEN TRUE ELSE PhishIdle
    /\ IF part = "dapps" THEN TRUE ELSE DapIdle
    /\ IF part = "book" THEN TRUE ELSE BookIdle
    /\ IF part = "domains" THEN TRUE ELSE DomIdle
    /\ IF part = "hints" THEN TRUE ELSE HintIdle
    /\ IF part = "seeds" THEN TRUE ELSE SeedIdle
    /\ StakingInit
    /\ AccountInit
OthersUnchanged ==
    /\ UNCHANGED part
    /\ IF part = "networks" THEN TRUE ELSE UNCHANGED netVars
    /\ IF part = "accounts" THEN TRUE ELSE UNCHANGED accVars
    /\ IF part = "portfolio" THEN TRUE ELSE UNCHANGED pfVars
    /\ IF part = "selected" THEN TRUE ELSE UNCHANGED selVars
    /\ IF part = "defi" THEN TRUE ELSE UNCHANGED defiVars
    /\ IF part = "migrations" THEN TRUE ELSE UNCHANGED migVars
    /\ IF part = "keys" THEN TRUE ELSE UNCHANGED keyStoreVars
    /\ IF part = "picker" THEN TRUE ELSE UNCHANGED pickVars
    /\ IF part = "phishing" THEN TRUE ELSE UNCHANGED phishVars
    /\ IF part = "dapps" THEN TRUE ELSE UNCHANGED dapVars
    /\ IF part = "book" THEN TRUE ELSE UNCHANGED bookVars
    /\ IF part = "domains" THEN TRUE ELSE UNCHANGED domVars
    /\ IF part = "hints" THEN TRUE ELSE UNCHANGED hintVars
    /\ IF part = "seeds" THEN TRUE ELSE UNCHANGED seedVars
    /\ IF part = "staking" THEN TRUE ELSE UNCHANGED stakingVars
    /\ IF part = "account" THEN TRUE ELSE UNCHANGED accountVars
Init ==
    \/ part = "networks" /\ Net!Init /\ OthersIdle
    \/ part = "accounts" /\ Acc!Init /\ OthersIdle
    \/ part = "portfolio" /\ Pf!Init /\ OthersIdle
    \/ part = "selected" /\ Sel!Init /\ OthersIdle
    \/ part = "defi" /\ Defi!Init /\ OthersIdle
    \/ part = "migrations" /\ Storage!MigrationsInit /\ OthersIdle
    \/ part = "keys" /\ Storage!QueueInit /\ OthersIdle
    \/ part = "picker" /\ Pick!Init /\ OthersIdle
    \/ part = "phishing" /\ Phish!Init /\ OthersIdle
    \/ part = "dapps" /\ Dap!Init /\ OthersIdle
    \/ part = "book" /\ Book!Init /\ OthersIdle
    \/ part = "domains" /\ Dom!Init /\ OthersIdle
    \/ part = "hints" /\ Hint!Init /\ OthersIdle
    \/ part = "seeds" /\ Seed!Init /\ OthersIdle
    \/ part = "staking" /\ StakingInit /\ OthersIdle
    \/ part = "account" /\ AccountInit /\ OthersIdle
Next ==
    \/ part = "networks" /\ Net!Next /\ OthersUnchanged
    \/ part = "accounts" /\ Acc!Next /\ OthersUnchanged
    \/ part = "portfolio" /\ Pf!Next /\ OthersUnchanged
    \/ part = "selected" /\ Sel!Next /\ OthersUnchanged
    \/ part = "defi" /\ Defi!Next /\ OthersUnchanged
    \/ part = "migrations" /\ Storage!MigrationsNext /\ OthersUnchanged
    \/ part = "keys" /\ Storage!QueueNext /\ OthersUnchanged
    \/ part = "picker" /\ Pick!Next /\ OthersUnchanged
    \/ part = "phishing" /\ Phish!Next /\ OthersUnchanged
    \/ part = "dapps" /\ Dap!Next /\ OthersUnchanged
    \/ part = "book" /\ Book!Next /\ OthersUnchanged
    \/ part = "domains" /\ Dom!Next /\ OthersUnchanged
    \/ part = "hints" /\ Hint!Next /\ OthersUnchanged
    \/ part = "seeds" /\ Seed!Next /\ OthersUnchanged
    \/ part = "staking" /\ StakingNext /\ OthersUnchanged
    \/ part = "account" /\ AccountNext /\ OthersUnchanged
vars == <<part, netVars, accVars, pfVars, selVars, defiVars, migVars, keyStoreVars, pickVars, phishVars,
           dapVars, bookVars, domVars, hintVars, seedVars, stakingVars, accountVars>>
Spec == Init /\ [][Next]_vars

\* The types of every part, and its properties, which its module explains.
ServicesTypeOK ==
    /\ part = "networks" => Net!TypeOK
    /\ part = "accounts" => Acc!TypeOK
    /\ part = "portfolio" => Pf!TypeOK
    /\ part = "selected" => Sel!TypeOK
    /\ part = "defi" => Defi!TypeOK
    /\ part = "migrations" => Storage!MigrationsTypeOK
    /\ part = "keys" => Storage!QueueTypeOK
    /\ part = "picker" => Pick!TypeOK
    /\ part = "phishing" => Phish!TypeOK
    /\ part = "dapps" => Dap!TypeOK
    /\ part = "book" => Book!TypeOK
    /\ part = "domains" => Dom!TypeOK
    /\ part = "hints" => Hint!TypeOK
    /\ part = "seeds" => Seed!TypeOK
    /\ StakingTypeOK
    /\ AccountTypeOK

\* Once nothing loads, every enabled network has a provider that asks its present url, the
\* selected account is one of the accounts and has its state, and an account that the picker added
\* has its keys unless the keystore was locked when they came (networks.ts, providers.ts,
\* accounts.ts, accountPicker.ts).
QuietSelectionServes ==
    /\ part = "networks" => Net!QuietProvidersServe
    /\ part = "accounts" => Acc!QuietSelectedIsAdded
    /\ part = "accounts" => Acc!QuietSelectedHasState
    /\ part = "picker" => Pick!AddedHaveTheirKeys
    /\ part = "picker" => Pick!QuietPageIsShown

\* Once nothing loads, no network is shown as loading for ever, a simulation and the positions that
\* were asked for were fetched, what is shown is what was fetched last, and the tokens that were
\* learned, added or hidden are asked for, marked and stored (portfolio.ts,
\* libs/portfolio/helpers.ts, defiPositions.ts, selectedAccount.ts).
QuietPortfolioIsCurrent ==
    /\ part = "portfolio" => Pf!QuietPendingIsAsked
    /\ part = "portfolio" => Pf!QuietNothingLoads
    /\ part = "defi" => Defi!QuietPositionsAreLoaded
    /\ part = "selected" => Sel!QuietShownIsCurrent
    /\ part = "hints" => Hint!QuietHintsAreUsed

\* Every stored item is of the present version once the migrations that it goes through are over,
\* unless one of them was cut short itself; once no write is queued the keystore's keys are what is
\* stored; and restarts and failed requests lose no seed, contact, connection of a dapp, blacklist or
\* resolved name but what was still to be written (storage.ts, keystore.ts, addressBook.ts, dapps.ts,
\* phishing.ts, domains.ts).
StoreIsTrue ==
    /\ part = "keys" => Storage!QuietKeysAreStored
    /\ part = "migrations" => Storage!ReachedMeansMigrated
    /\ part = "dapps" => Dap!ConnectionsAreKept
    /\ part = "book" => Book!BookIsKept
    /\ part = "phishing" => Phish!QuietBlacklistIsKept
    /\ part = "domains" => Dom!LookupsAreShown
    /\ part = "seeds" => Seed!SeedsAreKept
=============================================================================
