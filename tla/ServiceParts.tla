---------------------------- MODULE ServiceParts -----------------------------
(***************************************************************************)
(* The components that say which networks, accounts, tokens and positions  *)
(* there are, side by side: their variables, and what is assumed of their  *)
(* constants.  Which of them a behaviour is about is left to MCServices.   *)
(***************************************************************************)
EXTENDS Integers, Sequences, FiniteSets

CONSTANTS
    NetChains, Defaults, Urls, Home, NetStorages, Configs, Syncs, Budgets, Current, Wallets, Keyed,
    Smart, AccountStarts, Enabled, NetIds, Moves, Chains, Lights, Batches, Asks, Upsets, ShownNets,
    SimulatedOps, SelectStarts, SelectBudgets, DefiNets, Updates, Removals, Restarts, PickSources,
    Paths, LastPage, PickerTurns, HintTokens, HintStarts, Limit, HintChanges, None
VARIABLES
    loaded, networks, pending, infos, providers, adding, updating, held, torn, left,
    accounts, states, loading, missed, enabled, selected, selecting, removing, added, overtaken,
    moves,
    there, object, latest, pendingState, queue, tank, tankOf, unusual, last, light, asks, upsets,
    account, latestOf, pendingOf, defiOf, byNetworks, portfolio, positions, fromScratch, started,
    debounced, head, loads, turns,
    known, selectedOwner, remembered, storedNetworks, leftOut, updates, crossedRemoval, defiStarted,
    removals, defiRestarts,
    source, path, page, derived, accountsLoading, linkedLoading, pageError, pageCalls, picked,
    ready, addCall, onReady, keystoreReady, keystoreLocked, leaving, addedAccounts, addedKeys, refused,
    crossed, pickerTurns,
    owned, toBeLearned, learned, custom, hidden, savedHints, toggles, queued, hintsUpdate,
    hintsShown, knownTokens, clock, hintChanges, hintRestarts

netVars == <<loaded, networks, pending, infos, providers, adding, updating, held, torn, left>>
accVars == <<accounts, states, loading, missed, enabled, selected, selecting, removing, added,
             overtaken, moves>>
pfVars == <<there, object, latest, pendingState, queue, tank, tankOf, unusual, last, light, asks, upsets>>
selVars == <<account, latestOf, pendingOf, defiOf, byNetworks, portfolio, positions, fromScratch,
             started, debounced, head, loads, turns>>
defiVars == <<known, selectedOwner, remembered, storedNetworks, leftOut, updates, crossedRemoval,
              defiStarted, removals, defiRestarts>>
pickVars == <<source, path, page, derived, accountsLoading, linkedLoading, pageError, pageCalls,
              picked, ready, addCall, onReady, keystoreReady, keystoreLocked, leaving,
              addedAccounts, addedKeys, refused, crossed, pickerTurns>>
hintVars == <<owned, toBeLearned, learned, custom, hidden, savedHints, toggles, queued, hintsUpdate,
              hintsShown, knownTokens, clock, hintChanges, hintRestarts>>

Net == INSTANCE Networks WITH
    Chains <- NetChains, Stored <- NetStorages
Acc == INSTANCE Accounts WITH
    Addrs <- Wallets, Starts <- AccountStarts
Pf == INSTANCE Portfolio
Sel == INSTANCE SelectedAccount WITH
    Chains <- ShownNets, Addrs <- Wallets, Starts <- SelectStarts, Budgets <- SelectBudgets
Defi == INSTANCE DefiPositions WITH
    Nets <- DefiNets, Owners <- Wallets,
    stored <- storedNetworks, crossed <- crossedRemoval, started <- defiStarted, restarts <- defiRestarts
Pick == INSTANCE AccountPicker WITH
    Sources <- PickSources
Hint == INSTANCE TokenHints WITH
    Tokens <- HintTokens, Starts <- HintStarts, Changes <- HintChanges,
    saved <- savedHints, update <- hintsUpdate, shown <- hintsShown, known <- knownTokens, changes <- hintChanges, restarts <- hintRestarts

\* Networks that are kept under their ids.
UnderIds(nets) == \A k \in DOMAIN nets : nets[k].chain = k
\* A chain's id is a number, those of the defaults and of the home page are known, and a stored network
\* is stored under its id.
ASSUME NetAssumed ==
    /\ NetChains \subseteq Nat /\ IsFiniteSet(NetChains) /\ Defaults \subseteq NetChains /\ Home \in Urls
    /\ "load" \notin Syncs
    /\ NetStorages \subseteq Net!Maps /\ \A m \in NetStorages : UnderIds(m)
    /\ \A config \in Configs : /\ DOMAIN config \subseteq NetChains
                               /\ config \in [DOMAIN config -> [rpc : Urls, version : 0..1, off : BOOLEAN]]
    /\ None \notin Urls \cup Net!Maps \cup {Current} /\ Current \notin Net!Maps
    /\ None \notin [chains : SUBSET NetChains, moved : SUBSET NetChains]
\* Finitely many accounts can be added; those that are stored are there once.
ASSUME AccAssumed ==
    /\ Moves \in Nat /\ IsFiniteSet(Wallets) /\ Enabled \subseteq NetIds
    /\ \A s \in AccountStarts : s \in Seq(Wallets) /\ Acc!IsInjective(s)
    /\ None \notin Wallets \cup [to : Wallets, at : {"closing", "storing"}]
    /\ None \notin [new : SUBSET Wallets, first : Wallets]
\* Pages are counted from one, and None is no result of a step.
ASSUME PickAssumed ==
    /\ LastPage \in Nat \ {0}
    /\ None \notin PickSources \cup Paths \cup {"relayer", "accounts", "keys", "stuck"}
\* None is not a state of a network, nor a simulation that was asked for.
ASSUME PfAssumed ==
    /\ Upsets \in Nat
    /\ None \notin Pf!States \cup [ops : Pf!Ops, sim : Pf!Ops, sure : BOOLEAN]
\* None is no entry of a network, and no state of its positions.
ASSUME SelAssumed ==
    /\ SelectStarts \subseteq Wallets \cup {None}
    /\ None \notin [of : Wallets, block : Nat, at : Nat, op : SimulatedOps \cup {None}, tokens : Nat]
    /\ None \notin [loading : BOOLEAN, at : Nat]
\* None is not a state of an account's positions, nor what is read of its networks.
ASSUME DefiAssumed ==
    /\ None \notin Defi!Positions \cup [DefiNets -> Defi!Positions \cup {None}]
    /\ \A nets \in SUBSET DefiNets : nets # None
    /\ None \notin [old : (SUBSET DefiNets) \cup {None},
                    state : [DefiNets -> Defi!Positions \cup {None}] \cup {None, Current}]
\* Finitely many tokens are owned, and None is no time and no mark.
ASSUME HintAssumed ==
    /\ IsFiniteSet(HintTokens) /\ HintStarts \subseteq SUBSET HintTokens
    /\ Limit \in Nat /\ HintChanges \in Nat /\ Restarts \in Nat
    /\ None \notin Nat \cup {"hidden", "hidden-custom", "custom", "learn"}
=============================================================================
