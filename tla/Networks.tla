------------------------------ MODULE Networks ------------------------------
(***************************************************************************)
(* NetworksController with ProvidersController: the list of networks and   *)
(* the one RPC provider per chain that its callbacks keep.  A network is   *)
(* what the code tells apart here: the chain id its record holds (the key  *)
(* it is kept under may differ), the RPC url that is selected, whether it  *)
(* is disabled, predefined, its predefinedConfigVersion, and the url its   *)
(* probed properties (networkInfo) come from.  MainController runs the     *)
(* controller in mode "testnet"; "mainnet" adds the relayer's merge.       *)
(***************************************************************************)
EXTENDS Integers, FiniteSets

CONSTANTS
    Chains,     \* chain ids, numbers: they order the keys of #networks
    Defaults,   \* those of the predefined networks of the mode
    Urls,       \* RPC urls
    Home,       \* the url of the predefined networks
    Stored,     \* the networks a storage may hold: functions on subsets of Chains
    Configs,    \* answers of the relayer: functions from chains to [rpc, version, off]
    Syncs,      \* names of calls of synchronizeNetworks
    Budgets,    \* bounds: the mode, and the screens, updates and synchronisations of a behaviour
    Current,    \* stands for the object that #networks is now
    None

VARIABLES
    loaded,    \* progress of #load: "storage", "relayer", "providers", "done"
    networks,  \* #networks
    pending,   \* networkToAddOrUpdate
    infos,     \* calls of getNetworkInfo in flight
    providers, \* ProvidersController.providers: the url each was made for
    adding,    \* addNetwork waits for the storage
    updating,  \* updateNetwork(s) waits for the storage, for whose urls moved
    held,      \* the networks #load (finalNetworks) and synchronizeNetworks go on from
    torn,      \* a synchronisation put back networks that were replaced meanwhile, or the
               \* probed chain id of one network was written into another
    left       \* defaultNetworksMode, and what the bounds leave
vars == <<loaded, networks, pending, infos, providers, adding, updating, held, torn, left>>
syncs == <<held, torn>>
calls == <<adding, updating>>

Nets == [chain : Chains, rpc : Urls \cup {None}, off : BOOLEAN, predefined : BOOLEAN,
         version : 0..1, info : Urls \cup {None}]
Maps == UNION {[S -> Nets] : S \in SUBSET Chains}
Empty == [c \in {} |-> None]
Predefined == [c \in Defaults |-> [chain |-> c, rpc |-> Home, off |-> FALSE, predefined |-> TRUE,
                                   version |-> 1, info |-> Home]]

\* allNetworks: unique by the chain id of the record, predefined first, then in order of the keys
KeysOf(nets, c) == {k \in DOMAIN nets : nets[k].chain = c}
Shown(nets, c) == CHOOSE k \in KeysOf(nets, c) : \A j \in KeysOf(nets, c) \ {k} :
                      \/ nets[k].predefined /\ ~nets[j].predefined
                      \/ nets[k].predefined = nets[j].predefined /\ k < j
AllNetworks(nets) == {nets[Shown(nets, c)] : c \in {nets[k].chain : k \in DOMAIN nets}}

\* #networks keeps every network under its own chain id, so allNetworks, unique by chain id, shows
\* them all (networks.ts:358).
KeptUnderChain == \A k \in DOMAIN networks : networks[k].chain = k
\* setProvider of one network after the other; a network without an RPC url is skipped
WithProviders(nets) == [c \in Chains |->
    LET n == {m \in nets : m.chain = c /\ m.rpc # None}
    IN IF n = {} THEN providers[c] ELSE (CHOOSE m \in n : TRUE).rpc]
\* onAddOrUpdateNetworks of MainController
AddOrUpdate(nets) == WithProviders({n \in nets : ~n.off})

\* getNetworksUpdatedWithRelayerNetworks
Updated(nets, config) == {c \in DOMAIN config : c \notin DOMAIN nets \/ config[c].version > nets[c].version}
FromRelayer(c, r, off) == [chain |-> c, rpc |-> r.rpc, off |-> off, predefined |-> TRUE,
                           version |-> r.version, info |-> r.rpc]
Merged(nets, config) == [c \in DOMAIN nets \cup DOMAIN config |->
    CASE c \notin DOMAIN nets -> FromRelayer(c, config[c], config[c].off)
      [] c \in Updated(nets, config) /\ c \in DOMAIN nets -> FromRelayer(c, config[c], nets[c].off)
      [] c \in DOMAIN config /\ c \notin Updated(nets, config) -> [nets[c] EXCEPT !.predefined = TRUE]
      [] OTHER -> [nets[c] EXCEPT !.predefined = FALSE]]

Calls == Syncs \cup {"load"}
Held(s) == IF held[s] = Current THEN networks ELSE held[s]
\* A call assigns this.#networks: the ones that hold the old object keep it as it was.
Assign(s, nets) ==
    /\ held[s] # None
    /\ networks' = nets
    /\ held' = [t \in Calls |-> IF t = s THEN None ELSE IF held[t] = Current THEN networks ELSE held[t]]
Reassign(s) ==
    /\ held[s] # None
    /\ IF held[s] = Current THEN held' = [held EXCEPT ![s] = None] /\ UNCHANGED networks ELSE Assign(s, held[s])
\* #updateNetworkFeatures: networks that are not known to support smart accounts are probed
Unprobed(nets) == {[by |-> "features", key |-> k, chain |-> nets[k].chain, url |-> nets[k].rpc] :
                      k \in {j \in DOMAIN nets : nets[j].rpc # None /\ nets[j].info # nets[j].rpc}}

LoadFromStorage(m) ==
    /\ loaded = "storage" /\ loaded' = "relayer"
    /\ IF m # Empty THEN held' = [held EXCEPT !["load"] = m] /\ UNCHANGED networks
       ELSE /\ networks' = Predefined
            /\ held' = [t \in Calls |-> IF t = "load" THEN Current ELSE IF held[t] = Current THEN networks ELSE held[t]]
    /\ UNCHANGED <<pending, infos, providers, calls, torn, left>>

FinishLoad ==
    /\ loaded = "relayer" /\ loaded' = "providers"
    /\ infos' = Unprobed(networks')
    /\ UNCHANGED <<left, pending, providers, calls, torn>>
\* Without the relayer, or when its answer fails or takes over 5 seconds, the networks stay.
LoadUnmerged == Reassign("load") /\ FinishLoad
LoadMerged(config) == left.mode = "mainnet" /\ Assign("load", Merged(Held("load"), config)) /\ FinishLoad
\* #load of ProvidersController
LoadProviders ==
    /\ loaded = "providers" /\ loaded' = "done"
    /\ providers' = WithProviders(AllNetworks(networks))
    /\ UNCHANGED <<left, networks, pending, infos, calls, syncs>>

\* synchronizeNetworks does not wait for the initial load
StartSync(s) ==
    /\ left.mode = "mainnet" /\ held[s] = None /\ left.syncs > 0
    /\ held' = [held EXCEPT ![s] = Current]
    /\ left' = [left EXCEPT !.syncs = @ - 1]
    /\ UNCHANGED <<loaded, networks, pending, infos, providers, calls, torn>>
FinishSync(s, changed) ==
    /\ torn' = (torn \/ held[s] # Current)
    /\ providers' = AddOrUpdate({n \in AllNetworks(networks') : n.chain \in changed})
    /\ infos' = infos \cup Unprobed(networks')
    /\ UNCHANGED <<left, loaded, pending, calls>>
SyncMerged(s, config) ==
    Assign(s, Merged(Held(s), config)) /\ FinishSync(s, Updated(Held(s), config))
SyncFailed(s) == Reassign(s) /\ FinishSync(s, {})

\* setNetworkToAddOrUpdate
OpenScreen(c, u) ==
    /\ loaded = "done" /\ left.screens > 0
    /\ pending' = [chain |-> c, rpc |-> u, info |-> None]
    /\ infos' = infos \cup {[by |-> "screen", key |-> c, chain |-> c, url |-> u]}
    /\ left' = [left EXCEPT !.screens = @ - 1]
    /\ UNCHANGED <<loaded, networks, providers, calls, syncs>>
CloseScreen ==
    /\ pending # None /\ pending' = None
    /\ UNCHANGED <<left, loaded, networks, infos, providers, calls, syncs>>

\* What is spread for a key that an overlapping synchronisation dropped: nothing.
NetworkAt(k) == IF k \in DOMAIN networks THEN networks[k]
                ELSE [chain |-> k, rpc |-> None, off |-> FALSE, predefined |-> FALSE, version |-> 0, info |-> None]
\* Callbacks of getNetworkInfo.  The screen gets every one of them; only the last, when
\* nothing is LOADING any more, is written into a network.
InfoArrives(i) ==
    /\ infos' = infos \ {i}
    /\ IF i.by = "screen"
       THEN /\ pending' = IF pending = None THEN None ELSE [pending EXCEPT !.info = i]
            /\ UNCHANGED networks
       ELSE /\ networks' = [k \in DOMAIN networks \cup {i.key} |->
                  IF k # i.key THEN networks[k] ELSE [NetworkAt(k) EXCEPT !.chain = i.chain, !.info = i.url]]
            /\ UNCHANGED pending
    /\ torn' = (torn \/ ~KeptUnderChain')
    /\ UNCHANGED <<left, loaded, providers, calls, held>>
InfoProgress(i) ==
    /\ i.by = "screen" /\ pending # None /\ pending.info # None
    /\ pending' = [pending EXCEPT !.info = None]
    /\ UNCHANGED <<left, loaded, networks, infos, providers, calls, syncs>>
\* No answer in 30 seconds or, of a probe by #updateNetworkFeatures, an RPC that is flagged.
InfoFails(i) ==
    /\ infos' = infos \ {i}
    /\ pending' = IF i.by = "screen" /\ pending # None THEN [pending EXCEPT !.info = None] ELSE pending
    /\ UNCHANGED <<left, loaded, networks, providers, calls, syncs>>

\* withStatus: addNetwork and updateNetwork(s) do not run together
Free == loaded = "done" /\ ~adding /\ updating = None
Probed == pending # None /\ pending.info # None
\* #addNetwork, with the chain and url of the screen; the probed chain id is spread over it
AddNetwork ==
    /\ Free /\ Probed /\ \A n \in AllNetworks(networks) : n.chain # pending.chain
    /\ LET n == [chain |-> pending.info.chain, rpc |-> pending.rpc, off |-> FALSE, predefined |-> FALSE,
                 version |-> 0, info |-> pending.info.url]
       IN /\ networks' = [k \in DOMAIN networks \cup {pending.chain} |-> IF k = pending.chain THEN n ELSE networks[k]]
          /\ providers' = AddOrUpdate({n})
    /\ adding' = TRUE
    /\ torn' = (torn \/ ~KeptUnderChain')
    /\ UNCHANGED <<left, loaded, pending, infos, updating, held>>
AddedIsStored ==
    /\ adding /\ adding' = FALSE /\ pending' = None
    /\ UNCHANGED <<left, loaded, networks, infos, providers, updating, syncs>>

Screens == IF pending = None THEN {} ELSE {pending.chain}
\* #updateNetworks, and #updateNetwork for one chain: the new values are written and the callback
\* called before the storage is.  change is [rpc |-> url], [off |-> flag] or, for what is not
\* modelled (a checkpoint of a light client, areContractsDeployed), empty.  A url is edited on the
\* screen of its chain or on none.
UpdateNetworks(chains, change) ==
    /\ Free /\ left.updates > 0
    /\ \A c \in chains : KeysOf(networks, c) # {}
    /\ IF "rpc" \in DOMAIN change THEN Cardinality(chains) = 1 /\ Screens \subseteq chains ELSE TRUE
    /\ LET Data(c) == networks[Shown(networks, c)]
       IN /\ networks' = [k \in DOMAIN networks \cup chains |->
                 IF k \notin chains THEN networks[k]
                 ELSE [f \in DOMAIN Data(k) |-> IF f \in DOMAIN change THEN change[f] ELSE Data(k)[f]]]
          /\ updating' = [chains |-> chains,
                          moved |-> {c \in chains : "rpc" \in DOMAIN change /\ Data(c).rpc # change.rpc}]
    /\ providers' = IF Cardinality(chains) = 1 THEN AddOrUpdate({networks'[k] : k \in chains}) ELSE providers
    /\ left' = [left EXCEPT !.updates = @ - 1]
    /\ UNCHANGED <<loaded, pending, infos, adding, syncs>>
\* checkRPC: the properties of the open screen are taken over, else the new url is probed.
UpdatedIsStored ==
    /\ updating # None
    /\ networks' = IF ~Probed THEN networks
                   ELSE [k \in DOMAIN networks |-> IF k \notin updating.moved THEN networks[k]
                            ELSE [networks[k] EXCEPT !.chain = pending.info.chain, !.info = pending.info.url]]
    /\ infos' = IF Probed THEN infos
                ELSE infos \cup {[by |-> "update", key |-> k, chain |-> networks[k].chain, url |-> networks[k].rpc] :
                                    k \in updating.moved \cap DOMAIN networks}
    /\ providers' = IF Cardinality(updating.chains) = 1 THEN providers
                    ELSE AddOrUpdate({n \in AllNetworks(networks') : n.chain \in updating.chains})
    /\ updating' = None /\ pending' = None
    /\ torn' = (torn \/ ~KeptUnderChain')
    /\ UNCHANGED <<left, loaded, adding, held>>

Init ==
    /\ loaded = "storage"
    /\ networks = Empty /\ pending = None /\ infos = {}
    /\ providers = [c \in Chains |-> None]
    /\ adding = FALSE /\ updating = None
    /\ held = [s \in Calls |-> None] /\ torn = FALSE
    /\ left \in Budgets

Changes == [rpc : Urls] \cup [off : BOOLEAN] \cup {Empty}
Next ==
    \/ \E m \in Stored : LoadFromStorage(m)
    \/ LoadUnmerged \/ LoadProviders
    \/ \E config \in Configs : LoadMerged(config)
    \/ \E s \in Syncs : StartSync(s) \/ SyncFailed(s) \/ \E config \in Configs : SyncMerged(s, config)
    \/ \E c \in Chains, u \in Urls : OpenScreen(c, u)
    \/ CloseScreen
    \/ \E i \in infos : InfoArrives(i) \/ InfoProgress(i) \/ InfoFails(i)
    \/ AddNetwork \/ AddedIsStored
    \/ \E chains \in SUBSET Chains \ {{}}, change \in Changes : UpdateNetworks(chains, change)
    \/ UpdatedIsStored

Spec == Init /\ [][Next]_vars
-----------------------------------------------------------------------------
TypeOK ==
    /\ networks \in Maps
    /\ providers \in [Chains -> Urls \cup {None}]
    /\ pending = None \/ (pending.chain \in Chains /\ (pending.info = None \/ pending.info.chain \in Chains))
    /\ updating = None \/ updating.moved \subseteq updating.chains

\* Once the controllers are loaded and no update runs, the provider of a chain whose network is
\* enabled was made for the url this network selects: every call to the chain goes where the user
\* sent it (networks.ts:414, 489 and providers.ts:42-69).  What breaks it are two overlapping
\* synchronisations, and the probed chain id of one network written into another.
QuietProvidersServe ==
    loaded = "done" /\ updating = None /\ ~torn =>
        \A n \in AllNetworks(networks) : n.off \/ n.rpc = None \/ providers[n.chain] = n.rpc
=============================================================================
