------------------------- MODULE ServicePartsProofs -------------------------
(***************************************************************************)
(* Lemmas about the components that say which networks, accounts, tokens   *)
(* and positions there are, each as its part of ServiceParts, for every    *)
(* value of its constants.  What they promise holds once nothing runs; the *)
(* inductive invariants say the rest: which of the steps that still run    *)
(* will make good what is not right yet.                                   *)
(***************************************************************************)
EXTENDS ServiceParts, FiniteSetTheorems, SequenceTheorems, FunctionTheorems, WellFoundedInduction, TLAPS

-----------------------------------------------------------------------------
(* What the components share *)

\* A set of numbers has a least one.
LEMMA LeastNumber == ASSUME NEW T, T \subseteq Nat, T # {} PROVE \E x \in T : \A y \in T : x <= y
<1> DEFINE R == OpToRel(<, Nat)
<1>1. IsWellFoundedOn(R, Nat)
  BY NatLessThanWellFounded
<1>2. \E x \in T : \A y \in T : <<y, x>> \notin R
  <2> HIDE DEF R
  <2> QED
    BY <1>1, WFMin, Zenon
<1>3. \A x, y \in Nat : y < x => <<y, x>> \in R
  BY DEF OpToRel
<1> HIDE DEF R
<1>4. PICK x \in T : \A y \in T : <<y, x>> \notin R
  BY <1>2
<1>5. ASSUME NEW y \in T PROVE x <= y
  <2>1. x \in Nat /\ y \in Nat /\ ~(y < x)
    BY <1>3, <1>4
  <2> QED
    BY <2>1
<1> QED
  BY <1>5

-----------------------------------------------------------------------------
(* Networks.  As long as nothing was torn every network is kept under its   *)
(* own chain id, so that all of them are shown, and the provider of one     *)
(* that is enabled asks its url, unless an update of several has still to   *)
(* call back.                                                               *)

\* A call of getNetworkInfo, and the network that a screen is about.
NetInfo == [by : {"features", "screen", "update"}, key : NetChains, chain : NetChains, url : Urls \cup {None}]
NetScreen == [chain : NetChains, rpc : Urls, info : NetInfo \cup {None}]
NetUpdate == [chains : SUBSET NetChains, moved : SUBSET NetChains]

NetTypes ==
    /\ networks \in Net!Maps /\ providers \in [NetChains -> Urls \cup {None}]
    /\ held \in [Syncs \cup {"load"} -> Net!Maps \cup {None, Current}]
    /\ infos \subseteq NetInfo /\ pending \in NetScreen \cup {None}
    /\ updating # None => updating \in NetUpdate /\ updating.moved \subseteq updating.chains
    /\ torn \in BOOLEAN

\* The chains of an update that calls back when it is stored.
NetWaits == IF updating = None THEN {} ELSE IF Cardinality(updating.chains) = 1 THEN {} ELSE updating.chains
\* The provider of a network's chain asks its url.
Served(n) == n.off \/ n.rpc = None \/ providers[n.chain] = n.rpc

NetKept == ~torn => UnderIds(networks) /\ (held["load"] \in Net!Maps => UnderIds(held["load"]))
NetServed == ~torn /\ loaded = "done" => \A k \in DOMAIN networks \ NetWaits : Served(networks[k])
NetInv == NetTypes /\ NetKept /\ NetServed

\* A map holds a network for each of its chains.
LEMMA MapIs ==
    ASSUME NEW nets \in Net!Maps
    PROVE  /\ DOMAIN nets \subseteq NetChains /\ nets \in [DOMAIN nets -> Net!Nets]
           /\ \A k \in DOMAIN nets : nets[k] \in Net!Nets
BY DEF Net!Maps

\* A function from some chains to networks is a map.
LEMMA IsMap ==
    ASSUME NEW S \in SUBSET NetChains, NEW nets \in [S -> Net!Nets]
    PROVE  nets \in Net!Maps
BY DEF Net!Maps

\* The network that is shown for a chain id is one of those that have it.
LEMMA ShownHasChain ==
    ASSUME NEW nets \in Net!Maps, NEW c, Net!KeysOf(nets, c) # {}
    PROVE  Net!Shown(nets, c) \in Net!KeysOf(nets, c)
<1> DEFINE K == Net!KeysOf(nets, c)
           P == {k \in K : nets[k].predefined}
           Best(k) == \A j \in K \ {k} : \/ nets[k].predefined /\ ~nets[j].predefined
                                         \/ nets[k].predefined = nets[j].predefined /\ k < j
<1>1. K \subseteq Nat /\ \A k \in K : nets[k].predefined \in BOOLEAN
      BY NetAssumed, MapIs DEF Net!KeysOf, Net!Nets
<1>2. \E k \in K : Best(k)
  <2>1. CASE P # {}
    <3>1. PICK k \in P : \A j \in P : k <= j
          BY <1>1, <2>1, LeastNumber
    <3>2. ASSUME NEW j \in K \ {k}
          PROVE  \/ nets[k].predefined /\ ~nets[j].predefined
                 \/ nets[k].predefined = nets[j].predefined /\ k < j
      <4>1. CASE nets[j].predefined
        <5>1. k \in Nat /\ j \in Nat /\ k <= j /\ k # j
              BY <1>1, <3>1, <3>2, <4>1
        <5>2. nets[k].predefined = TRUE /\ nets[j].predefined = TRUE
              BY <1>1, <3>1, <3>2, <4>1
        <5>3. k < j  BY <5>1
        <5> QED  BY <5>2, <5>3, Zenon
      <4> QED  BY <3>1, <4>1
    <3> QED  BY <3>1, <3>2
  <2>2. CASE P = {}
    <3>1. PICK k \in K : \A j \in K : k <= j
          BY <1>1, LeastNumber
    <3>2. ASSUME NEW j \in K \ {k}
          PROVE  \/ nets[k].predefined /\ ~nets[j].predefined
                 \/ nets[k].predefined = nets[j].predefined /\ k < j
      <4>1. k \in Nat /\ j \in Nat /\ k <= j /\ k # j
            BY <1>1, <3>1, <3>2
      <4>2. nets[k].predefined = FALSE /\ nets[j].predefined = FALSE
            BY <1>1, <2>2, <3>1, <3>2
      <4>3. k < j  BY <4>1
      <4> QED  BY <4>2, <4>3, Zenon
    <3> QED  BY <3>1, <3>2
  <2> QED  BY <2>1, <2>2
<1>3. Net!Shown(nets, c) = CHOOSE k \in K : Best(k)
      BY DEF Net!Shown
<1> HIDE DEF K, Best
<1> QED  BY <1>2, <1>3 DEF K

\* All that is shown are networks; those that are kept under their chain ids are all shown.
LEMMA AllNetworksAre ==
    ASSUME NEW nets \in Net!Maps
    PROVE  /\ Net!AllNetworks(nets) \subseteq Net!Nets
           /\ UnderIds(nets) => /\ Net!AllNetworks(nets) = {nets[k] : k \in DOMAIN nets}
                            /\ \A c : Net!KeysOf(nets, c) # {} => c \in DOMAIN nets /\ Net!Shown(nets, c) = c
<1>1. ASSUME NEW c \in {nets[k].chain : k \in DOMAIN nets}
      PROVE  Net!Shown(nets, c) \in DOMAIN nets /\ nets[Net!Shown(nets, c)].chain = c
      BY ShownHasChain DEF Net!KeysOf
<1>3. ASSUME UnderIds(nets), NEW c, Net!KeysOf(nets, c) # {} PROVE c \in DOMAIN nets /\ Net!Shown(nets, c) = c
      BY <1>3, ShownHasChain DEF Net!KeysOf, UnderIds
<1>4. ASSUME UnderIds(nets) PROVE Net!AllNetworks(nets) = {nets[k] : k \in DOMAIN nets}
      BY <1>3, <1>4 DEF Net!AllNetworks, UnderIds, Net!KeysOf
<1> QED  BY <1>1, <1>3, <1>4, MapIs DEF Net!AllNetworks

\* setProvider for networks of different chains.
LEMMA ProvidersAre ==
    ASSUME NEW nets \in SUBSET Net!Nets, providers \in [NetChains -> Urls \cup {None}]
    PROVE  /\ Net!WithProviders(nets) \in [NetChains -> Urls \cup {None}]
           /\ \A c \in NetChains : (\A n \in nets : n.chain # c) => Net!WithProviders(nets)[c] = providers[c]
           /\ (\A m, n \in nets : m.chain = n.chain => m = n) =>
                 \A n \in nets : n.rpc # None => Net!WithProviders(nets)[n.chain] = n.rpc
<1> DEFINE Of(c) == {m \in nets : m.chain = c /\ m.rpc # None}
           Rpc(c) == IF Of(c) = {} THEN providers[c] ELSE (CHOOSE m \in Of(c) : TRUE).rpc
<1>1. Net!WithProviders(nets) = [c \in NetChains |-> Rpc(c)]
      BY DEF Net!WithProviders
<1>3. \A c \in NetChains : Rpc(c) \in Urls \cup {None}
      BY DEF Net!Nets
<1>4. \A c \in NetChains : (\A n \in nets : n.chain # c) => Rpc(c) = providers[c]
      OBVIOUS
<1>5. ASSUME \A m, n \in nets : m.chain = n.chain => m = n, NEW n \in nets, n.rpc # None
      PROVE  n.chain \in NetChains /\ Rpc(n.chain) = n.rpc
      BY <1>5 DEF Net!Nets
<1> HIDE DEF Rpc
<1> QED  BY <1>1, <1>3, <1>4, <1>5

\* onAddOrUpdateNetworks for what is shown of some chains, when every network is kept under its own.
LEMMA AddOrUpdateServes ==
    ASSUME NEW nets \in Net!Maps, NEW S, providers \in [NetChains -> Urls \cup {None}],
           providers' = Net!AddOrUpdate({n \in Net!AllNetworks(nets) : n.chain \in S})
    PROVE  /\ providers' \in [NetChains -> Urls \cup {None}]
           /\ UnderIds(nets) => \A k \in DOMAIN nets :
                 /\ k \in S => nets[k].off \/ nets[k].rpc = None \/ providers'[nets[k].chain] = nets[k].rpc
                 /\ k \notin S => providers'[nets[k].chain] = providers[nets[k].chain]
<1> DEFINE all == {n \in Net!AllNetworks(nets) : n.chain \in S}
           on == {n \in all : ~n.off}
<1>1. providers' = Net!WithProviders(on)
      BY DEF Net!AddOrUpdate
<1>2. on \in SUBSET Net!Nets
      BY AllNetworksAre
<1>4. ASSUME UnderIds(nets) PROVE \A m, n \in on : m.chain = n.chain => m = n
      BY <1>4, AllNetworksAre DEF UnderIds
<1>5. ASSUME UnderIds(nets), NEW k \in DOMAIN nets, k \in S, ~nets[k].off, nets[k].rpc # None
      PROVE  providers'[nets[k].chain] = nets[k].rpc
  <2>1. nets[k] \in on
        BY <1>5, AllNetworksAre DEF UnderIds
  <2> HIDE DEF on
  <2> QED  BY <1>1, <1>2, <1>4, <1>5, <2>1, ProvidersAre
<1>6. ASSUME UnderIds(nets), NEW k \in DOMAIN nets, k \notin S PROVE providers'[nets[k].chain] = providers[nets[k].chain]
  <2>1. \A n \in on : n.chain # k
        BY <1>6
  <2> HIDE DEF on
  <2> QED  BY <1>1, <1>2, <1>6, <2>1, ProvidersAre, MapIs DEF UnderIds
<1> QED  BY <1>1, <1>2, <1>5, <1>6, ProvidersAre

\* The two properties.
LEMMA NetKeeps == ASSUME NetInv PROVE Net!TypeOK /\ Net!QuietProvidersServe
<1>2. ASSUME loaded = "done", updating = None, ~torn, NEW n \in Net!AllNetworks(networks)
      PROVE  n.off \/ n.rpc = None \/ providers[n.chain] = n.rpc
  <2>1. PICK k \in DOMAIN networks : n = networks[k]
        BY <1>2, AllNetworksAre DEF NetInv, NetTypes, NetKept
  <2> QED  BY <1>2, <2>1 DEF Served, NetInv, NetServed, NetWaits
<1> QED  BY <1>2 DEF Net!QuietProvidersServe, NetInv, NetTypes, Net!TypeOK, NetScreen, NetInfo

\* At first there are no networks.
LEMMA NetInvInit == ASSUME Net!Init PROVE NetInv
<1>3. networks \in Net!Maps /\ UnderIds(networks)
      BY DEF Net!Init, UnderIds, Net!Empty, Net!Maps
<1> QED  BY <1>3, NetAssumed DEF NetInv, NetServed, Net!Init, NetTypes, Net!Calls, NetKept

\* The predefined networks, and what the relayer's answer makes of the networks.
LEMMA PredefinedIs == Net!Predefined \in Net!Maps /\ UnderIds(Net!Predefined)
<1>2. DOMAIN Net!Predefined = Defaults /\ Net!Predefined \in [Defaults -> Net!Nets]
      BY NetAssumed DEF Net!Predefined, Net!Nets
<1> QED  BY <1>2, IsMap, NetAssumed DEF UnderIds, Net!Predefined

\* What the merge of a remote configuration returns is well-formed, and keeps what is under its id.
LEMMA MergedIs ==
    ASSUME NEW nets \in Net!Maps, NEW config \in Configs
    PROVE  /\ Net!Merged(nets, config) \in Net!Maps
           /\ UnderIds(nets) => UnderIds(Net!Merged(nets, config))
           /\ \A k \in DOMAIN Net!Merged(nets, config) : k \notin Net!Updated(nets, config) =>
                 /\ k \in DOMAIN nets
                 /\ Net!Merged(nets, config)[k].rpc = nets[k].rpc /\ Net!Merged(nets, config)[k].off = nets[k].off
<1> DEFINE merged == Net!Merged(nets, config)
           new(c) == c \notin DOMAIN nets
           upd(c) == c \in Net!Updated(nets, config)
<1>1. DOMAIN merged = DOMAIN nets \cup DOMAIN config
      BY DEF Net!Merged
<1>2. ASSUME NEW c \in DOMAIN merged, new(c) PROVE merged[c] = Net!FromRelayer(c, config[c], config[c].off)
  <2>1. c \in DOMAIN nets \cup DOMAIN config /\ c \notin DOMAIN nets
        BY <1>1, <1>2
  <2> HIDE DEF new, upd
  <2> QED  BY <2>1 DEF Net!Merged, Net!Updated
<1>3. ASSUME NEW c \in DOMAIN merged, ~new(c), upd(c)
      PROVE  merged[c] = Net!FromRelayer(c, config[c], nets[c].off)
      BY <1>1, <1>3 DEF Net!Merged
<1>4. ASSUME NEW c \in DOMAIN merged, ~new(c), ~upd(c)
      PROVE  merged[c] = [nets[c] EXCEPT !.predefined = TRUE] \/ merged[c] = [nets[c] EXCEPT !.predefined = FALSE]
      BY <1>1, <1>4 DEF Net!Merged
<1>7. DOMAIN merged \subseteq NetChains
      BY <1>1, MapIs, NetAssumed
<1>8. ASSUME NEW c \in DOMAIN config, NEW off \in BOOLEAN, c \in NetChains
      PROVE  Net!FromRelayer(c, config[c], off) \in Net!Nets /\ Net!FromRelayer(c, config[c], off).chain = c
      BY <1>8, NetAssumed DEF Net!FromRelayer, Net!Nets
<1>9. ASSUME NEW c \in DOMAIN nets, NEW b \in BOOLEAN
      PROVE  /\ [nets[c] EXCEPT !.predefined = b] \in Net!Nets
             /\ [nets[c] EXCEPT !.predefined = b].chain = nets[c].chain
             /\ [nets[c] EXCEPT !.predefined = b].rpc = nets[c].rpc
             /\ [nets[c] EXCEPT !.predefined = b].off = nets[c].off
      BY MapIs DEF Net!Nets
<1>11. ASSUME NEW c \in DOMAIN merged PROVE merged[c] \in Net!Nets /\ (UnderIds(nets) => merged[c].chain = c)
  <2>1. CASE new(c)
        BY <1>1, <1>2, <1>7, <1>8, <1>11, <2>1, NetAssumed
  <2>2. CASE ~new(c) /\ upd(c)
        BY <1>3, <1>7, <1>8, <1>11, <2>2, MapIs DEF Net!Nets, Net!Updated
  <2>3. CASE ~new(c) /\ ~upd(c)
        BY <1>4, <1>9, <1>11, <2>3 DEF UnderIds
  <2> QED  BY <2>1, <2>2, <2>3
<1>12. ASSUME NEW k \in DOMAIN merged, ~upd(k)
       PROVE  k \in DOMAIN nets /\ merged[k].rpc = nets[k].rpc /\ merged[k].off = nets[k].off
       BY <1>1, <1>4, <1>9, <1>12 DEF Net!Updated
<1>13. merged \in [DOMAIN merged -> Net!Nets]
       BY <1>11 DEF Net!Merged
<1> HIDE DEF merged
<1> QED  BY <1>7, <1>11, <1>12, <1>13, IsMap DEF merged, UnderIds

\* A call that holds networks assigns them, or others.
LEMMA AssignTypes ==
    ASSUME NetTypes, NEW s \in Syncs \cup {"load"}, NEW nets \in Net!Maps,
           Net!Assign(s, nets) \/ (Net!Reassign(s) /\ nets = Net!Held(s))
    PROVE  /\ networks' = nets /\ held' \in [Syncs \cup {"load"} -> Net!Maps \cup {None, Current}]
           /\ held'[s] = None
           /\ \A t \in (Syncs \cup {"load"}) \ {s} : held'[t] \in {held[t], networks}
<1>1. CASE Net!Assign(s, nets)
      BY <1>1 DEF Net!Assign, NetTypes, Net!Calls
<1>2. CASE Net!Reassign(s) /\ nets = Net!Held(s)
  <2>1. CASE held[s] = Current
        BY <1>2, <2>1 DEF Net!Reassign, Net!Held, NetTypes
  <2>2. CASE held[s] # Current
        BY <1>2, <2>2 DEF Net!Reassign, Net!Assign, Net!Held, NetTypes, Net!Calls
  <2> QED  BY <2>1, <2>2
<1> QED  BY <1>1, <1>2

\* What a call holds.
LEMMA HeldIs ==
    ASSUME NetTypes, NEW s \in Syncs \cup {"load"}, held[s] # None
    PROVE  Net!Held(s) \in Net!Maps /\ Net!Held(s) \in {networks, held[s]}
<1> QED  BY DEF Net!Held, NetTypes

\* The calls that probe networks.
LEMMA UnprobedAre == ASSUME NEW nets \in Net!Maps PROVE Net!Unprobed(nets) \subseteq NetInfo
<1> QED  BY MapIs DEF Net!Unprobed, NetInfo, Net!Nets

\* A step that leaves #load's networks and the providers, and adds to the networks or changes in them
\* nothing that a provider depends on.
LEMMA NetStays ==
    ASSUME NetInv, NetTypes', UNCHANGED <<loaded, held, providers>>,
           ~torn' => /\ ~torn /\ UnderIds(networks')
                     /\ \A k \in DOMAIN networks' \ NetWaits' : networks'[k].rpc # None =>
                           /\ k \in DOMAIN networks \ NetWaits
                           /\ networks'[k].rpc = networks[k].rpc /\ networks'[k].off = networks[k].off
    PROVE  NetInv'
<1>2. ASSUME ~torn', loaded' = "done", NEW k \in DOMAIN networks' \ NetWaits', networks'[k].rpc # None
      PROVE  Served(networks[k])'
      BY <1>2 DEF Served, UnderIds, NetInv, NetKept, NetServed
<1> QED  BY <1>2 DEF NetInv, NetKept, NetServed, Served

\* The initial load.
LEMMA NetLoads ==
    ASSUME NetInv, \/ \E m \in NetStorages : Net!LoadFromStorage(m)
                   \/ Net!LoadUnmerged \/ \E config \in Configs : Net!LoadMerged(config)
                   \/ Net!LoadProviders
    PROVE  NetInv'
<1>0. NetTypes /\ NetKept
      BY DEF NetInv
<1>1. ASSUME NEW m \in NetStorages, Net!LoadFromStorage(m) PROVE NetInv'
  <2>3. CASE m # Net!Empty
        BY <1>0, <1>1, <2>3, NetAssumed DEF NetInv, NetTypes, NetKept, NetServed, Net!LoadFromStorage,
           Net!calls
  <2>4. CASE m = Net!Empty
        BY <1>0, <1>1, <2>4, PredefinedIs, NetAssumed DEF NetInv, NetTypes, NetKept, NetServed,
           Net!LoadFromStorage, Net!Calls, Net!calls
  <2> QED  BY <2>3, <2>4
<1>2. ASSUME NEW nets \in Net!Maps, ~torn => UnderIds(nets), Net!FinishLoad,
             Net!Assign("load", nets) \/ (Net!Reassign("load") /\ nets = Net!Held("load"))
      PROVE  NetInv'
      BY <1>0, <1>2, NetAssumed, AssignTypes, UnprobedAre DEF NetInv, NetTypes, NetKept, NetServed,
         Net!FinishLoad, Net!calls
<1>3. ASSUME Net!LoadUnmerged \/ \E config \in Configs : Net!LoadMerged(config) PROVE NetInv'
  <2>2. Net!Held("load") \in Net!Maps /\ (~torn => UnderIds(Net!Held("load")))
        BY <1>0, <1>3, HeldIs DEF NetKept, Net!LoadUnmerged, Net!LoadMerged, Net!Reassign, Net!Assign
  <2>3. CASE Net!LoadUnmerged
        BY <1>2, <2>2, <2>3 DEF Net!LoadUnmerged
  <2>4. ASSUME NEW config \in Configs, Net!LoadMerged(config) PROVE NetInv'
        BY <1>2, <2>2, <2>4, MergedIs DEF Net!LoadMerged
  <2> QED  BY <1>3, <2>3, <2>4
<1>4. ASSUME Net!LoadProviders PROVE NetInv'
  <2>4. ASSUME ~torn, NEW k \in DOMAIN networks, networks[k].rpc # None
        PROVE  providers'[networks[k].chain] = networks[k].rpc
        BY <1>0, <1>4, <2>4, ProvidersAre, AllNetworksAre DEF NetKept, UnderIds, Net!LoadProviders,
           Net!calls, Net!syncs, NetTypes
  <2> QED  BY <1>0, <1>4, <2>4, ProvidersAre, AllNetworksAre DEF NetInv, NetTypes, NetKept, NetServed,
              Served, Net!LoadProviders, Net!calls, Net!syncs
<1> QED  BY <1>1, <1>3, <1>4

\* Synchronisations.
LEMMA NetSyncs ==
    ASSUME NetInv, NEW s \in Syncs,
           Net!StartSync(s) \/ Net!SyncFailed(s) \/ \E config \in Configs : Net!SyncMerged(s, config)
    PROVE  NetInv'
<1>0. NetTypes /\ NetKept /\ NetServed /\ s # "load"
      BY NetAssumed DEF NetInv
<1>1. CASE Net!StartSync(s)
      BY <1>0, <1>1 DEF NetInv, NetTypes, NetKept, NetServed, NetWaits, Served, Net!StartSync, Net!calls
<1>2. ASSUME NEW nets \in Net!Maps, NEW S, Net!FinishSync(s, S),
             Net!Assign(s, nets) \/ (Net!Reassign(s) /\ nets = Net!Held(s)),
             held[s] = Current => /\ UnderIds(networks) => UnderIds(nets)
                                  /\ \A k \in DOMAIN nets : k \notin S =>
                                        /\ k \in DOMAIN networks
                                        /\ nets[k].rpc = networks[k].rpc /\ nets[k].off = networks[k].off
      PROVE  NetInv'
  <2>1. /\ networks' = nets /\ held' \in [Syncs \cup {"load"} -> Net!Maps \cup {None, Current}]
        /\ held'["load"] \in {held["load"], networks}
        BY <1>0, <1>2, AssignTypes
  <2>2. /\ torn' = (torn \/ held[s] # Current) /\ infos' = infos \cup Net!Unprobed(networks')
        /\ providers' = Net!AddOrUpdate({n \in Net!AllNetworks(networks') : n.chain \in S})
        /\ UNCHANGED <<loaded, pending, updating>>
        BY <1>2 DEF Net!FinishSync, Net!calls
  <2>4. /\ providers' \in [NetChains -> Urls \cup {None}]
        /\ UnderIds(nets) => \A k \in DOMAIN nets :
                 /\ k \in S => nets[k].off \/ nets[k].rpc = None \/ providers'[nets[k].chain] = nets[k].rpc
                 /\ k \notin S => providers'[nets[k].chain] = providers[nets[k].chain]
        BY <1>0, <1>2, <2>1, <2>2, AddOrUpdateServes DEF NetTypes
  <2>6. ASSUME ~torn' PROVE held[s] = Current /\ ~torn /\ UnderIds(networks) /\ UnderIds(nets)
        BY <1>0, <1>2, <2>2, <2>6 DEF NetKept
  <2>8. ASSUME ~torn', loaded' = "done", NEW k \in DOMAIN networks' \ NetWaits' PROVE Served(networks[k])'
    <3>2. CASE k \in S
          BY <2>1, <2>4, <2>6, <2>8, <3>2 DEF Served
    <3>3. CASE k \notin S
          BY <1>0, <1>2, <2>1, <2>2, <2>4, <2>6, <2>8, <3>3 DEF Served, UnderIds, NetWaits, NetServed
    <3> QED  BY <3>2, <3>3
  <2> QED  BY <1>0, <1>2, <2>1, <2>2, <2>4, <2>6, <2>8, UnprobedAre DEF NetInv, NetKept, NetServed, NetTypes
<1>3. CASE Net!SyncFailed(s)
      BY <1>0, <1>2, <1>3, HeldIs DEF Net!SyncFailed, Net!Held, Net!Reassign
<1>4. ASSUME NEW config \in Configs, Net!SyncMerged(s, config) PROVE NetInv'
  <2>3. PICK old \in Net!Maps : old = Net!Held(s)
        BY <1>0, <1>4, HeldIs DEF Net!Held, Net!SyncMerged, Net!Assign
  <2>4. PICK nets \in Net!Maps : nets = Net!Merged(old, config)
        BY <2>3, MergedIs
  <2> QED  BY <1>0, <1>2, <1>4, <2>3, <2>4, MergedIs, HeldIs DEF Net!SyncMerged, Net!Held, Net!Assign
<1> QED  BY <1>1, <1>3, <1>4

\* What the callbacks write into a network.
LEMMA NetworkIs ==
    ASSUME NetTypes, NEW k \in NetChains
    PROVE  /\ Net!NetworkAt(k) \in Net!Nets
           /\ k \in DOMAIN networks => Net!NetworkAt(k) = networks[k]
           /\ k \notin DOMAIN networks => Net!NetworkAt(k).rpc = None
<1>1. CASE k \in DOMAIN networks
      BY <1>1, MapIs DEF Net!NetworkAt, NetTypes
<1>2. CASE k \notin DOMAIN networks
      BY <1>2 DEF Net!NetworkAt, Net!Nets
<1> QED  BY <1>1, <1>2

\* What is known of a probed network.
LEMMA ProbedIs ==
    ASSUME NEW n \in Net!Nets, NEW c \in NetChains, NEW u \in Urls \cup {None}
    PROVE  /\ [n EXCEPT !.chain = c, !.info = u] \in Net!Nets
           /\ [n EXCEPT !.chain = c, !.info = u].rpc = n.rpc /\ [n EXCEPT !.chain = c, !.info = u].off = n.off
BY DEF Net!Nets

\* onAddOrUpdateNetworks for one network.
LEMMA OneIsServed ==
    ASSUME NEW n \in Net!Nets, providers \in [NetChains -> Urls \cup {None}], providers' = Net!AddOrUpdate({n})
    PROVE  /\ providers' \in [NetChains -> Urls \cup {None}]
           /\ \A k \in NetChains : k # n.chain => providers'[k] = providers[k]
           /\ n.off \/ n.rpc = None \/ providers'[n.chain] = n.rpc
<1>1. PICK on \in SUBSET Net!Nets : on = {m \in {n} : ~m.off}
      OBVIOUS
<1> QED  BY <1>1, ProvidersAre DEF Net!AddOrUpdate

\* The screen and the probes.
LEMMA NetProbes ==
    ASSUME NetInv,
           \/ \E c \in NetChains, u \in Urls : Net!OpenScreen(c, u)
           \/ Net!CloseScreen
           \/ \E i \in infos : Net!InfoArrives(i) \/ Net!InfoProgress(i) \/ Net!InfoFails(i)
    PROVE  NetInv'
<1>0. NetTypes /\ NetKept
      BY DEF NetInv
<1>1. ASSUME NetTypes', UNCHANGED <<loaded, networks, providers, held, torn, updating>> PROVE NetInv'
      BY <1>0, <1>1, NetStays DEF NetKept, NetWaits
<1>2. ASSUME NEW c \in NetChains, NEW u \in Urls, Net!OpenScreen(c, u) PROVE NetInv'
      BY <1>0, <1>1, <1>2 DEF NetTypes, Net!OpenScreen, NetScreen, NetInfo, Net!calls, Net!syncs
<1>3. CASE Net!CloseScreen
      BY <1>0, <1>1, <1>3 DEF Net!CloseScreen, Net!calls, Net!syncs, NetTypes
<1>4. ASSUME NEW i \in infos, Net!InfoArrives(i) PROVE NetInv'
  <2>1. i \in NetInfo /\ i.key \in NetChains /\ i.chain \in NetChains /\ i.url \in Urls \cup {None}
        BY <1>0 DEF NetTypes, NetInfo
  <2>2. /\ infos' \subseteq NetInfo /\ torn' = (torn \/ ~UnderIds(networks'))
        /\ UNCHANGED <<loaded, providers, updating, held>>
        BY <1>0, <1>4 DEF Net!InfoArrives, Net!calls, NetTypes, Net!KeptUnderChain, UnderIds
  <2>3. torn' \in BOOLEAN /\ (~torn' => ~torn /\ UnderIds(networks'))
        BY <1>0, <2>2 DEF NetTypes
  <2>4. CASE i.by = "screen"
    <3>2. ASSUME pending # None PROVE [pending EXCEPT !.info = i] \in NetScreen
          BY <1>0, <2>1, <3>2 DEF NetScreen, NetTypes
    <3> QED  BY <1>0, <1>4, <2>2, <2>3, <2>4, <3>2, NetStays DEF NetWaits, Net!InfoArrives, NetTypes
  <2>5. CASE i.by # "screen"
    <3>1. PICK n : n = Net!NetworkAt(i.key)
          OBVIOUS
    <3>2. PICK new : new = [n EXCEPT !.chain = i.chain, !.info = i.url]
          OBVIOUS
    <3>3. /\ n \in Net!Nets /\ new \in Net!Nets /\ new.rpc = n.rpc /\ new.off = n.off
          /\ i.key \in DOMAIN networks => n = networks[i.key]
          /\ i.key \notin DOMAIN networks => n.rpc = None
      <4>1. /\ n \in Net!Nets
            /\ i.key \in DOMAIN networks => n = networks[i.key]
            /\ i.key \notin DOMAIN networks => n.rpc = None
            BY <1>0, <2>1, <3>1, NetworkIs
      <4> QED  BY <2>1, <3>2, <4>1, ProbedIs
    <3>4. /\ networks' = [k \in DOMAIN networks \cup {i.key} |-> IF k # i.key THEN networks[k] ELSE new]
          /\ pending' = pending
          BY <1>4, <2>5, <3>1, <3>2 DEF Net!InfoArrives
    <3>7. networks' \in Net!Maps
          BY <1>0, <2>1, <3>3, <3>4, IsMap, MapIs DEF NetTypes
    <3>9. ASSUME NEW k \in DOMAIN networks' \ NetWaits', networks'[k].rpc # None
          PROVE  /\ k \in DOMAIN networks \ NetWaits
                 /\ networks'[k].rpc = networks[k].rpc /\ networks'[k].off = networks[k].off
          BY <1>0, <2>2, <2>3, <3>3, <3>4, <3>7, <3>9 DEF NetTypes, NetWaits
    <3> QED  BY <1>0, <2>2, <2>3, <3>4, <3>7, <3>9, NetStays DEF NetTypes, NetWaits
  <2> QED  BY <2>4, <2>5
<1>5. ASSUME NEW i \in infos, Net!InfoProgress(i) PROVE NetInv'
      BY <1>0, <1>1, <1>5 DEF Net!InfoProgress, Net!calls, Net!syncs, NetTypes, NetScreen
<1>6. ASSUME NEW i \in infos, Net!InfoFails(i) PROVE NetInv'
      BY <1>0, <1>1, <1>6 DEF NetTypes, Net!InfoFails, Net!calls, Net!syncs, NetScreen
<1> QED  BY <1>2, <1>3, <1>4, <1>5, <1>6

\* addNetwork.
LEMMA NetAdds == ASSUME NetInv, Net!AddNetwork \/ Net!AddedIsStored PROVE NetInv'
<1>0. NetTypes /\ NetKept /\ NetServed
      BY DEF NetInv
<1>1. CASE Net!AddedIsStored
      BY <1>0, <1>1 DEF NetInv, NetTypes, NetKept, NetServed, NetWaits, Served, Net!AddedIsStored, Net!syncs
<1>2. CASE Net!AddNetwork
  <2>2. PICK c : c = pending.chain
        OBVIOUS
  <2>3. PICK n : n = [chain |-> pending.info.chain, rpc |-> pending.rpc, off |-> FALSE, predefined |-> FALSE,
                      version |-> 0, info |-> pending.info.url]
        OBVIOUS
  <2>4. c \in NetChains /\ n \in Net!Nets /\ n.rpc \in Urls
        BY <1>0, <1>2, <2>2, <2>3 DEF NetScreen, NetInfo, Net!Nets, NetTypes, Net!AddNetwork, Net!Probed
  <2>5. /\ networks' = [k \in DOMAIN networks \cup {c} |-> IF k = c THEN n ELSE networks[k]]
        /\ providers' = Net!AddOrUpdate({n}) /\ torn' = (torn \/ ~UnderIds(networks'))
        /\ UNCHANGED <<loaded, pending, infos, updating, held>> /\ updating = None
        BY <1>2, <2>2, <2>3 DEF Net!AddNetwork, Net!Free, Net!KeptUnderChain, UnderIds
  <2>8. networks' \in Net!Maps
        BY <1>0, <2>4, <2>5, IsMap, MapIs DEF NetTypes
  <2>11. /\ providers' \in [NetChains -> Urls \cup {None}]
         /\ \A k \in NetChains : k # n.chain => providers'[k] = providers[k]
         /\ n.off \/ n.rpc = None \/ providers'[n.chain] = n.rpc
        BY <1>0, <2>4, <2>5, OneIsServed DEF NetTypes
  <2>12. torn' \in BOOLEAN /\ (~torn' => ~torn /\ UnderIds(networks'))
        BY <1>0, <2>5 DEF NetTypes
  <2>15. ASSUME ~torn', loaded' = "done", NEW k \in DOMAIN networks' PROVE Served(networks[k])'
    <3>2. CASE k = c
          BY <2>5, <2>11, <3>2, <2>15 DEF Served
    <3>3. CASE k # c
      <4>1. networks'[k] = networks[k] /\ k \in DOMAIN networks /\ k \in NetChains
            BY <1>0, <2>4, <2>5, <2>15, <3>3, MapIs DEF NetTypes
      <4> QED  BY <1>0, <2>5, <2>11, <2>12, <2>15, <3>3, <4>1 DEF Served, UnderIds, NetServed, NetWaits
    <3> QED  BY <3>2, <3>3
  <2> QED  BY <1>0, <2>5, <2>8, <2>11, <2>12, <2>15 DEF NetInv, NetTypes, NetKept, NetServed
<1> QED  BY <1>1, <1>2

\* Networks takes FiniteSets for itself.
LEMMA NetCard == ASSUME NEW S PROVE Net!Cardinality(S) = Cardinality(S)
BY DEF Net!Cardinality, Cardinality

\* A network with some of its values changed.
LEMMA ChangedIs ==
    ASSUME NEW n \in Net!Nets, NEW change \in Net!Changes,
           NEW m, m = [f \in DOMAIN n |-> IF f \in DOMAIN change THEN change[f] ELSE n[f]]
    PROVE  m \in Net!Nets /\ m.chain = n.chain
<1> QED  BY DEF Net!Nets, Net!Changes, Net!Empty

\* updateNetworks: the values are changed and, of one network, the provider; the others wait.
LEMMA NetUpdates ==
    ASSUME NetInv, NEW chains \in SUBSET NetChains, NEW change \in Net!Changes, Net!UpdateNetworks(chains, change)
    PROVE  NetInv'
<1>0. NetTypes /\ NetKept /\ NetServed /\ networks \in Net!Maps
      BY DEF NetInv, NetTypes
<1>1. ASSUME NEW c \in chains
      PROVE  Net!Shown(networks, c) \in DOMAIN networks /\ networks[Net!Shown(networks, c)] \in Net!Nets
      BY <1>0, <1>1, MapIs, ShownHasChain DEF Net!KeysOf, Net!UpdateNetworks
<1>2. PICK new : new = [c \in chains |->
          [f \in DOMAIN networks[Net!Shown(networks, c)] |->
              IF f \in DOMAIN change THEN change[f] ELSE networks[Net!Shown(networks, c)][f]]]
      OBVIOUS
<1>3. ASSUME NEW c \in chains PROVE new[c] \in Net!Nets /\ new[c].chain = networks[Net!Shown(networks, c)].chain
  <2>1. PICK n \in Net!Nets : n = networks[Net!Shown(networks, c)]
        BY <1>1
  <2> QED  BY <1>2, <2>1, ChangedIs
<1>4. networks' = [k \in DOMAIN networks \cup chains |-> IF k \notin chains THEN networks[k] ELSE new[k]]
      BY <1>2 DEF Net!UpdateNetworks
<1>5. /\ updating' \in NetUpdate /\ updating'.chains = chains /\ updating'.moved \subseteq chains
      /\ updating = None /\ UNCHANGED <<loaded, pending, infos, held, torn>>
  <2>1. PICK moved \in SUBSET chains : updating' = [chains |-> chains, moved |-> moved]
        BY DEF Net!UpdateNetworks
  <2> QED  BY <2>1 DEF NetUpdate, Net!UpdateNetworks, Net!Free, Net!syncs
<1>7. DOMAIN networks \cup chains \in SUBSET NetChains /\ \A k \in DOMAIN networks : networks[k] \in Net!Nets
      BY <1>0, MapIs
<1>9. networks' \in Net!Maps
      BY <1>3, <1>4, <1>7, IsMap
<1>10. ASSUME ~torn
       PROVE  UnderIds(networks') /\ chains \subseteq DOMAIN networks /\ UnderIds(networks)
  <2>2. ASSUME NEW c \in chains PROVE c \in DOMAIN networks /\ new[c].chain = c
        BY <1>0, <1>3, <1>10, <2>2, AllNetworksAre DEF UnderIds, Net!UpdateNetworks, NetKept
  <2> QED  BY <1>0, <1>4, <1>10, <2>2 DEF UnderIds, NetKept
<1>13. CASE Cardinality(chains) = 1
  <2>1. PICK c : chains = {c}
        BY <1>13, FS_Singleton, NetAssumed, FS_Subset
  <2>2. networks'[c] \in Net!Nets /\ c \in NetChains
        BY <1>3, <1>4, <1>7, <2>1
  <2>4. PICK n \in Net!Nets : n = networks'[c]
        BY <2>2
  <2>5. providers' = Net!AddOrUpdate({n})
        BY <1>13, <2>1, <2>4, NetCard DEF Net!UpdateNetworks
  <2>6. /\ providers' \in [NetChains -> Urls \cup {None}]
        /\ \A k \in NetChains : k # n.chain => providers'[k] = providers[k]
        /\ n.off \/ n.rpc = None \/ providers'[n.chain] = n.rpc
        BY <1>0, <2>5, OneIsServed DEF NetTypes
  <2>8. ASSUME ~torn', loaded' = "done", NEW k \in DOMAIN networks' PROVE Served(networks[k])'
    <3>1. CASE k = c
          BY <2>4, <2>6, <3>1 DEF Served
    <3>2. CASE k # c
      <4>1. networks'[k] = networks[k] /\ k \in DOMAIN networks /\ k \in NetChains /\ networks[k].chain = k /\ n.chain = c
            BY <1>4, <1>5, <1>7, <1>10, <2>1, <2>2, <2>4, <2>8, <3>2 DEF UnderIds
      <4> QED  BY <1>0, <1>5, <2>6, <2>8, <3>2, <4>1 DEF Served, NetServed, NetWaits
    <3> QED  BY <3>1, <3>2
  <2> QED  BY <1>0, <1>5, <1>9, <1>10, <2>6, <2>8 DEF NetInv, NetTypes, NetKept, NetServed
<1>14. CASE Cardinality(chains) # 1
  <2>1. providers' = providers
        BY <1>14, NetCard DEF Net!UpdateNetworks
  <2>4. ASSUME ~torn', loaded' = "done", NEW k \in DOMAIN networks' \ NetWaits' PROVE Served(networks[k])'
        BY <1>0, <1>4, <1>5, <1>14, <2>1, <2>4, NetAssumed DEF Served, NetWaits, NetUpdate, NetServed
  <2> QED  BY <1>0, <1>5, <1>9, <1>10, <2>1, <2>4 DEF NetInv, NetTypes, NetKept, NetServed
<1> QED  BY <1>13, <1>14

\* When the storage has an update of several networks, their providers are set.
LEMMA NetIsUpdated == ASSUME NetInv, Net!UpdatedIsStored PROVE NetInv'
<1>0. NetTypes /\ NetKept /\ NetServed /\ networks \in Net!Maps
      BY DEF NetInv, NetTypes
<1>1. /\ torn' = (torn \/ ~UnderIds(networks')) /\ updating' = None /\ pending' = None /\ UNCHANGED <<loaded, held>>
      /\ updating # None /\ updating \in NetUpdate
      BY <1>0 DEF Net!UpdatedIsStored, Net!KeptUnderChain, UnderIds, NetTypes
<1>2. torn' \in BOOLEAN /\ (~torn' => ~torn /\ UnderIds(networks'))
      BY <1>0, <1>1 DEF NetTypes
<1>3. \A k \in DOMAIN networks : k \in NetChains /\ networks[k] \in Net!Nets
      BY <1>0, MapIs
<1>4. /\ networks' \in Net!Maps /\ DOMAIN networks' = DOMAIN networks
      /\ \A k \in DOMAIN networks : networks'[k].rpc = networks[k].rpc /\ networks'[k].off = networks[k].off
  <2>1. CASE ~Net!Probed
        BY <1>0, <2>1 DEF Net!UpdatedIsStored
  <2>2. CASE Net!Probed
    <3>2. PICK c \in NetChains, u \in Urls \cup {None} : c = pending.info.chain /\ u = pending.info.url
          BY <1>0, <2>2 DEF Net!Probed, NetTypes, NetScreen, NetInfo
    <3>4. \A k \in DOMAIN networks :
             /\ networks'[k] \in Net!Nets
             /\ networks'[k].rpc = networks[k].rpc /\ networks'[k].off = networks[k].off
      <4>1. ASSUME NEW n \in Net!Nets, NEW m, m = [n EXCEPT !.chain = c, !.info = u]
            PROVE  m \in Net!Nets /\ m.rpc = n.rpc /\ m.off = n.off
            BY <4>1, ProbedIs
      <4>2. ASSUME NEW k \in DOMAIN networks
            PROVE  networks'[k] = networks[k] \/ networks'[k] = [networks[k] EXCEPT !.chain = c, !.info = u]
            BY <2>2, <3>2 DEF Net!UpdatedIsStored
      <4> QED  BY <1>3, <4>1, <4>2
    <3> QED  BY <1>3, <2>2, <3>2, <3>4, IsMap DEF Net!UpdatedIsStored
  <2> QED  BY <2>1, <2>2
<1>5. infos' \subseteq NetInfo
  <2>2. \A k \in DOMAIN networks :
           [by |-> "update", key |-> k, chain |-> networks[k].chain, url |-> networks[k].rpc] \in NetInfo
        BY <1>3 DEF NetInfo, Net!Nets
  <2> QED  BY <1>0, <2>2 DEF NetTypes, Net!UpdatedIsStored
<1>8. ASSUME ~torn', NEW k \in DOMAIN networks' PROVE networks'[k].chain = k /\ networks[k].chain = k
      BY <1>0, <1>2, <1>4, <1>8 DEF NetKept, UnderIds
<1>9. CASE Cardinality(updating.chains) = 1
  <2>3. ASSUME ~torn', loaded' = "done", NEW k \in DOMAIN networks' PROVE Served(networks[k])'
    <3>1. Served(networks[k])
          BY <1>0, <1>1, <1>2, <1>4, <1>9, <2>3 DEF NetServed, NetWaits
    <3> QED  BY <1>4, <1>8, <1>9, <2>3, <3>1, NetCard DEF Served, Net!UpdatedIsStored
  <2> QED  BY <1>0, <1>1, <1>2, <1>4, <1>5, <1>9, <2>3, NetCard DEF NetInv, NetKept, NetServed, NetTypes,
              Net!UpdatedIsStored
<1>10. CASE Cardinality(updating.chains) # 1
  <2>1. PICK nets \in Net!Maps : nets = networks'
        BY <1>4
  <2>2. PICK S : S = updating.chains
        OBVIOUS
  <2>3. providers' = Net!AddOrUpdate({n \in Net!AllNetworks(nets) : n.chain \in S})
        BY <1>10, <2>1, <2>2, NetCard DEF Net!UpdatedIsStored
  <2>4. /\ providers' \in [NetChains -> Urls \cup {None}]
        /\ UnderIds(nets) => \A k \in DOMAIN nets :
              /\ k \in S => nets[k].off \/ nets[k].rpc = None \/ providers'[nets[k].chain] = nets[k].rpc
              /\ k \notin S => providers'[nets[k].chain] = providers[nets[k].chain]
        BY <1>0, <2>3, AddOrUpdateServes DEF NetTypes
  <2>6. ASSUME ~torn', loaded' = "done", NEW k \in DOMAIN networks' PROVE Served(networks[k])'
    <3>1. CASE k \in S
          BY <1>2, <2>1, <2>4, <2>6, <3>1 DEF Served
    <3>2. CASE k \notin S
      <4>1. Served(networks[k])
            BY <1>0, <1>1, <1>2, <1>4, <1>10, <2>2, <2>6, <3>2 DEF NetServed, NetWaits
      <4> QED  BY <1>2, <1>4, <1>8, <2>1, <2>4, <2>6, <3>2, <4>1 DEF Served
    <3> QED  BY <3>1, <3>2
  <2> QED  BY <1>0, <1>1, <1>2, <1>4, <1>5, <2>4, <2>6 DEF NetInv, NetTypes, NetKept, NetServed
<1> QED  BY <1>9, <1>10

\* Every step.
LEMMA NetInvNext == ASSUME NetInv, [Net!Next]_netVars PROVE NetInv'
<1>1. CASE UNCHANGED netVars
      BY <1>1 DEF netVars, NetInv, NetTypes, NetKept, NetServed, NetWaits, Served, UnderIds
<1> QED  BY <1>1, NetLoads, NetSyncs, NetProbes, NetAdds, NetUpdates, NetIsUpdated DEF Net!Next

-----------------------------------------------------------------------------
(* Sequences *)

\* Two sequences, one after the other.
LEMMA JoinedHas ==
    ASSUME NEW A, NEW front \in Seq(A), NEW back \in Seq(A), NEW t, t = front \o back,
           NEW m \in Nat, m = Len(front), NEW n \in Nat, n = Len(back)
    PROVE  /\ t \in Seq(A) /\ Len(t) = m + n
           /\ \A k \in 1..m : t[k] = front[k]
           /\ \A k \in (m + 1)..(m + n) : t[k] = back[k - m]
<1>1. /\ t \in Seq(A) /\ Len(t) = Len(front) + Len(back)
      /\ \A k \in 1..(Len(front) + Len(back)) :
             t[k] = IF k <= Len(front) THEN front[k] ELSE back[k - Len(front)]
      BY ConcatProperties, Zenon
<1>3. ASSUME NEW k \in 1..m PROVE t[k] = front[k]
      BY <1>1
<1>4. ASSUME NEW k \in (m + 1)..(m + n) PROVE t[k] = back[k - m]
      BY <1>1
<1> QED  BY <1>1, <1>3, <1>4

\* A sequence with one element less.
Without(s, i) == SubSeq(s, 1, i - 1) \o SubSeq(s, i + 1, Len(s))

\* A sequence with one element less, element by element.
LEMMA RemoveAtHas ==
    ASSUME NEW A, NEW s \in Seq(A), NEW i \in 1..Len(s), NEW t, t = Without(s, i)
    PROVE  /\ t \in Seq(A) /\ Len(t) = Len(s) - 1
           /\ \A k \in 1..Len(t) : t[k] = IF k < i THEN s[k] ELSE s[k + 1]
<1>1. Len(s) \in Nat /\ DOMAIN s = 1..Len(s) /\ i \in 1..Len(s)
      BY LenProperties
<1>2. PICK n \in Nat : n = Len(s)
      BY <1>1
<1>3. SubSeq(s, 1, i - 1) \in Seq(A) /\ SubSeq(s, i + 1, n) \in Seq(A)
      BY <1>1, <1>2
<1>4. PICK front \in Seq(A) : front = SubSeq(s, 1, i - 1)
      BY <1>3
<1>5. PICK back \in Seq(A) : back = SubSeq(s, i + 1, n)
      BY <1>3
<1>7. Len(back) = n - i /\ \A k \in 1..(n - i) : back[k] = s[i + k]
  <2>1. Len(back) = n - i
    <3>1. i + 1 \in 1..(n + 1) /\ n \in i..n /\ n \in Nat /\ i \in Nat
          BY <1>1, <1>2
    <3>2. CASE i = n
          BY <1>2, <1>5, <3>1, <3>2
    <3>3. CASE i # n
          BY <1>2, <1>5, <3>1, <3>3
    <3> QED  BY <3>2, <3>3
  <2>2. ASSUME NEW k \in 1..(n - i) PROVE back[k] = s[i + k]
        BY <1>1, <1>2, <1>5
  <2> QED  BY <2>1, <2>2
<1>8. t = front \o back
      BY <1>2, <1>4, <1>5 DEF Without
<1>9. PICK p \in Nat : p = i - 1
      BY <1>1
<1>d. n - i \in Nat
      BY <1>1, <1>2
<1>a. PICK q \in Nat : q = n - i
      BY <1>d
<1>b. p = Len(front) /\ q = Len(back)
      BY <1>1, <1>2, <1>4, <1>7, <1>9, <1>a
<1>c. /\ t \in Seq(A) /\ Len(t) = p + q
      /\ \A k \in 1..p : t[k] = front[k]
      /\ \A k \in (p + 1)..(p + q) : t[k] = back[k - p]
      BY <1>8, <1>b, JoinedHas
<1>10. /\ t \in Seq(A) /\ Len(t) = (i - 1) + (n - i)
       /\ \A k \in 1..(i - 1) : t[k] = front[k]
       /\ \A k \in ((i - 1) + 1)..((i - 1) + (n - i)) : t[k] = back[k - (i - 1)]
       BY <1>9, <1>a, <1>c
<1>11. Len(t) = Len(s) - 1
       BY <1>1, <1>2, <1>10
<1>12. ASSUME NEW k \in 1..Len(t) PROVE t[k] = IF k < i THEN s[k] ELSE s[k + 1]
  <2>1. CASE k < i
        BY <1>1, <1>2, <1>4, <1>10, <2>1
  <2>2. CASE ~(k < i)
    <3>2. back[k - (i - 1)] = s[i + (k - (i - 1))]
          BY <1>1, <1>2, <1>7, <1>11, <2>2
    <3> QED  BY <1>1, <1>2, <1>10, <1>11, <2>2, <3>2
  <2> QED  BY <2>1, <2>2
<1> QED  BY <1>10, <1>11, <1>12

-----------------------------------------------------------------------------
(* Accounts.  An account that is selected and is not there any more is being *)
(* removed, or another is about to be selected; and unless the states of the *)
(* selected account are there, in flight or missed, they are about to be     *)
(* asked for.                                                                *)

\* Without repetition, that element is gone.
LEMMA RemoveAtIs ==
    ASSUME NEW A, NEW s \in Seq(A), Acc!IsInjective(s), NEW i \in 1..Len(s), NEW t, t = Acc!RemoveAt(s, i)
    PROVE  t \in Seq(A) /\ Acc!IsInjective(t) /\ Acc!ToSet(t) = Acc!ToSet(s) \ {s[i]}
<1>1. Len(s) \in Nat /\ DOMAIN s = 1..Len(s) /\ i \in 1..Len(s)
      BY LenProperties
<1>4. t \in Seq(A) /\ Len(t) = Len(s) - 1
      BY RemoveAtHas DEF Acc!RemoveAt, Without
<1>5. ASSUME NEW k \in 1..Len(t) PROVE t[k] = IF k < i THEN s[k] ELSE s[k + 1]
      BY RemoveAtHas DEF Acc!RemoveAt, Without
<1>6. DOMAIN t = 1..Len(t) /\ Len(t) \in Nat
      BY <1>4, LenProperties
<1>7. Acc!IsInjective(t)
  <2>1. ASSUME NEW j \in DOMAIN t, NEW k \in DOMAIN t, t[j] = t[k] PROVE j = k
    <3>1. PICK m \in DOMAIN s : m = (IF j < i THEN j ELSE j + 1)
          BY <1>1, <1>4, <1>6
    <3>2. PICK n \in DOMAIN s : n = (IF k < i THEN k ELSE k + 1)
          BY <1>1, <1>4, <1>6
    <3>3. s[m] = t[j] /\ s[n] = t[k]
          BY <1>5, <1>6, <3>1, <3>2
    <3>4. m = n
          BY <2>1, <3>3 DEF Acc!IsInjective
    <3> QED  BY <1>1, <1>6, <3>1, <3>2, <3>4
  <2> QED  BY <2>1 DEF Acc!IsInjective
<1>8. Acc!ToSet(t) = Acc!ToSet(s) \ {s[i]}
  <2>1. ASSUME NEW k \in DOMAIN t PROVE t[k] \in Acc!ToSet(s) /\ t[k] # s[i]
    <3>1. PICK m \in DOMAIN s : m # i /\ t[k] = s[m]
          BY <1>1, <1>4, <1>5, <1>6, <2>1, SMTT(30)
    <3> QED  BY <3>1 DEF Acc!IsInjective, Acc!ToSet
  <2>2. ASSUME NEW m \in DOMAIN s, s[m] # s[i] PROVE \E k \in DOMAIN t : t[k] = s[m]
    <3>1. CASE m < i
      <4>1. m \in DOMAIN t
            BY <1>1, <1>4, <1>6, <2>2, <3>1
      <4> QED  BY <1>5, <1>6, <3>1, <4>1
    <3>2. CASE m > i
      <4>1. m - 1 \in DOMAIN t /\ ~(m - 1 < i) /\ (m - 1) + 1 = m
            BY <1>1, <1>4, <1>6, <2>2, <3>2
      <4> QED  BY <1>5, <1>6, <4>1
    <3> QED  BY <1>1, <2>2, <3>1, <3>2
  <2> QED  BY <2>1, <2>2 DEF Acc!ToSet
<1> QED  BY <1>4, <1>7, <1>8

\* A sequence with one element more, element by element.
LEMMA InsertAtHas ==
    ASSUME NEW A, NEW s \in Seq(A), NEW j \in 1..(Len(s) + 1), NEW x \in A, NEW t, t = Acc!InsertAt(s, j, x)
    PROVE  /\ t \in Seq(A) /\ Len(t) = Len(s) + 1
           /\ \A k \in 1..Len(s) : k < j => t[k] = s[k]
           /\ t[j] = x
           /\ \A k \in Nat, l \in j..Len(s) : k = l + 1 => t[k] = s[l]
<1>1. Len(s) \in Nat /\ DOMAIN s = 1..Len(s)
      BY LenProperties
<1>2. PICK n \in Nat : n = Len(s)
      BY <1>1
<1>3. SubSeq(s, 1, j - 1) \in Seq(A) /\ SubSeq(s, j, n) \in Seq(A) /\ <<x>> \in Seq(A)
      BY <1>1, <1>2
<1>4. PICK front \in Seq(A) : front = SubSeq(s, 1, j - 1)
      BY <1>3
<1>5. PICK back \in Seq(A) : back = SubSeq(s, j, n)
      BY <1>3
<1>6. Len(front) = j - 1 /\ \A k \in 1..(j - 1) : front[k] = s[k]
      BY <1>1, <1>2, <1>4
<1>7. Len(back) = n - j + 1 /\ \A k \in 1..(n - j + 1) : back[k] = s[j + k - 1]
      BY <1>1, <1>2, <1>5
<1>8. PICK one \in Seq(A) : one = <<x>>
      BY <1>3
<1>9. Len(one) = 1 /\ one[1] = x
      BY <1>8
<1>10. PICK more : more = front \o one
       OBVIOUS
<1>11. t = more \o back
       BY <1>2, <1>4, <1>5, <1>8, <1>10 DEF Acc!InsertAt
<1>12. j - 1 \in Nat /\ n - j + 1 \in Nat /\ j \in Nat
       BY <1>1, <1>2
<1>a. PICK p \in Nat : p = j - 1
      BY <1>12
<1>b. PICK q \in Nat : q = n - j + 1
      BY <1>12
<1>g. PICK w \in Nat : w = 1
      OBVIOUS
<1>c. p = Len(front) /\ w = Len(one)
      BY <1>6, <1>9, <1>a, <1>g
<1>h. /\ more \in Seq(A) /\ Len(more) = p + w
      /\ \A k \in 1..p : more[k] = front[k]
      /\ \A k \in (p + 1)..(p + w) : more[k] = one[k - p]
      BY <1>10, <1>c, JoinedHas
<1>d. /\ more \in Seq(A) /\ Len(more) = p + 1
      /\ \A k \in 1..p : more[k] = front[k]
      /\ \A k \in (p + 1)..(p + 1) : more[k] = one[k - p]
      BY <1>g, <1>h
<1>13. more \in Seq(A) /\ \A k \in 1..(j - 1) : more[k] = front[k]
       BY <1>a, <1>d
<1>14. Len(more) = j /\ more[j] = x
  <2>1. p + 1 = j /\ j - p = 1 /\ j \in (p + 1)..(p + 1)
        BY <1>12, <1>a
  <2> QED  BY <1>9, <1>d, <2>1
<1>e. j = Len(more) /\ q = Len(back)
      BY <1>7, <1>14, <1>b
<1>f. /\ t \in Seq(A) /\ Len(t) = j + q
      /\ \A k \in 1..j : t[k] = more[k]
      /\ \A k \in (j + 1)..(j + q) : t[k] = back[k - j]
      BY <1>11, <1>12, <1>13, <1>e, JoinedHas
<1>15. /\ t \in Seq(A) /\ Len(t) = j + (n - j + 1)
       /\ \A k \in 1..j : t[k] = more[k]
       /\ \A k \in (j + 1)..(j + (n - j + 1)) : t[k] = back[k - j]
       BY <1>b, <1>f
<1>16. Len(t) = Len(s) + 1
       BY <1>2, <1>12, <1>15
<1>17. ASSUME NEW k \in 1..Len(s), k < j PROVE t[k] = s[k]
  <2>1. k \in 1..j /\ k \in 1..(j - 1)
        BY <1>1, <1>12, <1>17
  <2> QED  BY <1>6, <1>13, <1>15, <2>1
<1>18. t[j] = x
       BY <1>12, <1>14, <1>15
<1>19. ASSUME NEW k \in Nat, NEW l \in j..Len(s), k = l + 1 PROVE t[k] = s[l]
  <2>0. k \in (j + 1)..(Len(s) + 1) /\ k - 1 = l
        BY <1>12, <1>19
  <2>1. k - j \in 1..(n - j + 1) /\ k \in (j + 1)..(j + (n - j + 1))
        BY <1>1, <1>2, <1>12, <2>0
  <2>2. back[k - j] = s[j + (k - j) - 1]
        BY <1>7, <2>1
  <2>3. j + (k - j) - 1 = l
        BY <1>12, <2>0
  <2> QED  BY <1>15, <2>1, <2>2, <2>3
<1> QED  BY <1>15, <1>16, <1>17, <1>18, <1>19

\* Without repetition, it has that element besides.
LEMMA InsertAtIs ==
    ASSUME NEW A, NEW s \in Seq(A), Acc!IsInjective(s), NEW j \in 1..(Len(s) + 1), NEW x \in A,
           x \notin Acc!ToSet(s), NEW t, t = Acc!InsertAt(s, j, x)
    PROVE  t \in Seq(A) /\ Acc!IsInjective(t) /\ Acc!ToSet(t) = Acc!ToSet(s) \cup {x}
<1>1. Len(s) \in Nat /\ DOMAIN s = 1..Len(s)
      BY LenProperties
<1>5. t \in Seq(A) /\ Len(t) = Len(s) + 1
      BY InsertAtHas
<1>a. /\ \A k \in 1..Len(s) : k < j => t[k] = s[k]
      /\ t[j] = x
      /\ \A k \in Nat, l \in j..Len(s) : k = l + 1 => t[k] = s[l]
  <2>1. ASSUME NEW k \in 1..Len(s), k < j PROVE t[k] = s[k]
        BY <2>1, InsertAtHas
  <2> QED  BY <2>1, InsertAtHas
<1>6. ASSUME NEW k \in 1..Len(t)
      PROVE  t[k] = IF k < j THEN s[k] ELSE IF k = j THEN x ELSE s[k - 1]
  <2>1. CASE k < j
        BY <1>1, <2>1, <1>a
  <2>2. CASE k = j
        BY <1>1, <1>a, <2>2
  <2>3. CASE k > j
        BY <1>1, <1>5, <2>3, <1>a
  <2> QED  BY <1>1, <1>5, <2>1, <2>2, <2>3
<1>7. DOMAIN t = 1..Len(t) /\ Len(t) \in Nat
      BY <1>5, LenProperties
<1>p. ASSUME NEW a \in DOMAIN t, a # j PROVE \E m \in DOMAIN s : m = IF a < j THEN a ELSE a - 1
      BY <1>1, <1>5, <1>7, <1>p
<1>9. Acc!IsInjective(t)
  <2>1. ASSUME NEW a \in DOMAIN t, NEW b \in DOMAIN t, t[a] = t[b], a # j, b # j PROVE a = b
    <3>1. PICK m \in DOMAIN s : m = IF a < j THEN a ELSE a - 1
          BY <1>p, <2>1
    <3>2. PICK n \in DOMAIN s : n = IF b < j THEN b ELSE b - 1
          BY <1>p, <2>1
    <3> QED  BY <1>1, <1>6, <1>7, <2>1, <3>1, <3>2 DEF Acc!IsInjective
  <2>2. ASSUME NEW a \in DOMAIN t, a # j PROVE t[a] # x
    <3>1. PICK m \in DOMAIN s : m = IF a < j THEN a ELSE a - 1
          BY <1>p, <2>2
    <3> QED  BY <1>6, <1>7, <2>2, <3>1 DEF Acc!ToSet
  <2> QED  BY <1>1, <1>5, <1>6, <1>7, <2>1, <2>2 DEF Acc!IsInjective
<1>10. Acc!ToSet(t) = Acc!ToSet(s) \cup {x}
  <2>1. ASSUME NEW k \in DOMAIN t PROVE t[k] = x \/ \E m \in DOMAIN s : t[k] = s[m]
    <3>1. CASE k # j
      <4>1. PICK m \in DOMAIN s : m = IF k < j THEN k ELSE k - 1
            BY <1>p, <3>1
      <4> QED  BY <1>6, <1>7, <3>1, <4>1
    <3> QED  BY <1>1, <1>5, <1>6, <1>7, <3>1
  <2>2. \E k \in DOMAIN t : t[k] = x
        BY <1>1, <1>5, <1>6, <1>7
  <2>3. ASSUME NEW m \in DOMAIN s PROVE \E k \in DOMAIN t : t[k] = s[m]
    <3>1. CASE m < j
          BY <1>1, <1>5, <1>6, <1>7, <3>1
    <3>2. CASE ~(m < j)
      <4>1. m + 1 \in DOMAIN t /\ ~(m + 1 < j) /\ m + 1 # j /\ (m + 1) - 1 = m
            BY <1>1, <1>5, <1>7, <3>2
      <4> QED  BY <1>6, <1>7, <4>1
    <3> QED  BY <3>1, <3>2
  <2> QED  BY <2>1, <2>2, <2>3 DEF Acc!ToSet
<1> QED  BY <1>5, <1>9, <1>10

\* A sequence without repetition, and the elements of a set after it.
LEMMA AppendedIs ==
    ASSUME NEW s \in Seq(Wallets), Acc!IsInjective(s), NEW S \in SUBSET Wallets, IsFiniteSet(S),
           S \cap Acc!ToSet(s) = {}, NEW u \in Acc!SetToSeqs(S), NEW t, t = s \o u
    PROVE  /\ t \in Seq(Wallets) /\ Acc!IsInjective(t)
           /\ \A x : x \in Acc!ToSet(t) <=> x \in Acc!ToSet(s) \/ x \in S
<1>1. Cardinality(S) \in Nat /\ Acc!Cardinality(S) = Cardinality(S)
      BY FS_CardinalityType DEF Acc!Cardinality, Cardinality
<1>2. /\ u \in [1..Cardinality(S) -> S]
      /\ \A i, j \in 1..Cardinality(S) : i # j => u[i] # u[j]
      BY <1>1 DEF Acc!SetToSeqs
<1>3. u \in Seq(S) /\ Len(u) = Cardinality(S) /\ DOMAIN u = 1..Len(u)
      BY <1>1, <1>2
<1>4. {u[i] : i \in DOMAIN u} = S
  <2>2. IsFiniteSet(1..Cardinality(S)) /\ Cardinality(1..Cardinality(S)) = Cardinality(S)
    <3>1. PICK c \in Nat : c = Cardinality(S)
          BY <1>1
    <3> QED  BY <3>1, FS_Interval
  <2>3. u \in Surjection(1..Cardinality(S), S)
        BY <1>2, <2>2, FS_Injection DEF Injection, IsInjective
  <2> QED  BY <1>2, <2>3 DEF Surjection
<1>5. /\ u \in Seq(Wallets) /\ t \in Seq(Wallets) /\ Len(t) = Len(s) + Len(u)
      /\ \A k \in 1..Len(s) : t[k] = s[k]
      /\ \A k \in 1..Len(u) : t[Len(s) + k] = u[k]
  <2>1. u \in Seq(Wallets)
        BY <1>3, SeqMonotonic
  <2>2. /\ t \in Seq(Wallets) /\ Len(t) = Len(s) + Len(u)
        /\ \A k \in 1..(Len(s) + Len(u)) : t[k] = IF k <= Len(s) THEN s[k] ELSE u[k - Len(s)]
        BY <2>1, ConcatProperties
  <2>4. ASSUME NEW k \in 1..Len(s) PROVE t[k] = s[k]
        BY <2>1, <2>2, LenProperties
  <2>5. ASSUME NEW k \in 1..Len(u) PROVE t[Len(s) + k] = u[k]
        BY <2>1, <2>2, LenProperties
  <2> QED  BY <2>1, <2>2, <2>4, <2>5
<1>6. Len(s) \in Nat /\ Len(u) \in Nat /\ DOMAIN s = 1..Len(s) /\ DOMAIN t = 1..(Len(s) + Len(u))
      BY <1>3, <1>5, LenProperties
<1>7. ASSUME NEW k \in DOMAIN t
      PROVE  \/ k \in DOMAIN s /\ t[k] = s[k]
             \/ k - Len(s) \in DOMAIN u /\ k \notin DOMAIN s /\ t[k] = u[k - Len(s)]
  <2>1. CASE k <= Len(s)
        BY <1>5, <1>6, <2>1
  <2>2. CASE ~(k <= Len(s))
        BY <1>3, <1>5, <1>6, <2>2
  <2> QED  BY <2>1, <2>2
<1>8. Acc!ToSet(t) = Acc!ToSet(s) \cup S
  <2>3. \A k \in DOMAIN u : Len(s) + k \in DOMAIN t /\ t[Len(s) + k] = u[k]
        BY <1>3, <1>5, <1>6
  <2>5. Acc!ToSet(t) \subseteq Acc!ToSet(s) \cup S
        BY <1>4, <1>7 DEF Acc!ToSet
  <2>6. Acc!ToSet(s) \subseteq Acc!ToSet(t)
        BY <1>5, <1>6 DEF Acc!ToSet
  <2>7. S \subseteq Acc!ToSet(t)
        BY <1>4, <2>3 DEF Acc!ToSet
  <2> QED  BY <2>5, <2>6, <2>7
<1>9. Acc!IsInjective(t)
  <2>1. ASSUME NEW j \in DOMAIN t, NEW k \in DOMAIN t, t[j] = t[k] PROVE j = k
    <3>1. CASE j \in DOMAIN s /\ k \in DOMAIN s
          BY <1>5, <1>6, <2>1, <3>1 DEF Acc!IsInjective
    <3>2. CASE j \notin DOMAIN s /\ k \notin DOMAIN s
          BY <1>2, <1>3, <1>6, <1>7, <2>1, <3>2
    <3>3. ASSUME NEW m \in DOMAIN t, NEW n \in DOMAIN t, m \in DOMAIN s, n \notin DOMAIN s PROVE t[m] # t[n]
      <4>2. t[n] \in S
            BY <1>4, <1>7, <3>3
      <4> QED  BY <1>5, <1>6, <3>3, <4>2 DEF Acc!ToSet
    <3> QED  BY <2>1, <3>1, <3>2, <3>3
  <2> QED  BY <2>1 DEF Acc!IsInjective
<1> QED  BY <1>5, <1>8, <1>9

AccCalls == [to : Wallets, at : {"closing", "storing"}]
AccAdditions == [new : SUBSET Wallets, first : Wallets]
AccThere == Acc!ToSet(accounts)
AccAt(s, where) == selecting[s] # None /\ selecting[s].at = where
AccTypes ==
    /\ accounts \in Seq(Wallets) /\ Acc!IsInjective(accounts)
    /\ states \in SUBSET (Wallets \X NetIds) /\ missed \in SUBSET (Wallets \X NetIds)
    /\ loading \in [NetIds -> SUBSET Wallets]
    /\ enabled \in SUBSET NetIds
    /\ selected \in Wallets \cup {None}
    /\ selecting \in [Acc!Selectors -> {None} \cup AccCalls]
    /\ removing \in [Acc!Removers -> Wallets \cup {None}]
    /\ added \in {None} \cup AccAdditions
    /\ overtaken \in BOOLEAN
\* A call is not made again before its end.
AccOnce ==
    /\ added # None => selecting["added"] = None
    /\ \A by \in Acc!Removers : removing[by] # None => selecting[by] = None
\* Unless an account was removed on its way to be selected.
AccChosen ==
    /\ \A s \in Acc!Selectors : AccAt(s, "closing") => selecting[s].to \in AccThere
    /\ added # None => added.first \in AccThere
    /\ selected # None /\ selected \notin AccThere =>
         \/ \E by \in Acc!Removers : removing[by] = selected
         \/ \E s \in Acc!Selectors : AccAt(s, "closing")
    /\ selected = None /\ AccThere # {} =>
         added # None \/ \E s \in Acc!Selectors : AccAt(s, "closing")
AccHas(n) == <<selected, n>> \in states \cup missed \/ selected \in loading[n]
AccWaits ==
    \/ \E s \in Acc!Selectors : AccAt(s, "storing")
    \/ added # None /\ selected \in added.new
AccServed == selected \in AccThere => AccWaits \/ \A n \in enabled : AccHas(n)
AccInv == AccTypes /\ AccOnce /\ (overtaken \/ AccChosen) /\ AccServed

\* No account is None, and neither is a call or an addition.
LEMMA AccNames ==
    /\ None \notin Wallets /\ None \notin AccCalls /\ None \notin AccAdditions
    /\ Acc!Removers \subseteq Acc!Selectors
    /\ "user" \in Acc!Selectors /\ "added" \in Acc!Selectors
    /\ "added" \notin Acc!Removers /\ "user" \notin Acc!Removers
<1> QED  BY AccAssumed DEF AccCalls, AccAdditions, Acc!Removers, Acc!Selectors

\* The accounts that are there are accounts, and there are none only in the empty sequence.
LEMMA AccThereIs ==
    ASSUME accounts \in Seq(Wallets)
    PROVE  /\ AccThere \subseteq Wallets /\ (accounts = <<>> <=> AccThere = {})
           /\ Acc!First \in Wallets \cup {None}
           /\ (AccThere = {} => Acc!First = None) /\ (AccThere # {} => Acc!First \in AccThere)
<1>1. Len(accounts) \in Nat /\ DOMAIN accounts = 1..Len(accounts)
      BY LenProperties
<1>4. CASE accounts = <<>>
      BY <1>1, <1>4, ElementOfSeq DEF Acc!First, AccThere, Acc!ToSet
<1>5. CASE accounts # <<>>
  <2>3. Head(accounts) \in AccThere
        BY <1>1, <1>5, EmptySeq DEF AccThere, Acc!ToSet
  <2> QED  BY <1>1, <1>5, <2>3, ElementOfSeq DEF Acc!First, AccThere, Acc!ToSet
<1> QED  BY <1>4, <1>5

\* A call that selects an account.
LEMMA AccSelectIs ==
    ASSUME AccTypes, NEW by \in Acc!Selectors, NEW a, Acc!Select(by, a)
    PROVE  /\ selecting' \in [Acc!Selectors -> {None} \cup AccCalls]
           /\ \A s \in Acc!Selectors \ {by} : selecting'[s] = selecting[s]
           /\ a \notin AccThere => selecting' = selecting
           /\ a \in AccThere => /\ selecting'[by] # None /\ selecting'[by].at = "closing"
                                /\ selecting'[by].to = a
<1>1. CASE a \notin AccThere
      BY <1>1 DEF AccTypes, AccThere, Acc!Select
<1>2. CASE a \in AccThere
  <2>1. PICK c : c = [to |-> a, at |-> "closing"]
        OBVIOUS
  <2> QED  BY <1>2, <2>1, AccThereIs, AccNames DEF AccTypes, AccCalls, AccThere, Acc!Select
<1> QED  BY <1>1, <1>2

\* What is asked for is loaded or missed, and nothing that was is lost.
LEMMA AccAskIs ==
    ASSUME AccTypes, NEW accs \in SUBSET Wallets, NEW nets \in SUBSET NetIds, Acc!Ask(accs, nets)
    PROVE  /\ loading' \in [NetIds -> SUBSET Wallets] /\ missed' \in SUBSET (Wallets \X NetIds)
           /\ missed \subseteq missed' /\ \A n \in NetIds : loading[n] \subseteq loading'[n]
           /\ \A a \in accs, n \in nets : a \in loading'[n] \/ <<a, n>> \in missed'
<1>1. /\ loading \in [NetIds -> SUBSET Wallets] /\ missed \in SUBSET (Wallets \X NetIds)
      /\ loading' = [n \in NetIds |-> IF n \in nets /\ loading[n] = {} THEN accs ELSE loading[n]]
      /\ missed' = missed \cup {p \in accs \X nets : loading[p[2]] # {} /\ p[1] \notin loading[p[2]]}
      BY DEF AccTypes, Acc!Ask
<1>4. ASSUME NEW n \in NetIds PROVE loading[n] \subseteq loading'[n]
      BY <1>1
<1>5. ASSUME NEW a \in accs, NEW n \in nets PROVE a \in loading'[n] \/ <<a, n>> \in missed'
  <2>1. CASE loading[n] = {}
        BY <1>1, <2>1
  <2>2. CASE loading[n] # {} /\ a \notin loading[n]
    <3>1. PICK p \in accs \X nets : p = <<a, n>>
          OBVIOUS
    <3> QED  BY <1>1, <2>2, <3>1
  <2>3. CASE a \in loading[n]
        BY <1>4, <2>3
  <2> QED  BY <2>1, <2>2, <2>3
<1> QED  BY <1>1, <1>4, <1>5

\* The same of the account that is selected.
LEMMA AccReloadIs ==
    ASSUME AccTypes, NEW a \in Wallets, NEW nets \in SUBSET NetIds, Acc!Reload(a, nets)
    PROVE  /\ loading' \in [NetIds -> SUBSET Wallets] /\ missed' \in SUBSET (Wallets \X NetIds)
           /\ missed \subseteq missed' /\ \A n \in NetIds : loading[n] \subseteq loading'[n]
           /\ a \in AccThere => \A n \in nets : a \in loading'[n] \/ <<a, n>> \in missed'
<1>1. CASE Acc!Loading
  <2>3. ASSUME NEW n \in nets, a \notin loading[n] PROVE <<a, n>> \in missed'
    <3>1. PICK p \in {a} \X nets : p = <<a, n>>
          OBVIOUS
    <3> QED  BY <1>1, <2>3, <3>1 DEF AccTypes, Acc!Reload
  <2> QED  BY <1>1, <2>3 DEF AccTypes, Acc!Reload
<1>2. CASE ~Acc!Loading
  <2>1. PICK accs \in SUBSET Wallets : accs = {a} \cap AccThere
        OBVIOUS
  <2> QED  BY <1>2, <2>1, AccAskIs DEF Acc!Reload, AccThere
<1> QED  BY <1>1, <1>2

\* Steps that change only what is loaded.
LEMMA AccMoreLoads ==
    ASSUME AccInv, UNCHANGED <<accounts, selected, selecting, removing, added, overtaken>>,
           enabled' \in SUBSET NetIds, states' \in SUBSET (Wallets \X NetIds),
           missed' \in SUBSET (Wallets \X NetIds), loading' \in [NetIds -> SUBSET Wallets],
           selected \in AccThere =>
               \A n \in enabled' : (n \in enabled => AccHas(n)) => AccHas(n)'
    PROVE  AccInv'
<1> QED  BY DEF AccInv, AccTypes, AccOnce, AccChosen, AccThere, AccAt, AccServed, AccWaits

\* Initially.
LEMMA AccInvInit == Acc!Init => AccInv
<1> SUFFICES ASSUME Acc!Init PROVE AccInv
    OBVIOUS
<1>1. /\ accounts \in Seq(Wallets) /\ Acc!IsInjective(accounts)
      BY AccAssumed DEF Acc!Init
<1>2. selected \in (IF accounts = <<>> THEN {None} ELSE AccThere)
      BY DEF Acc!Init, AccThere
<1>8. AccTypes
      BY <1>1, <1>2, AccThereIs, AccAssumed DEF AccTypes, Acc!Init, Acc!InBackground, AccThere
<1>9. (\A s \in Acc!Selectors : selecting[s] = None) /\ (\A by \in Acc!Removers : removing[by] = None)
      BY DEF Acc!Init
<1>11. AccChosen
  <2>1. CASE accounts = <<>>
        BY <1>1, <1>2, <1>9, <2>1, AccThereIs DEF Acc!Init, AccChosen, AccAt
  <2>2. CASE accounts # <<>>
        BY <1>1, <1>2, <1>9, <2>2, AccThereIs, AccNames DEF Acc!Init, AccChosen, AccAt
  <2> QED  BY <2>1, <2>2
<1>12. ASSUME selected \in AccThere, NEW n \in enabled PROVE AccHas(n)
       BY <1>12, AccAssumed DEF AccHas, Acc!InBackground, AccThere, Acc!Init
<1> QED  BY <1>8, <1>9, <1>11, <1>12 DEF AccInv, AccServed, Acc!Init, AccOnce

\* A load that ends, well or not.
LEMMA AccLoadEnds ==
    ASSUME AccInv, NEW n \in NetIds, Acc!LoadArrives(n) \/ Acc!LoadFails(n) PROVE AccInv'
<1> USE DEF Acc!LoadArrives, Acc!LoadFails
<1>1. UNCHANGED <<accounts, selected, selecting, removing, added, overtaken, enabled>>
      OBVIOUS
<1>2. /\ enabled \in SUBSET NetIds /\ loading \in [NetIds -> SUBSET Wallets]
      /\ states \in SUBSET (Wallets \X NetIds) /\ missed \in SUBSET (Wallets \X NetIds)
      BY DEF AccInv, AccTypes
<1>3. PICK more \in SUBSET (Wallets \X NetIds) : more = loading[n] \X {n}
      BY <1>2
<1>5. states' \in SUBSET (Wallets \X NetIds) /\ missed' \in SUBSET (Wallets \X NetIds)
      BY <1>2, <1>3
<1>7. loading' \in [NetIds -> SUBSET Wallets]
      BY <1>2
<1>8. ASSUME selected \in AccThere, NEW m \in enabled', m \in enabled => AccHas(m) PROVE AccHas(m)'
  <2>2. CASE <<selected, m>> \in states \cup missed
        BY <1>1, <1>3, <2>2 DEF AccHas
  <2>3. CASE selected \in loading[m] /\ m = n
        BY <1>1, <1>3, <2>3 DEF AccHas
  <2>4. CASE selected \in loading[m] /\ m # n
        BY <1>1, <1>2, <1>8, <2>4 DEF AccHas
  <2> QED  BY <1>1, <1>2, <1>8, <2>2, <2>3, <2>4 DEF AccHas
<1> HIDE DEF Acc!LoadArrives, Acc!LoadFails
<1> QED  BY <1>1, <1>2, <1>5, <1>7, <1>8, AccMoreLoads

\* What is asked for besides loses nothing.
LEMMA AccAskKeeps ==
    ASSUME AccInv, UNCHANGED <<accounts, selected, selecting, removing, added, overtaken, states>>,
           missed' \in SUBSET (Wallets \X NetIds), loading' \in [NetIds -> SUBSET Wallets],
           missed \subseteq missed', \A n \in NetIds : loading[n] \subseteq loading'[n],
           enabled' \in SUBSET NetIds, 
           selected \in AccThere =>
               \A n \in enabled' \ enabled : selected \in loading'[n] \/ <<selected, n>> \in missed'
    PROVE  AccInv'
<1>2. ASSUME selected \in AccThere, NEW n \in enabled', n \in enabled => AccHas(n) PROVE AccHas(n)'
  <2>1. CASE n \in enabled /\ <<selected, n>> \in states \cup missed
        BY <2>1 DEF AccHas
  <2>2. CASE n \in enabled /\ selected \in loading[n]
        BY <1>2, <2>2 DEF AccHas
  <2>3. CASE n \notin enabled
        BY <1>2, <2>3 DEF AccHas
  <2> QED  BY <1>2, <2>1, <2>2, <2>3 DEF AccHas
<1> QED  BY <1>2, AccMoreLoads DEF AccInv, AccTypes

\* The steps that ask for states.
LEMMA AccAskSteps ==
    ASSUME AccInv, Acc!UpdateAccountStates \/ Acc!OnPopupOpen PROVE AccInv'
<1>1. /\ AccTypes /\ enabled \in SUBSET NetIds /\ accounts \in Seq(Wallets)
      BY DEF AccInv, AccTypes
<1>3. PICK accs \in SUBSET Wallets : Acc!Ask(accs, enabled)
  <2>1. CASE Acc!UpdateAccountStates
        BY <1>1, <2>1, AccThereIs DEF Acc!InBackground, AccThere, Acc!UpdateAccountStates
  <2>2. CASE Acc!OnPopupOpen
        BY <1>1, <2>2, AccThereIs DEF Acc!OnPopupOpen, AccThere
  <2> QED  BY <2>1, <2>2
<1> QED  BY <1>1, <1>3, AccAskKeeps, AccAskIs DEF Acc!UpdateAccountStates, Acc!OnPopupOpen

\* A network that is enabled: its states are missed or asked for.
LEMMA AccEnable == ASSUME AccInv, NEW n \in NetIds, Acc!EnableNetwork(n) PROVE AccInv'
<1>4. CASE selected = None
      BY <1>4, AccAskKeeps, AccThereIs, AccNames DEF Acc!EnableNetwork, Acc!loads, AccInv, AccTypes
<1>5. CASE selected # None
  <2>1. PICK nets \in SUBSET NetIds : nets = {n}
        OBVIOUS
  <2> QED  BY <1>5, <2>1, AccAskKeeps, AccReloadIs DEF Acc!EnableNetwork, AccInv, AccTypes
<1> QED  BY <1>4, <1>5

\* A network that is disabled: none of its states is needed any more.
LEMMA AccDisable == ASSUME AccInv, NEW n \in NetIds, Acc!DisableNetwork(n) PROVE AccInv'
<1> QED  BY AccAskKeeps DEF AccInv, AccTypes, Acc!DisableNetwork, Acc!loads

\* What the types say, part by part.
LEMMA AccTyped ==
    ASSUME AccInv
    PROVE  /\ AccTypes /\ AccOnce /\ AccServed
           /\ accounts \in Seq(Wallets) /\ Acc!IsInjective(accounts) /\ AccThere \subseteq Wallets
           /\ enabled \in SUBSET NetIds /\ selected \in Wallets \cup {None}
           /\ selecting \in [Acc!Selectors -> {None} \cup AccCalls]
           /\ removing \in [Acc!Removers -> Wallets \cup {None}]
           /\ added \in {None} \cup AccAdditions
BY AccThereIs DEF AccInv, AccTypes

\* The user selects an account.
LEMMA AccSelectStep == ASSUME AccInv, NEW a \in Wallets, Acc!SelectAccount(a) PROVE AccInv'
<1>1. /\ AccTypes /\ selecting["user"] = None /\ a \in AccThere /\ Acc!Select("user", a)
      /\ UNCHANGED <<accounts, states, loading, missed, enabled, selected, removing, added, overtaken>>
      BY AccTyped DEF Acc!SelectAccount, AccThere, Acc!loads
<1>2. /\ selecting' \in [Acc!Selectors -> {None} \cup AccCalls]
      /\ \A s \in Acc!Selectors \ {"user"} : selecting'[s] = selecting[s]
      /\ selecting'["user"] # None /\ selecting'["user"].at = "closing" /\ selecting'["user"].to = a
      BY <1>1, AccSelectIs, AccNames
<1>5. AccThere' = AccThere
      BY <1>1 DEF AccThere
<1>6. ASSUME NEW s \in Acc!Selectors
      PROVE  /\ AccAt(s, "closing")' <=> AccAt(s, "closing") \/ s = "user"
             /\ AccAt(s, "storing") => AccAt(s, "storing")'
      BY <1>1, <1>2 DEF AccAt
<1>7. (overtaken \/ AccChosen)'
  <2>1. CASE overtaken
        BY <1>1, <2>1
  <2>2. CASE AccChosen
    <3>1. ASSUME NEW s \in Acc!Selectors, AccAt(s, "closing")' PROVE selecting'[s].to \in AccThere'
      <4>1. CASE s = "user"
            BY <1>1, <1>2, <1>5, <4>1
      <4>2. CASE s # "user"
            BY <1>2, <1>5, <1>6, <2>2, <3>1, <4>2 DEF AccChosen
      <4> QED  BY <4>1, <4>2
    <3> QED  BY <1>1, <1>5, <1>6, <2>2, <3>1, AccNames DEF AccChosen
  <2> QED  BY <2>1, <2>2 DEF AccInv
<1> QED  BY <1>1, <1>2, <1>5, <1>6, <1>7, AccTyped, AccNames DEF AccInv, AccTypes, AccOnce, AccServed,
            AccHas, AccWaits

\* The account is set.
LEMMA AccWindowCloses == ASSUME AccInv, NEW by \in Acc!Selectors, Acc!ActionWindowCloses(by) PROVE AccInv'
<1>1. /\ selecting[by] # None /\ selecting[by].at = "closing" /\ selected' = selecting[by].to
      /\ selecting' = [selecting EXCEPT ![by].at = "storing"]
      /\ UNCHANGED <<accounts, states, loading, missed, enabled, removing, added, overtaken>>
      BY DEF Acc!ActionWindowCloses, Acc!loads
<1>3. PICK c : c = [selecting[by] EXCEPT !.at = "storing"]
      OBVIOUS
<1>11. (overtaken \/ AccChosen)'
  <2>1. CASE overtaken
        BY <1>1, <2>1
  <2>2. CASE AccChosen
    <3>1. ASSUME NEW s \in Acc!Selectors, AccAt(s, "closing")' PROVE selecting'[s].to \in AccThere'
          BY <1>1, <1>3, <2>2, <3>1, AccTyped, AccNames DEF AccChosen, AccAt, AccThere, AccCalls
    <3> QED  BY <1>1, <2>2, <3>1, AccNames, AccTyped DEF AccChosen, AccThere, AccAt, AccCalls
  <2> QED  BY <2>1, <2>2 DEF AccInv
<1> QED  BY <1>1, <1>3, <1>11, AccTyped, AccNames DEF AccInv, AccTypes, AccCalls, AccOnce, AccServed,
            AccWaits, AccAt

\* It is stored, and its states are asked for.
LEMMA AccIsStored == ASSUME AccInv, NEW by \in Acc!Selectors, Acc!SelectedIsStored(by) PROVE AccInv'
<1>1. /\ selecting[by] # None /\ selecting[by].at = "storing"
      /\ selecting' = [selecting EXCEPT ![by] = None]
      /\ UNCHANGED <<accounts, states, enabled, selected, removing, added, overtaken>>
      BY DEF Acc!SelectedIsStored
<1>2. /\ selecting' \in [Acc!Selectors -> {None} \cup AccCalls] /\ selecting'[by] = None
      /\ \A s \in Acc!Selectors \ {by} : selecting'[s] = selecting[s]
      BY <1>1, AccTyped
<1>3. /\ loading' \in [NetIds -> SUBSET Wallets] /\ missed' \in SUBSET (Wallets \X NetIds)
      /\ selected \in AccThere =>
           \A n \in enabled : selected \in loading'[n] \/ <<selected, n>> \in missed'
  <2>1. CASE selected = None
        BY <2>1, AccTyped, AccNames DEF AccInv, AccTypes, Acc!SelectedIsStored, Acc!loads
  <2>2. CASE selected # None
        BY <2>2, AccTyped, AccReloadIs DEF Acc!SelectedIsStored
  <2> QED  BY <2>1, <2>2
<1>7. ASSUME NEW s \in Acc!Selectors PROVE AccAt(s, "closing")' <=> AccAt(s, "closing")
      BY <1>1, <1>2 DEF AccAt
<1>8. ASSUME NEW s \in Acc!Selectors, AccAt(s, "closing") PROVE selecting'[s].to = selecting[s].to
      BY <1>1, <1>2, <1>8 DEF AccAt
<1>9. (overtaken \/ AccChosen)'
  <2>1. CASE overtaken
        BY <1>1, <2>1
  <2>2. CASE AccChosen
        BY <1>1, <1>7, <1>8, <2>2 DEF AccChosen, AccThere
  <2> QED  BY <2>1, <2>2 DEF AccInv
<1> QED  BY <1>1, <1>2, <1>3, <1>9, AccTyped, AccNames DEF AccInv, AccTypes, AccOnce, AccServed, AccHas,
            AccThere

\* An account is removed.
LEMMA AccRemove ==
    ASSUME AccInv, NEW by \in Acc!Removers, NEW a \in Wallets, Acc!RemoveAccount(by, a) PROVE AccInv'
<1>1. /\ removing[by] = None /\ selecting[by] = None /\ (by = "remove" => selecting["user"] = None)
      /\ states' = {p \in states : p[1] # a} /\ removing' = [removing EXCEPT ![by] = a]
      /\ overtaken' = (overtaken \/ Acc!OnItsWay(by, a))
      /\ UNCHANGED <<loading, missed, enabled, selected, selecting, added>>
      BY DEF Acc!RemoveAccount, Acc!MayRemove, Acc!loads
<1>2. PICK i \in DOMAIN accounts : accounts[i] = a /\ accounts' = Acc!RemoveAt(accounts, i)
      BY DEF Acc!RemoveAccount
<1>4. accounts' \in Seq(Wallets) /\ Acc!IsInjective(accounts') /\ AccThere' = AccThere \ {a}
      BY <1>2, AccTyped, RemoveAtIs, LenProperties DEF AccThere
<1>5. /\ removing' \in [Acc!Removers -> Wallets \cup {None}] /\ removing'[by] = a
      /\ \A b \in Acc!Removers \ {by} : removing'[b] = removing[b]
      BY <1>1, AccTyped
<1>6. overtaken' \in BOOLEAN
  <2>1. Acc!OnItsWay(by, a) \in BOOLEAN
        BY DEF Acc!OnItsWay
  <2> QED  BY <1>1, <2>1, Zenon DEF AccInv, AccTypes
<1>10. ASSUME NEW s, NEW where PROVE AccAt(s, where)' <=> AccAt(s, where)
       BY <1>1 DEF AccAt
<1>11. overtaken' \/ AccChosen'
  <2> SUFFICES ASSUME ~overtaken, ~Acc!OnItsWay(by, a) PROVE AccChosen'
      BY <1>1, Zenon
  <2>1. AccChosen
        BY DEF AccInv
  <2>3. ASSUME NEW s \in Acc!Selectors, AccAt(s, "closing") PROVE selecting[s].to # a
        BY <1>1, <2>3, AccTyped DEF AccCalls, AccAt, Acc!OnItsWay
  <2>4. ASSUME NEW s \in Acc!Selectors, AccAt(s, "closing")' PROVE selecting'[s].to \in AccThere'
        BY <1>1, <1>4, <1>10, <2>1, <2>3, <2>4 DEF AccChosen
  <2>6. ASSUME selected # None, selected \notin AccThere'
        PROVE  \/ \E b \in Acc!Removers : removing'[b] = selected
               \/ \E s \in Acc!Selectors : AccAt(s, "closing")'
    <3>1. CASE selected = a
          BY <1>5, <3>1
    <3>2. CASE selected # a /\ \E b \in Acc!Removers : removing[b] = selected
      <4>1. PICK b \in Acc!Removers : removing[b] = selected
            BY <3>2
      <4> QED  BY <1>1, <1>5, <2>6, <4>1
    <3>3. CASE \E s \in Acc!Selectors : AccAt(s, "closing")
          BY <1>10, <3>3
    <3> QED  BY <1>4, <2>1, <2>6, <3>1, <3>2, <3>3 DEF AccChosen
  <2>7. ASSUME selected = None, AccThere' # {}
        PROVE  added # None \/ \E s \in Acc!Selectors : AccAt(s, "closing")'
        BY <1>4, <1>10, <2>1, <2>7 DEF AccChosen
  <2> QED  BY <1>1, <1>4, <2>1, <2>4, <2>6, <2>7 DEF AccChosen, Acc!OnItsWay
<1>12. AccServed'
  <2> SUFFICES ASSUME selected \in AccThere', ~AccWaits', NEW n \in enabled PROVE AccHas(n)'
      BY <1>1 DEF AccServed
  <2>4. <<selected, n>> \in states => <<selected, n>> \in states'
    <3>1. PICK p : p = <<selected, n>>
          OBVIOUS
    <3> QED  BY <1>1, <1>4, <3>1
  <2> QED  BY <1>1, <1>4, <1>10, <2>4, AccTyped DEF AccHas, AccServed, AccWaits
<1> QED  BY <1>1, <1>4, <1>5, <1>6, <1>11, <1>12, AccTyped, AccNames DEF AccInv, AccOnce, AccTypes

\* Its data are removed, and another account is about to be selected if it was the selected one.
LEMMA AccActivity ==
    ASSUME AccInv, NEW by \in Acc!Removers, Acc!ActivityIsRemoved(by) PROVE AccInv'
<1>1. /\ removing[by] # None /\ removing' = [removing EXCEPT ![by] = None]
      /\ UNCHANGED <<accounts, states, loading, missed, enabled, added, overtaken>>
      BY DEF Acc!ActivityIsRemoved, Acc!loads
<1>2. /\ removing' \in [Acc!Removers -> Wallets \cup {None}] /\ removing'[by] = None
      /\ \A b \in Acc!Removers \ {by} : removing'[b] = removing[b]
      BY <1>1, AccTyped
<1>3. AccThere' = AccThere
      BY <1>1 DEF AccThere
<1>4. selecting[by] = None /\ by \in Acc!Selectors
      BY <1>1, AccTyped, AccNames DEF AccOnce
<1>5. CASE selected # removing[by]
  <2>1. selected' = selected /\ selecting' = selecting
        BY <1>5 DEF Acc!ActivityIsRemoved, Acc!Reselects
  <2>4. ASSUME NEW s, NEW where PROVE AccAt(s, where)' <=> AccAt(s, where)
        BY <2>1 DEF AccAt
  <2>5. ASSUME \E b \in Acc!Removers : removing[b] = selected
        PROVE  \E b \in Acc!Removers : removing'[b] = selected
    <3>1. PICK b \in Acc!Removers : removing[b] = selected
          BY <2>5
    <3> QED  BY <1>2, <1>5, <3>1
  <2>6. (overtaken \/ AccChosen)'
    <3>1. CASE overtaken
          BY <1>1, <3>1
    <3>2. CASE AccChosen
          BY <1>1, <1>3, <2>1, <2>4, <2>5, <3>2 DEF AccChosen
    <3> QED  BY <3>1, <3>2 DEF AccInv
  <2> QED  BY <1>1, <1>2, <1>3, <2>1, <2>4, <2>6, AccTyped DEF AccInv, AccTypes, AccOnce, AccServed,
              AccWaits, AccHas
<1>6. CASE selected = removing[by]
  <2>1. /\ selected' = (IF Acc!First = None THEN None ELSE selected) /\ Acc!Select(by, Acc!First)
        BY <1>6 DEF Acc!ActivityIsRemoved, Acc!Reselects
  <2>2. /\ selecting' \in [Acc!Selectors -> {None} \cup AccCalls]
        /\ \A s \in Acc!Selectors \ {by} : selecting'[s] = selecting[s]
        /\ Acc!First \notin AccThere => selecting' = selecting
        /\ Acc!First \in AccThere => /\ selecting'[by] # None /\ selecting'[by].at = "closing"
                                     /\ selecting'[by].to = Acc!First
        BY <1>4, <2>1, AccTyped, AccSelectIs
  <2>4. AccTypes'
        BY <1>1, <1>2, <2>1, <2>2, AccTyped DEF AccInv, AccTypes
  <2>5. AccOnce'
        BY <1>1, <1>2, <2>2, AccTyped, AccNames DEF AccOnce
  <2>6. AccWaits => selected' = None \/ AccWaits'
    <3>1. ASSUME NEW s \in Acc!Selectors, AccAt(s, "storing") PROVE AccAt(s, "storing")'
          BY <1>4, <2>2, <3>1 DEF AccAt
    <3> QED  BY <1>1, <2>1, <3>1 DEF AccWaits
  <2>7. CASE AccThere = {}
    <3>2. (overtaken \/ AccChosen)'
      <4>1. CASE overtaken
            BY <1>1, <4>1
      <4>2. CASE AccChosen
            BY <1>1, <1>3, <2>1, <2>2, <2>7, <4>2, AccTyped, AccThereIs DEF AccChosen, AccAt
      <4> QED  BY <4>1, <4>2 DEF AccInv
    <3> QED  BY <1>3, <2>4, <2>5, <2>7, <3>2 DEF AccInv, AccServed
  <2>8. CASE AccThere # {}
    <3>1. Acc!First \in AccThere /\ Acc!First # None /\ selected' = selected
          BY <2>1, <2>8, AccTyped, AccThereIs, AccNames
    <3>3. (overtaken \/ AccChosen)'
      <4>1. CASE overtaken
            BY <1>1, <4>1
      <4>2. CASE AccChosen
        <5>1. ASSUME NEW s \in Acc!Selectors, AccAt(s, "closing")' PROVE selecting'[s].to \in AccThere'
          <6>1. CASE s = by
                BY <1>3, <2>2, <3>1, <6>1 DEF AccAt
          <6>2. CASE s # by
                BY <1>3, <2>2, <4>2, <5>1, <6>2 DEF AccChosen, AccAt
          <6> QED  BY <6>1, <6>2
        <5> QED  BY <1>1, <1>3, <1>4, <2>2, <3>1, <4>2, <5>1 DEF AccChosen, AccAt
      <4> QED  BY <4>1, <4>2 DEF AccInv
    <3>5. AccWaits => AccWaits'
          BY <1>1, <1>6, <2>6, <3>1
    <3> QED  BY <1>1, <1>3, <2>4, <2>5, <3>1, <3>3, <3>5, AccTyped DEF AccInv, AccServed, AccHas
  <2> QED  BY <2>7, <2>8
<1> QED  BY <1>5, <1>6

\* Accounts are added.
LEMMA AccAdd ==
    ASSUME AccInv, NEW accs \in SUBSET Wallets, NEW first \in accs, Acc!AddAccounts(accs, first)
    PROVE  AccInv'
<1>1. /\ added = None /\ selecting["added"] = None
      /\ UNCHANGED <<states, loading, missed, enabled, selected, selecting, removing, overtaken>>
      BY DEF Acc!AddAccounts, Acc!loads
<1>2. PICK new \in SUBSET Wallets : new = accs \ AccThere
      OBVIOUS
<1>3. PICK s \in Acc!SetToSeqs(new) : accounts' = accounts \o s
      BY <1>2 DEF Acc!AddAccounts, AccThere
<1>5. IsFiniteSet(new) /\ new \cap AccThere = {}
      BY <1>2, AccAssumed, FS_Subset
<1>6. accounts' \in Seq(Wallets) /\ Acc!IsInjective(accounts') /\ AccThere' = AccThere \cup new
  <2>1. PICK t : t = accounts \o s
        OBVIOUS
  <2>3. t \in Seq(Wallets) /\ Acc!IsInjective(t) /\ Acc!ToSet(t) = Acc!ToSet(accounts) \cup new
    <3>3. \A x : x \in Acc!ToSet(t) <=> x \in Acc!ToSet(accounts) \/ x \in new
          BY <1>5, <2>1, AppendedIs, AccTyped DEF AccThere
    <3> QED  BY <1>5, <2>1, <3>3, AppendedIs, AccTyped DEF AccThere
  <2> QED  BY <1>3, <2>1, <2>3 DEF AccThere
<1>7. added' \in AccAdditions /\ added' # None /\ added'.new = new /\ added'.first = first
      BY <1>2, AccNames DEF AccAdditions, Acc!AddAccounts, AccThere
<1>10. ASSUME NEW s0, NEW where PROVE AccAt(s0, where)' <=> AccAt(s0, where)
       BY <1>1 DEF AccAt
<1>12. (overtaken \/ AccChosen)'
  <2>1. CASE overtaken
        BY <1>1, <2>1
  <2>2. CASE AccChosen
        BY <1>1, <1>2, <1>6, <1>7, <1>10, <2>2 DEF AccChosen
  <2> QED  BY <2>1, <2>2 DEF AccInv
<1>13. AccServed'
  <2>1. CASE selected \in new
        BY <1>1, <1>7, <2>1 DEF AccServed, AccWaits
  <2>2. CASE selected \notin new
        BY <1>1, <1>6, <1>10, <2>2, AccTyped DEF AccServed, AccHas, AccWaits
  <2> QED  BY <2>1, <2>2
<1> QED  BY <1>1, <1>6, <1>7, <1>12, <1>13, AccTyped DEF AccInv, AccTypes, AccOnce

\* They are stored, one is about to be selected, and the states of the new ones are asked for.
LEMMA AccStored == ASSUME AccInv, Acc!AddedAreStored PROVE AccInv'
<1>1. /\ added # None /\ added' = None /\ Acc!Select("added", added.first)
      /\ UNCHANGED <<accounts, states, enabled, selected, removing, overtaken>>
      /\ added \in AccAdditions /\ selecting["added"] = None
      BY AccTyped DEF Acc!AddedAreStored, AccOnce
<1>3. /\ selecting' \in [Acc!Selectors -> {None} \cup AccCalls]
      /\ \A s \in Acc!Selectors \ {"added"} : selecting'[s] = selecting[s]
      /\ added.first \notin AccThere => selecting' = selecting
      /\ added.first \in AccThere => /\ selecting'["added"] # None
                                     /\ selecting'["added"].at = "closing"
                                     /\ selecting'["added"].to = added.first
      BY <1>1, AccTyped, AccSelectIs, AccNames
<1>4. /\ loading' \in [NetIds -> SUBSET Wallets] /\ missed' \in SUBSET (Wallets \X NetIds)
      /\ missed \subseteq missed' /\ \A n \in NetIds : loading[n] \subseteq loading'[n]
      /\ \A a \in added.new, n \in enabled : a \in loading'[n] \/ <<a, n>> \in missed'
  <2>1. CASE added.new = {}
        BY <2>1 DEF Acc!AddedAreStored, Acc!loads, AccInv, AccTypes
  <2>2. CASE added.new # {}
        BY <1>1, <2>2, AccTyped, AccAskIs DEF AccAdditions, Acc!AddedAreStored
  <2> QED  BY <2>1, <2>2
<1>7. AccThere' = AccThere
      BY <1>1 DEF AccThere
<1>8. (overtaken \/ AccChosen)'
  <2>1. CASE overtaken
        BY <1>1, <2>1
  <2>2. CASE AccChosen
    <3>2. ASSUME NEW s \in Acc!Selectors, AccAt(s, "closing")' PROVE selecting'[s].to \in AccThere'
      <4>1. CASE s = "added"
            BY <1>1, <1>3, <1>7, <2>2, <4>1 DEF AccAt, AccChosen
      <4>2. CASE s # "added"
            BY <1>3, <1>7, <2>2, <3>2, <4>2 DEF AccChosen, AccAt
      <4> QED  BY <4>1, <4>2
    <3> QED  BY <1>1, <1>3, <1>7, <2>2, <3>2, AccNames DEF AccChosen, AccAt
  <2> QED  BY <2>1, <2>2 DEF AccInv
<1>9. AccServed'
  <2> SUFFICES ASSUME selected \in AccThere, ~AccWaits', NEW n \in enabled PROVE AccHas(n)'
      BY <1>1, <1>7 DEF AccServed
  <2>1. ASSUME NEW s \in Acc!Selectors, AccAt(s, "storing") PROVE AccAt(s, "storing")'
        BY <1>1, <1>3, <2>1 DEF AccAt
  <2>2. CASE selected \in added.new
        BY <1>1, <1>4, <2>2 DEF AccHas
  <2>3. CASE selected \notin added.new
        BY <1>1, <1>4, <2>1, <2>3, AccTyped DEF AccHas, AccServed, AccWaits
  <2> QED  BY <2>2, <2>3
<1> QED  BY <1>1, <1>3, <1>4, <1>8, <1>9, AccTyped, AccNames DEF AccInv, AccTypes, AccOnce

\* Their order is changed.
LEMMA AccReorder ==
    ASSUME AccInv, NEW i \in 1..Len(accounts), NEW j \in 1..Len(accounts), Acc!ReorderAccounts(i, j)
    PROVE  AccInv'
<1>2. PICK x \in Wallets : x = accounts[i]
      BY AccTyped, ElementOfSeq
<1>3. PICK rest : rest = Acc!RemoveAt(accounts, i)
      OBVIOUS
<1>4. rest \in Seq(Wallets) /\ Acc!IsInjective(rest) /\ Acc!ToSet(rest) = AccThere \ {x}
      BY <1>2, <1>3, AccTyped, RemoveAtIs DEF AccThere
<1>5. Len(rest) = Len(accounts) - 1
      BY <1>3, AccTyped, RemoveAtHas DEF Acc!RemoveAt, Without
<1>9. accounts' \in Seq(Wallets) /\ Acc!IsInjective(accounts') /\ AccThere' = (AccThere \ {x}) \cup {x}
      BY <1>2, <1>3, <1>4, <1>5, InsertAtIs, AccTyped, LenProperties DEF AccThere, Acc!ReorderAccounts
<1>10. x \in AccThere
       BY <1>2, AccTyped, LenProperties DEF AccThere, Acc!ToSet
<1>15. AccServed'
       BY <1>9, <1>10, AccTyped DEF AccServed, AccWaits, AccAt, AccHas, Acc!ReorderAccounts, Acc!loads
<1> QED  BY <1>9, <1>10, <1>15, AccTyped DEF AccInv, AccTypes, AccOnce, AccChosen, AccAt,
            Acc!ReorderAccounts, Acc!loads

\* Every step.
LEMMA AccInvNext == AccInv /\ Acc!Next => AccInv'
<1> SUFFICES ASSUME AccInv, Acc!Next PROVE AccInv'
    OBVIOUS
<1>1. ASSUME NEW n \in NetIds,
             Acc!LoadArrives(n) \/ Acc!LoadFails(n) \/ Acc!EnableNetwork(n) \/ Acc!DisableNetwork(n)
      PROVE  AccInv'
      BY <1>1, AccLoadEnds, AccEnable, AccDisable
<1>2. ASSUME Acc!UpdateAccountStates \/ Acc!OnPopupOpen PROVE AccInv'
      BY <1>2, AccAskSteps
<1>3. ASSUME NEW a \in Wallets, Acc!SelectAccount(a) PROVE AccInv'
      BY <1>3, AccSelectStep
<1>4. ASSUME NEW a \in Wallets, NEW by \in Acc!Removers, Acc!RemoveAccount(by, a) PROVE AccInv'
      BY <1>4, AccRemove
<1>5. ASSUME NEW by \in Acc!Selectors, Acc!ActionWindowCloses(by) \/ Acc!SelectedIsStored(by) PROVE AccInv'
      BY <1>5, AccWindowCloses, AccIsStored
<1>6. ASSUME NEW by \in Acc!Removers, Acc!ActivityIsRemoved(by) PROVE AccInv'
      BY <1>6, AccActivity
<1>7. ASSUME NEW accs \in SUBSET Wallets, NEW first \in accs, Acc!AddAccounts(accs, first) PROVE AccInv'
      BY <1>7, AccAdd
<1>8. ASSUME NEW i \in 1..Len(accounts), NEW j \in 1..Len(accounts), Acc!ReorderAccounts(i, j) PROVE AccInv'
      BY <1>8, AccReorder
<1> QED  BY <1>1, <1>2, <1>3, <1>4, <1>5, <1>6, <1>7, <1>8, AccStored DEF Acc!Next

\* What the accounts promise.
LEMMA AccKeeps ==
    AccInv => Acc!TypeOK /\ Acc!QuietSelectedIsAdded /\ Acc!QuietSelectedHasState
<1> SUFFICES ASSUME AccInv PROVE Acc!TypeOK /\ Acc!QuietSelectedIsAdded /\ Acc!QuietSelectedHasState
    OBVIOUS
<1>2. ASSUME Acc!Quiet
      PROVE  /\ added = None /\ \A s \in Acc!Selectors : \A where : ~AccAt(s, where)
             /\ \A by \in Acc!Removers : removing[by] = None
      BY <1>2 DEF Acc!Quiet, AccAt
<1>3. Acc!QuietSelectedIsAdded
  <2> SUFFICES ASSUME Acc!Quiet, ~overtaken
               PROVE  IF accounts = <<>> THEN selected = None ELSE selected \in AccThere
      BY DEF Acc!QuietSelectedIsAdded, AccThere
  <2> QED  BY <1>2, AccTyped, AccThereIs DEF AccChosen, AccInv
<1>4. Acc!QuietSelectedHasState
  <2> SUFFICES ASSUME Acc!Quiet, ~Acc!Loading, selected \in AccThere, NEW n \in enabled
               PROVE  <<selected, n>> \in states \cup missed
      BY DEF Acc!QuietSelectedHasState, AccThere
  <2> QED  BY <1>2, AccTyped DEF AccHas, Acc!Loading, AccServed, AccWaits
<1> QED  BY <1>3, <1>4, AccTyped DEF AccTypes, AccThere, Acc!TypeOK

-----------------------------------------------------------------------------
(* AccountPicker.  Unless a session ended while a page of it was retrieved,  *)
(* one page at most is retrieved, of the session and of the page that the    *)
(* session is at, and what is picked is of the session: its keys are those   *)
(* that the key iterator makes now.  A key that was not stored was refused.   *)

PickCalls == [source : PickSources, path : Paths, page : 1..LastPage, auto : BOOLEAN,
              at : {"retrieving", "linking", "selected"}]
PickTypes ==
    /\ source \in PickSources \cup {None} /\ path \in Paths \cup {None} /\ page \in 1..LastPage
    /\ source # None => path \in Paths
    /\ derived \in SUBSET Pick!Accounts /\ picked \in SUBSET Pick!Accounts
    /\ pageCalls \in SUBSET PickCalls
    /\ ready \in [accounts : SUBSET Pick!Accounts, keys : SUBSET Pick!Accounts]
    /\ addCall \in {None, "relayer", "accounts", "keys", "stuck"}
    /\ addCall # None => keystoreReady = TRUE /\ source # None
    /\ leaving \in Pick!Sessions \cup {None}
\* The page that is retrieved.
PickPage ==
    /\ \A c \in pageCalls : c.at = "retrieving" =>
         /\ accountsLoading = TRUE /\ c.source = source /\ c.path = path /\ c.page = page
         /\ \A d \in pageCalls : d.at = "retrieving" => d = c
    /\ derived \subseteq {[source |-> source, path |-> path, page |-> page]}
    /\ \A a \in picked : a.source = source /\ a.path = path
\* The keys of the accounts.
PickKeys ==
    /\ ready.accounts \subseteq ready.keys
    /\ addedAccounts \subseteq addedKeys \cup refused \cup (IF addCall = "keys" THEN ready.keys ELSE {})
PickInv == PickTypes /\ (crossed \/ (PickPage /\ PickKeys))

\* A page is asked for.
LEMMA PickLoadIs ==
    ASSUME NEW d, d.source \in PickSources, d.path \in Paths, NEW n \in 1..LastPage,
           NEW others \in SUBSET PickCalls, NEW auto \in BOOLEAN, Pick!Load(d, n, others, auto),
           source' = d.source, path' = d.path
    PROVE  /\ page' \in 1..LastPage /\ derived' \in SUBSET Pick!Accounts /\ pageCalls' \in SUBSET PickCalls
           /\ (\A c \in others : c.at # "retrieving") /\ (\A a \in picked' : a.source = source' /\ a.path = path')
                => PickPage'
<1>1. PICK new : new = [source |-> d.source, path |-> d.path, page |-> n, auto |-> auto, at |-> "retrieving"]
      OBVIOUS
<1>4. ASSUME \A c \in others : c.at # "retrieving", \A a \in picked' : a.source = source' /\ a.path = path'
      PROVE  PickPage'
      BY <1>1, <1>4 DEF PickPage, PickCalls, Pick!Load
<1> QED  BY <1>1, <1>4 DEF PickCalls, Pick!Load

\* The parts of the invariant that a step leaves alone.
LEMMA PickFrame ==
    /\ PickInv => PickTypes
    /\ PickPage /\ UNCHANGED <<source, path, page, derived, accountsLoading, pageCalls, picked>> => PickPage'
    /\ PickKeys /\ UNCHANGED <<ready, addCall, addedAccounts, addedKeys, refused>> => PickKeys'
BY DEF PickInv, PickPage, PickKeys

\* The user asks for a page, of the session or of another template.
LEMMA PickSetPage == ASSUME PickInv, NEW n \in 1..LastPage, Pick!SetPage(n) PROVE PickInv'
<1>6. ASSUME PickPage PROVE PickPage'
      BY <1>6, PickLoadIs DEF PickPage, PickTypes, PickInv, Pick!Here, Pick!SetPage, Pick!isPageLocked,
         Pick!session, Pick!adding, Pick!keystore, Pick!outcome
<1> QED  BY <1>6, PickFrame, PickLoadIs DEF PickInv, PickTypes, Pick!Here, Pick!SetPage, Pick!isPageLocked,
            Pick!session, Pick!adding, Pick!keystore, Pick!outcome

\* Another path for the addresses: the first page of it is asked for.
LEMMA PickTemplate == ASSUME PickInv, NEW p \in Paths, Pick!SetHDPathTemplate(p) PROVE PickInv'
<1>1. /\ source # None /\ ~accountsLoading /\ path' = p /\ picked' = {}
      /\ UNCHANGED <<source, ready, addCall, onReady, keystoreReady, leaving, addedAccounts, addedKeys, refused, crossed>>
      BY DEF Pick!SetHDPathTemplate, Pick!AfterTemplate, Pick!isPageLocked, Pick!adding, Pick!keystore, Pick!outcome
<1>3. PICK d : d = [source |-> source, path |-> p]
      OBVIOUS
<1>5. /\ page' \in 1..LastPage /\ derived' \in SUBSET Pick!Accounts /\ pageCalls' \in SUBSET PickCalls
      /\ (\A c \in pageCalls : c.at # "retrieving") /\ (\A a \in picked' : a.source = source' /\ a.path = path')
           => PickPage'
  <2>1. /\ d.source \in PickSources /\ d.path \in Paths /\ pageCalls \in SUBSET PickCalls /\ 1 \in 1..LastPage
        /\ source' = d.source /\ path' = d.path
        BY <1>1, <1>3, PickAssumed DEF PickTypes, PickInv, Pick!SetHDPathTemplate
  <2> QED  BY <1>3, <2>1, PickLoadIs DEF Pick!SetHDPathTemplate
<1>7. ASSUME PickPage PROVE PickPage'
      BY <1>1, <1>5, <1>7 DEF PickPage
<1> QED  BY <1>1, <1>5, <1>7, PickFrame DEF PickInv, PickTypes

\* What becomes of a call when its page is there or fails.
LEMMA PickSearchIs ==
    ASSUME PickTypes, NEW c \in pageCalls, NEW accs, Pick!Search(c, accs)
    PROVE  /\ pageCalls' \in SUBSET PickCalls
           /\ \A d \in pageCalls' : d.at = "retrieving" => d \in pageCalls \ {c}
<1>1. CASE accs = {} \/ c.auto
      BY <1>1 DEF PickTypes, Pick!Search
<1>2. CASE ~(accs = {} \/ c.auto)
  <2>1. PICK e : e = [c EXCEPT !.at = "linking"]
        OBVIOUS
  <2> QED  BY <1>2, <2>1 DEF PickTypes, PickCalls, Pick!Search
<1> QED  BY <1>1, <1>2

\* The accounts of a page come, for the session that asked or for a later one.
LEMMA PickRetrieved == ASSUME PickInv, NEW c \in pageCalls, Pick!AccountsRetrieved(c) PROVE PickInv'
<1>1. PICK a : a = [source |-> c.source, path |-> c.path, page |-> c.page]
      OBVIOUS
<1>2. /\ c.at = "retrieving" /\ derived' = {a} /\ Pick!Search(c, {a}) /\ accountsLoading' = FALSE
      /\ picked' \in {picked} \cup {picked \cup {a} : x \in {source} \ {None}}
      /\ UNCHANGED <<source, path, page, ready, addCall, onReady, keystoreReady, leaving, addedAccounts,
                     addedKeys, refused, crossed>>
      BY <1>1 DEF Pick!AccountsRetrieved, Pick!session, Pick!adding, Pick!keystore, Pick!outcome
<1>3. PickTypes
      BY DEF PickInv
<1>6. /\ pageCalls' \in SUBSET PickCalls
      /\ \A d \in pageCalls' : d.at = "retrieving" => d \in pageCalls \ {c}
      BY <1>2, <1>3, PickSearchIs
<1>8. ASSUME PickPage PROVE PickPage'
      BY <1>1, <1>2, <1>3, <1>6, <1>8 DEF PickPage, PickTypes, PickCalls, Pick!Accounts
<1> QED  BY <1>1, <1>2, <1>3, <1>6, <1>8, PickFrame DEF PickInv, PickTypes, PickCalls, Pick!Accounts

\* The accounts of a page do not come.
LEMMA PickFails == ASSUME PickInv, NEW c \in pageCalls, Pick!RetrievalFails(c) PROVE PickInv'
<1>5. ASSUME PickPage PROVE PickPage'
      BY <1>5, PickSearchIs DEF PickPage, PickInv, Pick!RetrievalFails, Pick!session, Pick!adding
<1> QED  BY <1>5, PickFrame, PickSearchIs DEF PickInv, PickTypes, Pick!RetrievalFails, Pick!session,
            Pick!adding, Pick!keystore, Pick!outcome

\* The search for linked accounts ends.
LEMMA PickLinked ==
    ASSUME PickInv, NEW c \in pageCalls, Pick!LinkedArrive(c) \/ Pick!SearchFails(c) PROVE PickInv'
<1> QED  BY PickFrame DEF PickInv, PickTypes, Pick!LinkedArrive, Pick!SearchFails, Pick!session,
            Pick!adding, Pick!keystore, Pick!outcome, PickPage

\* Accounts are selected and deselected.
LEMMA PickSelectStep ==
    ASSUME PickInv, NEW a, (a \in derived /\ Pick!SelectAccount(a)) \/ Pick!DeselectAccount(a) PROVE PickInv'
<1>1. /\ picked' = picked \ {a} \/ (a \in derived /\ picked' = picked \cup {a})
      /\ UNCHANGED <<source, path, page, derived, accountsLoading, pageCalls, ready, addCall, onReady,
                     keystoreReady, leaving, addedAccounts, addedKeys, refused, crossed>>
  <2>1. CASE Pick!SelectAccount(a)
        BY <2>1 DEF Pick!SelectAccount, Pick!session, Pick!shown, Pick!adding, Pick!keystore, Pick!outcome
  <2>2. CASE Pick!DeselectAccount(a)
        BY <2>2 DEF Pick!DeselectAccount, Pick!session, Pick!shown, Pick!adding, Pick!keystore, Pick!outcome
  <2> QED  BY <2>1, <2>2
<1>3. ASSUME PickPage PROVE PickPage'
      BY <1>1, <1>3 DEF PickPage
<1> QED  BY <1>1, <1>3, PickFrame DEF PickInv, PickTypes

\* The page that was asked for to select the next account is there.
LEMMA PickNext == ASSUME PickInv, NEW c \in pageCalls, Pick!NextAccount(c) PROVE PickInv'
<1>1. PICK a : a = [source |-> c.source, path |-> c.path, page |-> c.page]
      OBVIOUS
<1>2. /\ c.at = "retrieving"
      /\ UNCHANGED <<source, path, ready, addCall, onReady, keystoreReady, leaving, addedAccounts,
                     addedKeys, refused, crossed>>
      BY DEF Pick!NextAccount, Pick!session, Pick!adding, Pick!keystore, Pick!outcome
<1>3. PickTypes
      BY DEF PickInv
<1>5. CASE a \in addedAccounts /\ a \in addedKeys
  <2>1. /\ c.page < LastPage /\ source # None /\ picked' = picked
        /\ Pick!Load(Pick!Here, c.page + 1, pageCalls \ {c}, TRUE)
        BY <1>1, <1>5 DEF Pick!NextAccount
  <2>3. c.page + 1 \in 1..LastPage
        BY <1>3, <2>1, PickAssumed DEF PickTypes, PickCalls
  <2>4. /\ Pick!Here.source \in PickSources /\ Pick!Here.path \in Paths /\ pageCalls \ {c} \in SUBSET PickCalls
        /\ source' = Pick!Here.source /\ path' = Pick!Here.path
        BY <1>2, <1>3, <2>1 DEF PickTypes, Pick!Here
  <2>7. ASSUME PickPage PROVE PickPage'
        BY <1>2, <2>1, <2>3, <2>4, <2>7, PickLoadIs DEF PickPage
  <2> QED  BY <1>2, <1>3, <2>1, <2>3, <2>4, <2>7, PickFrame, PickLoadIs DEF PickInv, PickTypes
<1>6. CASE ~(a \in addedAccounts /\ a \in addedKeys)
  <2>1. PICK e : e = [c EXCEPT !.at = "selected"]
        OBVIOUS
  <2>2. /\ derived' = {a} /\ accountsLoading' = FALSE /\ page' = page
        /\ picked' = (IF source = None THEN picked ELSE picked \cup {a})
        /\ pageCalls' = (pageCalls \ {c}) \cup {e}
        BY <1>1, <1>6, <2>1 DEF Pick!NextAccount
  <2>4. PickTypes'
        BY <1>1, <1>2, <1>3, <2>1, <2>2 DEF PickTypes, PickCalls, Pick!Accounts
  <2>5. ASSUME PickPage PROVE PickPage'
        BY <1>1, <1>2, <1>3, <2>1, <2>2, <2>5 DEF PickPage, PickCalls, PickTypes, Pick!Accounts
  <2> QED  BY <1>2, <2>4, <2>5, PickFrame DEF PickInv
<1> QED  BY <1>5, <1>6

\* An addition begins, by a click, by init, or when the keystore is ready.
LEMMA PickAdd ==
    ASSUME PickInv, Pick!AddAccounts \/ Pick!KeystoreIsReady \/ \E c \in pageCalls : Pick!AutoAdd(c)
    PROVE  PickInv'
<1>1. /\ pageCalls' \subseteq pageCalls
      /\ UNCHANGED <<source, path, page, derived, accountsLoading, picked, ready, leaving, addedAccounts,
                     addedKeys, refused, crossed>>
      BY DEF Pick!AddAccounts, Pick!KeystoreIsReady, Pick!AutoAdd, Pick!session, Pick!shown, Pick!outcome
<1>3. /\ addCall' \in {None, "relayer", "accounts", "keys", "stuck"} /\ (addCall' # None => keystoreReady' = TRUE /\ source # None)
      /\ addCall' = addCall \/ (addCall' = "relayer" /\ addCall # "keys")
  <2>1. /\ addCall \in {None, "relayer", "accounts", "keys", "stuck"} /\ (addCall # None => keystoreReady = TRUE /\ source # None)
        BY DEF PickInv, PickTypes
  <2>2. CASE Pick!AddAccounts
        BY <2>1, <2>2, PickAssumed DEF Pick!AddAccounts, Pick!BeginAdd, Pick!keystore
  <2>3. CASE Pick!KeystoreIsReady
        BY <2>1, <2>3, PickAssumed DEF Pick!KeystoreIsReady
  <2>4. CASE \E c \in pageCalls : Pick!AutoAdd(c)
        BY <2>1, <2>4, PickAssumed DEF Pick!AutoAdd, Pick!BeginAdd, Pick!MustWait, Pick!keystore
  <2> QED  BY <2>2, <2>3, <2>4
<1>6. PickKeys => PickKeys'
      BY <1>1, <1>3 DEF PickKeys
<1> QED  BY <1>1, <1>3, <1>6 DEF PickInv, PickTypes, PickPage

\* The steps of an addition.
LEMMA PickIdentities == ASSUME PickInv, Pick!IdentitiesCreated PROVE PickInv'
<1>1. /\ addCall = "relayer" /\ addCall' = "accounts" /\ picked' = {}
      /\ ready' = [accounts |-> picked, keys |-> {Pick!KeyOf(a) : a \in picked}]
      /\ UNCHANGED <<source, path, page, derived, accountsLoading, pageCalls, keystoreReady, leaving,
                     addedAccounts, addedKeys, refused, crossed>>
      BY DEF Pick!IdentitiesCreated, Pick!AddStep, Pick!AddKeeps, Pick!session, Pick!shown, Pick!keystore,
         Pick!outcome
<1>2. PickTypes
      BY DEF PickInv
<1>4. ASSUME NEW a \in picked PROVE Pick!KeyOf(a) \in Pick!Accounts
      BY <1>1, <1>2, PickAssumed DEF Pick!KeyOf, Pick!Accounts, PickTypes
<1>5. ASSUME NEW a \in picked, a.source = source, a.path = path PROVE Pick!KeyOf(a) = a
      BY <1>2, <1>5 DEF Pick!KeyOf, Pick!Accounts, PickTypes
<1>6. PICK made : made = {Pick!KeyOf(a) : a \in picked}
      OBVIOUS
<1>12. PickPage => picked \subseteq made
  <2>1. ASSUME PickPage, NEW a \in picked PROVE a \in made
        BY <1>5, <1>6, <2>1 DEF PickPage
  <2> QED  BY <2>1
<1>14. crossed' \/ (PickPage' /\ PickKeys')
  <2>1. CASE crossed
        BY <1>1, <2>1
  <2>2. CASE PickPage /\ PickKeys
        BY <1>1, <1>6, <1>12, <2>2 DEF PickPage, PickKeys
  <2> QED  BY <2>1, <2>2 DEF PickInv
<1> QED  BY <1>1, <1>2, <1>4, <1>6, <1>14, PickAssumed DEF PickInv, PickTypes

\* The keystore is locked or unlocked.
LEMMA PickLock == ASSUME PickInv, Pick!LockKeystore \/ Pick!UnlockKeystore PROVE PickInv'
<1>1. UNCHANGED <<source, path, page, derived, accountsLoading, pageCalls, picked, ready, addCall,
                  keystoreReady, leaving, addedAccounts, addedKeys, refused, crossed>>
      BY DEF Pick!LockKeystore, Pick!UnlockKeystore, Pick!session, Pick!shown, Pick!outcome
<1> QED  BY <1>1 DEF PickInv, PickTypes, PickPage, PickKeys

\* The steps that add the accounts that were picked, and their keys, which a locked keystore refuses.
LEMMA PickAdding ==
    ASSUME PickInv,
           Pick!RelayerFails \/ Pick!AccountsAdded \/ Pick!KeysAdded \/ Pick!KeysRefused \/ Pick!SeedRefused
    PROVE  PickInv'
<1>1. /\ addCall # None
      /\ UNCHANGED <<source, path, page, derived, accountsLoading, pageCalls, picked, ready, keystoreReady,
                     crossed>>
      /\ leaving' = leaving \/ leaving' = None
      /\ addCall' \in {None, "accounts", "keys", "stuck"}
      BY PickAssumed DEF Pick!RelayerFails, Pick!AccountsAdded, Pick!KeysAdded, Pick!KeysRefused,
         Pick!SeedRefused, Pick!Refused, Pick!AddStep, Pick!AddKeeps, Pick!session, Pick!shown, Pick!keystore
<1>3. PickTypes'
      BY <1>1 DEF PickInv, PickTypes
<1>5. PickKeys => PickKeys'
  <2> SUFFICES ASSUME PickKeys PROVE PickKeys'
      OBVIOUS
  <2>1. CASE Pick!RelayerFails
        BY <1>1, <2>1, PickAssumed DEF PickKeys, Pick!RelayerFails, Pick!AddStep, Pick!outcome
  <2>2. CASE Pick!AccountsAdded
        BY <1>1, <2>2 DEF PickKeys, Pick!AccountsAdded, Pick!AddStep
  <2>3. CASE Pick!KeysAdded
        BY <1>1, <2>3 DEF PickKeys, Pick!KeysAdded, Pick!AddStep
  <2>4. CASE Pick!KeysRefused \/ Pick!SeedRefused
        BY <1>1, <2>4 DEF PickKeys, Pick!KeysRefused, Pick!SeedRefused, Pick!Refused, Pick!AddStep
  <2> QED  BY <2>1, <2>2, <2>3, <2>4
<1> QED  BY <1>1, <1>3, <1>5 DEF PickInv, PickPage

\* Another session begins, at once or after an addition.
LEMMA PickBegin ==
    ASSUME PickInv, NEW s \in Pick!Sessions, ~Pick!MustWait, Pick!Begin(s) PROVE PickInv'
<1>1. /\ source' = s.source /\ path' = s.path /\ picked' = {} /\ ready' = Pick!NotReady /\ leaving' = None
      /\ crossed' = (crossed \/ pageCalls # {})
      /\ addCall' = None /\ addCall # "keys"
      /\ UNCHANGED <<keystoreReady, addedAccounts, addedKeys, refused>>
      BY PickAssumed DEF Pick!Begin, Pick!MustWait, Pick!keystore, Pick!outcome
<1>2. /\ s.source \in PickSources \cup {None} /\ s.path \in Paths \cup {None} /\ s.auto \in BOOLEAN
      /\ s.source # None \/ s.auto => s.source \in PickSources /\ s.path \in Paths
  <2>1. CASE s \in [source : PickSources, path : Paths, auto : BOOLEAN]
        BY <2>1
  <2>2. CASE s = [source |-> None, path |-> None, auto |-> FALSE]
        BY <2>2
  <2> QED  BY <2>1, <2>2 DEF Pick!Sessions
<1>3. PickTypes /\ 1 \in 1..LastPage
      BY PickAssumed DEF PickInv
<1>4. /\ page' \in 1..LastPage /\ derived' \in SUBSET Pick!Accounts /\ pageCalls' \in SUBSET PickCalls
      /\ pageCalls = {} => PickPage'
  <2>1. CASE s.auto
        BY <1>1, <1>2, <1>3, <2>1, PickLoadIs DEF Pick!Begin, PickTypes
  <2>2. CASE ~s.auto
        BY <1>1, <1>3, <2>2 DEF PickTypes, PickPage, Pick!Begin
  <2> QED  BY <2>1, <2>2
<1> QED  BY <1>1, <1>2, <1>3, <1>4, PickAssumed DEF PickInv, PickTypes, Pick!NotReady, PickKeys

\* The user leaves, and another session is opened.
LEMMA PickSessions == ASSUME PickInv, Pick!Left \/ \E s \in Pick!Sessions : Pick!Open(s) PROVE PickInv'
<1>1. CASE Pick!Left
      BY <1>1, PickBegin DEF Pick!Left, PickInv, PickTypes
<1>2. ASSUME NEW s \in Pick!Sessions, Pick!Open(s) PROVE PickInv'
  <2>1. CASE ~Pick!MustWait
        BY <1>2, <2>1, PickBegin DEF Pick!Open
  <2>2. CASE Pick!MustWait
        BY <1>2, <2>2, PickFrame DEF PickInv, Pick!Open, Pick!session, Pick!shown, Pick!keystore,
           Pick!outcome, PickTypes
  <2> QED  BY <2>1, <2>2
<1> QED  BY <1>1, <1>2

\* Initially, and in every step.
LEMMA PickInvInit == Pick!Init => PickInv
<1> SUFFICES ASSUME Pick!Init PROVE PickInv
    OBVIOUS
<1> QED  BY PickAssumed DEF PickInv, Pick!Init, PickTypes, Pick!NotReady, PickPage, PickKeys

\* Every step.
LEMMA PickInvNext == PickInv /\ Pick!Next => PickInv'
<1> SUFFICES ASSUME PickInv, Pick!Next PROVE PickInv'
    OBVIOUS
<1>1. ASSUME \E n \in 1..LastPage : Pick!SetPage(n) PROVE PickInv'
      BY <1>1, PickSetPage
<1>2. ASSUME \E p \in Paths : Pick!SetHDPathTemplate(p) PROVE PickInv'
      BY <1>2, PickTemplate
<1>3. ASSUME NEW c \in pageCalls,
             \/ Pick!AccountsRetrieved(c) \/ Pick!RetrievalFails(c) \/ Pick!LinkedArrive(c)
             \/ Pick!SearchFails(c) \/ Pick!NextAccount(c)
      PROVE  PickInv'
      BY <1>3, PickRetrieved, PickFails, PickLinked, PickNext
<1>4. ASSUME Pick!AddAccounts \/ Pick!KeystoreIsReady \/ \E c \in pageCalls : Pick!AutoAdd(c) PROVE PickInv'
      BY <1>4, PickAdd
<1>5. ASSUME (\E a \in derived : Pick!SelectAccount(a)) \/ \E a \in picked : Pick!DeselectAccount(a) PROVE PickInv'
      BY <1>5, PickSelectStep
<1>6. ASSUME Pick!RelayerFails \/ Pick!AccountsAdded \/ Pick!KeysAdded \/ Pick!KeysRefused \/ Pick!SeedRefused
      PROVE  PickInv'
      BY <1>6, PickAdding
<1>7. ASSUME Pick!Left \/ \E s \in Pick!Sessions : Pick!Open(s) PROVE PickInv'
      BY <1>7, PickSessions
<1> QED  BY <1>1, <1>2, <1>3, <1>4, <1>5, <1>6, <1>7, PickIdentities, PickLock DEF Pick!Next

\* What the picker promises.
LEMMA PickKeeps == PickInv => Pick!TypeOK /\ Pick!AddedHaveTheirKeys /\ Pick!QuietPageIsShown
<1> QED  BY PickAssumed DEF PickInv, PickTypes, Pick!TypeOK, PickKeys, Pick!AddedHaveTheirKeys,
            Pick!MustWait, PickPage, Pick!QuietPageIsShown

-----------------------------------------------------------------------------
(* The portfolio.  What is known of a network is told by its two states, its *)
(* queue and what was asked for last, and by the object that the account     *)
(* has.                                                                      *)

PfStages == {"queued", "get", "answered", "done"}
PfEntry == [ops : Pf!Ops, sim : Pf!Ops, seen : Pf!Ops, force : BOOLEAN, again : BOOLEAN, on : Nat,
            latest : PfStages, pending : PfStages]
PfAsk == [ops : Pf!Ops, sim : Pf!Ops, sure : BOOLEAN]

\* The pending state p is what the ask a was for, or has an error.
PfFits(p, a) == p = None \/ p.error \/ p.ops = a.ops \/ p.ops = a.sim
\* Only the first update of a queue q runs, for an object; with a light client, both halves of it
\* are kept as the latest state.
PfQueue(lit, p, q) ==
    /\ \A i \in DOMAIN q :
          /\ i # 1 => q[i].latest = "queued"
          /\ q[i].latest = "queued" <=> q[i].pending = "queued"
          /\ "get" \in {q[i].latest, q[i].pending} => q[i].on # 0
    /\ lit => p = None
\* A state is marked as loading by the update that runs, for the object o; when one half of it was
\* answered, the state that both write is not.
PfLoads(o, lit, l, p, q) ==
    /\ l # None /\ l.loading => /\ q # <<>> /\ q[1].on = o
                                /\ q[1].latest = "get" \/ (lit /\ q[1].pending = "get")
    /\ p # None /\ p.loading => q # <<>> /\ q[1].on = o /\ q[1].pending = "get"
    /\ lit /\ q # <<>> /\ "answered" \in {q[1].latest, q[1].pending} => l = None \/ ~l.loading
\* What a call was sure to get is what the last update of the queue asks for, unless it was there
\* before, and is there once that is answered.
PfSure(o, p, q, a) ==
    LET e == q[Len(q)]
    IN /\ q = <<>> => PfFits(p, a)
       /\ q # <<>> =>
             /\ e.ops = a.ops /\ e.sim = a.sim /\ (e.force \/ Len(q) = 1)
             /\ e.latest = "queued" /\ ~e.force /\ e.ops = e.seen => PfFits(p, a)
             /\ e.latest # "queued" /\ e.pending = "get" => e.on = o \/ p = None
             /\ e.latest # "queued" /\ e.pending # "get" => PfFits(p, a)
PfAsked(o, p, q, a) ==
    /\ p # None \/ q # <<>> => a # None
    /\ a # None /\ a.sure => PfSure(o, p, q, a)
PfKnown(o, l, p, q, a) ==
    /\ o \in Nat
    /\ l \in Pf!States \cup {None} /\ p \in Pf!States \cup {None}
    /\ q \in Seq(PfEntry) /\ a \in PfAsk \cup {None}
    /\ o = 0 => l = None /\ p = None

PfOk(o, lit, l, p, q, a) ==
    PfKnown(o, l, p, q, a) /\ PfQueue(lit, p, q) /\ PfLoads(o, lit, l, p, q) /\ PfAsked(o, p, q, a)

\* The first entry of a queue, when there is one.
LEMMA PfFirst ==
    ASSUME NEW q \in Seq(PfEntry)
    PROVE  /\ DOMAIN q = 1..Len(q) /\ Len(q) \in Nat /\ \A i \in DOMAIN q : q[i] \in PfEntry
           /\ q # <<>> => 1 \in DOMAIN q /\ Len(q) \in DOMAIN q /\ Len(q) >= 1
           /\ q = <<>> => Len(q) = 0 /\ DOMAIN q = {}
<1> QED  BY EmptySeq, LenProperties, ElementOfSeq

\* An account that is removed, or a network that is, has no states.
LEMMA PfForgotten ==
    ASSUME NEW o, NEW lit, NEW l, NEW p, NEW q, NEW a, PfOk(o, lit, l, p, q, a), NEW n \in Nat
    PROVE  PfOk(n, lit, None, None, q, a)
<1> QED  BY DEF PfOk, PfKnown, PfQueue, PfLoads, PfAsked, PfSure, PfFits

\* What becomes old is otherwise as it was.
LEMMA PfOldIs ==
    ASSUME NEW s \in Pf!States \cup {None}
    PROVE  /\ Pf!Old(s) \in Pf!States \cup {None} /\ (Pf!Old(s) = None <=> s = None)
           /\ s # None => /\ Pf!Old(s).loading = s.loading /\ Pf!Old(s).error = s.error
                          /\ Pf!Old(s).ops = s.ops
<1>1. CASE s = None
      BY <1>1 DEF Pf!Old
<1>2. CASE s # None
      BY <1>2, PfAssumed DEF Pf!States, Pf!Old
<1> QED  BY <1>1, <1>2

\* Time passes.
LEMMA PfAged ==
    ASSUME NEW o, NEW lit, NEW l, NEW p, NEW q, NEW a, PfOk(o, lit, l, p, q, a)
    PROVE  PfOk(o, lit, Pf!Old(l), Pf!Old(p), q, a)
<1>1. PICK l1 : l1 = Pf!Old(l)
      OBVIOUS
<1>2. PICK p1 : p1 = Pf!Old(p)
      OBVIOUS
<1> QED  BY <1>1, <1>2, PfOldIs DEF PfOk, PfKnown, PfQueue, PfLoads, PfAsked, PfSure, PfFits

\* A call queues an update.
LEMMA PfCalled ==
    ASSUME NEW o, NEW lit, NEW l, NEW p, NEW q, NEW a, PfOk(o, lit, l, p, q, a),
           NEW ops \in Pf!Ops, NEW sim \in Pf!Ops, NEW force \in BOOLEAN, NEW e, NEW b,
           e = [ops |-> ops, sim |-> sim, seen |-> Pf!OpsOf(p), force |-> force, again |-> FALSE, on |-> 0,
                latest |-> "queued", pending |-> "queued"],
           b = [ops |-> ops, sim |-> sim, sure |-> force \/ q = <<>>]
    PROVE  PfOk(o, lit, l, p, Append(q, e), b)
<1>1. PfKnown(o, l, p, q, a) /\ PfQueue(lit, p, q) /\ PfLoads(o, lit, l, p, q) /\ PfAsked(o, p, q, a)
      BY DEF PfOk
<1>3. Pf!OpsOf(p) \in Pf!Ops
  <2>1. CASE p = None
        BY <2>1 DEF Pf!OpsOf, Pf!Ops
  <2>2. CASE p # None
        BY <1>1, <2>2 DEF PfKnown, Pf!OpsOf, Pf!States
  <2> QED  BY <2>1, <2>2
<1>5. PICK t : t = Append(q, e)
      OBVIOUS
<1>6. /\ t \in Seq(PfEntry) /\ Len(t) = Len(q) + 1 /\ t[Len(q) + 1] = e
      /\ \A i \in 1..Len(q) : t[i] = q[i]
      BY <1>1, <1>3, <1>5, AppendProperties DEF PfKnown, PfEntry, PfStages
<1>7. /\ DOMAIN q = 1..Len(q) /\ Len(q) \in Nat
      /\ q # <<>> => 1 \in DOMAIN q /\ Len(q) >= 1
      /\ q = <<>> => Len(q) = 0
      BY <1>1, PfFirst DEF PfKnown
<1>8. DOMAIN t = 1..Len(t) /\ Len(t) # 0 /\ t # <<>>
      BY <1>6, <1>7, PfFirst
<1>11. b \in PfAsk /\ b # None /\ b.ops = ops /\ b.sim = sim /\ (b.sure = (force \/ q = <<>>))
  <2>1. b \in PfAsk /\ b.ops = ops /\ b.sim = sim /\ (b.sure = (force \/ q = <<>>))
        BY DEF PfAsk
  <2> QED  BY <2>1, PfAssumed DEF PfAsk
<1>13. PfQueue(lit, p, t)
  <2>1. ASSUME NEW i \in DOMAIN t
        PROVE  /\ i # 1 => t[i].latest = "queued"
               /\ t[i].latest = "queued" <=> t[i].pending = "queued"
               /\ "get" \in {t[i].latest, t[i].pending} => t[i].on # 0
    <3>1. CASE i \in DOMAIN q
          BY <1>1, <1>6, <1>7, <3>1 DEF PfQueue
    <3>2. CASE i \notin DOMAIN q
          BY <1>6, <1>7, <1>8, <3>2
    <3> QED  BY <3>1, <3>2
  <2> QED  BY <1>1, <2>1 DEF PfQueue
<1>14. PfLoads(o, lit, l, p, t)
  <2>1. CASE q # <<>>
        BY <1>1, <1>6, <1>7, <1>8, <2>1 DEF PfLoads
  <2>2. CASE q = <<>>
        BY <1>1, <1>6, <1>7, <1>8, <2>2 DEF PfLoads
  <2> QED  BY <2>1, <2>2
<1>15. ASSUME b.sure PROVE PfSure(o, p, t, b)
       BY <1>6, <1>7, <1>8, <1>11, <1>15 DEF PfSure, PfFits, Pf!OpsOf
<1> QED  BY <1>1, <1>5, <1>6, <1>11, <1>13, <1>14, <1>15 DEF PfOk, PfKnown, PfAsked

\* The first update of a queue goes on.
LEMMA PfPut ==
    ASSUME NEW q \in Seq(PfEntry), q # <<>>, NEW r \in PfEntry, NEW t, t = [q EXCEPT ![1] = r]
    PROVE  /\ t \in Seq(PfEntry) /\ Len(t) = Len(q) /\ t # <<>> /\ DOMAIN t = DOMAIN q
           /\ t[1] = r /\ \A i \in DOMAIN q : i # 1 => t[i] = q[i]
<1> QED  BY ExceptSeq, PfFirst

\* What must be seen to in a step of that update.
PfGoes(o, lit, l, p, q, a, r, l1, p1, t) ==
    /\ PfOk(o, lit, l, p, q, a) /\ q # <<>> /\ t = [q EXCEPT ![1] = r]
    /\ r \in PfEntry /\ r.ops = q[1].ops /\ r.sim = q[1].sim /\ r.force = q[1].force
    /\ r.latest # "queued" /\ r.pending # "queued"
    /\ "get" \in {r.latest, r.pending} => r.on # 0
    /\ l1 \in Pf!States \cup {None} /\ p1 \in Pf!States \cup {None}
    /\ o = 0 => l1 = None /\ p1 = None
    /\ lit => p1 = None
    /\ l1 # None /\ l1.loading => r.on = o /\ (r.latest = "get" \/ (lit /\ r.pending = "get"))
    /\ p1 # None /\ p1.loading => r.on = o /\ r.pending = "get"
    /\ lit /\ "answered" \in {r.latest, r.pending} => l1 = None \/ ~l1.loading
    /\ a # None /\ a.sure /\ Len(q) = 1 =>
          IF r.pending = "get" THEN r.on = o \/ p1 = None ELSE PfFits(p1, a)

\* Such a step keeps the invariant.
LEMMA PfRuns ==
    ASSUME NEW o, NEW lit, NEW l, NEW p, NEW q, NEW a, NEW r, NEW l1, NEW p1, NEW t,
           PfGoes(o, lit, l, p, q, a, r, l1, p1, t)
    PROVE  PfOk(o, lit, l1, p1, t, a)
<1>0. q # <<>> /\ t = [q EXCEPT ![1] = r]
      BY DEF PfGoes
<1>1. PfKnown(o, l, p, q, a) /\ PfQueue(lit, p, q) /\ PfLoads(o, lit, l, p, q) /\ PfAsked(o, p, q, a)
      BY DEF PfOk, PfGoes
<1>3. /\ t \in Seq(PfEntry) /\ Len(t) = Len(q) /\ t # <<>> /\ DOMAIN t = DOMAIN q
      /\ t[1] = r /\ \A i \in DOMAIN q : i # 1 => t[i] = q[i]
      BY <1>0, <1>1, PfPut DEF PfGoes, PfKnown
<1>6. PfQueue(lit, p1, t)
  <2>1. ASSUME NEW i \in DOMAIN t
        PROVE  /\ i # 1 => t[i].latest = "queued"
               /\ t[i].latest = "queued" <=> t[i].pending = "queued"
               /\ "get" \in {t[i].latest, t[i].pending} => t[i].on # 0
    <3>1. CASE i = 1
          BY <1>3, <3>1 DEF PfGoes
    <3>2. CASE i # 1
          BY <1>1, <1>3, <3>2 DEF PfQueue
    <3> QED  BY <3>1, <3>2
  <2> QED  BY <2>1 DEF PfQueue, PfGoes
<1>8. a # None
      BY <1>0, <1>1 DEF PfAsked
<1>9. ASSUME a.sure PROVE PfSure(o, p1, t, a)
  <2>2. CASE Len(q) = 1
        BY <1>0, <1>1, <1>3, <1>8, <1>9, <2>2 DEF PfSure, PfGoes, PfAsked
  <2>3. CASE Len(q) # 1
        BY <1>0, <1>1, <1>3, <1>8, <1>9, <2>3, PfFirst DEF PfSure, PfKnown, PfQueue, PfAsked
  <2> QED  BY <2>2, <2>3
<1> QED  BY <1>1, <1>3, <1>6, <1>8, <1>9 DEF PfOk, PfKnown, PfGoes, PfLoads, PfAsked

\* What the invariant says of the update that runs.
LEMMA PfRunning ==
    ASSUME NEW o, NEW lit, NEW l, NEW p, NEW q, NEW a, PfOk(o, lit, l, p, q, a), q # <<>>
    PROVE  /\ q[1] \in PfEntry /\ l \in Pf!States \cup {None} /\ p \in Pf!States \cup {None} /\ o \in Nat
           /\ o = 0 => l = None /\ p = None
           /\ lit => p = None
           /\ q[1].latest = "queued" <=> q[1].pending = "queued"
           /\ "get" \in {q[1].latest, q[1].pending} => q[1].on # 0
           /\ l # None /\ l.loading => q[1].on = o /\ (q[1].latest = "get" \/ (lit /\ q[1].pending = "get"))
           /\ p # None /\ p.loading => q[1].on = o /\ q[1].pending = "get"
           /\ lit /\ "answered" \in {q[1].latest, q[1].pending} => l = None \/ ~l.loading
           /\ a # None /\ a.sure /\ Len(q) = 1 =>
                 /\ q[1].ops = a.ops /\ q[1].sim = a.sim
                 /\ q[1].latest = "queued" /\ ~q[1].force /\ q[1].ops = q[1].seen => PfFits(p, a)
                 /\ q[1].latest # "queued" /\ q[1].pending = "get" => q[1].on = o \/ p = None
                 /\ q[1].latest # "queued" /\ q[1].pending # "get" => PfFits(p, a)
<1>4. ASSUME a # None, a.sure, Len(q) = 1
      PROVE  /\ q[1].ops = a.ops /\ q[1].sim = a.sim
             /\ q[1].latest = "queued" /\ ~q[1].force /\ q[1].ops = q[1].seen => PfFits(p, a)
             /\ q[1].latest # "queued" /\ q[1].pending = "get" => q[1].on = o \/ p = None
             /\ q[1].latest # "queued" /\ q[1].pending # "get" => PfFits(p, a)
      BY <1>4 DEF PfSure, PfAsked, PfOk
<1> QED  BY <1>4, PfFirst DEF PfKnown, PfQueue, PfLoads, PfOk

\* A state that an update begins with.
LEMMA PfStartedIs ==
    ASSUME NEW s \in Pf!States \cup {None}, NEW force \in BOOLEAN
    PROVE  /\ Pf!Started(s, force) \in Pf!States /\ Pf!Started(s, force) # None
           /\ Pf!CanSkip(s, force) => s # None /\ ~force
<1>1. PICK n : n = IF s = None THEN Pf!New ELSE s
      OBVIOUS
<1> QED  BY <1>1, PfAssumed DEF Pf!CanSkip, Pf!States, Pf!Started, Pf!New, Pf!Ops

\* How an update starts: first the one half and then the other, unless they are left out.
PfStartAs(o, lit, l, p, q, a, force, first, there1, before, second, there2, l1, p1, r, t) ==
    /\ PfOk(o, lit, l, p, q, a) /\ q # <<>> /\ lit \in BOOLEAN
    /\ q[1].latest = "queued"
    /\ force \in BOOLEAN /\ force = (q[1].force \/ q[1].ops # q[1].seen)
    /\ first \in BOOLEAN /\ first = (o # 0 /\ ~Pf!CanSkip(l, force))
    /\ there1 = IF first THEN Pf!Started(l, force) ELSE l
    /\ before = IF lit THEN there1 ELSE p
    /\ second \in BOOLEAN /\ second = (o # 0 /\ ~Pf!CanSkip(before, force))
    /\ there2 = IF second THEN Pf!Started(before, force) ELSE before
    /\ l1 = IF lit THEN there2 ELSE there1
    /\ p1 = IF lit THEN p ELSE there2
    /\ r = [q[1] EXCEPT !.on = o, !.latest = IF first THEN "get" ELSE "done",
                      !.pending = IF second THEN "get" ELSE "done"]
    /\ t = [q EXCEPT ![1] = r]

\* An update starts.
LEMMA PfStarts ==
    ASSUME NEW o, NEW lit, NEW l, NEW p, NEW q, NEW a, NEW force, NEW first, NEW there1, NEW before, NEW second,
           NEW there2, NEW l1, NEW p1, NEW r, NEW t,
           PfStartAs(o, lit, l, p, q, a, force, first, there1, before, second, there2, l1, p1, r, t)
    PROVE  PfOk(o, lit, l1, p1, t, a)
<1>0. /\ PfOk(o, lit, l, p, q, a) /\ q # <<>> /\ lit \in BOOLEAN
      /\ q[1].latest = "queued"
      /\ force \in BOOLEAN /\ force = (q[1].force \/ q[1].ops # q[1].seen)
      /\ first \in BOOLEAN /\ first = (o # 0 /\ ~Pf!CanSkip(l, force))
      /\ there1 = IF first THEN Pf!Started(l, force) ELSE l
      /\ before = IF lit THEN there1 ELSE p
      /\ second \in BOOLEAN /\ second = (o # 0 /\ ~Pf!CanSkip(before, force))
      /\ there2 = IF second THEN Pf!Started(before, force) ELSE before
      /\ l1 = IF lit THEN there2 ELSE there1
      /\ p1 = IF lit THEN p ELSE there2
      /\ r = [q[1] EXCEPT !.on = o, !.latest = IF first THEN "get" ELSE "done",
                      !.pending = IF second THEN "get" ELSE "done"]
      /\ t = [q EXCEPT ![1] = r]
      BY DEF PfStartAs
<1>a. before = (IF lit THEN there1 ELSE p) /\ p1 = (IF lit THEN p ELSE there2) /\ q[1].latest = "queued"
      BY ONLY <1>0
<1> USE <1>0
<1>1. /\ q[1] \in PfEntry /\ l \in Pf!States \cup {None} /\ p \in Pf!States \cup {None} /\ o \in Nat
      /\ o = 0 => l = None /\ p = None
      /\ lit => p = None
      /\ q[1].latest = "queued" <=> q[1].pending = "queued"
      /\ l # None /\ l.loading => (q[1].latest = "get" \/ (lit /\ q[1].pending = "get"))
      /\ p # None /\ p.loading => q[1].pending = "get"
      /\ a # None /\ a.sure /\ Len(q) = 1 =>
            (q[1].latest = "queued" /\ ~q[1].force /\ q[1].ops = q[1].seen => PfFits(p, a))
  <2>1. PfOk(o, lit, l, p, q, a) /\ q # <<>>
        OBVIOUS
  <2> QED  BY ONLY <2>1, PfRunning
<1>2. (l # None => ~l.loading) /\ (p # None => ~p.loading)
      BY <1>1
<1>3. /\ r \in PfEntry /\ r.ops = q[1].ops /\ r.sim = q[1].sim /\ r.force = q[1].force /\ r.on = o
      /\ r.latest = (IF first THEN "get" ELSE "done") /\ r.pending = (IF second THEN "get" ELSE "done")
      BY <1>1 DEF PfEntry, PfStages
<1>4. /\ there1 \in Pf!States \cup {None}
      /\ first => there1 # None
      /\ ~first => there1 = l
      BY <1>1, PfStartedIs
<1>5. before \in Pf!States \cup {None}
      BY <1>1, <1>4
<1>6. /\ there2 \in Pf!States \cup {None}
      /\ ~second => there2 = before
      BY <1>5, PfStartedIs
<1>7. /\ l1 \in Pf!States \cup {None} /\ p1 \in Pf!States \cup {None}
      /\ o = 0 => l1 = None /\ p1 = None
      /\ lit => p1 = None
      BY <1>1, <1>4, <1>6
<1>8. l1 # None /\ l1.loading => r.on = o /\ (r.latest = "get" \/ (lit /\ r.pending = "get"))
  <2>1. CASE first
        BY <1>3, <2>1
  <2>2. CASE lit /\ second
        BY <1>3, <2>2
  <2>3. CASE ~first /\ ~(lit /\ second)
    <3>1. l1 = l
          BY <1>4, <1>6, <2>3
    <3> QED  BY <1>2, <3>1
  <2> QED  BY <2>1, <2>2, <2>3
<1>9. p1 # None /\ p1.loading => r.on = o /\ r.pending = "get"
  <2>1. CASE second
        BY <1>3, <2>1
  <2>2. CASE ~second
    <3>1. p1 = p
          BY <1>6, <2>2
    <3> QED  BY <1>2, <3>1
  <2> QED  BY <2>1, <2>2
<1>10. "answered" \notin {r.latest, r.pending} /\ r.latest # "queued" /\ r.pending # "queued"
       BY ONLY <1>3
<1>11. "get" \in {r.latest, r.pending} => r.on # 0
  <2>1. "get" \in {r.latest, r.pending} => first \/ second
        BY ONLY <1>3
  <2>2. first \/ second => o # 0
        OBVIOUS
  <2> QED  BY <1>3, <2>1, <2>2
<1>12. ASSUME a # None, a.sure, Len(q) = 1
       PROVE  IF r.pending = "get" THEN r.on = o \/ p1 = None ELSE PfFits(p1, a)
  <2>1. ~q[1].force /\ q[1].ops = q[1].seen => PfFits(p, a)
        BY ONLY <1>a, <1>1, <1>12
  <2>2. CASE second
        BY <1>3, <2>2
  <2>3. CASE ~second
    <3>1. r.pending # "get" /\ p1 = p
          BY ONLY <1>a, <1>3, <1>6, <2>3
    <3>2. PfFits(p, a)
      <4>1. CASE o = 0 \/ lit
            BY <1>1, <4>1 DEF PfFits
      <4>2. CASE o # 0 /\ ~lit
        <5>1. Pf!CanSkip(p, force)
              BY <2>3, <4>2
        <5>2. ~force
              BY <1>1, <5>1, PfStartedIs
        <5>3. ~q[1].force /\ q[1].ops = q[1].seen
              BY <5>2
        <5> QED  BY <2>1, <5>3 DEF PfFits
      <4> QED  BY <4>1, <4>2
    <3> QED  BY <3>1, <3>2
  <2> QED  BY <2>2, <2>3
<1>13. PfGoes(o, lit, l, p, q, a, r, l1, p1, t)
       BY <1>3, <1>7, <1>8, <1>9, <1>10, <1>11, <1>12 DEF PfGoes
<1> QED  BY ONLY <1>13, PfRuns

\* How the answer s to a half of an update is kept.
PfAnswerAs(o, lit, l, p, q, a, half, s, l1, p1, r, t) ==
    /\ PfOk(o, lit, l, p, q, a) /\ q # <<>> /\ lit \in BOOLEAN
    /\ half \in {"latest", "pending"} /\ q[1][half] = "get"
    /\ s = [Pf!New EXCEPT !.recent = TRUE, !.ops = IF half = "pending" THEN q[1].sim ELSE None]
    /\ l1 = IF (half = "latest" \/ lit) /\ q[1].on = o THEN s ELSE l
    /\ p1 = IF half = "pending" /\ ~lit /\ q[1].on = o THEN s ELSE p
    /\ r = [q[1] EXCEPT ![half] = "answered"] /\ t = [q EXCEPT ![1] = r]

\* A half of an update is answered; the answer is kept if the object is still there.
LEMMA PfAnswered ==
    ASSUME NEW o, NEW lit, NEW l, NEW p, NEW q, NEW a,
           NEW half, NEW s, NEW l1, NEW p1, NEW r, NEW t,
           PfAnswerAs(o, lit, l, p, q, a, half, s, l1, p1, r, t)
    PROVE  PfOk(o, lit, l1, p1, t, a)
<1>0. /\ PfOk(o, lit, l, p, q, a) /\ q # <<>> /\ lit \in BOOLEAN
      /\ half \in {"latest", "pending"} /\ q[1][half] = "get"
      /\ s = [Pf!New EXCEPT !.recent = TRUE, !.ops = IF half = "pending" THEN q[1].sim ELSE None]
      /\ l1 = IF (half = "latest" \/ lit) /\ q[1].on = o THEN s ELSE l
      /\ p1 = IF half = "pending" /\ ~lit /\ q[1].on = o THEN s ELSE p
      /\ r = [q[1] EXCEPT ![half] = "answered"] /\ t = [q EXCEPT ![1] = r]
      BY DEF PfAnswerAs
<1> USE <1>0
<1>1. /\ q[1] \in PfEntry /\ l \in Pf!States \cup {None} /\ p \in Pf!States \cup {None} /\ o \in Nat
      /\ o = 0 => l = None /\ p = None
      /\ lit => p = None
      /\ q[1].latest = "queued" <=> q[1].pending = "queued"
      /\ "get" \in {q[1].latest, q[1].pending} => q[1].on # 0
      /\ l # None /\ l.loading => q[1].on = o /\ (q[1].latest = "get" \/ (lit /\ q[1].pending = "get"))
      /\ p # None /\ p.loading => q[1].on = o /\ q[1].pending = "get"
      BY PfRunning
<1>3. s \in Pf!States /\ ~s.loading /\ (half = "pending" => s.ops = q[1].sim)
  <2>2. PICK ops : ops = IF half = "pending" THEN q[1].sim ELSE None
        OBVIOUS
  <2>3. s = [loading |-> FALSE, error |-> FALSE, recent |-> TRUE, ops |-> ops] /\ ops \in Pf!Ops
        BY <1>1, <2>2 DEF Pf!New, PfEntry, Pf!Ops
  <2>4. s \in Pf!States /\ ~s.loading /\ s.ops = ops
        BY ONLY <2>3 DEF Pf!States
  <2> QED  BY <2>2, <2>4
<1>4. /\ r \in PfEntry /\ r.ops = q[1].ops /\ r.sim = q[1].sim /\ r.force = q[1].force /\ r.on = q[1].on
      /\ half = "latest" => q[1].latest = "get" /\ r.latest = "answered" /\ r.pending = q[1].pending
      /\ half = "pending" => q[1].pending = "get" /\ r.pending = "answered" /\ r.latest = q[1].latest
  <2>1. CASE half = "latest"
        BY <1>1, <2>1 DEF PfEntry, PfStages
  <2>2. CASE half = "pending"
        BY <1>1, <2>2 DEF PfEntry, PfStages
  <2> QED  BY <2>1, <2>2
<1>5. r.latest # "queued" /\ r.pending # "queued" /\ r.on # 0 /\ q[1].latest # "queued"
      BY <1>1, <1>4
<1>10. ASSUME a # None, a.sure, Len(q) = 1
       PROVE  IF r.pending = "get" THEN r.on = o \/ p1 = None ELSE PfFits(p1, a)
  <2>2. CASE half = "latest"
        BY <1>4, <1>5, <1>10, <2>2, PfRunning
  <2>3. CASE half = "pending"
        BY <1>1, <1>3, <1>4, <1>5, <1>10, <2>3, PfRunning DEF PfFits
  <2> QED  BY <2>2, <2>3
<1>11. PfGoes(o, lit, l, p, q, a, r, l1, p1, t)
       BY <1>1, <1>3, <1>4, <1>5, <1>10 DEF PfGoes
<1> QED  BY ONLY <1>11, PfRuns

\* How the failure of a half of an update is kept, with the state s or what replaced it.
PfFailAs(o, lit, l, p, q, a, half, s, replaced, w, l1, p1, r, t) ==
    /\ PfOk(o, lit, l, p, q, a) /\ q # <<>> /\ lit \in BOOLEAN
    /\ half \in {"latest", "pending"} /\ q[1][half] = "get"
    /\ s = IF half = "pending" /\ ~lit THEN p ELSE l
    /\ replaced \in BOOLEAN /\ replaced = (lit /\ "answered" \in {q[1].latest, q[1].pending})
    /\ w = IF s = None \/ replaced THEN s ELSE Pf!Failed(s)
    /\ l1 = IF (half = "latest" \/ lit) /\ q[1].on = o THEN w ELSE l
    /\ p1 = IF half = "pending" /\ ~lit /\ q[1].on = o THEN w ELSE p
    /\ r = [q[1] EXCEPT ![half] = "done"] /\ t = [q EXCEPT ![1] = r]

\* A half of an update fails; the error is kept with the state that the update began with.
LEMMA PfFails ==
    ASSUME NEW o, NEW lit, NEW l, NEW p, NEW q, NEW a,
           NEW half, NEW s, NEW replaced, NEW w, NEW l1, NEW p1, NEW r, NEW t,
           PfFailAs(o, lit, l, p, q, a, half, s, replaced, w, l1, p1, r, t)
    PROVE  PfOk(o, lit, l1, p1, t, a)
<1>0. /\ PfOk(o, lit, l, p, q, a) /\ q # <<>> /\ lit \in BOOLEAN
      /\ half \in {"latest", "pending"} /\ q[1][half] = "get"
      /\ s = IF half = "pending" /\ ~lit THEN p ELSE l
      /\ replaced \in BOOLEAN /\ replaced = (lit /\ "answered" \in {q[1].latest, q[1].pending})
      /\ w = IF s = None \/ replaced THEN s ELSE Pf!Failed(s)
      /\ l1 = IF (half = "latest" \/ lit) /\ q[1].on = o THEN w ELSE l
      /\ p1 = IF half = "pending" /\ ~lit /\ q[1].on = o THEN w ELSE p
      /\ r = [q[1] EXCEPT ![half] = "done"] /\ t = [q EXCEPT ![1] = r]
      BY DEF PfFailAs
<1> USE <1>0
<1>1. /\ q[1] \in PfEntry /\ l \in Pf!States \cup {None} /\ p \in Pf!States \cup {None} /\ o \in Nat
      /\ o = 0 => l = None /\ p = None
      /\ lit => p = None
      /\ q[1].latest = "queued" <=> q[1].pending = "queued"
      /\ "get" \in {q[1].latest, q[1].pending} => q[1].on # 0
      /\ l # None /\ l.loading => q[1].on = o /\ (q[1].latest = "get" \/ (lit /\ q[1].pending = "get"))
      /\ p # None /\ p.loading => q[1].on = o /\ q[1].pending = "get"
      /\ lit /\ "answered" \in {q[1].latest, q[1].pending} => l = None \/ ~l.loading
      BY PfRunning
<1>3. /\ w \in Pf!States \cup {None} /\ (w = None <=> s = None)
      /\ s # None /\ ~replaced => ~w.loading /\ w.error
      /\ s = None \/ replaced => w = s
  <2>1. CASE s = None \/ replaced
        BY <1>1, <2>1
  <2>2. CASE ~(s = None \/ replaced)
    <3>2. w \in Pf!States /\ ~w.loading /\ w.error
          BY <1>1, <2>2 DEF Pf!States, Pf!Failed
    <3> QED  BY <2>2, <3>2, PfAssumed
  <2> QED  BY <2>1, <2>2
<1>4. /\ r \in PfEntry /\ r.ops = q[1].ops /\ r.sim = q[1].sim /\ r.force = q[1].force /\ r.on = q[1].on
      /\ half = "latest" => q[1].latest = "get" /\ r.latest = "done" /\ r.pending = q[1].pending
      /\ half = "pending" => q[1].pending = "get" /\ r.pending = "done" /\ r.latest = q[1].latest
  <2>1. CASE half = "latest"
        BY <1>1, <2>1 DEF PfEntry, PfStages
  <2>2. CASE half = "pending"
        BY <1>1, <2>2 DEF PfEntry, PfStages
  <2> QED  BY <2>1, <2>2
<1>5. r.latest # "queued" /\ r.pending # "queued" /\ r.on # 0 /\ q[1].latest # "queued"
      BY <1>1, <1>4
<1>7. lit => l1 = None \/ ~l1.loading
  <2>1. CASE q[1].on = o /\ lit
    <3>2. CASE replaced
          BY <1>1, <1>3, <2>1, <3>2
    <3>3. CASE ~replaced
          BY <1>3, <2>1, <3>3
    <3> QED  BY <3>2, <3>3
  <2>2. CASE ~(q[1].on = o)
        BY <1>1, <2>2
  <2> QED  BY <2>1, <2>2
<1>8. l1 # None /\ l1.loading => r.on = o /\ (r.latest = "get" \/ (lit /\ r.pending = "get"))
  <2>1. CASE lit
        BY <1>7, <2>1
  <2>2. CASE ~lit /\ half = "latest"
        BY <1>1, <1>3, <1>4, <2>2
  <2>3. CASE ~lit /\ half = "pending"
        BY <1>1, <1>4, <2>3
  <2> QED  BY <2>1, <2>2, <2>3
<1>9. p1 # None /\ p1.loading => r.on = o /\ r.pending = "get"
  <2>1. CASE half = "latest" \/ lit
        BY <1>1, <1>4, <2>1
  <2>2. CASE half = "pending" /\ ~lit
        BY <1>1, <1>3, <1>4, <2>2
  <2> QED  BY <2>1, <2>2
<1>10. ASSUME a # None, a.sure, Len(q) = 1
       PROVE  IF r.pending = "get" THEN r.on = o \/ p1 = None ELSE PfFits(p1, a)
  <2>2. CASE half = "latest"
        BY <1>4, <1>5, <1>10, <2>2, PfRunning
  <2>3. CASE half = "pending"
        BY <1>1, <1>3, <1>4, <1>5, <1>10, <2>3, PfRunning DEF PfFits
  <2> QED  BY <2>2, <2>3
<1>11. PfGoes(o, lit, l, p, q, a, r, l1, p1, t)
       BY <1>1, <1>3, <1>4, <1>5, <1>7, <1>8, <1>9, <1>10 DEF PfGoes
<1> QED  BY ONLY <1>11, PfRuns

\* An update is over, and the next one may start.
LEMMA PfEnds ==
    ASSUME NEW o, NEW lit \in BOOLEAN, NEW l, NEW p, NEW q, NEW a, PfOk(o, lit, l, p, q, a), q # <<>>,
           {q[1].latest, q[1].pending} \subseteq {"answered", "done"},
           NEW t, t = Without(q, 1)
    PROVE  PfOk(o, lit, l, p, t, a)
<1>1. PfKnown(o, l, p, q, a) /\ PfQueue(lit, p, q) /\ PfLoads(o, lit, l, p, q) /\ PfAsked(o, p, q, a)
      BY DEF PfOk
<1>2. q \in Seq(PfEntry)
      BY <1>1 DEF PfKnown
<1>3. DOMAIN q = 1..Len(q) /\ Len(q) \in Nat /\ 1 \in 1..Len(q)
      BY <1>2, PfFirst
<1>4. /\ t \in Seq(PfEntry) /\ Len(t) = Len(q) - 1
      /\ \A k \in 1..Len(t) : t[k] = IF k < 1 THEN q[k] ELSE q[k + 1]
      BY <1>2, <1>3, RemoveAtHas
<1>5. \A k \in 1..Len(t) : t[k] = q[k + 1] /\ k + 1 \in DOMAIN q /\ k + 1 # 1
      BY <1>3, <1>4
<1>6. /\ DOMAIN t = 1..Len(t) /\ Len(t) \in Nat
      /\ t # <<>> => 1 \in DOMAIN t /\ Len(t) \in DOMAIN t
      /\ t = <<>> => Len(t) = 0
      BY <1>4, PfFirst
<1>7. PfKnown(o, l, p, t, a)
      BY <1>1, <1>4 DEF PfKnown
<1>8. PfQueue(lit, p, t)
      BY <1>1, <1>5, <1>6 DEF PfQueue
<1>9. (l # None => ~l.loading) /\ (p # None => ~p.loading)
      BY <1>1 DEF PfLoads
<1>10. PfLoads(o, lit, l, p, t)
       BY <1>9 DEF PfLoads
<1>11. a # None
       BY <1>1 DEF PfAsked
<1>12. ASSUME a.sure PROVE PfSure(o, p, t, a)
  <2>1. PfSure(o, p, q, a)
        BY <1>1, <1>11, <1>12 DEF PfAsked
  <2>2. CASE t = <<>>
    <3>1. Len(q) = 1
          BY <1>3, <1>4, <1>6, <2>2
    <3>2. q[Len(q)] = q[1] /\ q[1].latest # "queued" /\ q[1].pending # "get"
          BY <3>1
    <3> QED  BY <2>1, <2>2, <3>2 DEF PfSure
  <2>3. CASE t # <<>>
    <3>1. Len(t) \in 1..Len(t) /\ Len(t) + 1 = Len(q)
      <4>1. Len(t) \in 1..Len(t)
            BY <1>6, <2>3
      <4>2. Len(t) = Len(q) - 1 /\ Len(q) \in Nat
            BY <1>3, <1>4
      <4> QED  BY ONLY <4>1, <4>2
    <3>2. t[Len(t)] = q[Len(q)] /\ Len(q) # 1
          BY <1>5, <3>1
    <3>3. q[Len(q)].latest = "queued"
          BY <1>1, <1>3, <3>1, <3>2, <1>5 DEF PfQueue
    <3>4. q[Len(q)].ops = a.ops /\ q[Len(q)].sim = a.sim /\ q[Len(q)].force
          BY <2>1, <3>2 DEF PfSure
    <3> QED  BY <2>3, <3>2, <3>3, <3>4 DEF PfSure
  <2> QED  BY <2>2, <2>3
<1>13. PfAsked(o, p, t, a)
       BY <1>11, <1>12 DEF PfAsked
<1> QED  BY <1>7, <1>8, <1>10, <1>13 DEF PfOk

\* The update that runs is to be run once more.
LEMMA PfRetries ==
    ASSUME NEW o, NEW lit, NEW l, NEW p, NEW q, NEW a, PfOk(o, lit, l, p, q, a), q # <<>>,
           q[1].latest = "answered", q[1].pending \in {"answered", "done"},
           NEW r, r = [q[1] EXCEPT !.again = TRUE, !.on = 0, !.latest = "queued", !.pending = "queued"],
           NEW t, t = [q EXCEPT ![1] = r]
    PROVE  PfOk(o, lit, l, p, t, a)
<1>1. PfKnown(o, l, p, q, a) /\ PfQueue(lit, p, q) /\ PfLoads(o, lit, l, p, q) /\ PfAsked(o, p, q, a)
      BY DEF PfOk
<1>2. /\ q \in Seq(PfEntry) /\ q[1] \in PfEntry
      BY <1>1, PfFirst DEF PfKnown
<1>3. /\ r \in PfEntry /\ r.ops = q[1].ops /\ r.sim = q[1].sim /\ r.force = q[1].force
      /\ r.latest = "queued" /\ r.pending = "queued" /\ r.seen = q[1].seen
      BY <1>2 DEF PfEntry, PfStages
<1>a. q # <<>> /\ t = [q EXCEPT ![1] = r]
      OBVIOUS
<1>4. /\ t \in Seq(PfEntry) /\ Len(t) = Len(q) /\ t # <<>> /\ DOMAIN t = DOMAIN q
      /\ t[1] = r /\ \A i \in DOMAIN q : i # 1 => t[i] = q[i]
      BY ONLY <1>2, <1>3, <1>a, PfPut
<1>5. PfQueue(lit, p, t)
  <2>1. ASSUME NEW i \in DOMAIN t
        PROVE  /\ i # 1 => t[i].latest = "queued"
               /\ t[i].latest = "queued" <=> t[i].pending = "queued"
               /\ "get" \in {t[i].latest, t[i].pending} => t[i].on # 0
    <3>1. CASE i = 1
          BY <1>3, <1>4, <3>1
    <3>2. CASE i # 1
          BY <1>1, <1>4, <3>2 DEF PfQueue
    <3> QED  BY <3>1, <3>2
  <2> QED  BY <1>1, <2>1 DEF PfQueue
<1>6. (l # None => ~l.loading) /\ (p # None => ~p.loading)
      BY <1>1 DEF PfLoads
<1>7. PfLoads(o, lit, l, p, t)
      BY <1>6 DEF PfLoads
<1>8. a # None
      BY <1>1 DEF PfAsked
<1>9. ASSUME a.sure PROVE PfSure(o, p, t, a)
  <2>1. PfSure(o, p, q, a)
        BY <1>1, <1>8, <1>9 DEF PfAsked
  <2>2. CASE Len(q) = 1
    <3>1. PfFits(p, a) /\ q[1].ops = a.ops /\ q[1].sim = a.sim
          BY <2>1, <2>2 DEF PfSure
    <3> QED  BY <1>3, <1>4, <2>2, <3>1 DEF PfSure
  <2>3. CASE Len(q) # 1
    <3>1. t[Len(q)] = q[Len(q)] /\ q[Len(q)].latest = "queued"
          BY <1>1, <1>2, <1>4, <2>3, PfFirst DEF PfQueue
    <3> QED  BY <1>4, <2>1, <2>3, <3>1 DEF PfSure
  <2> QED  BY <2>2, <2>3
<1> QED  BY <1>1, <1>4, <1>5, <1>7, <1>8, <1>9 DEF PfOk, PfKnown, PfAsked

PfHere(c) == PfOk(object, c \in light, latest[c], pendingState[c], queue[c], last[c])
PfStates == [Chains -> Pf!States \cup {None}]
\* The tank is marked as loading by a call for the object that is there, or by one that threw.
PfTank ==
    /\ unusual \in BOOLEAN
    /\ tank \in Pf!States \cup {None} /\ tankOf \in Seq(Nat \ {0})
    /\ object = 0 => tank = None
    /\ tank # None /\ tank.loading => unusual \/ \E i \in DOMAIN tankOf : tankOf[i] = object
PfTypes ==
    /\ upsets \in Nat /\ object \in Nat
    /\ latest \in PfStates /\ pendingState \in PfStates
    /\ queue \in [Chains -> Seq(PfEntry)] /\ last \in [Chains -> PfAsk \cup {None}]

PfInv == PfTypes /\ PfTank /\ \A c \in Chains : PfHere(c)

\* At first nothing is known.
LEMMA PfInvInit == ASSUME Pf!Init PROVE PfInv
<1>4. ASSUME NEW c \in Chains PROVE PfHere(c)
      BY PfFirst DEF PfHere, PfOk, PfKnown, PfQueue, PfLoads, PfAsked, Pf!Init, Pf!Absent
<1>5. unusual \in BOOLEAN
      BY DEF Pf!Init
<1>6. PfTank
      BY <1>5 DEF PfTank, Pf!Init
<1> QED  BY <1>4, <1>6, PfAssumed DEF PfInv, PfTypes, PfStates, Pf!Init, Pf!Absent

\* A call on some networks.
LEMMA PfUpdateSelectedAccount ==
    ASSUME PfInv, NEW nets \in SUBSET Chains, NEW ops \in Pf!Ops, NEW sim \in Pf!Ops, NEW force \in BOOLEAN,
           Pf!UpdateSelectedAccount(nets, ops, sim, force)
    PROVE  PfInv'
<1>1. PfTypes /\ PfTank /\ \A c \in Chains : PfHere(c)
      BY DEF PfInv
<1>2. /\ object' = IF object = 0 THEN upsets + 1 ELSE object
      /\ UNCHANGED <<latest, pendingState, unusual, light, upsets>>
      BY DEF Pf!UpdateSelectedAccount
<1>3. object' \in Nat \ {0} /\ (object # 0 => object' = object)
      BY <1>1, <1>2 DEF PfTypes
<1>4. ASSUME NEW c \in Chains PROVE PfHere(c)' /\ queue'[c] \in Seq(PfEntry) /\ last'[c] \in PfAsk \cup {None}
  <2>1. PfOk(object', c \in light, latest[c], pendingState[c], queue[c], last[c])
    <3>2. CASE object = 0
          BY <1>1, <1>3, <3>2, PfForgotten DEF PfOk, PfKnown, PfHere
    <3>3. CASE object # 0
          BY <1>1, <1>3, <3>3 DEF PfHere
    <3> QED  BY <3>2, <3>3
  <2>2. CASE c \in nets
    <3>1. PICK e : e = [ops |-> ops, sim |-> sim, seen |-> Pf!OpsOf(pendingState[c]), force |-> force,
                        again |-> FALSE, on |-> 0, latest |-> "queued", pending |-> "queued"]
          OBVIOUS
    <3>2. PICK b : b = [ops |-> ops, sim |-> sim, sure |-> force \/ queue[c] = <<>>]
          OBVIOUS
    <3>5. PfOk(object', c \in light, latest[c], pendingState[c], Append(queue[c], e), b)
          BY ONLY <2>1, <3>1, <3>2, PfCalled, ops \in Pf!Ops, sim \in Pf!Ops, force \in BOOLEAN
    <3> QED  BY <1>2, <2>2, <3>1, <3>2, <3>5 DEF PfOk, PfKnown, Pf!UpdateSelectedAccount, PfHere
  <2>3. CASE c \notin nets
        BY <1>2, <2>1, <2>3 DEF PfHere, PfOk, PfKnown, Pf!UpdateSelectedAccount
  <2> QED  BY <2>2, <2>3
<1>5. PfTypes'
      BY <1>1, <1>2, <1>3, <1>4 DEF PfTypes, Pf!UpdateSelectedAccount
<1>6. PfTank'
  <2>1. CASE UNCHANGED <<tank, tankOf>> /\ Pf!CanSkip(tank, force)
        BY <1>1, <1>2, <1>3, <2>1 DEF PfTank, Pf!CanSkip
  <2>2. CASE /\ tank' = [(IF tank = None THEN Pf!New ELSE tank) EXCEPT !.loading = TRUE]
             /\ tankOf' = Append(tankOf, object')
    <3>1. PICK n : n = IF tank = None THEN Pf!New ELSE tank
          OBVIOUS
    <3>5. /\ tankOf' \in Seq(Nat \ {0}) /\ Len(tankOf') = Len(tankOf) + 1
          /\ tankOf'[Len(tankOf) + 1] = object'
          BY <1>1, <1>3, <2>2, AppendProperties DEF PfTank
    <3>6. Len(tankOf) + 1 \in DOMAIN tankOf'
          BY <1>1, <3>5, LenProperties DEF PfTank
    <3> QED  BY <1>1, <1>2, <1>3, <2>2, <3>1, <3>5, <3>6 DEF PfTank, Pf!States, Pf!New, Pf!Ops
  <2> QED  BY <2>1, <2>2 DEF Pf!UpdateSelectedAccount
<1> QED  BY <1>4, <1>5, <1>6 DEF PfInv

\* An answer about the gas tank.
LEMMA PfTankStep ==
    ASSUME PfInv, NEW i \in DOMAIN tankOf, Pf!TankAnswers(i) \/ Pf!TankThrows(i) \/ Pf!TankFails(i)
    PROVE  PfInv'
<1>1. PfTypes /\ PfTank /\ \A c \in Chains : PfHere(c)
      BY DEF PfInv
<1>2. /\ UNCHANGED <<object, latest, pendingState, queue, last, light, upsets>>
      /\ tankOf' = Pf!RemoveAt(tankOf, i)
      BY DEF Pf!TankAnswers, Pf!TankThrows, Pf!TankFails, Pf!TankRest, Pf!bounds
<1>3. PfTypes' /\ \A c \in Chains : PfHere(c)'
      BY <1>1, <1>2 DEF PfTypes, PfHere
<1>4. tankOf \in Seq(Nat \ {0}) /\ tank \in Pf!States \cup {None} /\ unusual \in BOOLEAN
      BY <1>1 DEF PfTank
<1>5. i \in 1..Len(tankOf) /\ DOMAIN tankOf = 1..Len(tankOf) /\ Len(tankOf) \in Nat
      BY <1>4, LenProperties
<1>6. PICK t : t = Without(tankOf, i)
      OBVIOUS
<1>7. tankOf' = t
      BY <1>2, <1>6 DEF Pf!RemoveAt, Without
<1>a. PICK objects : objects = Nat \ {0}
      OBVIOUS
<1>8. /\ t \in Seq(Nat \ {0}) /\ Len(t) = Len(tankOf) - 1
      /\ \A k \in 1..Len(t) : t[k] = IF k < i THEN tankOf[k] ELSE tankOf[k + 1]
  <2>1. tankOf \in Seq(objects)
        BY <1>4, <1>a
  <2>2. /\ t \in Seq(objects) /\ Len(t) = Len(tankOf) - 1
        /\ \A k \in 1..Len(t) : t[k] = IF k < i THEN tankOf[k] ELSE tankOf[k + 1]
        BY ONLY <1>5, <1>6, <2>1, RemoveAtHas, ZenonT(40)
  <2> QED  BY <1>a, <2>2
<1>9. DOMAIN t = 1..Len(t) /\ Len(t) \in Nat
      BY <1>8, LenProperties
<1>10. ASSUME NEW j \in DOMAIN tankOf, j # i PROVE \E k \in DOMAIN t : t[k] = tankOf[j]
  <2>1. CASE j < i
    <3>1. j \in 1..Len(t)
          BY <1>5, <1>8, <1>9, <2>1
    <3> QED  BY <1>8, <1>9, <2>1, <3>1
  <2>2. CASE ~(j < i)
    <3>1. j - 1 \in 1..Len(t) /\ ~(j - 1 < i) /\ (j - 1) + 1 = j
          BY <1>5, <1>8, <1>9, <1>10, <2>2
    <3> QED  BY <1>8, <1>9, <3>1
  <2> QED  BY <2>1, <2>2
<1>11. tankOf[i] # 0
       BY <1>4, <1>5, ElementOfSeq
<1>12. Pf!New \in Pf!States
       BY DEF Pf!New, Pf!States, Pf!Ops
<1>13. CASE Pf!TankAnswers(i)
  <2>1. tank' = IF tankOf[i] = object THEN [Pf!New EXCEPT !.recent = TRUE] ELSE tank
        BY <1>13 DEF Pf!TankAnswers
  <2>4. unusual' = (unusual /\ tankOf[i] # object)
        BY <1>13 DEF Pf!TankAnswers
  <2>5. unusual' \in BOOLEAN /\ (tankOf[i] # object => unusual' = unusual)
        BY <1>4, <2>4
  <2>2. CASE tankOf[i] = object
    <3>1. tank' = [Pf!New EXCEPT !.recent = TRUE]
          BY <2>1, <2>2
    <3>2. tank' \in Pf!States /\ ~tank'.loading
          BY <3>1 DEF Pf!New, Pf!States, Pf!Ops
    <3> QED  BY <1>2, <1>3, <1>7, <1>8, <1>11, <2>2, <2>5, <3>2 DEF PfInv, PfTank
  <2>3. CASE tankOf[i] # object
    <3>1. tank' = tank
          BY <2>1, <2>3
    <3>2. ASSUME tank # None, tank.loading, ~unusual PROVE \E k \in DOMAIN t : t[k] = object
      <4>1. PICK j \in DOMAIN tankOf : tankOf[j] = object
            BY <1>1, <3>2 DEF PfTank
      <4> QED  BY <1>10, <2>3, <4>1
    <3>3. PfTank'
          BY <1>1, <1>2, <1>7, <1>8, <2>3, <2>5, <3>1, <3>2 DEF PfTank
    <3> QED  BY <1>3, <3>3 DEF PfInv
  <2> QED  BY <2>2, <2>3
<1>15. CASE Pf!TankThrows(i)
  <2>1. /\ tank' \in {tank, IF tankOf[i] = object THEN [Pf!New EXCEPT !.recent = TRUE] ELSE tank}
        /\ unusual' = (unusual \/ (tankOf[i] = object /\ tank # None /\ tank.loading))
        BY <1>15 DEF Pf!TankThrows
  <2>2. unusual' \in BOOLEAN /\ (unusual => unusual')
        /\ (tankOf[i] = object /\ tank # None /\ tank.loading => unusual')
        BY <1>4, <2>1
  <2>3. PICK fresh : fresh = [Pf!New EXCEPT !.recent = TRUE]
        OBVIOUS
  <2>4. fresh \in Pf!States /\ ~fresh.loading
        BY <2>3 DEF Pf!New, Pf!States, Pf!Ops
  <2>5. CASE tank' = fresh /\ tankOf[i] = object
    <3>1. object # 0
          BY <1>11, <2>5
    <3>2. PfTank'
          BY <1>2, <1>7, <1>8, <2>2, <2>4, <2>5, <3>1 DEF PfTank
    <3> QED  BY <1>3, <3>2 DEF PfInv
  <2>6. CASE tank' = tank
    <3>1. ASSUME tank # None, tank.loading, ~unusual' PROVE \E k \in DOMAIN t : t[k] = object
      <4>1. tankOf[i] # object /\ ~unusual
            BY <2>2, <3>1
      <4>2. PICK j \in DOMAIN tankOf : tankOf[j] = object
            BY <1>1, <3>1, <4>1 DEF PfTank
      <4> QED  BY <1>10, <4>1, <4>2
    <3>2. PfTank'
          BY <1>1, <1>2, <1>7, <1>8, <2>2, <2>6, <3>1 DEF PfTank
    <3> QED  BY <1>3, <3>2 DEF PfInv
  <2> QED  BY <2>1, <2>3, <2>5, <2>6
<1>14. CASE Pf!TankFails(i)
  <2>4. unusual' \in BOOLEAN
        BY <1>4, <1>14 DEF Pf!TankFails
  <2>1. tank' = IF object = 0 THEN tank
                ELSE [(IF tank = None THEN Pf!New ELSE tank) EXCEPT !.loading = FALSE, !.error = TRUE]
        BY <1>14 DEF Pf!TankFails
  <2>2. CASE object = 0
    <3>1. tank' = None
          BY <1>1, <2>1, <2>2 DEF PfTank
    <3>2. PfTank'
          BY <1>2, <1>7, <1>8, <2>4, <3>1 DEF PfTank
    <3> QED  BY <1>3, <3>2 DEF PfInv
  <2>3. CASE object # 0
    <3>1. PICK n : n = IF tank = None THEN Pf!New ELSE tank
          OBVIOUS
    <3>2. n \in Pf!States /\ tank' = [n EXCEPT !.loading = FALSE, !.error = TRUE]
          BY <1>4, <1>12, <2>1, <2>3, <3>1
    <3>3. tank' \in Pf!States /\ ~tank'.loading
          BY <3>2 DEF Pf!States
    <3>4. PfTank'
          BY <1>2, <1>7, <1>8, <2>3, <2>4, <3>3 DEF PfTank
    <3> QED  BY <1>3, <3>4 DEF PfInv
  <2> QED  BY <2>2, <2>3
<1> QED  BY <1>13, <1>14, <1>15

\* A step of one network.
LEMMA PfOnly ==
    ASSUME PfInv, NEW c \in Chains, NEW l1, NEW p1, NEW t,
           PfOk(object, c \in light, l1, p1, t, last[c]),
           UNCHANGED <<object, tank, tankOf, unusual, last, light, upsets>>,
           latest' = [latest EXCEPT ![c] = l1], pendingState' = [pendingState EXCEPT ![c] = p1],
           queue' = [queue EXCEPT ![c] = t]
    PROVE  PfInv'
<1>1. PfTypes /\ PfTank /\ \A d \in Chains : PfHere(d)
      BY DEF PfInv
<1>3. /\ latest \in PfStates /\ pendingState \in PfStates /\ queue \in [Chains -> Seq(PfEntry)]
      BY <1>1 DEF PfTypes
<1>6. ASSUME NEW d \in Chains PROVE PfHere(d)'
  <2>1. CASE d = c
        BY <1>3, <2>1 DEF PfHere, PfStates
  <2>2. CASE d # c
        BY <1>1, <1>3, <2>2 DEF PfHere, PfStates
  <2> QED  BY <2>1, <2>2
<1> QED  BY <1>1, <1>3, <1>6 DEF PfInv, PfTypes, PfTank, PfStates, PfOk, PfKnown

\* Writing an answer to the object that it is for.
LEMMA PfWrites ==
    ASSUME NEW c \in Chains, NEW i, NEW half, NEW s, PfTypes, Pf!Write(c, i, half, s)
    PROVE  /\ latest' = [latest EXCEPT ![c] =
                  IF (half # "pending" \/ c \in light) /\ queue[c][i].on = object THEN s ELSE latest[c]]
           /\ pendingState' = [pendingState EXCEPT ![c] =
                  IF half = "pending" /\ c \notin light /\ queue[c][i].on = object THEN s ELSE pendingState[c]]
<1>1. /\ latest = [latest EXCEPT ![c] = latest[c]]
      /\ pendingState = [pendingState EXCEPT ![c] = pendingState[c]]
      BY DEF PfTypes, PfStates
<1>2. CASE half = "pending" /\ c \notin light
  <2>3. CASE queue[c][i].on = object
        BY <1>1, <1>2, <2>3 DEF Pf!Write
  <2>4. CASE queue[c][i].on # object
        BY <1>1, <1>2, <2>4 DEF Pf!Write
  <2> QED  BY <2>3, <2>4
<1>3. CASE ~(half = "pending" /\ c \notin light)
  <2>3. CASE queue[c][i].on = object
        BY <1>1, <1>3, <2>3 DEF Pf!Write
  <2>4. CASE queue[c][i].on # object
        BY <1>1, <1>3, <2>4 DEF Pf!Write
  <2> QED  BY <2>3, <2>4
<1> QED  BY <1>2, <1>3

\* The steps of the update that runs on a network.
LEMMA PfStartUpdate ==
    ASSUME PfInv, NEW c \in Chains, queue[c] # <<>>, Pf!StartUpdate(c, 1)
    PROVE  PfInv'
<1>1. PfTypes /\ PfHere(c)
      BY DEF PfInv
<1>2. PICK lit \in BOOLEAN : lit = (c \in light)
  <2>1. CASE c \in light
        BY <2>1
  <2>2. CASE c \notin light
    <3>1. FALSE = (c \in light)
          BY <2>2
    <3> QED  BY <3>1
  <2> QED  BY <2>1, <2>2
<1>3. PICK q : q = queue[c]
      OBVIOUS
<1>4. PfOk(object, lit, latest[c], pendingState[c], q, last[c])
      BY <1>1, <1>2, <1>3 DEF PfHere
<1>5. PICK force \in BOOLEAN : force = (q[1].force \/ q[1].ops # q[1].seen)
      BY <1>3, <1>4, PfRunning DEF PfEntry
<1>6. PICK first \in BOOLEAN : first = (object # 0 /\ ~Pf!CanSkip(latest[c], force))
      OBVIOUS
<1>7. PICK there1 : there1 = IF first THEN Pf!Started(latest[c], force) ELSE latest[c]
      OBVIOUS
<1>8. PICK before : before = IF lit THEN there1 ELSE pendingState[c]
      OBVIOUS
<1>9. PICK second \in BOOLEAN : second = (object # 0 /\ ~Pf!CanSkip(before, force))
      OBVIOUS
<1>10. PICK there2 : there2 = IF second THEN Pf!Started(before, force) ELSE before
       OBVIOUS
<1>11. PICK l1 : l1 = IF lit THEN there2 ELSE there1
       OBVIOUS
<1>12. PICK p1 : p1 = IF lit THEN pendingState[c] ELSE there2
       OBVIOUS
<1>13. PICK r : r = [q[1] EXCEPT !.on = object, !.latest = IF first THEN "get" ELSE "done",
                                 !.pending = IF second THEN "get" ELSE "done"]
       OBVIOUS
<1>14. PICK t : t = [q EXCEPT ![1] = r]
       OBVIOUS
<1>15. q[1].latest = "queued"
       BY <1>3 DEF Pf!StartUpdate
<1>16. PfOk(object, lit, l1, p1, t, last[c])
  <2>1. PfStartAs(object, lit, latest[c], pendingState[c], q, last[c], force, first, there1, before, second,
                  there2, l1, p1, r, t)
        BY <1>3, <1>4, <1>5, <1>6, <1>7, <1>8, <1>9, <1>10, <1>11, <1>12, <1>13, <1>14, <1>15 DEF PfStartAs
  <2> QED  BY ONLY <2>1, PfStarts
<1>17. latest' = [latest EXCEPT ![c] = l1]
       BY <1>2, <1>3, <1>5, <1>6, <1>7, <1>8, <1>9, <1>10, <1>11 DEF Pf!StartUpdate
<1>18. pendingState' = IF c \in light THEN pendingState ELSE [pendingState EXCEPT ![c] = there2]
       BY <1>2, <1>3, <1>5, <1>6, <1>7, <1>8, <1>9, <1>10 DEF Pf!StartUpdate
<1>19. pendingState' = [pendingState EXCEPT ![c] = p1]
       BY <1>1, <1>2, <1>12, <1>18 DEF PfTypes, PfStates
<1>20. queue' = [queue EXCEPT ![c][1] = r]
       BY <1>2, <1>3, <1>5, <1>6, <1>7, <1>8, <1>9, <1>13 DEF Pf!StartUpdate
<1>21. queue' = [queue EXCEPT ![c] = t]
       BY <1>1, <1>3, <1>14, <1>20 DEF PfTypes
<1>22. UNCHANGED <<object, tank, tankOf, unusual, last, light, upsets>>
       BY DEF Pf!StartUpdate, Pf!bounds
<1> QED  BY <1>2, <1>16, <1>17, <1>19, <1>21, <1>22, PfOnly

\* An answer to one half of it.
LEMMA PfGetAnswers ==
    ASSUME PfInv, NEW c \in Chains, queue[c] # <<>>, NEW half \in {"latest", "pending"},
           Pf!GetAnswers(c, 1, half)
    PROVE  PfInv'
<1>1. PfTypes /\ PfHere(c)
      BY DEF PfInv
<1>2. PICK lit \in BOOLEAN : lit = (c \in light)
  <2>1. CASE c \in light
        BY <2>1
  <2>2. CASE c \notin light
    <3>1. FALSE = (c \in light)
          BY <2>2
    <3> QED  BY <3>1
  <2> QED  BY <2>1, <2>2
<1>3. PICK q : q = queue[c]
      OBVIOUS
<1>5. PICK s : s = [Pf!New EXCEPT !.recent = TRUE, !.ops = IF half = "pending" THEN q[1].sim ELSE None]
      OBVIOUS
<1>6. PICK l1 : l1 = IF (half = "latest" \/ lit) /\ q[1].on = object THEN s ELSE latest[c]
      OBVIOUS
<1>7. PICK p1 : p1 = IF half = "pending" /\ ~lit /\ q[1].on = object THEN s ELSE pendingState[c]
      OBVIOUS
<1>8. PICK r : r = [q[1] EXCEPT ![half] = "answered"]
      OBVIOUS
<1>9. PICK t : t = [q EXCEPT ![1] = r]
      OBVIOUS
<1>11. PfOk(object, lit, l1, p1, t, last[c])
  <2>1. PfAnswerAs(object, lit, latest[c], pendingState[c], q, last[c], half, s, l1, p1, r, t)
        BY <1>1, <1>2, <1>3, <1>5, <1>6, <1>7, <1>8, <1>9 DEF PfAnswerAs, Pf!GetAnswers, PfHere
  <2> QED  BY ONLY <2>1, PfAnswered
<1>12. Pf!Write(c, 1, half, s)
       BY <1>3, <1>5 DEF Pf!GetAnswers
<1>13. /\ latest' = [latest EXCEPT ![c] =
              IF (half # "pending" \/ c \in light) /\ queue[c][1].on = object THEN s ELSE latest[c]]
       /\ pendingState' = [pendingState EXCEPT ![c] =
              IF half = "pending" /\ c \notin light /\ queue[c][1].on = object THEN s ELSE pendingState[c]]
       BY <1>1, <1>12, PfWrites
<1>14. latest' = [latest EXCEPT ![c] = l1]
       BY <1>2, <1>3, <1>6, <1>13
<1>15. pendingState' = [pendingState EXCEPT ![c] = p1]
       BY <1>2, <1>3, <1>7, <1>13
<1>17. queue' = [queue EXCEPT ![c] = t]
       BY <1>1, <1>3, <1>8, <1>9 DEF PfTypes, Pf!GetAnswers
<1> QED  BY <1>2, <1>11, <1>14, <1>15, <1>17, PfOnly DEF Pf!GetAnswers, Pf!bounds

\* A failure of one half of it.
LEMMA PfGetFails ==
    ASSUME PfInv, NEW c \in Chains, queue[c] # <<>>, NEW half \in {"latest", "pending"},
           Pf!GetFails(c, 1, half)
    PROVE  PfInv'
<1>1. PfTypes /\ PfHere(c)
      BY DEF PfInv
<1>2. PICK lit \in BOOLEAN : lit = (c \in light)
  <2>1. CASE c \in light
        BY <2>1
  <2>2. CASE c \notin light
    <3>1. FALSE = (c \in light)
          BY <2>2
    <3> QED  BY <3>1
  <2> QED  BY <2>1, <2>2
<1>3. PICK q : q = queue[c]
      OBVIOUS
<1>4. PfOk(object, lit, latest[c], pendingState[c], q, last[c])
      BY <1>1, <1>2, <1>3 DEF PfHere
<1>5. PICK s : s = IF half = "pending" /\ ~lit THEN pendingState[c] ELSE latest[c]
      OBVIOUS
<1>6. PICK replaced \in BOOLEAN : replaced = (lit /\ "answered" \in {q[1].latest, q[1].pending})
      OBVIOUS
<1>7. PICK w : w = IF s = None \/ replaced THEN s ELSE Pf!Failed(s)
      OBVIOUS
<1>8. PICK l1 : l1 = IF (half = "latest" \/ lit) /\ q[1].on = object THEN w ELSE latest[c]
      OBVIOUS
<1>9. PICK p1 : p1 = IF half = "pending" /\ ~lit /\ q[1].on = object THEN w ELSE pendingState[c]
      OBVIOUS
<1>10. PICK r : r = [q[1] EXCEPT ![half] = "done"]
       OBVIOUS
<1>11. PICK t : t = [q EXCEPT ![1] = r]
       OBVIOUS
<1>12. q[1][half] = "get"
       BY <1>3 DEF Pf!GetFails
<1>13. PfOk(object, lit, l1, p1, t, last[c])
  <2>1. PfFailAs(object, lit, latest[c], pendingState[c], q, last[c], half, s, replaced, w, l1, p1, r, t)
        BY <1>3, <1>4, <1>5, <1>6, <1>7, <1>8, <1>9, <1>10, <1>11, <1>12 DEF PfFailAs
  <2> QED  BY ONLY <2>1, PfFails
<1>14. Pf!Write(c, 1, half, w)
       BY <1>2, <1>3, <1>5, <1>6, <1>7 DEF Pf!GetFails
<1>15. /\ latest' = [latest EXCEPT ![c] =
              IF (half # "pending" \/ c \in light) /\ queue[c][1].on = object THEN w ELSE latest[c]]
       /\ pendingState' = [pendingState EXCEPT ![c] =
              IF half = "pending" /\ c \notin light /\ queue[c][1].on = object THEN w ELSE pendingState[c]]
       BY <1>1, <1>14, PfWrites
<1>16. latest' = [latest EXCEPT ![c] = l1]
       BY <1>2, <1>3, <1>8, <1>15
<1>17. pendingState' = [pendingState EXCEPT ![c] = p1]
       BY <1>2, <1>3, <1>9, <1>15
<1>19. queue' = [queue EXCEPT ![c] = t]
       BY <1>1, <1>3, <1>10, <1>11 DEF PfTypes, Pf!GetFails
<1> QED  BY <1>2, <1>13, <1>16, <1>17, <1>19, PfOnly DEF Pf!GetFails, Pf!bounds

\* Its end.
LEMMA PfEndUpdate ==
    ASSUME PfInv, NEW c \in Chains, queue[c] # <<>>, Pf!EndUpdate(c, 1)
    PROVE  PfInv'
<1>2. PICK lit \in BOOLEAN : lit = (c \in light)
  <2>1. CASE c \in light
        BY <2>1
  <2>2. CASE c \notin light
    <3>1. FALSE = (c \in light)
          BY <2>2
    <3> QED  BY <3>1
  <2> QED  BY <2>1, <2>2
<1>3. PICK q : q = queue[c]
      OBVIOUS
<1>4. PfOk(object, lit, latest[c], pendingState[c], q, last[c])
      BY <1>2, <1>3 DEF PfHere, PfInv
<1>5. PICK t : t = Without(q, 1)
      OBVIOUS
<1>6. {q[1].latest, q[1].pending} \subseteq {"answered", "done"}
      BY <1>3 DEF Pf!EndUpdate
<1>7. PfOk(object, lit, latest[c], pendingState[c], t, last[c])
      BY ONLY <1>3, <1>4, <1>5, <1>6, queue[c] # <<>>, PfEnds
<1>8. queue' = [queue EXCEPT ![c] = t]
      BY <1>3, <1>5 DEF Pf!EndUpdate, Pf!RemoveAt, Without
<1>9. /\ latest' = [latest EXCEPT ![c] = latest[c]]
      /\ pendingState' = [pendingState EXCEPT ![c] = pendingState[c]]
      BY DEF Pf!EndUpdate, PfTypes, PfStates, PfInv
<1>10. UNCHANGED <<object, tank, tankOf, unusual, last, light, upsets>>
       BY DEF Pf!EndUpdate, Pf!bounds
<1> QED  BY <1>2, <1>7, <1>8, <1>9, <1>10, PfOnly

\* Its start again.
LEMMA PfRetryUpdate ==
    ASSUME PfInv, NEW c \in Chains, queue[c] # <<>>, Pf!RetryUpdate(c, 1)
    PROVE  PfInv'
<1>1. PICK q : q = queue[c]
      OBVIOUS
<1>2. PfOk(object, c \in light, latest[c], pendingState[c], q, last[c])
      BY <1>1 DEF PfHere, PfInv
<1>3. PICK r : r = [q[1] EXCEPT !.again = TRUE, !.on = 0, !.latest = "queued", !.pending = "queued"]
      OBVIOUS
<1>4. PICK t : t = [q EXCEPT ![1] = r]
      OBVIOUS
<1>5. q # <<>> /\ q[1].latest = "answered" /\ q[1].pending \in {"answered", "done"}
      BY <1>1 DEF Pf!RetryUpdate
<1>6. PfOk(object, c \in light, latest[c], pendingState[c], t, last[c])
      BY ONLY <1>2, <1>3, <1>4, <1>5, PfRetries
<1>7. queue' = [queue EXCEPT ![c][1] = r]
      BY <1>1, <1>3 DEF Pf!RetryUpdate
<1>8. queue' = [queue EXCEPT ![c] = t]
      BY <1>1, <1>4, <1>7 DEF PfInv, PfTypes
<1>9. /\ latest' = [latest EXCEPT ![c] = latest[c]]
      /\ pendingState' = [pendingState EXCEPT ![c] = pendingState[c]]
      BY DEF Pf!RetryUpdate, PfTypes, PfStates, PfInv
<1>10. UNCHANGED <<object, tank, tankOf, unusual, last, light, upsets>>
       BY DEF Pf!RetryUpdate, Pf!bounds
<1> QED  BY <1>6, <1>8, <1>9, <1>10, PfOnly

\* Removing the account.
LEMMA PfRemoveAccountData == ASSUME PfInv, Pf!RemoveAccountData PROVE PfInv'
<1>5. ASSUME NEW c \in Chains PROVE PfHere(c)'
      BY PfForgotten DEF PfHere, PfInv, Pf!RemoveAccountData, Pf!Upset, Pf!Absent
<1>6. unusual' \in BOOLEAN
      BY DEF Pf!RemoveAccountData
<1>7. PfTank'
      BY <1>6 DEF PfInv, PfTank, Pf!RemoveAccountData
<1> QED  BY <1>5, <1>7 DEF PfInv, PfTypes, PfStates, Pf!RemoveAccountData, Pf!Upset, Pf!Absent

\* Disabling a network.
LEMMA PfRemoveNetworkData == ASSUME PfInv, NEW c \in Chains, Pf!RemoveNetworkData(c) PROVE PfInv'
<1>1. PfTypes /\ PfTank /\ \A d \in Chains : PfHere(d)
      BY DEF PfInv
<1>2. /\ latest' = [latest EXCEPT ![c] = None] /\ pendingState' = [pendingState EXCEPT ![c] = None]
      /\ upsets > 0 /\ upsets' = upsets - 1 /\ UNCHANGED <<object, tank, queue, tankOf, unusual, last, light>>
      BY DEF Pf!RemoveNetworkData, Pf!Upset
<1>3. latest \in PfStates /\ pendingState \in PfStates /\ object \in Nat
      BY <1>1 DEF PfTypes
<1>6. ASSUME NEW d \in Chains PROVE PfHere(d)'
  <2>1. CASE d = c
        BY <1>1, <1>2, <1>3, <2>1, PfForgotten DEF PfHere, PfStates
  <2>2. CASE d # c
        BY <1>1, <1>2, <1>3, <2>2 DEF PfHere, PfStates
  <2> QED  BY <2>1, <2>2
<1> QED  BY <1>1, <1>2, <1>3, <1>6 DEF PfInv, PfTank, PfTypes, PfStates

\* The least interval between two updates passes.
LEMMA PfTimePasses == ASSUME PfInv, Pf!TimePasses PROVE PfInv'
<1>1. PfTypes /\ PfTank /\ \A c \in Chains : PfHere(c)
      BY DEF PfInv
<1>3. ASSUME NEW c \in Chains
      PROVE  /\ Pf!Old(latest[c]) \in Pf!States \cup {None}
             /\ Pf!Old(pendingState[c]) \in Pf!States \cup {None}
      BY <1>1, PfOldIs DEF PfTypes, PfStates
<1>6. ASSUME NEW c \in Chains PROVE PfHere(c)'
      BY <1>1, PfAged DEF PfHere, Pf!TimePasses, Pf!Upset
<1> QED  BY <1>1, <1>3, <1>6, PfOldIs DEF PfInv, PfTank, PfTypes, PfStates, Pf!TimePasses, Pf!Upset

\* Every step keeps the invariant.
LEMMA PfInvNext == ASSUME PfInv, [Pf!Next]_pfVars PROVE PfInv'
<1>1. CASE UNCHANGED pfVars
      BY <1>1 DEF pfVars, PfInv, PfTypes, PfTank, PfHere
<1>2. ASSUME NEW nets \in SUBSET Chains \ {{}}, NEW ops \in Pf!Ops, NEW force \in BOOLEAN, NEW sim \in {ops, None},
             Pf!UpdateSelectedAccount(nets, ops, sim, force)
      PROVE  PfInv'
  <2>1. sim \in Pf!Ops
        BY DEF Pf!Ops
  <2> QED  BY <1>2, <2>1, PfUpdateSelectedAccount
<1>3. CASE \E i \in DOMAIN tankOf : Pf!TankAnswers(i) \/ Pf!TankThrows(i) \/ Pf!TankFails(i)
      BY <1>3, PfTankStep
<1>4. ASSUME NEW c \in Chains, NEW i \in Pf!Runs(c) PROVE i = 1 /\ queue[c] # <<>>
      BY <1>4, PfFirst DEF Pf!Runs, PfInv, PfTypes
<1>5. ASSUME NEW c \in Chains, NEW i \in Pf!Runs(c),
             Pf!StartUpdate(c, i) \/ Pf!EndUpdate(c, i) \/ Pf!RetryUpdate(c, i)
      PROVE  PfInv'
      BY <1>4, <1>5, PfStartUpdate, PfEndUpdate, PfRetryUpdate
<1>6. ASSUME NEW c \in Chains, NEW i \in Pf!Runs(c), NEW half \in {"latest", "pending"},
             Pf!GetAnswers(c, i, half) \/ Pf!GetFails(c, i, half)
      PROVE  PfInv'
      BY <1>4, <1>6, PfGetAnswers, PfGetFails
<1>7. CASE Pf!AddAccount
      BY <1>7 DEF Pf!AddAccount, Pf!bounds, PfInv, PfTypes, PfTank, PfHere
<1>8. CASE Pf!RemoveAccountData \/ Pf!TimePasses \/ \E c \in Chains : Pf!RemoveNetworkData(c)
      BY <1>8, PfRemoveAccountData, PfTimePasses, PfRemoveNetworkData
<1> QED  BY <1>1, <1>2, <1>3, <1>5, <1>6, <1>7, <1>8 DEF Pf!Next

\* The invariant is what a run checks.
LEMMA PfKeeps == ASSUME PfInv PROVE Pf!TypeOK /\ Pf!QuietPendingIsAsked /\ Pf!QuietNothingLoads
<1>1. PfTypes /\ PfTank /\ \A c \in Chains : PfHere(c)
      BY DEF PfInv
<1>3. ASSUME NEW c \in Chains, queue[c] = <<>>
      PROVE  /\ latest[c] # None => ~latest[c].loading
             /\ pendingState[c] # None => ~pendingState[c].loading
             /\ pendingState[c] # None /\ last[c].sure =>
                   pendingState[c].error \/ pendingState[c].ops \in {last[c].ops, last[c].sim}
  <2>3. ASSUME pendingState[c] # None, last[c].sure
        PROVE  pendingState[c].error \/ pendingState[c].ops \in {last[c].ops, last[c].sim}
        BY <1>1, <1>3, <2>3 DEF PfAsked, PfSure, PfFits, PfHere, PfOk
  <2> QED  BY <1>1, <1>3, <2>3 DEF PfLoads, PfHere, PfOk
<1>5. Pf!QuietNothingLoads
  <2>1. ASSUME NEW c \in Chains, queue[c] = <<>>
        PROVE  TRUE \notin {s.loading : s \in {latest[c], pendingState[c]} \ {None}}
    <3>1. ASSUME NEW s \in {latest[c], pendingState[c]} \ {None} PROVE s.loading # TRUE
          BY <1>3, <2>1, <3>1
    <3> QED  BY <3>1
  <2>2. ASSUME tankOf = <<>>, tank # None, ~unusual PROVE ~tank.loading
        BY <1>1, <2>2, LenProperties, EmptySeq DEF PfTank
  <2> QED  BY <2>1, <2>2 DEF Pf!QuietNothingLoads
<1> QED  BY <1>1, <1>3, <1>5 DEF PfTypes, PfTank, PfStates, Pf!TypeOK, Pf!QuietPendingIsAsked

-----------------------------------------------------------------------------
(* SelectedAccount.  What is shown is what was calculated last.  Unless the  *)
(* portfolio, or the positions that it waits for, are about to be looked at, *)
(* it is what a calculation would give now.                                  *)

SelState == [loading : BOOLEAN, error : BOOLEAN, block : Nat, tokens : Nat, op : SimulatedOps \cup {None}]
SelPositions == [loading : BOOLEAN, at : Nat]
SelEntry == [of : Wallets, block : Nat, at : Nat, op : SimulatedOps \cup {None}, tokens : Nat]
\* A simulated operation comes with the block of its simulation.
SelStates ==
    /\ latestOf \in [ShownNets -> SelState \cup {None}]
    /\ pendingOf \in [ShownNets -> SelState \cup {None}]
    /\ defiOf \in [ShownNets -> SelPositions \cup {None}]
    /\ head \in [block : Nat \ {0}, tokens : Nat]
    /\ \A c \in ShownNets : pendingOf[c] # None /\ pendingOf[c].op # None => pendingOf[c].block > 0
SelTypes ==
    /\ account \in Wallets \cup {None}
    /\ byNetworks \in [ShownNets -> SelEntry \cup {None}]
    /\ debounced \subseteq {"portfolio", "defi"} /\ started \in {"no", "recent", "late"}
    /\ \A c \in ShownNets : byNetworks[c] # None => byNetworks[c].of = account
    /\ account # None => portfolio.by = byNetworks
\* What an entry shows of its network.
SelMatches(c, e) ==
    /\ e.of = account /\ e.block = Sel!Data(c).block /\ e.at = Sel!UpdatedAt(c)
    /\ pendingOf[c].error \/ e.op = Sel!Simulated(c)
SelKnown(c) == latestOf[c] # None /\ ~latestOf[c].loading /\ pendingOf[c] # None /\ ~pendingOf[c].loading
SelIsShown(c) ==
    SelKnown(c) /\ Sel!Data(c).block > 0 =>
        IF byNetworks[c] = None THEN ~portfolio.ready ELSE SelMatches(c, byNetworks[c])
SelNoneLoads == \A d \in ShownNets : ~Sel!DefiLoads(d)
SelNoPositions == \A d \in ShownNets : defiOf[d] = None
SelWaits == "portfolio" \in debounced \/ ("defi" \in debounced /\ ~SelNoPositions)
SelCurrent == account # None /\ ~SelWaits /\ SelNoneLoads => \A c \in ShownNets : SelIsShown(c)
SelListed ==
    account # None /\ "defi" \notin debounced => \A c \in ShownNets :
        positions[c] # None => defiOf[c] # None /\ positions[c] = [of |-> account, at |-> defiOf[c].at]
SelInv == SelStates /\ SelTypes /\ SelCurrent /\ SelListed

\* What a network's data and times are.
LEMMA SelDataIs ==
    ASSUME SelStates, NEW c \in ShownNets
    PROVE  /\ latestOf[c] # None => Sel!Data(c) \in SelState
           /\ Sel!UpdatedAt(c) \in Nat
           /\ Sel!Simulated(c) \in SimulatedOps \cup {None}
<1> QED  BY DEF Sel!UpdatedAt, SelPositions, Sel!Data, Sel!Valid, SelStates, Sel!Simulated, SelState

\* What is calculated for a network is an entry that matches it.
LEMMA SelCalculatedIs ==
    ASSUME SelStates, account \in Wallets, NEW c \in ShownNets, latestOf[c] # None
    PROVE  Sel!Calculated(c) \in SelEntry /\ Sel!Calculated(c) # None /\ Sel!Calculated(c).of = account
           /\ SelMatches(c, Sel!Calculated(c))
<1>1. PICK b, t, o : b = Sel!UpdatedAt(c) /\ t = Sel!Data(c) /\ o = Sel!Simulated(c)
      OBVIOUS
<1>2. b \in Nat /\ t \in SelState /\ o \in SimulatedOps \cup {None}
      BY <1>1, SelDataIs
<1>3. t.block \in Nat /\ t.tokens \in Nat
      BY <1>2 DEF SelState
<1>4. Sel!Calculated(c) = [of |-> account, block |-> t.block, at |-> b, op |-> o, tokens |-> t.tokens]
      BY <1>1 DEF Sel!Calculated
<1>5. Sel!Calculated(c) \in SelEntry
      BY ONLY account \in Wallets, <1>2, <1>3, <1>4 DEF SelEntry
<1> QED  BY <1>1, <1>4, <1>5, SelAssumed DEF SelEntry, SelMatches

\* An entry that matches is what would be calculated.
LEMMA SelMatchesIs ==
    ASSUME SelStates, account \in Wallets, NEW c \in ShownNets, latestOf[c] # None,
           NEW e \in SelEntry, SelMatches(c, e)
    PROVE  e = [Sel!Calculated(c) EXCEPT !.tokens = e.tokens, !.op = IF pendingOf[c].error THEN e.op ELSE @]
<1>1. PICK r : r = Sel!Calculated(c)
      OBVIOUS
<1>2. r \in SelEntry /\ r.op = Sel!Simulated(c) /\ r.of = account /\ r.block = Sel!Data(c).block /\ r.at = Sel!UpdatedAt(c)
      BY <1>1, SelCalculatedIs DEF Sel!Calculated
<1>3. PICK o : o = IF pendingOf[c].error THEN e.op ELSE r.op
      OBVIOUS
<1>4. o = e.op
      BY <1>2, <1>3 DEF SelMatches
<1>5. r.of = e.of /\ r.block = e.block /\ r.at = e.at
      BY <1>2 DEF SelMatches
<1>6. [r EXCEPT !.tokens = e.tokens, !.op = o] = e
      BY ONLY <1>2, <1>4, <1>5, e \in SelEntry DEF SelEntry
<1> QED  BY <1>1, <1>3, <1>6

\* What was calculated before and seems to be the same matches.
LEMMA SelKept ==
    ASSUME SelStates, SelTypes, account # None, NEW c \in ShownNets, SelKnown(c), Sel!Data(c).block > 0,
           ~Sel!DefiLoads(c), ~Sel!NeedsRecalculation(c, byNetworks[c])
    PROVE  byNetworks[c] # None /\ SelMatches(c, byNetworks[c])
<1>1. PICK e : e = byNetworks[c]
      OBVIOUS
<1>4. latestOf[c] \in SelState /\ pendingOf[c] \in SelState
      BY DEF SelStates, SelKnown
<1>5. pendingOf[c].error \/ pendingOf[c].op = None
  <2>1. CASE Sel!Valid(c)
        BY <1>1, <2>1 DEF Sel!Data, Sel!HasChanged, SelTypes, Sel!NeedsRecalculation, SelKnown
  <2>2. CASE ~Sel!Valid(c)
    <3>2. ASSUME pendingOf[c].op # None, ~pendingOf[c].error PROVE FALSE
          BY <2>2, <3>2 DEF Sel!Valid, SelStates, SelKnown, Sel!Data
    <3> QED  BY <3>2
  <2> QED  BY <2>1, <2>2
<1> QED  BY <1>1, <1>5 DEF SelMatches, Sel!Simulated, SelKnown, Sel!NeedsRecalculation, Sel!HasChanged,
            SelTypes

\* A calculation.
LEMMA SelRunPortfolio ==
    ASSUME SelInv, Sel!RunPortfolio
    PROVE  SelInv'
<1>1. SelStates /\ SelTypes /\ SelCurrent /\ SelListed
      BY DEF SelInv
<1>2. /\ debounced' = debounced \ {"portfolio"}
      /\ UNCHANGED <<account, latestOf, pendingOf, defiOf, head, positions>>
      BY DEF Sel!RunPortfolio, Sel!states
<1>4. CASE account = None
      BY <1>1, <1>2, <1>4 DEF SelInv, SelTypes, SelCurrent, SelStates, SelListed, Sel!RunPortfolio,
         Sel!UpdateSelectedAccountPortfolio
<1>5. CASE account # None
  <2>1. /\ byNetworks' = Sel!NewByNetworks
        /\ portfolio' = [of |-> account, by |-> Sel!NewByNetworks, ready |-> Sel!AllReady, visible |-> Sel!Visible]
        /\ started' \in {"no", "recent", started}
        BY <1>5 DEF Sel!RunPortfolio, Sel!UpdateSelectedAccountPortfolio
  <2>3. ASSUME NEW c \in ShownNets
        PROVE  /\ byNetworks'[c] \in SelEntry \cup {None}
               /\ byNetworks'[c] # None => byNetworks'[c].of = account
        BY <1>1, <1>5, <2>1, SelCalculatedIs DEF SelTypes, Sel!NewByNetworks, Sel!NothingOf,
           Sel!Recalculated, Sel!Held
  <2>4. byNetworks' \in [ShownNets -> SelEntry \cup {None}]
    <3>1. CASE Sel!HasState
          BY <2>1, <2>3, <3>1 DEF Sel!NewByNetworks
    <3>2. CASE ~Sel!HasState
          BY <2>1, <3>2 DEF Sel!NewByNetworks, Sel!NothingOf
    <3> QED  BY <3>1, <3>2
  <2>6. ASSUME SelNoneLoads, NEW c \in ShownNets, SelKnown(c), Sel!Data(c).block > 0
        PROVE  byNetworks'[c] # None /\ SelMatches(c, byNetworks'[c])
    <3>2. CASE Sel!NeedsRecalculation(c, byNetworks[c])
      <4>3. byNetworks'[c] = Sel!Calculated(c)
            BY <2>1, <2>6, <3>2 DEF Sel!NewByNetworks, Sel!Recalculated, Sel!Loaded, SelKnown, Sel!Data,
               Sel!HasState, Sel!Held, SelNoneLoads
      <4> QED  BY <1>1, <1>5, <2>6, <4>3, SelCalculatedIs DEF SelKnown, SelTypes
    <3>3. CASE ~Sel!NeedsRecalculation(c, byNetworks[c])
          BY <1>1, <1>5, <2>1, <2>6, <3>3, SelKept DEF Sel!NewByNetworks, Sel!Recalculated, Sel!HasState,
             Sel!Held, SelKnown, SelNoneLoads
    <3> QED  BY <3>2, <3>3
  <2>7. SelCurrent'
    <3>1. ASSUME SelNoneLoads', NEW c \in ShownNets, SelKnown(c)', (Sel!Data(c).block > 0)'
          PROVE  byNetworks'[c] # None /\ SelMatches(c, byNetworks[c])'
          BY <1>2, <2>6, <3>1 DEF SelMatches, Sel!Data, Sel!Valid, Sel!UpdatedAt, Sel!Simulated,
             SelNoneLoads, Sel!DefiLoads, SelKnown
    <3> QED  BY <3>1 DEF SelCurrent, SelIsShown
  <2> QED  BY <1>1, <1>2, <2>1, <2>3, <2>4, <2>7 DEF SelInv, SelStates, SelListed, SelTypes
<1> QED  BY <1>4, <1>5

\* Nothing is shown after a reset.
LEMMA SelAfterReset ==
    ASSUME Sel!ResetPortfolio, account' \in Wallets \cup {None}, started' \in {"no", "recent", "late"},
           debounced' \subseteq {"portfolio", "defi"}
    PROVE  SelTypes' /\ SelCurrent'
<1>2. SelTypes'
      BY DEF SelTypes, Sel!ResetPortfolio, Sel!DefaultPortfolio, Sel!NothingOf
<1>3. SelCurrent'
      BY DEF SelCurrent, SelIsShown, Sel!ResetPortfolio, Sel!DefaultPortfolio, Sel!NothingOf
<1> QED  BY <1>2, <1>3

\* The states of another account.
LEMMA SelEarlier == \A s \in Sel!Earlier :
    s \in [ShownNets -> SelState \cup {None}] /\ \A c \in ShownNets : s[c] # None => s[c].op = None
<1> SUFFICES ASSUME NEW s \in Sel!Earlier
             PROVE  s \in [ShownNets -> SelState \cup {None}] /\ \A c \in ShownNets : s[c] # None => s[c].op = None
    OBVIOUS
<1>1. CASE s = Sel!NothingOf
      BY <1>1 DEF Sel!NothingOf
<1>2. CASE s = [c \in ShownNets |-> [Sel!Blank EXCEPT !.block = 1]]
  <2>1. PICK b : b = [Sel!Blank EXCEPT !.block = 1]
        OBVIOUS
  <2> QED  BY <1>2, <2>1 DEF SelState, Sel!Blank
<1> QED  BY <1>1, <1>2 DEF Sel!Earlier

\* Another account is selected, or none.
LEMMA SelSetAccount ==
    ASSUME SelInv, NEW a \in Wallets \cup {None}, NEW l \in Sel!Earlier, NEW p \in Sel!Earlier,
           Sel!SetAccount(a, l, p)
    PROVE  SelInv'
<1>6. CASE a = None
      BY <1>6, SelEarlier DEF SelInv, SelTypes, SelCurrent, SelListed, SelStates, Sel!SetAccount,
         Sel!NothingOf
<1>7. CASE a # None
      BY <1>7, SelAfterReset, SelEarlier DEF SelInv, SelListed, SelTypes, SelStates, Sel!SetAccount,
         Sel!NothingOf
<1> QED  BY <1>6, <1>7

\* A refresh.
LEMMA SelRefresh ==
    ASSUME SelInv, Sel!Refresh
    PROVE  SelInv'
<1> QED  BY SelAfterReset DEF SelInv, SelStates, SelListed, Sel!Refresh, Sel!states, SelTypes

\* A network that is disabled.
LEMMA SelDisableNetwork ==
    ASSUME SelInv, NEW c \in ShownNets, Sel!DisableNetwork(c)
    PROVE  SelInv'
<1> QED  BY SelAfterReset DEF SelInv, SelListed, SelStates, Sel!DisableNetwork, SelTypes

\* The positions are listed; the portfolio is calculated after them, unless some still load.
LEMMA SelRunDefi ==
    ASSUME SelInv, Sel!RunDefi
    PROVE  SelInv'
<1>2. /\ debounced' = (debounced \ {"defi"}) \cup (IF account # None /\ Sel!AnyDefiLoads THEN {} ELSE {"portfolio"})
      /\ UNCHANGED <<account, latestOf, pendingOf, defiOf, head, byNetworks, portfolio, started>>
      BY DEF Sel!RunDefi, Sel!states
<1>5. SelListed'
  <2>1. ASSUME account # None, NEW c \in ShownNets, positions'[c] # None
        PROVE  defiOf[c] # None /\ positions'[c] = [of |-> account, at |-> defiOf[c].at]
        BY <2>1 DEF Sel!RunDefi
  <2> QED  BY <1>2, <2>1 DEF SelListed
<1>6. SelCurrent'
  <2>1. ASSUME account # None, "portfolio" \notin debounced', SelNoneLoads
        PROVE  \A c \in ShownNets : SelIsShown(c)
        BY <1>2, <2>1 DEF SelCurrent, SelWaits, Sel!AnyDefiLoads, SelNoneLoads, SelNoPositions, SelInv
  <2>3. ASSUME NEW c \in ShownNets, SelIsShown(c) PROVE SelIsShown(c)'
        BY <1>2, <2>3 DEF SelIsShown, SelKnown, Sel!Data, Sel!Valid, SelMatches, Sel!UpdatedAt, Sel!Simulated
  <2> QED  BY <1>2, <2>1, <2>3 DEF SelCurrent, SelWaits, SelNoneLoads, Sel!DefiLoads
<1> QED  BY <1>2, <1>5, <1>6 DEF SelInv, SelStates, SelTypes

\* A load or an answer of the portfolio, which a calculation follows.
LEMMA SelEmits ==
    ASSUME SelInv, Sel!PortfolioEmits, UNCHANGED <<defiOf, head>>,
           latestOf' \in [ShownNets -> SelState \cup {None}], pendingOf' \in [ShownNets -> SelState \cup {None}],
           \A c \in ShownNets : pendingOf'[c] # None /\ pendingOf'[c].op # None => pendingOf'[c].block > 0
    PROVE  SelInv'
<1> QED  BY DEF SelInv, SelCurrent, SelWaits, Sel!PortfolioEmits, Sel!displays, SelStates, SelTypes,
            SelListed

\* A state that begins to load.
LEMMA SelLoadIs ==
    ASSUME NEW s \in SelState \cup {None}
    PROVE  /\ Sel!Load(s) \in SelState
           /\ Sel!Load(s).op # None => s # None /\ Sel!Load(s).op = s.op /\ Sel!Load(s).block = s.block
<1>1. CASE s = None
      BY <1>1 DEF SelState, Sel!Load, Sel!Blank
<1>2. CASE s # None
      BY <1>2 DEF SelState, Sel!Load
<1> QED  BY <1>1, <1>2

\* An answer.
LEMMA SelOutcomeIs ==
    ASSUME SelStates, NEW s \in SelState, NEW ops \in SUBSET (SimulatedOps \cup {None}), NEW t \in Sel!Outcomes(s, ops)
    PROVE  /\ t \in SelState
           /\ t.block > 0 \/ (t.op = s.op /\ t.block = s.block)
<1>1. CASE t = [s EXCEPT !.loading = FALSE, !.error = TRUE]
      BY <1>1 DEF SelState
<1>2. ASSUME NEW o \in ops,
             t = [loading |-> FALSE, error |-> FALSE, block |-> head.block, tokens |-> head.tokens, op |-> o]
      PROVE  t \in SelState /\ t.block > 0
      BY <1>2 DEF SelState, SelStates
<1>3. \/ t = [s EXCEPT !.loading = FALSE, !.error = TRUE]
      \/ \E o \in ops :
            t = [loading |-> FALSE, error |-> FALSE, block |-> head.block, tokens |-> head.tokens, op |-> o]
  <2>1. t \in {[loading |-> FALSE, error |-> FALSE, block |-> head.block, tokens |-> head.tokens, op |-> o] : o \in ops}
             \cup {[s EXCEPT !.loading = FALSE, !.error = TRUE]}
        BY DEF Sel!Outcomes
  <2> QED  BY ONLY <2>1
<1> QED  BY <1>1, <1>2, <1>3

\* The portfolio of a network begins to load.
LEMMA SelLoadPortfolio ==
    ASSUME SelInv, NEW c \in ShownNets, Sel!LoadPortfolio(c)
    PROVE  SelInv'
<1>1. SelStates
      BY DEF SelInv
<1>2. /\ latestOf' = [latestOf EXCEPT ![c] = Sel!Load(latestOf[c])]
      /\ pendingOf' = [pendingOf EXCEPT ![c] = Sel!Load(pendingOf[c])]
      /\ Sel!PortfolioEmits /\ UNCHANGED <<defiOf, head>>
      BY DEF Sel!LoadPortfolio
<1>6. ASSUME NEW d \in ShownNets, pendingOf'[d] # None, pendingOf'[d].op # None PROVE pendingOf'[d].block > 0
  <2>1. CASE d = c
        BY <1>1, <1>2, <1>6, <2>1, SelLoadIs DEF SelStates
  <2>2. CASE d # c
        BY <1>1, <1>2, <1>6, <2>2 DEF SelStates
  <2> QED  BY <2>1, <2>2
<1> QED  BY <1>1, <1>2, <1>6, SelEmits, SelLoadIs DEF SelStates

\* The latest state is answered.
LEMMA SelLatestLoaded ==
    ASSUME SelInv, NEW c \in ShownNets, Sel!LatestLoaded(c)
    PROVE  SelInv'
<1>2. PICK s \in Sel!Outcomes(latestOf[c], {None}) : latestOf' = [latestOf EXCEPT ![c] = s]
      BY DEF Sel!LatestLoaded
<1> QED  BY <1>2, SelEmits, SelOutcomeIs DEF SelStates, Sel!LatestLoaded, SelInv

\* The pending state is answered.
LEMMA SelPendingLoaded ==
    ASSUME SelInv, NEW c \in ShownNets, Sel!PendingLoaded(c)
    PROVE  SelInv'
<1>1. SelStates
      BY DEF SelInv
<1>2. PICK s \in Sel!Outcomes(pendingOf[c], SimulatedOps \cup {None}) : pendingOf' = [pendingOf EXCEPT ![c] = s]
      BY DEF Sel!PendingLoaded
<1>7. ASSUME NEW d \in ShownNets, pendingOf'[d] # None, pendingOf'[d].op # None PROVE pendingOf'[d].block > 0
  <2>1. CASE d = c
        BY <1>1, <1>2, <1>7, <2>1, SelOutcomeIs DEF SelStates, Sel!PendingLoaded
  <2>2. CASE d # c
        BY <1>1, <1>2, <1>7, <2>2 DEF SelStates
  <2> QED  BY <2>1, <2>2
<1> QED  BY <1>1, <1>2, <1>7, SelEmits, SelOutcomeIs DEF SelStates, Sel!PendingLoaded

\* Positions that load or are loaded, which a list of them follows.
LEMMA SelDefi ==
    ASSUME SelInv, NEW c \in ShownNets, Sel!LoadDefi(c) \/ Sel!DefiLoaded(c)
    PROVE  SelInv'
<1>1. SelStates /\ SelTypes
      BY DEF SelInv
<1>2. /\ debounced' = debounced \cup {"defi"}
      /\ UNCHANGED <<account, byNetworks, portfolio, positions, started, latestOf, pendingOf, head>>
      BY DEF Sel!LoadDefi, Sel!DefiLoaded, Sel!DefiEmits, Sel!displays
<1>3. PICK s \in SelPositions : defiOf' = [defiOf EXCEPT ![c] = s]
  <2>1. CASE Sel!LoadDefi(c)
        BY <1>1, <2>1, SelDataIs DEF Sel!LoadDefi, SelPositions
  <2>2. CASE Sel!DefiLoaded(c)
    <3>2. [loading |-> FALSE, at |-> defiOf[c].at + 1] \in SelPositions
          BY <1>1, <2>2 DEF SelPositions, Sel!DefiLoaded, Sel!DefiLoads, SelStates
    <3> QED  BY <2>2, <3>2 DEF Sel!DefiLoaded
  <2> QED  BY <2>1, <2>2
<1> QED  BY <1>1, <1>2, <1>3, SelAssumed DEF SelInv, SelStates, SelTypes, SelListed, SelCurrent, SelWaits,
            SelNoPositions, SelPositions

\* The network goes on, the lists of tokens change, and time passes.
LEMMA SelWorld ==
    ASSUME SelInv,
           UNCHANGED <<account, latestOf, pendingOf, defiOf, byNetworks, portfolio, positions, debounced>>,
           head' \in [block : Nat \ {0}, tokens : Nat], started' \in {"no", "recent", "late"}
    PROVE  SelInv'
<1>4. ASSUME NEW c \in ShownNets, SelIsShown(c) PROVE SelIsShown(c)'
      BY <1>4 DEF SelIsShown, SelKnown, Sel!Data, Sel!Valid, SelMatches, Sel!UpdatedAt, Sel!Simulated
<1>6. SelCurrent'
      BY <1>4 DEF SelCurrent, SelInv, SelNoneLoads, Sel!DefiLoads, SelWaits, SelNoPositions
<1> QED  BY <1>6 DEF SelInv, SelStates, SelTypes, SelListed

\* At first nothing is shown.
LEMMA SelInvInit == Sel!Init => SelInv
<1> SUFFICES ASSUME Sel!Init PROVE SelInv
    OBVIOUS
<1>5. SelCurrent
      BY SelAssumed DEF SelCurrent, SelIsShown, SelKnown, Sel!Init, Sel!NothingOf, Sel!DefaultPortfolio
<1> QED  BY <1>5, SelAssumed DEF SelInv, SelTypes, SelListed, SelStates, Sel!Init, Sel!NothingOf,
            Sel!DefaultPortfolio

\* Every step.
LEMMA SelInvNext == SelInv /\ [Sel!Next]_selVars => SelInv'
<1> SUFFICES ASSUME SelInv, [Sel!Next]_selVars PROVE SelInv'
    OBVIOUS
<1>1. ASSUME Sel!NextBlock \/ Sel!TokenListChanges \/ Sel!TimePasses \/ UNCHANGED selVars PROVE SelInv'
  <2>2. head \in [block : Nat \ {0}, tokens : Nat] /\ started \in {"no", "recent", "late"}
        BY DEF SelStates, SelTypes, SelInv
  <2> QED  BY <1>1, <2>2, SelWorld DEF Sel!NextBlock, Sel!TokenListChanges, Sel!TimePasses, Sel!displays,
              Sel!states, selVars
<1>2. ASSUME NEW a \in Wallets, NEW l \in Sel!Earlier, NEW p \in Sel!Earlier, Sel!SetAccount(a, l, p) PROVE SelInv'
      BY <1>2, SelSetAccount
<1>3. ASSUME Sel!SetAccount(None, Sel!NothingOf, Sel!NothingOf) PROVE SelInv'
      BY <1>3, SelSetAccount DEF Sel!Earlier
<1>4. ASSUME NEW c \in ShownNets,
             \/ Sel!DisableNetwork(c)
             \/ Sel!LoadPortfolio(c) \/ Sel!LatestLoaded(c) \/ Sel!PendingLoaded(c)
             \/ Sel!LoadDefi(c) \/ Sel!DefiLoaded(c)
      PROVE  SelInv'
      BY <1>4, SelDisableNetwork, SelLoadPortfolio, SelLatestLoaded, SelPendingLoaded, SelDefi
<1> QED  BY <1>1, <1>2, <1>3, <1>4, SelRefresh, SelRunPortfolio, SelRunDefi DEF Sel!Next

\* What the selected account promises.
LEMMA SelKeeps == SelInv => Sel!TypeOK /\ Sel!QuietShownIsCurrent
<1> SUFFICES ASSUME SelInv PROVE Sel!TypeOK /\ Sel!QuietShownIsCurrent
    OBVIOUS
<1>1. SelStates /\ SelTypes /\ SelCurrent /\ SelListed
      BY DEF SelInv
<1>3. ASSUME account # None, debounced = {}, NEW c \in ShownNets, Sel!Settled(c), Sel!Data(c).block > 0
      PROVE  IF Sel!ShownOf(c) = None THEN ~portfolio.ready
             ELSE Sel!ShownOf(c) = [Sel!Calculated(c) EXCEPT !.tokens = Sel!ShownOf(c).tokens,
                                        !.op = IF pendingOf[c].error THEN Sel!ShownOf(c).op ELSE @]
  <2>2. CASE byNetworks[c] = None
        BY <1>1, <1>3, <2>2 DEF SelIsShown, SelCurrent, SelTypes, SelWaits, SelNoneLoads, SelKnown,
           Sel!Settled, Sel!ShownOf
  <2>3. CASE byNetworks[c] # None
        BY <1>1, <1>3, <2>3, SelMatchesIs DEF SelIsShown, SelTypes, SelKnown, SelCurrent, SelWaits,
           SelNoneLoads, Sel!Settled, Sel!ShownOf
  <2> QED  BY <2>2, <2>3
<1> QED  BY <1>1, <1>3 DEF Sel!TypeOK, SelTypes, Sel!QuietShownIsCurrent, SelListed

-----------------------------------------------------------------------------
(* The DeFi positions *)

DefiAt == {"debank", "custom", "prices", "done", "thrown"}
DefiKnown == [DefiNets -> Defi!Positions \cup {None}]
DefiSaved == [old : (SUBSET DefiNets) \cup {None}, state : DefiKnown \cup {None, Current}]
DefiUpdate ==
    [of : Wallets, debank : SUBSET {"debank"}, before : [DefiNets -> SUBSET Defi!Sources],
     saved : DefiSaved \cup {None}, on : [DefiNets -> DefiAt]]

DefiTypes ==
    /\ known \in [Wallets -> DefiKnown \cup {None}] /\ selectedOwner \in Wallets \cup {None}
    /\ remembered \in [Wallets -> (SUBSET DefiNets) \cup {None}]
    /\ storedNetworks \in [Wallets -> (SUBSET DefiNets) \cup {None}]
    /\ leftOut \in [Wallets -> SUBSET DefiNets]
    /\ defiStarted \in Nat /\ crossedRemoval \in BOOLEAN
    /\ DOMAIN updates \subseteq Nat /\ updates \in [DOMAIN updates -> DefiUpdate]
    /\ \A u \in DOMAIN updates : u <= defiStarted
\* An update reads the storage when it is done on every network, and asks Debank before all else.
DefiSteps == \A u \in DOMAIN updates :
    /\ updates[u].saved # None => \A n \in DefiNets : updates[u].on[n] = "done"
    /\ \A n \in DefiNets, m \in DefiNets : updates[u].on[n] = "debank" => updates[u].on[m] \in {"debank", "done"}
\* A network is marked as loading by an update that asks for its positions.
DefiLoading == \A a \in Wallets, n \in DefiNets :
    known[a] # None /\ known[a][n] # None /\ known[a][n].loading =>
        \E u \in DOMAIN updates : updates[u].of = a /\ updates[u].on[n] \in {"custom", "prices"}
\* Without removals no update throws: the account and its networks stay known.
DefiWhole == ~crossedRemoval => \A u \in DOMAIN updates :
    /\ known[updates[u].of] # None
    /\ \A n \in DefiNets : updates[u].on[n] # "thrown"
    /\ \A n \in DefiNets : updates[u].on[n] # "done" => known[updates[u].of][n] # None
    /\ updates[u].saved # None => updates[u].saved.state = Current
DefiGood(a, n) ==
    known[a] # None /\ known[a][n] # None /\ known[a][n].positions # {} /\ ~known[a][n].errors
\* What is known without an error is remembered, or was left out for its provider, or an update will
\* write it.
DefiStored ==
    /\ \A a \in Wallets : remembered[a] # None => storedNetworks[a] = remembered[a]
    /\ ~crossedRemoval => \A a \in Wallets, n \in DefiNets : DefiGood(a, n) =>
           \/ n \in leftOut[a] \/ (remembered[a] # None /\ n \in remembered[a])
           \/ \E u \in DOMAIN updates : updates[u].of = a

DefiInv == DefiTypes /\ DefiSteps /\ DefiLoading /\ DefiWhole /\ DefiStored

\* At first nothing is known and no update runs.
LEMMA DefiInvInit == ASSUME Defi!Init PROVE DefiInv
<1> QED  BY DEF DefiInv, DefiLoading, DefiStored, DefiGood, DefiSteps, DefiWhole, Defi!Init, DefiTypes

\* An update goes on, and the others stay where they are.
LEMMA DefiGoes ==
    ASSUME DefiTypes, NEW u \in DOMAIN updates, NEW r \in DefiUpdate, Defi!Goes(u, r)
    PROVE  /\ DOMAIN updates' = DOMAIN updates /\ updates' \in [DOMAIN updates' -> DefiUpdate]
           /\ updates'[u] = r /\ \A v \in DOMAIN updates : v # u => updates'[v] = updates[v]
<1> QED  BY DEF DefiTypes, Defi!Goes

\* An update ends.
LEMMA DefiDrops ==
    ASSUME DefiTypes, NEW u \in DOMAIN updates, Defi!Drop(u)
    PROVE  /\ DOMAIN updates' = DOMAIN updates \ {u} /\ updates' \in [DOMAIN updates' -> DefiUpdate]
           /\ \A v \in DOMAIN updates \ {u} : updates'[v] = updates[v]
<1> QED  BY DEF DefiTypes, Defi!Drop

\* What a step of one update may do: it writes to its own account only, leaves a network marked as
\* loading only where it goes on asking, and throws only where something was removed.
DefiLocal(u, r) ==
    /\ r.of = updates[u].of
    /\ \A b \in Wallets : b # r.of => known'[b] = known[b]
    /\ known'[r.of] = None <=> known[r.of] = None
    /\ known[r.of] # None => \A n \in DefiNets :
          /\ known[r.of][n] # None => known'[r.of][n] # None
          /\ known'[r.of][n] # None /\ known'[r.of][n].loading =>
                \/ r.on[n] \in {"custom", "prices"}
                \/ /\ known[r.of][n] # None /\ known[r.of][n].loading
                   /\ updates[u].on[n] \notin {"custom", "prices"}
    /\ r.saved # None => \A n \in DefiNets : r.on[n] = "done"
    /\ \A n \in DefiNets, m \in DefiNets : r.on[n] = "debank" => r.on[m] \in {"debank", "done"}
    /\ DefiWhole /\ ~crossedRemoval =>
          /\ \A n \in DefiNets : r.on[n] # "thrown" /\ (r.on[n] # "done" => updates[u].on[n] # "done")
          /\ r.saved # None => r.saved.state = Current

\* Such a step keeps the invariant.
LEMMA DefiLocalKeeps ==
    ASSUME DefiInv, NEW u \in DOMAIN updates, NEW r \in DefiUpdate, Defi!Goes(u, r), DefiLocal(u, r),
           known' \in [Wallets -> DefiKnown \cup {None}],
           UNCHANGED <<selectedOwner, remembered, storedNetworks, leftOut, crossedRemoval, defiStarted>>
    PROVE  DefiInv'
<1>1. DefiTypes /\ DefiSteps /\ DefiLoading /\ DefiWhole /\ DefiStored
      BY DEF DefiInv
<1>2. /\ DOMAIN updates' = DOMAIN updates /\ updates' \in [DOMAIN updates' -> DefiUpdate]
      /\ updates'[u] = r /\ \A v \in DOMAIN updates : v # u => updates'[v] = updates[v]
      BY <1>1, DefiGoes
<1>3. /\ updates \in [DOMAIN updates -> DefiUpdate] /\ updates[u] \in DefiUpdate
      /\ r.of \in Wallets /\ r.of = updates[u].of
      BY <1>1 DEF DefiTypes, DefiUpdate, DefiLocal
<1>5. DefiSteps'
  <2>1. ASSUME NEW v \in DOMAIN updates
        PROVE  /\ updates'[v].saved # None => \A n \in DefiNets : updates'[v].on[n] = "done"
               /\ \A n \in DefiNets, m \in DefiNets :
                     updates'[v].on[n] = "debank" => updates'[v].on[m] \in {"debank", "done"}
    <3>1. CASE v = u
          BY <1>2, <3>1 DEF DefiLocal
    <3>2. CASE v # u
          BY <1>1, <1>2, <3>2 DEF DefiSteps
    <3> QED  BY <3>1, <3>2
  <2> QED  BY <1>2, <2>1 DEF DefiSteps
<1>6. ASSUME NEW a \in Wallets, NEW n \in DefiNets,
             known'[a] # None, known'[a][n] # None, known'[a][n].loading
      PROVE  \E v \in DOMAIN updates' : updates'[v].of = a /\ updates'[v].on[n] \in {"custom", "prices"}
  <2>1. CASE a = r.of /\ r.on[n] \in {"custom", "prices"}
        BY <1>2, <2>1
  <2>2. CASE ~(a = r.of /\ r.on[n] \in {"custom", "prices"})
    <3>1. /\ known[a] # None /\ known[a][n] # None /\ known[a][n].loading
          /\ ~(a = r.of /\ updates[u].on[n] \in {"custom", "prices"})
      <4>1. CASE a = r.of
            BY <1>6, <2>2, <4>1 DEF DefiLocal
      <4>2. CASE a # r.of
            BY <1>6, <4>2 DEF DefiLocal
      <4> QED  BY <4>1, <4>2
    <3>2. PICK v \in DOMAIN updates : updates[v].of = a /\ updates[v].on[n] \in {"custom", "prices"}
          BY <1>1, <3>1 DEF DefiLoading
    <3> QED  BY <1>2, <1>3, <3>1, <3>2
  <2> QED  BY <2>1, <2>2
<1>8. DefiWhole'
  <2>1. SUFFICES ASSUME ~crossedRemoval, NEW v \in DOMAIN updates
        PROVE  /\ known'[updates'[v].of] # None
               /\ \A n \in DefiNets : updates'[v].on[n] # "thrown"
               /\ \A n \in DefiNets : updates'[v].on[n] # "done" => known'[updates'[v].of][n] # None
               /\ updates'[v].saved # None => updates'[v].saved.state = Current
        BY <1>2 DEF DefiWhole
  <2>2. /\ known[updates[v].of] # None
        /\ \A n \in DefiNets : updates[v].on[n] # "thrown"
        /\ \A n \in DefiNets : updates[v].on[n] # "done" => known[updates[v].of][n] # None
        /\ updates[v].saved # None => updates[v].saved.state = Current
        BY <1>1, <2>1 DEF DefiWhole
  <2>3. updates'[v].of = updates[v].of /\ updates[v].of \in Wallets
        BY <1>2, <1>3 DEF DefiUpdate
  <2>4. ASSUME NEW n \in DefiNets, known[updates[v].of][n] # None
        PROVE  known'[updates[v].of][n] # None
    <3>1. CASE updates[v].of = r.of
          BY <2>2, <2>4, <3>1 DEF DefiLocal
    <3>2. CASE updates[v].of # r.of
          BY <2>3, <2>4, <3>2 DEF DefiLocal
    <3> QED  BY <3>1, <3>2
  <2>6. CASE v # u
        BY <1>2, <2>2, <2>3, <2>4, <2>6 DEF DefiLocal
  <2>7. CASE v = u
        BY <1>1, <1>2, <2>1, <2>2, <2>3, <2>4, <2>7 DEF DefiLocal
  <2> QED  BY <2>6, <2>7
<1>9. DefiStored'
  <2>2. ASSUME ~crossedRemoval, NEW a \in Wallets, NEW n \in DefiNets, DefiGood(a, n)'
        PROVE  \/ n \in leftOut'[a] \/ (remembered'[a] # None /\ n \in remembered'[a])
               \/ \E v \in DOMAIN updates' : updates'[v].of = a
    <3>1. CASE a = r.of
          BY <1>2, <3>1
    <3>2. CASE a # r.of
          BY <1>1, <1>2, <1>3, <2>2, <3>2 DEF DefiStored, DefiGood, DefiLocal
    <3> QED  BY <3>1, <3>2
  <2> QED  BY <1>1, <2>2 DEF DefiStored
<1> QED  BY <1>1, <1>2, <1>5, <1>6, <1>8, <1>9 DEF DefiInv, DefiTypes, DefiLoading

\* Starting an update.
LEMMA DefiUpdatePositions ==
    ASSUME DefiInv, NEW u \in Nat, NEW nets \in SUBSET DefiNets, Defi!UpdatePositions(u, nets)
    PROVE  DefiInv'
<1>1. DefiTypes /\ DefiSteps /\ DefiLoading /\ DefiWhole /\ DefiStored
      BY DEF DefiInv
<1>2. /\ selectedOwner # None /\ u = defiStarted + 1 /\ defiStarted' = u
      /\ known' = [known EXCEPT ![selectedOwner] =
                      Defi!Inited(IF @ = None THEN Defi!Nothing ELSE @, nets)]
      /\ UNCHANGED <<selectedOwner, remembered, storedNetworks, leftOut, crossedRemoval>>
      BY DEF Defi!UpdatePositions, Defi!networks
<1>3. PICK a : a = selectedOwner
      OBVIOUS
<1>4. PICK r : r = [of |-> a, debank |-> {}, before |-> [n \in DefiNets |-> {}], saved |-> None,
                    on |-> [n \in DefiNets |-> IF n \in nets THEN "debank" ELSE "done"]]
      OBVIOUS
<1>5. a \in Wallets /\ known \in [Wallets -> DefiKnown \cup {None}] /\ updates \in [DOMAIN updates -> DefiUpdate]
      BY <1>1, <1>2, <1>3 DEF DefiTypes
<1>8. /\ DOMAIN updates' = DOMAIN updates \cup {u} /\ updates'[u] = r
      /\ \A v \in DOMAIN updates : updates'[v] = updates[v]
      /\ updates' \in [DOMAIN updates' -> DefiUpdate]
  <2>1. updates' = [v \in DOMAIN updates \cup {u} |-> IF v # u THEN updates[v] ELSE r]
        BY <1>3, <1>4 DEF Defi!UpdatePositions
  <2> QED  BY <1>1, <1>2, <1>4, <1>5, <2>1 DEF DefiTypes, DefiUpdate, DefiAt
<1>9. PICK old : old = IF known[a] = None THEN Defi!Nothing ELSE known[a]
      OBVIOUS
<1>11. PICK new : new = Defi!Inited(old, nets)
       OBVIOUS
<1>12. new = [n \in DefiNets |-> IF n \in nets /\ old[n] = None THEN Defi!Empty ELSE old[n]]
       BY <1>11 DEF Defi!Inited
<1>13. Defi!Empty \in Defi!Positions /\ Defi!Empty.loading = FALSE /\ Defi!Empty.positions = {}
       BY DEF Defi!Empty, Defi!Positions
<1>14. new \in DefiKnown /\ new # None
       BY <1>5, <1>9, <1>12, <1>13, DefiAssumed DEF DefiKnown, Defi!Nothing
<1>15. known'[a] = new /\ \A b \in Wallets : b # a => known'[b] = known[b]
       BY <1>2, <1>3, <1>5, <1>9, <1>11
<1>17. ASSUME NEW n \in DefiNets
       PROVE  /\ new[n] # None
                   => \/ known[a] # None /\ known[a][n] # None /\ new[n] = known[a][n]
                      \/ new[n].loading = FALSE /\ new[n].positions = {}
              /\ known[a] # None /\ known[a][n] # None => new[n] # None
              /\ n \in nets => new[n] # None
  <2>1. CASE n \in nets /\ old[n] = None
        BY <1>9, <1>12, <1>13, <2>1, DefiAssumed
  <2>2. CASE ~(n \in nets /\ old[n] = None)
        BY <1>9, <1>12, <2>2 DEF Defi!Nothing
  <2> QED  BY <2>1, <2>2
<1>18. r.of = a /\ r.saved = None /\ r.on = [n \in DefiNets |-> IF n \in nets THEN "debank" ELSE "done"]
       BY <1>4
<1>19. DefiTypes'
       BY <1>1, <1>2, <1>3, <1>5, <1>8, <1>9, <1>11, <1>14 DEF DefiTypes
<1>20. DefiSteps'
  <2>1. ASSUME NEW v \in DOMAIN updates'
        PROVE  /\ updates'[v].saved # None => \A n \in DefiNets : updates'[v].on[n] = "done"
               /\ \A n \in DefiNets, m \in DefiNets :
                     updates'[v].on[n] = "debank" => updates'[v].on[m] \in {"debank", "done"}
    <3>1. CASE v = u
          BY <1>8, <1>18, <3>1
    <3>2. CASE v \in DOMAIN updates
          BY <1>1, <1>8, <3>2 DEF DefiSteps
    <3> QED  BY <1>8, <3>1, <3>2
  <2> QED  BY <2>1 DEF DefiSteps
<1>21. DefiLoading'
  <2>1. ASSUME NEW b \in Wallets, NEW n \in DefiNets,
               known'[b] # None, known'[b][n] # None, known'[b][n].loading
        PROVE  \E v \in DOMAIN updates' : updates'[v].of = b /\ updates'[v].on[n] \in {"custom", "prices"}
    <3>1. known[b] # None /\ known[b][n] # None /\ known[b][n].loading
          BY <1>15, <1>17, <2>1
    <3> QED  BY <1>1, <1>8, <3>1 DEF DefiLoading
  <2> QED  BY <2>1 DEF DefiLoading
<1>22. DefiWhole'
  <2>1. SUFFICES ASSUME ~crossedRemoval, NEW v \in DOMAIN updates'
        PROVE  /\ known'[updates'[v].of] # None
               /\ \A n \in DefiNets : updates'[v].on[n] # "thrown"
               /\ \A n \in DefiNets : updates'[v].on[n] # "done" => known'[updates'[v].of][n] # None
               /\ updates'[v].saved # None => updates'[v].saved.state = Current
        BY <1>2 DEF DefiWhole
  <2>2. CASE v = u
        BY <1>8, <1>14, <1>15, <1>17, <1>18, <2>2
  <2>3. CASE v \in DOMAIN updates
    <3>1. /\ known[updates[v].of] # None /\ updates'[v] = updates[v]
          /\ \A n \in DefiNets : updates[v].on[n] # "thrown"
          /\ \A n \in DefiNets : updates[v].on[n] # "done" => known[updates[v].of][n] # None
          /\ updates[v].saved # None => updates[v].saved.state = Current
          BY <1>1, <1>8, <2>1, <2>3 DEF DefiWhole
    <3>3. CASE updates[v].of = a
          BY <1>14, <1>15, <1>17, <3>1, <3>3
    <3>4. CASE updates[v].of # a
          BY <1>5, <1>15, <2>3, <3>1, <3>4 DEF DefiUpdate
    <3> QED  BY <3>3, <3>4
  <2> QED  BY <1>8, <2>2, <2>3
<1>23. DefiStored'
  <2>1. ASSUME ~crossedRemoval, NEW b \in Wallets, NEW n \in DefiNets, DefiGood(b, n)'
        PROVE  DefiGood(b, n)
        BY <1>15, <1>17, <2>1 DEF DefiGood
  <2> QED  BY <1>1, <1>2, <1>8, <2>1 DEF DefiStored
<1> QED  BY <1>19, <1>20, <1>21, <1>22, <1>23 DEF DefiInv

\* Debank's answer.
LEMMA DefiDebankAnswers ==
    ASSUME DefiInv, NEW u \in DOMAIN updates, NEW found \in SUBSET {"debank"}, Defi!DebankAnswers(u, found)
    PROVE  DefiInv'
<1>3. PICK a : a = updates[u].of
      OBVIOUS
<1>4. PICK nets : nets = {n \in DefiNets : updates[u].on[n] = "debank"}
      OBVIOUS
<1>5. updates[u] \in DefiUpdate /\ a \in Wallets /\ known \in [Wallets -> DefiKnown \cup {None}]
      BY <1>3 DEF DefiTypes, DefiUpdate, DefiInv
<1>6. PICK n0 \in DefiNets : updates[u].on[n0] = "debank"
      BY DEF Defi!DebankAnswers
<1>7. /\ \A n \in DefiNets : updates[u].on[n] = IF n \in nets THEN "debank" ELSE "done"
      /\ updates[u].saved = None
      BY <1>4, <1>6 DEF DefiSteps, DefiInv
<1>8. CASE known[a] = None
  <2>1. PICK r : r = [updates[u] EXCEPT !.on = [n \in DefiNets |-> "thrown"]]
        OBVIOUS
  <2> QED  BY <1>3, <1>5, <1>7, <1>8, <2>1, DefiLocalKeeps DEF Defi!DebankAnswers, Defi!networks,
              Defi!others, DefiUpdate, DefiAt, DefiLocal, DefiWhole
<1>9. CASE known[a] # None
  <2>1. PICK k : k = known[a]
        OBVIOUS
  <2>2. PICK old : old = Defi!Inited(k, nets)
        OBVIOUS
  <2>5. k \in DefiKnown
        BY <1>5, <1>9, <2>1
  <2>6. \A n \in nets : old[n] \in Defi!Positions
        BY <1>4, <2>2, <2>5 DEF DefiKnown, Defi!Inited, Defi!Empty, Defi!Positions
  <2>7. PICK new : new = [n \in DefiNets |->
                             IF n \in nets THEN [old[n] EXCEPT !.loading = TRUE, !.errors = FALSE] ELSE k[n]]
        OBVIOUS
  <2>8. \A n \in DefiNets : new[n] = IF n \in nets THEN [old[n] EXCEPT !.loading = TRUE, !.errors = FALSE] ELSE k[n]
        BY <2>7
  <2>9. \A n \in nets : new[n] \in Defi!Positions
        BY <1>4, <2>6, <2>8 DEF Defi!Positions
  <2>10. new \in DefiKnown /\ new # None
         BY <2>5, <2>7, <2>8, <2>9, DefiAssumed DEF DefiKnown
  <2>11. PICK before : before = [n \in DefiNets |-> IF n \in nets THEN Defi!Inited(k, nets)[n].positions \ {"debank"} ELSE {}]
         OBVIOUS
  <2>13. PICK on : on = [n \in DefiNets |-> IF n \in nets THEN "custom" ELSE "done"]
         OBVIOUS
  <2>15. PICK r : r = [updates[u] EXCEPT !.debank = found, !.before = before, !.on = on]
         OBVIOUS
  <2>16. r \in DefiUpdate /\ r.of = a /\ r.on = on /\ r.saved = None
         BY <1>3, <1>5, <1>7, <2>2, <2>6, <2>11, <2>13, <2>15 DEF DefiUpdate, Defi!Positions, DefiAt
  <2>17. Defi!Goes(u, r)
         BY <1>3, <1>4, <1>9, <2>1, <2>11, <2>13, <2>15 DEF Defi!DebankAnswers
  <2>19. /\ known'[a] = new /\ \A b \in Wallets : b # a => known'[b] = known[b]
         /\ known' \in [Wallets -> DefiKnown \cup {None}]
         BY <1>3, <1>4, <1>5, <1>9, <2>1, <2>2, <2>7, <2>10 DEF Defi!DebankAnswers
  <2>20. ASSUME NEW n \in DefiNets
         PROVE  /\ k[n] # None => new[n] # None
                /\ new[n] # None /\ new[n].loading =>
                     \/ on[n] \in {"custom", "prices"}
                     \/ k[n] # None /\ k[n].loading /\ updates[u].on[n] \notin {"custom", "prices"}
                /\ on[n] # "thrown" /\ (on[n] # "done" => updates[u].on[n] # "done")
                /\ on[n] # "debank"
         BY <1>7, <2>8, <2>9, <2>13, DefiAssumed DEF DefiAt
  <2>21. DefiLocal(u, r)
         BY <1>3, <1>9, <2>1, <2>10, <2>16, <2>19, <2>20 DEF DefiLocal
  <2> QED  BY <2>16, <2>17, <2>19, <2>21, DefiLocalKeeps DEF Defi!DebankAnswers, Defi!networks, Defi!others
<1> QED  BY <1>8, <1>9

\* The end of a network's update: its positions are known, or it throws because its state is gone.
LEMMA DefiEndNetwork ==
    ASSUME DefiInv, NEW u \in DOMAIN updates, NEW n \in DefiNets, updates[u].on[n] \in {"custom", "prices"},
           NEW found \in SUBSET {"custom"}, NEW s \in Defi!Positions \cup {None},
           known[updates[u].of] # None => s = known[updates[u].of][n] \/ (known[updates[u].of][n] # None /\ s # None),
           Defi!EndNetwork(u, n, s, found),
           UNCHANGED <<selectedOwner, remembered, storedNetworks, leftOut, crossedRemoval, defiStarted>>
    PROVE  DefiInv'
<1>1. DefiTypes /\ DefiSteps /\ DefiLoading /\ DefiWhole /\ DefiStored
      BY DEF DefiInv
<1>2. PICK a : a = updates[u].of
      OBVIOUS
<1>3. updates[u] \in DefiUpdate /\ a \in Wallets /\ known \in [Wallets -> DefiKnown \cup {None}]
      BY <1>1, <1>2 DEF DefiTypes, DefiUpdate
<1>4. /\ updates[u].saved = None
      /\ \A m \in DefiNets : updates[u].on[m] # "debank"
      BY <1>1 DEF DefiSteps
<1>5. CASE known[a] = None \/ (s = None /\ found = {})
  <2>1. PICK r : r = [updates[u] EXCEPT !.on[n] = "thrown"]
        OBVIOUS
  <2>3. /\ r \in DefiUpdate /\ r.of = a /\ r.saved = None /\ r.on[n] = "thrown"
        /\ \A m \in DefiNets : m # n => r.on[m] = updates[u].on[m]
        BY <1>2, <1>3, <1>4, <2>1 DEF DefiUpdate, DefiAt
  <2>6. ASSUME NEW m \in DefiNets, known[a] # None, known[a][m] # None, known[a][m].loading
        PROVE  \/ r.on[m] \in {"custom", "prices"}
               \/ updates[u].on[m] \notin {"custom", "prices"}
        BY <1>2, <1>5, <2>3, <2>6
  <2>7. DefiLocal(u, r)
        BY <1>2, <1>4, <1>5, <2>1, <2>3, <2>6 DEF DefiLocal, Defi!EndNetwork, DefiWhole
  <2> QED  BY <1>1, <1>2, <1>3, <1>5, <2>1, <2>3, <2>7, DefiLocalKeeps DEF Defi!EndNetwork
<1>6. CASE ~(known[a] = None \/ (s = None /\ found = {}))
  <2>1. PICK w : w = Defi!Written(updates[u], s, found)
        OBVIOUS
  <2>5. w \in Defi!Positions /\ w.loading = FALSE /\ w # None
    <3>1. w \in Defi!Positions /\ w.loading = FALSE
          BY <1>3, <2>1 DEF Defi!Positions, Defi!Written, DefiUpdate, Defi!Sources
    <3> QED  BY <3>1, DefiAssumed
  <2>6. PICK new : new = [known[a] EXCEPT ![n] = w]
        OBVIOUS
  <2>8. /\ new \in DefiKnown /\ new # None /\ new[n] = w
        /\ \A m \in DefiNets : m # n => new[m] = known[a][m]
        BY <1>3, <1>6, <2>5, <2>6, DefiAssumed DEF DefiKnown
  <2>9. PICK r : r = [updates[u] EXCEPT !.on[n] = "done"]
        OBVIOUS
  <2>10. Defi!Goes(u, r) /\ known' = [known EXCEPT ![a][n] = w]
         BY <1>2, <1>6, <2>1, <2>9 DEF Defi!EndNetwork
  <2>11. /\ known'[a] = new /\ \A b \in Wallets : b # a => known'[b] = known[b]
         /\ known' \in [Wallets -> DefiKnown \cup {None}]
         BY <1>3, <2>6, <2>8, <2>10
  <2>12. /\ r \in DefiUpdate /\ r.of = a /\ r.saved = None /\ r.on[n] = "done"
         /\ \A m \in DefiNets : m # n => r.on[m] = updates[u].on[m]
         BY <1>2, <1>3, <1>4, <2>9 DEF DefiUpdate, DefiAt
  <2>16. DefiLocal(u, r)
         BY <1>2, <1>4, <1>6, <2>5, <2>8, <2>11, <2>12 DEF DefiLocal, DefiWhole
  <2> QED  BY <1>1, <2>10, <2>11, <2>12, <2>16, DefiLocalKeeps
<1> QED  BY <1>5, <1>6

\* The custom positions of a network.
LEMMA DefiCustomAnswers ==
    ASSUME DefiInv, NEW u \in DOMAIN updates, NEW n \in DefiNets, NEW found \in BOOLEAN, NEW fails \in BOOLEAN,
           Defi!CustomAnswers(u, n, found, fails)
    PROVE  DefiInv'
<1>2. /\ UNCHANGED <<selectedOwner, remembered, storedNetworks, leftOut, crossedRemoval, defiStarted>>
      /\ updates[u].on[n] = "custom"
      BY DEF Defi!CustomAnswers, Defi!networks, Defi!others
<1>3. PICK a : a = updates[u].of
      OBVIOUS
<1>4. PICK s : s = IF known[a] = None THEN None ELSE known[a][n]
      OBVIOUS
<1>5. PICK custom0 : custom0 = IF found \/ (fails /\ "custom" \in updates[u].before[n]) THEN {"custom"} ELSE {}
      OBVIOUS
<1>6. updates[u] \in DefiUpdate /\ a \in Wallets /\ known \in [Wallets -> DefiKnown \cup {None}]
      BY <1>3 DEF DefiTypes, DefiUpdate, DefiInv
<1>7. s \in Defi!Positions \cup {None}
      BY <1>4, <1>6 DEF DefiKnown
<1>8. /\ updates[u].saved = None
      /\ \A m \in DefiNets : updates[u].on[m] # "debank"
      BY <1>2 DEF DefiSteps, DefiInv
<1>9. IF fails /\ s = None THEN UNCHANGED known /\ Defi!Goes(u, [updates[u] EXCEPT !.on[n] = "thrown"])
      ELSE IF custom0 = {} THEN Defi!EndNetwork(u, n, IF fails THEN [s EXCEPT !.errors = TRUE] ELSE s, custom0)
      ELSE /\ known' = IF fails THEN [known EXCEPT ![a][n].errors = TRUE] ELSE known
           /\ Defi!Goes(u, [updates[u] EXCEPT !.on[n] = "prices"])
      BY <1>3, <1>4, <1>5 DEF Defi!CustomAnswers
<1>10. CASE fails /\ s = None
  <2>1. PICK r : r = [updates[u] EXCEPT !.on[n] = "thrown"]
        OBVIOUS
  <2>3. /\ r \in DefiUpdate /\ r.of = a /\ r.saved = None /\ r.on[n] = "thrown"
        /\ \A m \in DefiNets : m # n => r.on[m] = updates[u].on[m]
        BY <1>3, <1>6, <1>8, <2>1 DEF DefiUpdate, DefiAt
  <2>5. DefiWhole => crossedRemoval
        BY <1>2, <1>3, <1>4, <1>10 DEF DefiWhole
  <2>6. ASSUME NEW m \in DefiNets, known[a] # None, known[a][m] # None, known[a][m].loading
        PROVE  \/ r.on[m] \in {"custom", "prices"}
               \/ updates[u].on[m] \notin {"custom", "prices"}
        BY <1>4, <1>10, <2>3, <2>6
  <2>7. DefiLocal(u, r)
        BY <1>3, <1>8, <1>9, <1>10, <2>1, <2>3, <2>5, <2>6 DEF DefiLocal
  <2> QED  BY <1>2, <1>6, <1>9, <1>10, <2>1, <2>3, <2>7, DefiLocalKeeps
<1>11. CASE ~(fails /\ s = None) /\ custom0 = {}
  <2>1. PICK e : e = IF fails THEN [s EXCEPT !.errors = TRUE] ELSE s
        OBVIOUS
  <2>2. e \in Defi!Positions \cup {None} /\ (e = s \/ (s # None /\ e # None))
    <3>1. CASE fails
          BY <1>7, <1>11, <2>1, <3>1, DefiAssumed DEF Defi!Positions
    <3>2. CASE ~fails
          BY <1>7, <2>1, <3>2
    <3> QED  BY <3>1, <3>2
  <2>6. known[updates[u].of] # None => e = known[updates[u].of][n] \/ (known[updates[u].of][n] # None /\ e # None)
        BY <1>3, <1>4, <2>2
  <2> QED  BY <1>2, <1>5, <1>9, <1>11, <2>1, <2>2, <2>6, DefiEndNetwork
<1>12. CASE ~(fails /\ s = None) /\ custom0 # {}
  <2>1. PICK r : r = [updates[u] EXCEPT !.on[n] = "prices"]
        OBVIOUS
  <2>2. Defi!Goes(u, r) /\ known' = IF fails THEN [known EXCEPT ![a][n].errors = TRUE] ELSE known
        BY <1>9, <1>12, <2>1
  <2>3. /\ r \in DefiUpdate /\ r.of = a /\ r.saved = None /\ r.on[n] = "prices"
        /\ \A m \in DefiNets : m # n => r.on[m] = updates[u].on[m]
        BY <1>3, <1>6, <1>8, <2>1 DEF DefiUpdate, DefiAt
  <2>4. /\ known' \in [Wallets -> DefiKnown \cup {None}] /\ (known'[a] = None <=> known[a] = None)
        /\ \A b \in Wallets : b # a => known'[b] = known[b]
        /\ known[a] # None => \A m \in DefiNets : m # n => known'[a][m] = known[a][m]
        /\ known[a] # None => \A m \in DefiNets : known[a][m] # None => known'[a][m] # None
    <3>1. CASE fails
      <4>1. /\ known[a] # None /\ known[a] \in DefiKnown /\ s = known[a][n] /\ s \in Defi!Positions
            BY <1>4, <1>6, <1>7, <1>12, <3>1
      <4>2. PICK e : e = [s EXCEPT !.errors = TRUE]
            OBVIOUS
      <4>3. e \in Defi!Positions /\ e # None
            BY <4>1, <4>2, DefiAssumed DEF Defi!Positions
      <4>4. PICK new : new = [known[a] EXCEPT ![n] = e]
            OBVIOUS
      <4> QED  BY <1>6, <2>2, <3>1, <4>1, <4>2, <4>3, <4>4, DefiAssumed DEF DefiKnown
    <3>2. CASE ~fails
          BY <1>6, <2>2, <3>2
    <3> QED  BY <3>1, <3>2
  <2>5. ASSUME NEW m \in DefiNets, known[a] # None, known'[a][m] # None, known'[a][m].loading
        PROVE  \/ r.on[m] \in {"custom", "prices"}
               \/ (known[a][m] # None /\ known[a][m].loading /\ updates[u].on[m] \notin {"custom", "prices"})
    <3>1. CASE m = n
          BY <2>3, <3>1
    <3>2. CASE m # n
          BY <2>3, <2>4, <2>5, <3>2
    <3> QED  BY <3>1, <3>2
  <2>8. DefiLocal(u, r)
    <3>1. known[r.of] # None => \A m \in DefiNets :
             /\ known[r.of][m] # None => known'[r.of][m] # None
             /\ known'[r.of][m] # None /\ known'[r.of][m].loading =>
                   \/ r.on[m] \in {"custom", "prices"}
                   \/ /\ known[r.of][m] # None /\ known[r.of][m].loading
                      /\ updates[u].on[m] \notin {"custom", "prices"}
      <4>2. ASSUME NEW m \in DefiNets, known[a] # None, known'[a][m] # None, known'[a][m].loading
            PROVE  \/ r.on[m] \in {"custom", "prices"}
                   \/ /\ known[a][m] # None /\ known[a][m].loading
                      /\ updates[u].on[m] \notin {"custom", "prices"}
            BY <2>5, <4>2
      <4> QED  BY <2>3, <2>4, <4>2
    <3> QED  BY <1>2, <1>3, <1>8, <2>3, <2>4, <3>1 DEF DefiLocal, DefiWhole
  <2> QED  BY <1>2, <2>2, <2>3, <2>4, <2>8, DefiLocalKeeps
<1> QED  BY <1>10, <1>11, <1>12

\* The prices of a network's custom positions.
LEMMA DefiPricesAnswer ==
    ASSUME DefiInv, NEW u \in DOMAIN updates, NEW n \in DefiNets, Defi!PricesAnswer(u, n)
    PROVE  DefiInv'
<1>1. PICK a : a = updates[u].of
      OBVIOUS
<1>2. PICK s : s = IF known[a] = None THEN None ELSE known[a][n]
      OBVIOUS
<1>6. s \in Defi!Positions \cup {None}
      BY <1>1, <1>2 DEF DefiKnown, DefiTypes, DefiUpdate, DefiInv
<1> QED  BY <1>1, <1>2, <1>6, DefiEndNetwork DEF Defi!PricesAnswer, Defi!networks, Defi!others

\* An update that is over or throws.
LEMMA DefiDropKeeps ==
    ASSUME DefiInv, NEW u \in DOMAIN updates, Defi!Drop(u),
           \A n \in DefiNets : updates[u].on[n] \in {"done", "thrown"},
           UNCHANGED <<known, selectedOwner, crossedRemoval, defiStarted>>,
           remembered' \in [Wallets -> (SUBSET DefiNets) \cup {None}],
           storedNetworks' \in [Wallets -> (SUBSET DefiNets) \cup {None}],
           \A a \in Wallets : remembered'[a] # None => storedNetworks'[a] = remembered'[a],
           leftOut' \in [Wallets -> SUBSET DefiNets],
           \A b \in Wallets : b # updates[u].of => remembered'[b] = remembered[b] /\ leftOut'[b] = leftOut[b],
           ~crossedRemoval => \A n \in DefiNets : DefiGood(updates[u].of, n) =>
               \/ n \in leftOut'[updates[u].of]
               \/ remembered'[updates[u].of] # None /\ n \in remembered'[updates[u].of]
    PROVE  DefiInv'
<1>1. DefiTypes /\ DefiSteps /\ DefiLoading /\ DefiWhole /\ DefiStored
      BY DEF DefiInv
<1>2. /\ DOMAIN updates' = DOMAIN updates \ {u} /\ updates' \in [DOMAIN updates' -> DefiUpdate]
      /\ \A v \in DOMAIN updates \ {u} : updates'[v] = updates[v]
      BY <1>1, DefiDrops
<1>5. DefiLoading'
  <2>1. ASSUME NEW b \in Wallets, NEW n \in DefiNets,
               known[b] # None, known[b][n] # None, known[b][n].loading
        PROVE  \E v \in DOMAIN updates' : updates'[v].of = b /\ updates'[v].on[n] \in {"custom", "prices"}
    <3>1. PICK v \in DOMAIN updates : updates[v].of = b /\ updates[v].on[n] \in {"custom", "prices"}
          BY <1>1, <2>1 DEF DefiLoading
    <3> QED  BY <1>2, <3>1
  <2> QED  BY <2>1 DEF DefiLoading
<1>7. DefiStored'
  <2>1. ASSUME ~crossedRemoval, NEW b \in Wallets, NEW n \in DefiNets, DefiGood(b, n)'
        PROVE  \/ n \in leftOut'[b] \/ (remembered'[b] # None /\ n \in remembered'[b])
               \/ \E v \in DOMAIN updates' : updates'[v].of = b
    <3>2. CASE b = updates[u].of
          BY <2>1, <3>2 DEF DefiGood
    <3>3. CASE b # updates[u].of
      <4>2. CASE \E v \in DOMAIN updates : updates[v].of = b
        <5>1. PICK v \in DOMAIN updates : updates[v].of = b
              BY <4>2
        <5> QED  BY <1>2, <3>3, <5>1
      <4> QED  BY <1>1, <2>1, <3>3, <4>2 DEF DefiStored, DefiGood
    <3> QED  BY <3>2, <3>3
  <2> QED  BY <2>1 DEF DefiStored
<1> QED  BY <1>1, <1>2, <1>5, <1>7 DEF DefiInv, DefiSteps, DefiWhole, DefiTypes

\* Reading the stored networks.
LEMMA DefiReadNetworks ==
    ASSUME DefiInv, NEW u \in DOMAIN updates, Defi!ReadNetworks(u)
    PROVE  DefiInv'
<1>2. PICK a : a = updates[u].of
      OBVIOUS
<1>3. /\ updates[u] \in DefiUpdate /\ a \in Wallets
      /\ known \in [Wallets -> DefiKnown \cup {None}]
      /\ storedNetworks \in [Wallets -> (SUBSET DefiNets) \cup {None}]
      /\ remembered \in [Wallets -> (SUBSET DefiNets) \cup {None}] /\ leftOut \in [Wallets -> SUBSET DefiNets]
      BY <1>2 DEF DefiTypes, DefiUpdate, DefiInv
<1>5. CASE known[a] = None
      BY <1>2, <1>3, <1>5, DefiDropKeeps DEF Defi!ReadNetworks, Defi!networks, Defi!others, DefiGood,
         DefiStored, DefiInv
<1>6. CASE known[a] # None
  <2>1. PICK read0 : read0 = [old |-> storedNetworks[a], state |-> Current]
        OBVIOUS
  <2>3. PICK r : r = [updates[u] EXCEPT !.saved = read0]
        OBVIOUS
  <2> QED  BY <1>2, <1>3, <1>6, <2>1, <2>3, DefiLocalKeeps DEF DefiUpdate, DefiSaved, Defi!ReadNetworks,
              DefiLocal, Defi!networks, Defi!others
<1> QED  BY <1>5, <1>6

\* Writing them.
LEMMA DefiSaveNetworks ==
    ASSUME DefiInv, NEW u \in DOMAIN updates, NEW working \in SUBSET DefiNets, Defi!SaveNetworks(u, working)
    PROVE  DefiInv'
<1>2. PICK a : a = updates[u].of
      OBVIOUS
<1>3. PICK read0 : read0 = updates[u].saved
      OBVIOUS
<1>5. PICK state0 : state0 = IF read0.state = Current THEN known[a] ELSE read0.state
      OBVIOUS
<1>6. PICK nets : nets = Defi!WithPositions(read0.old, state0, working)
      OBVIOUS
<1>7. PICK out : out = Defi!Found(state0) \ nets
      OBVIOUS
<1>8. /\ remembered' = [remembered EXCEPT ![a] = nets] /\ storedNetworks' = remembered'
      /\ leftOut' = [leftOut EXCEPT ![a] = out] /\ Defi!Drop(u) /\ read0 # None
      /\ UNCHANGED <<known, selectedOwner, crossedRemoval, defiStarted>>
      BY <1>2, <1>3, <1>5, <1>6, <1>7 DEF Defi!SaveNetworks, Defi!others
<1>9. /\ DefiTypes /\ updates[u] \in DefiUpdate /\ a \in Wallets /\ read0 \in DefiSaved
      /\ \A n \in DefiNets : updates[u].on[n] \in {"done", "thrown"}
      BY <1>2, <1>3, <1>8 DEF DefiInv, DefiTypes, DefiUpdate, DefiSteps
<1>10. nets \in SUBSET DefiNets /\ out \in SUBSET DefiNets
       BY <1>6, <1>7, <1>9 DEF Defi!WithPositions, Defi!Found, DefiSaved
<1>11. /\ remembered' \in [Wallets -> (SUBSET DefiNets) \cup {None}] /\ leftOut' \in [Wallets -> SUBSET DefiNets]
       /\ remembered'[a] = nets /\ leftOut'[a] = out
       /\ \A b \in Wallets : b # a => remembered'[b] = remembered[b] /\ leftOut'[b] = leftOut[b]
       BY <1>8, <1>9, <1>10 DEF DefiTypes
<1>12. ASSUME ~crossedRemoval, NEW n \in DefiNets, DefiGood(a, n) PROVE n \in out \/ n \in nets
  <2>1. state0 = known[a]
        BY <1>2, <1>3, <1>5, <1>8, <1>12 DEF DefiWhole, DefiInv
  <2> QED  BY <1>7, <1>12, <2>1 DEF DefiGood, Defi!Found
<1>13. nets # None
       BY <1>10, DefiAssumed
<1> QED  BY <1>2, <1>8, <1>9, <1>10, <1>11, <1>12, <1>13, DefiDropKeeps

\* An update that throws has lost the account or a network.
LEMMA DefiUpdateThrows ==
    ASSUME DefiInv, NEW u \in DOMAIN updates, Defi!UpdateThrows(u)
    PROVE  DefiInv'
<1> QED  BY DefiDropKeeps DEF Defi!UpdateThrows, Defi!networks, Defi!others, DefiWhole, DefiStored, DefiInv,
            DefiTypes

\* Removing an account: what its updates hold is what it was.
LEMMA DefiRemoveAccountData ==
    ASSUME DefiInv, NEW a \in Wallets, Defi!RemoveAccountData(a)
    PROVE  DefiInv'
<1>1. DefiTypes /\ DefiSteps /\ DefiLoading /\ DefiWhole /\ DefiStored
      BY DEF DefiInv
<1>2. /\ known' = [known EXCEPT ![a] = None] /\ remembered' = [remembered EXCEPT ![a] = None]
      /\ storedNetworks' = remembered' /\ selectedOwner' = IF selectedOwner = a THEN None ELSE selectedOwner
      /\ crossedRemoval' = (crossedRemoval \/ \E u \in DOMAIN updates : updates[u].of = a)
      /\ UNCHANGED <<leftOut, defiStarted>>
      BY DEF Defi!RemoveAccountData
<1>3. /\ known \in [Wallets -> DefiKnown \cup {None}] /\ updates \in [DOMAIN updates -> DefiUpdate]
      /\ remembered \in [Wallets -> (SUBSET DefiNets) \cup {None}] /\ crossedRemoval \in BOOLEAN
      BY <1>1 DEF DefiTypes
<1>4. /\ known' \in [Wallets -> DefiKnown \cup {None}] /\ known'[a] = None
      /\ \A b \in Wallets : b # a => known'[b] = known[b]
      BY <1>2, <1>3
<1>6. DOMAIN updates' = DOMAIN updates
      BY DEF Defi!RemoveAccountData
<1>7. ASSUME NEW u \in DOMAIN updates
      PROVE  /\ updates'[u] \in DefiUpdate /\ updates'[u].of = updates[u].of /\ updates'[u].on = updates[u].on
             /\ updates'[u].saved = None <=> updates[u].saved = None
             /\ updates[u].of # a => updates'[u] = updates[u]
  <2>2. updates[u] \in DefiUpdate
        BY <1>3
  <2>3. CASE updates'[u] = updates[u]
        BY <2>2, <2>3
  <2>4. CASE updates'[u] # updates[u]
    <3>1. /\ updates[u].saved # None /\ updates[u].of = a
          /\ updates'[u] = [updates[u] EXCEPT !.saved.state = known[a]]
          BY <2>4 DEF Defi!RemoveAccountData
    <3>2. PICK read0 : read0 = [updates[u].saved EXCEPT !.state = known[a]]
          OBVIOUS
    <3>3. read0 \in DefiSaved /\ read0 # None
          BY <1>3, <2>2, <3>1, <3>2, DefiAssumed DEF DefiSaved, DefiKnown, DefiUpdate
    <3> QED  BY <2>2, <3>1, <3>2, <3>3 DEF DefiUpdate
  <2> QED  BY <2>3, <2>4
<1>9. DefiTypes'
      BY <1>1, <1>2, <1>3, <1>4, <1>6, <1>7 DEF DefiTypes, Defi!RemoveAccountData
<1>11. DefiLoading'
  <2>1. ASSUME NEW b \in Wallets, NEW n \in DefiNets,
               known'[b] # None, known'[b][n] # None, known'[b][n].loading
        PROVE  \E v \in DOMAIN updates' : updates'[v].of = b /\ updates'[v].on[n] \in {"custom", "prices"}
        BY <1>1, <1>4, <1>6, <1>7, <2>1 DEF DefiLoading
  <2> QED  BY <2>1 DEF DefiLoading
<1>12. DefiWhole'
  <2>1. SUFFICES ASSUME ~crossedRemoval', NEW v \in DOMAIN updates'
        PROVE  /\ known'[updates'[v].of] # None
               /\ \A n \in DefiNets : updates'[v].on[n] # "thrown"
               /\ \A n \in DefiNets : updates'[v].on[n] # "done" => known'[updates'[v].of][n] # None
               /\ updates'[v].saved # None => updates'[v].saved.state = Current
        BY DEF DefiWhole
  <2>4. known'[updates[v].of] = known[updates[v].of]
        BY <1>2, <1>3, <1>4, <1>6, <1>7, <2>1 DEF DefiUpdate
  <2> QED  BY <1>1, <1>2, <1>3, <1>6, <1>7, <2>1, <2>4 DEF DefiWhole, DefiUpdate
<1>13. DefiStored'
  <2>1. ASSUME ~crossedRemoval', NEW b \in Wallets, NEW n \in DefiNets, DefiGood(b, n)'
        PROVE  \/ n \in leftOut'[b] \/ (remembered'[b] # None /\ n \in remembered'[b])
               \/ \E v \in DOMAIN updates' : updates'[v].of = b
    <3>2. \/ n \in leftOut[b] \/ (remembered[b] # None /\ n \in remembered[b])
          \/ \E v \in DOMAIN updates : updates[v].of = b
          BY <1>1, <1>2, <1>4, <2>1 DEF DefiStored, DefiGood
    <3> QED  BY <1>2, <1>3, <1>4, <1>6, <1>7, <2>1, <3>2 DEF DefiGood
  <2> QED  BY <1>2, <2>1 DEF DefiStored
<1> QED  BY <1>1, <1>6, <1>7, <1>9, <1>11, <1>12, <1>13 DEF DefiInv, DefiSteps

\* A restart forgets all but what is stored.
LEMMA DefiRestart == ASSUME DefiInv, Defi!Restart PROVE DefiInv'
<1> QED  BY DEF DefiInv, DefiLoading, DefiStored, DefiGood, DefiSteps, DefiWhole, Defi!Restart, DefiTypes

\* Every step keeps the invariant.
LEMMA DefiInvNext == ASSUME DefiInv, [Defi!Next]_defiVars PROVE DefiInv'
<1>1. CASE UNCHANGED defiVars
      BY <1>1 DEF defiVars, DefiInv, DefiTypes, DefiSteps, DefiLoading, DefiWhole, DefiStored, DefiGood
<1>2. CASE \E u \in 1..Updates : \E nets \in SUBSET DefiNets \ {{}} : Defi!UpdatePositions(u, nets)
  <2>1. PICK u \in 1..Updates : \E nets \in SUBSET DefiNets \ {{}} : Defi!UpdatePositions(u, nets)
        BY <1>2
  <2>2. PICK nets \in SUBSET DefiNets \ {{}} : Defi!UpdatePositions(u, nets)
        BY <2>1
  <2>3. u \in Nat
        BY <2>2 DEF DefiInv, DefiTypes, Defi!UpdatePositions
  <2> QED  BY <2>2, <2>3, DefiUpdatePositions
<1>3. ASSUME NEW u \in DOMAIN updates,
             \/ Defi!ReadNetworks(u) \/ Defi!UpdateThrows(u)
             \/ \E working \in SUBSET DefiNets : Defi!SaveNetworks(u, working)
      PROVE  DefiInv'
      BY <1>3, DefiReadNetworks, DefiSaveNetworks, DefiUpdateThrows
<1>4. ASSUME NEW u \in DOMAIN updates, NEW found \in SUBSET {"debank"}, Defi!DebankAnswers(u, found)
      PROVE  DefiInv'
      BY <1>4, DefiDebankAnswers
<1>5. ASSUME NEW u \in DOMAIN updates, NEW n \in DefiNets,
             \/ Defi!PricesAnswer(u, n)
             \/ \E found \in BOOLEAN, fails \in BOOLEAN : Defi!CustomAnswers(u, n, found, fails)
      PROVE  DefiInv'
      BY <1>5, DefiPricesAnswer, DefiCustomAnswers
<1>6. ASSUME NEW a \in Wallets, Defi!Select(a) PROVE DefiInv'
      BY <1>6 DEF Defi!Select, Defi!networks, DefiInv, DefiTypes, DefiSteps, DefiLoading, DefiWhole,
                  DefiStored, DefiGood
<1>7. ASSUME NEW a \in Wallets, Defi!RemoveAccountData(a) PROVE DefiInv'
      BY <1>7, DefiRemoveAccountData
<1>8. CASE Defi!Restart
      BY <1>8, DefiRestart
<1> QED  BY <1>1, <1>2, <1>3, <1>4, <1>5, <1>6, <1>7, <1>8 DEF Defi!Next

\* The invariant is what a run checks.
LEMMA DefiKeeps == ASSUME DefiInv PROVE Defi!TypeOK /\ Defi!QuietPositionsAreLoaded
<1>1. DefiTypes /\ DefiSteps /\ DefiLoading /\ DefiWhole /\ DefiStored
      BY DEF DefiInv
<1>3. ASSUME DOMAIN updates = {}, NEW a \in Wallets, NEW n \in DefiNets, known[a] # None, known[a][n] # None
      PROVE  /\ ~known[a][n].loading
             /\ known[a][n].positions # {} /\ ~known[a][n].errors /\ ~crossedRemoval =>
                 n \in leftOut[a] \/ n \in storedNetworks[a]
  <2>2. ASSUME known[a][n].positions # {}, ~known[a][n].errors, ~crossedRemoval
        PROVE  n \in leftOut[a] \/ n \in storedNetworks[a]
        BY <1>1, <1>3, <2>2 DEF DefiStored, DefiGood
  <2> QED  BY <1>1, <1>3, <2>2 DEF DefiLoading
<1> QED  BY <1>1, <1>3 DEF DefiTypes, Defi!TypeOK, DefiKnown, Defi!QuietPositionsAreLoaded

-----------------------------------------------------------------------------
(* TokenHints.  Of what is known nothing is missing, here or in the storage; *)
(* a preference that is not stored is about to be; and the last update that  *)
(* is queued took the preferences as they are, or is to take them.           *)

HintMarks == {None, "hidden", "hidden-custom", "custom", "learn"}
HintUpdates ==
    [stage : {"none", "asking", "learning", "saving"}, asked : SUBSET HintTokens,
     special : [HintTokens -> HintMarks]]
HintShown == [tokens : SUBSET HintTokens, hidden : SUBSET HintTokens, custom : SUBSET HintTokens, failed : BOOLEAN]
HintSaved == [learned : [HintTokens -> Nat \cup {None}], custom : SUBSET HintTokens, hidden : SUBSET HintTokens]
HintToggles == [n : Nat, of : {<<"custom">>, <<"hidden">>, <<"hidden", "custom">>}, after : Int]
HintTypes ==
    /\ owned \in SUBSET HintTokens /\ toBeLearned \in SUBSET HintTokens /\ custom \in SUBSET HintTokens
    /\ hidden \in SUBSET HintTokens /\ knownTokens \in SUBSET HintTokens
    /\ learned \in [HintTokens -> Nat \cup {None}] /\ savedHints \in HintSaved
    /\ toggles \in SUBSET HintToggles
    /\ hintsUpdate \in HintUpdates /\ hintsShown \in HintShown
    /\ clock \in Nat
\* The bounds of what is counted.
HintCounts ==
    /\ hintChanges \in 0..HintChanges /\ hintRestarts \in 0..Restarts
    /\ queued \in Nat /\ queued <= hintChanges + 1
    /\ hintsUpdate.stage # "none" => queued > 0
HintListed(list) == {t \in HintTokens : list[t] # None}
\* A list of learned tokens.
HintList(list) ==
    /\ \A t \in HintListed(list) : list[t] <= clock
    /\ Cardinality(HintListed(list)) <= Limit
    /\ knownTokens \subseteq HintListed(list)
HintStored ==
    /\ savedHints.custom = custom \/ \E g \in toggles : g.of # <<"hidden">>
    /\ savedHints.hidden = hidden \/ \E g \in toggles : g.of # <<"custom">>
\* Marks and what is shown are those of the preferences.
HintMarked(special) == \A t \in HintTokens :
    /\ special[t] \in {"hidden", "hidden-custom"} <=> t \in hidden
    /\ t \in custom => special[t] \in {"custom", "hidden-custom"}
    /\ special[t] \in {"custom", "hidden-custom"} => t \in custom \cup hidden
HintIsShown == hintsShown.hidden = hidden /\ custom \subseteq hintsShown.custom /\ hintsShown.custom \subseteq custom \cup hidden
HintFresh ==
    /\ hintsUpdate.stage = "asking" => \A t \in HintTokens : hintsUpdate.special[t] # None => t \in hintsUpdate.asked
    /\ hintsUpdate.stage = "asking" /\ queued = 1 => HintMarked(hintsUpdate.special)
    /\ hintsUpdate.stage \in {"learning", "saving"} /\ queued = 1 => HintIsShown
    /\ queued = 0 /\ hintsShown.failed = FALSE => HintIsShown
HintInv ==
    HintTypes /\ HintCounts /\ HintList(learned) /\ HintList(savedHints.learned) /\ HintStored /\ HintFresh

\* The instance counts as the library does.
LEMMA HintCard == \A S : Hint!Cardinality(S) = Cardinality(S)
BY DEF Hint!Cardinality, Cardinality

\* Sets of tokens are finite.
LEMMA HintFinite == \A S \in SUBSET HintTokens : IsFiniteSet(S) /\ Cardinality(S) \in Nat
BY HintAssumed, FS_Subset, FS_CardinalityType

\* Parts that steps leave alone.
LEMMA HintFrame ==
    /\ HintInv => HintTypes /\ HintCounts /\ HintList(learned) /\ HintList(savedHints.learned) /\ HintStored
                  /\ HintFresh
    /\ \A list : HintList(list) /\ UNCHANGED <<clock, knownTokens>> => HintList(list)'
    /\ HintStored /\ UNCHANGED <<savedHints, custom, hidden, toggles>> => HintStored'
    /\ HintIsShown /\ UNCHANGED <<custom, hidden, hintsShown>> => HintIsShown'
    /\ HintFresh /\ UNCHANGED <<custom, hidden, hintsShown, hintsUpdate, queued>> => HintFresh'
<1>1. ASSUME NEW list, HintList(list), UNCHANGED <<clock, knownTokens>> PROVE HintList(list)'
      BY <1>1 DEF HintList, HintListed
<1> QED  BY <1>1 DEF HintInv, HintStored, HintIsShown, HintFresh, HintMarked

\* Initially.
LEMMA HintInvInit == Hint!Init => HintInv
<1> SUFFICES ASSUME Hint!Init PROVE HintInv
    OBVIOUS
<1>1. PICK none \in [HintTokens -> Nat \cup {None}] : none = [t \in HintTokens |-> None]
      OBVIOUS
<1>3. /\ toBeLearned = {} /\ custom = {} /\ hidden = {} /\ toggles = {} /\ queued = 1 /\ knownTokens = {}
      /\ clock = 0 /\ hintChanges = 0 /\ hintRestarts = 0 /\ owned \in SUBSET HintTokens
      BY HintAssumed DEF Hint!Init
<1>6. hintsUpdate \in HintUpdates /\ hintsUpdate.stage = "none"
      BY <1>1 DEF HintUpdates, Hint!Init, Hint!NoUpdate, HintMarks
<1>11. HintListed(none) = {}
       BY <1>1 DEF HintListed
<1>12. HintList(none)
       BY <1>3, <1>11, FS_EmptySet, HintAssumed DEF HintList
<1>14. HintFresh
       BY <1>3, <1>6 DEF HintFresh
<1> QED  BY <1>1, <1>3, <1>6, <1>12, <1>14, HintAssumed DEF HintInv, HintStored, HintSaved, Hint!Init,
            HintTypes, Hint!Nothing, HintShown, HintCounts

\* A change that asks for no update, and an update that is asked for without one.
LEMMA HintTold ==
    ASSUME HintInv,
           \/ Hint!UpdateSelectedAccount
           \/ \E t \in HintTokens : Hint!AddTokensToBeLearned(t) \/ Hint!Transferred(t)
    PROVE  HintInv'
<1>1. /\ hintChanges < HintChanges /\ hintChanges' = hintChanges + 1
      /\ queued' = queued \/ queued' = queued + 1
      /\ UNCHANGED <<learned, custom, hidden, savedHints, toggles, hintsUpdate, hintsShown, knownTokens, clock,
                     hintRestarts>>
      BY DEF Hint!AddTokensToBeLearned, Hint!Transferred, Hint!UpdateSelectedAccount, Hint!Change, Hint!prefs
<1>3. HintTypes'
      BY <1>1 DEF HintInv, HintTypes, Hint!AddTokensToBeLearned, Hint!Transferred,
         Hint!UpdateSelectedAccount
<1>9. HintFresh'
  <2>1. CASE queued' = queued
        BY <1>1, <2>1, HintFrame
  <2>2. CASE queued' = queued + 1
        BY <1>1, <2>2, HintFrame DEF HintFresh, HintCounts
  <2> QED  BY <1>1, <2>1, <2>2
<1> QED  BY <1>1, <1>3, <1>9, HintFrame, HintAssumed DEF HintInv, HintList, HintListed, HintCounts

\* The kinds of changes differ.
LEMMA HintKinds ==
    /\ <<"custom">> # <<"hidden">> /\ <<"hidden", "custom">> # <<"hidden">> /\ <<"hidden", "custom">> # <<"custom">>
    /\ Head(<<"custom">>) = "custom" /\ Head(<<"hidden">>) = "hidden" /\ Head(<<"hidden", "custom">>) = "hidden"
    /\ ~(Len(<<"custom">>) > 1) /\ ~(Len(<<"hidden">>) > 1) /\ Len(<<"hidden", "custom">>) > 1
    /\ Tail(<<"hidden", "custom">>) = <<"custom">>
OBVIOUS

\* A change of the preferences, whose update is queued and that is stored afterwards.
LEMMA HintPrefs ==
    ASSUME HintInv, Hint!Change, NEW what \in {<<"custom">>, <<"hidden">>, <<"hidden", "custom">>},
           Hint!Toggled(what), custom' \in SUBSET HintTokens, hidden' \in SUBSET HintTokens,
           custom' # custom => what # <<"hidden">>, hidden' # hidden => what # <<"custom">>,
           UNCHANGED <<owned, toBeLearned, learned, savedHints, hintsUpdate, hintsShown, knownTokens, clock,
                       hintRestarts>>
    PROVE  HintInv'
<1>1. HintTypes /\ HintCounts /\ HintStored /\ HintFresh
      BY HintFrame
<1>3. PICK g : g = [n |-> hintChanges, of |-> what, after |-> queued + 1]
      OBVIOUS
<1>5. hintChanges \in Nat /\ queued \in Nat /\ queued + 1 \in Int
      BY <1>1, HintAssumed DEF HintCounts
<1>7. HintTypes'
      BY <1>1, <1>3, <1>5 DEF HintTypes, Hint!Toggled, HintToggles
<1>8. HintCounts'
      BY <1>1, <1>5, HintAssumed DEF HintCounts, Hint!Change, Hint!Toggled
<1>10. HintStored'
       BY <1>1, <1>3, <1>5 DEF HintStored, Hint!Toggled, HintToggles
<1>11. HintFresh'
       BY <1>1, <1>5 DEF HintFresh, HintCounts, Hint!Change, Hint!Toggled
<1> QED  BY <1>7, <1>8, <1>10, <1>11 DEF HintInv, HintList, HintListed

\* The user adds, removes, hides or shows a token.
LEMMA HintCustom ==
    ASSUME HintInv, NEW t \in HintTokens,
           Hint!AddCustomToken(t) \/ Hint!RemoveCustomToken(t) \/ Hint!ToggleHideToken(t)
    PROVE  HintInv'
<1>1. /\ Hint!Change
      /\ UNCHANGED <<owned, toBeLearned, learned, savedHints, hintsUpdate, hintsShown, knownTokens, clock,
                     hintRestarts>>
      BY DEF Hint!AddCustomToken, Hint!RemoveCustomToken, Hint!ToggleHideToken
<1>2. custom \in SUBSET HintTokens /\ hidden \in SUBSET HintTokens
      BY DEF HintInv, HintTypes
<1>3. CASE Hint!AddCustomToken(t)
      BY <1>1, <1>2, <1>3, HintPrefs, HintKinds DEF Hint!AddCustomToken
<1>4. CASE Hint!RemoveCustomToken(t)
  <2>2. CASE t \in hidden
        BY <1>1, <1>2, <1>4, <2>2, HintPrefs, HintKinds DEF Hint!RemoveCustomToken
  <2>3. CASE t \notin hidden
        BY <1>1, <1>2, <1>4, <2>3, HintPrefs, HintKinds DEF Hint!RemoveCustomToken
  <2> QED  BY <2>2, <2>3
<1>5. CASE Hint!ToggleHideToken(t)
      BY <1>1, <1>2, <1>5, HintPrefs, HintKinds DEF Hint!ToggleHideToken
<1> QED  BY <1>3, <1>4, <1>5

\* The marks of an update that begins.
LEMMA HintStart == ASSUME HintInv, Hint!StartUpdate PROVE HintInv'
<1>1. /\ queued > 0 /\ hintsUpdate.stage = "none"
      /\ UNCHANGED <<owned, toBeLearned, learned, custom, hidden, savedHints, toggles, queued, hintsShown,
                     knownTokens, clock, hintChanges, hintRestarts>>
      BY DEF Hint!StartUpdate, Hint!prefs
<1>3. PICK special : special = Hint!SpecialHints
      OBVIOUS
<1>4. PICK wanted0 : wanted0 = Hint!Learned \cup {t \in HintTokens : special[t] # None}
      OBVIOUS
<1>11. HintList(learned)' /\ HintList(savedHints.learned)'
       BY <1>1 DEF HintInv, HintList, HintListed
<1>13. HintMarked(special)
  <2> SUFFICES ASSUME NEW t \in HintTokens
               PROVE  /\ special[t] \in {"hidden", "hidden-custom"} <=> t \in hidden
                      /\ t \in custom => special[t] \in {"custom", "hidden-custom"}
                      /\ special[t] \in {"custom", "hidden-custom"} => t \in custom \cup hidden
      BY DEF HintMarked
  <2> QED  BY <1>3, HintAssumed DEF Hint!SpecialHints
<1>14. HintFresh'
       BY <1>1, <1>3, <1>4, <1>13, HintFrame DEF HintFresh, HintMarked, HintUpdates, Hint!StartUpdate,
          Hint!SpecialHints, HintMarks, Hint!Learned, HintIsShown
<1> QED  BY <1>1, <1>3, <1>4, <1>11, <1>14, HintFrame DEF HintInv, HintTypes, HintCounts, HintUpdates,
            Hint!StartUpdate, Hint!SpecialHints, HintMarks, Hint!Learned

\* An update ends: its turn is over, and the changes that wait for it go on.
LEMMA HintEndIs ==
    ASSUME HintTypes, HintCounts, HintStored, hintsUpdate.stage # "none", Hint!EndUpdate,
           UNCHANGED <<custom, hidden, hintChanges, hintRestarts>>, 
           savedHints'.custom = savedHints.custom, savedHints'.hidden = savedHints.hidden
    PROVE  /\ hintsUpdate' \in HintUpdates /\ hintsUpdate'.stage = "none"
           /\ toggles' \in SUBSET HintToggles /\ HintCounts' /\ HintStored'
           /\ queued' = queued - 1
<1>1. queued' = queued - 1 /\ hintsUpdate' = Hint!NoUpdate /\ toggles' = {[g EXCEPT !.after = @ - 1] : g \in toggles}
      BY DEF Hint!EndUpdate
<1>2. PICK none : none = [t \in HintTokens |-> None]
      OBVIOUS
<1>4. hintsUpdate' \in HintUpdates /\ hintsUpdate'.stage = "none"
      BY <1>1, <1>2 DEF HintUpdates, HintMarks, Hint!NoUpdate
<1>5. ASSUME NEW g \in toggles
      PROVE  [g EXCEPT !.after = @ - 1] \in HintToggles /\ [g EXCEPT !.after = @ - 1].of = g.of
      BY DEF HintTypes, HintToggles
<1>9. HintCounts'
      BY <1>1, <1>4, HintAssumed DEF HintCounts
<1> QED  BY <1>1, <1>4, <1>5, <1>9 DEF HintStored

\* The update fails.
LEMMA HintFails == ASSUME HintInv, Hint!UpdateFails PROVE HintInv'
<1> QED  BY HintEndIs, HintFrame DEF HintInv, HintList, HintListed, HintTypes, HintShown, Hint!UpdateFails,
            Hint!prefs, HintFresh

\* What is learned is known no longer than it is listed, and never more than the limit.
LEMMA HintLearnIs ==
    ASSUME HintTypes, HintList(learned), NEW new \in SUBSET HintTokens, Hint!Learn(new), clock' = clock
    PROVE  /\ learned' \in [HintTokens -> Nat \cup {None}] /\ HintList(learned)'
           /\ knownTokens' \subseteq knownTokens
<1>1. PICK all : all = [t \in HintTokens |-> IF t \in new THEN 0 ELSE learned[t]]
      OBVIOUS
<1>2. PICK have : have = Hint!Learned \cup new
      OBVIOUS
<1>3. PICK kept \in (IF Hint!Cardinality(have) > Limit THEN {s \in SUBSET have : Hint!Cardinality(s) = Limit} ELSE {have}) :
        /\ learned' = [t \in HintTokens |-> IF t \in kept THEN all[t] ELSE None]
        /\ knownTokens' = knownTokens \cap kept
      BY <1>1, <1>2 DEF Hint!Learn
<1>5. have \in SUBSET HintTokens /\ \A t \in have : t \in new \/ learned[t] # None
      BY <1>2 DEF HintListed, Hint!Learned
<1>7. kept \in SUBSET have /\ Cardinality(kept) <= Limit
  <2>1. CASE Hint!Cardinality(have) > Limit
        BY <1>3, <2>1, HintCard, HintAssumed
  <2>2. CASE ~(Hint!Cardinality(have) > Limit)
        BY <1>3, <1>5, <2>2, HintAssumed, HintFinite, HintCard
  <2> QED  BY <2>1, <2>2
<1>9. ASSUME NEW t \in HintTokens, t \in kept
      PROVE  learned'[t] = all[t] /\ all[t] \in Nat /\ (all[t] = 0 \/ (learned[t] # None /\ all[t] = learned[t]))
  <2>2. CASE t \in new
        BY <1>1, <1>3, <1>9, <2>2
  <2>3. CASE t \notin new
        BY <1>1, <1>3, <1>5, <1>7, <1>9, <2>3, HintAssumed DEF HintTypes
  <2> QED  BY <2>2, <2>3
<1>12. HintListed(learned') = kept
       BY <1>3, <1>5, <1>7, <1>9, HintAssumed DEF HintListed, HintTypes
<1>13. ASSUME NEW t \in HintListed(learned') PROVE learned'[t] <= clock
  <2>1. t \in kept /\ t \in HintTokens
        BY <1>12, <1>13 DEF HintListed
  <2>3. CASE all[t] = 0
        BY <1>9, <2>1, <2>3 DEF HintTypes
  <2>4. CASE learned[t] # None /\ all[t] = learned[t]
        BY <1>9, <2>1, <2>4 DEF HintList, HintListed
  <2> QED  BY <1>9, <2>1, <2>3, <2>4
<1> QED  BY <1>3, <1>7, <1>9, <1>12, <1>13 DEF HintList, HintListed

\* The result of an update.
LEMMA HintResult ==
    ASSUME HintInv, NEW found \in SUBSET owned, NEW static \in BOOLEAN, NEW simulated \in BOOLEAN,
           Hint!Result(found, static, simulated)
    PROVE  HintInv'
<1>1. /\ hintsUpdate.stage = "asking"
      /\ UNCHANGED <<owned, custom, hidden, savedHints, clock, hintChanges, hintRestarts>>
      BY DEF Hint!Result, Hint!prefs
<1>2. HintTypes /\ HintCounts /\ HintStored /\ HintFresh /\ HintList(learned) /\ HintList(savedHints.learned)
      BY HintFrame
<1>3. PICK special : special = hintsUpdate.special
      OBVIOUS
<1>4. PICK wanted0 : wanted0 = hintsUpdate.asked \cup found
      OBVIOUS
<1>5. PICK keep : keep = {t \in wanted0 : t \in owned \/ special[t] # None}
      OBVIOUS
<1>6. PICK toLearn : toLearn = {t \in owned \cap wanted0 : special[t] = "learn" \/ (static /\ special[t] = None)}
                               \ Hint!Learned
      OBVIOUS
<1>9. keep \in SUBSET HintTokens /\ toLearn \in SUBSET HintTokens
      BY <1>2, <1>3, <1>4, <1>5, <1>6 DEF HintUpdates, HintTypes
<1>10. hintsShown' = [tokens |-> keep,
                      hidden |-> {t \in keep : special[t] \in {"hidden", "hidden-custom"}},
                      custom |-> {t \in keep : special[t] \in {"custom", "hidden-custom"}},
                      failed |-> FALSE]
       BY <1>3, <1>4, <1>5 DEF Hint!Result
<1>12. ASSUME HintMarked(special) PROVE HintIsShown'
  <2>1. \A t \in HintTokens : special[t] # None => t \in keep
        BY <1>1, <1>2, <1>3, <1>4, <1>5 DEF HintFresh
  <2> QED  BY <1>1, <1>2, <1>9, <1>10, <1>12, <2>1, HintAssumed DEF HintIsShown, HintMarked, HintTypes
<1>14. CASE simulated
       BY <1>1, <1>2, <1>3, <1>9, <1>10, <1>12, <1>14, HintEndIs DEF HintInv, HintList, HintListed,
          HintTypes, HintShown, Hint!Result, HintFresh, HintCounts
<1>15. CASE ~simulated
  <2>1. /\ Hint!Learn(toLearn) /\ toBeLearned' = toBeLearned \ toLearn
        /\ hintsUpdate' = [hintsUpdate EXCEPT !.stage = "learning", !.asked = found]
        /\ UNCHANGED <<queued, toggles>>
        BY <1>3, <1>4, <1>6, <1>15 DEF Hint!Result
  <2>9. HintFresh'
        BY <1>1, <1>2, <1>3, <1>12, <2>1 DEF HintFresh, HintCounts, HintUpdates, HintTypes
  <2> QED  BY <1>1, <1>2, <1>9, <1>10, <2>1, <2>9, HintLearnIs DEF HintInv, HintList, HintListed,
              HintStored, HintCounts, HintTypes, HintShown, HintUpdates
<1> QED  BY <1>14, <1>15

\* The learned ones are stored: those that only learning found have the time.
LEMMA HintStamp == ASSUME HintInv, Hint!StampLearned PROVE HintInv'
<1>1. /\ hintsUpdate.stage = "learning" /\ clock' = clock + 1
      /\ savedHints' = [savedHints EXCEPT !.learned = learned] /\ knownTokens' = Hint!Learned
      /\ hintsUpdate' = [hintsUpdate EXCEPT !.stage = "saving"]
      /\ UNCHANGED <<owned, toBeLearned, custom, hidden, toggles, queued, hintsShown, hintChanges, hintRestarts>>
      BY DEF Hint!StampLearned, Hint!prefs
<1>2. HintTypes /\ HintCounts /\ HintStored /\ HintFresh /\ HintList(learned)
      BY HintFrame
<1>3. PICK stamped \in SUBSET Hint!Learned :
        learned' = [t \in HintTokens |-> IF t \in stamped THEN clock + 1 ELSE learned[t]]
      BY DEF Hint!StampLearned
<1>4. Hint!Learned = HintListed(learned) /\ HintListed(learned) \in SUBSET HintTokens
      BY DEF Hint!Learned, HintListed
<1>5. clock \in Nat /\ clock + 1 \in Nat /\ learned \in [HintTokens -> Nat \cup {None}] /\ None \notin Nat
      BY <1>2, HintAssumed DEF HintTypes
<1>7. ASSUME NEW t \in HintTokens PROVE learned'[t] = learned[t] \/ (t \in HintListed(learned) /\ learned'[t] = clock + 1)
      BY <1>3, <1>4
<1>8. HintListed(learned') = HintListed(learned)
  <2>1. ASSUME NEW t \in HintTokens PROVE learned'[t] # None <=> learned[t] # None
        BY <1>5, <1>7 DEF HintListed
  <2> QED  BY <2>1 DEF HintListed
<1>9. ASSUME NEW t \in HintListed(learned) PROVE learned[t] <= clock + 1 /\ learned'[t] <= clock + 1
      BY <1>2, <1>5, <1>7 DEF HintList, HintListed
<1>14. HintList(learned)' /\ HintList(savedHints.learned)'
       BY <1>1, <1>2, <1>4, <1>8, <1>9 DEF HintList, HintListed, HintTypes, HintSaved
<1> QED  BY <1>1, <1>2, <1>3, <1>4, <1>5, <1>14 DEF HintInv, HintCounts, HintStored, HintFresh, HintIsShown,
            HintTypes, HintUpdates, HintSaved

\* The learned ones are stored, and the update is over.
LEMMA HintIsOver == ASSUME HintInv, Hint!HintsNotAnswered \/ Hint!HintsSaved PROVE HintInv'
<1>1. /\ hintsUpdate.stage \in {"learning", "saving"} /\ Hint!EndUpdate
      /\ savedHints' = [savedHints EXCEPT !.learned = learned]
      /\ knownTokens' = Hint!Learned \/ knownTokens' = knownTokens
      /\ UNCHANGED <<owned, toBeLearned, learned, custom, hidden, hintsShown, clock, hintChanges, hintRestarts>>
      BY DEF Hint!HintsNotAnswered, Hint!HintsSaved, Hint!prefs
<1>9. HintFresh'
      BY <1>1, HintEndIs, HintFrame DEF HintFresh, HintIsShown, HintCounts, HintTypes, HintSaved
<1> QED  BY <1>1, <1>9, HintEndIs, HintFrame DEF HintInv, HintTypes, Hint!Learned, HintListed, HintList,
            HintSaved

\* A change is stored.
LEMMA HintToggleSaved == ASSUME HintInv, NEW g \in toggles, Hint!ToggleSaved(g) PROVE HintInv'
<1>1. /\ toggles' = (toggles \ {g}) \cup (IF Len(g.of) > 1 THEN {[g EXCEPT !.of = Tail(g.of)]} ELSE {})
      /\ savedHints' = (IF Head(g.of) = "custom" THEN [savedHints EXCEPT !.custom = custom]
                        ELSE [savedHints EXCEPT !.hidden = hidden])
      /\ UNCHANGED <<owned, toBeLearned, learned, custom, hidden, queued, hintsUpdate, hintsShown, knownTokens,
                     clock, hintChanges, hintRestarts>>
      BY DEF Hint!ToggleSaved, Hint!prefs
<1>2. HintTypes /\ HintStored
      BY HintFrame
<1>3. g \in HintToggles /\ savedHints \in HintSaved /\ custom \in SUBSET HintTokens /\ hidden \in SUBSET HintTokens
      BY <1>2 DEF HintTypes
<1>6. savedHints' \in HintSaved /\ toggles' \in SUBSET HintToggles /\ HintStored'
  <2>1. CASE g.of = <<"custom">>
        BY <1>1, <1>2, <1>3, <2>1, HintKinds DEF HintTypes, HintSaved, HintStored
  <2>2. CASE g.of # <<"custom">>
    <3>3. CASE g.of = <<"hidden">>
          BY <1>1, <1>2, <1>3, <2>2, <3>3, HintKinds DEF HintTypes, HintStored, HintSaved, HintToggles
    <3>4. CASE g.of = <<"hidden", "custom">>
      <4>1. PICK h : h = [g EXCEPT !.of = Tail(g.of)]
            OBVIOUS
      <4> QED  BY <1>1, <1>2, <1>3, <2>2, <3>4, <4>1, HintKinds DEF HintTypes, HintToggles, HintStored,
                  HintSaved
    <3> QED  BY <1>3, <2>2, <3>3, <3>4 DEF HintToggles
  <2> QED  BY <2>1, <2>2
<1> QED  BY <1>1, <1>2, <1>3, <1>6, HintFrame DEF HintInv, HintTypes, HintCounts, HintList, HintListed,
            HintSaved

\* The application starts again.
LEMMA HintRestart == ASSUME HintInv, Hint!Restart PROVE HintInv'
<1>1. /\ hintRestarts < Restarts /\ hintRestarts' = hintRestarts + 1
      /\ learned' = savedHints.learned /\ custom' = savedHints.custom /\ hidden' = savedHints.hidden
      /\ toBeLearned' = {} /\ toggles' = {} /\ queued' = 1 /\ hintsUpdate' = Hint!NoUpdate
      /\ hintsShown' = Hint!Nothing
      /\ UNCHANGED <<owned, savedHints, knownTokens, clock, hintChanges>>
      BY DEF Hint!Restart
<1>3. PICK none \in [HintTokens -> HintMarks] : none = [t \in HintTokens |-> None]
      BY DEF HintMarks
<1>5. hintsUpdate' \in HintUpdates /\ hintsUpdate'.stage = "none"
      BY <1>1, <1>3 DEF HintUpdates, Hint!NoUpdate
<1>9. HintCounts'
      BY <1>1, <1>5, HintAssumed, HintFrame DEF HintCounts
<1>12. HintFresh'
       BY <1>1, <1>5 DEF HintFresh
<1> QED  BY <1>1, <1>5, <1>9, <1>12, HintFrame DEF HintInv, HintList, HintListed, HintStored, HintTypes,
            HintSaved, Hint!Nothing, HintShown

\* Every step.
LEMMA HintInvNext == HintInv /\ Hint!Next => HintInv'
<1> SUFFICES ASSUME HintInv, Hint!Next PROVE HintInv'
    OBVIOUS
<1>1. ASSUME NEW t \in HintTokens,
             \/ Hint!AddTokensToBeLearned(t) \/ Hint!Transferred(t) \/ Hint!AddCustomToken(t)
             \/ Hint!RemoveCustomToken(t) \/ Hint!ToggleHideToken(t)
      PROVE  HintInv'
      BY <1>1, HintTold, HintCustom
<1>2. ASSUME Hint!UpdateSelectedAccount PROVE HintInv'
      BY <1>2, HintTold
<1>3. ASSUME NEW found \in SUBSET owned, NEW static \in BOOLEAN, NEW simulated \in BOOLEAN,
             Hint!Result(found, static, simulated)
      PROVE  HintInv'
      BY <1>3, HintResult
<1>4. ASSUME NEW g \in toggles, Hint!ToggleSaved(g) PROVE HintInv'
      BY <1>4, HintToggleSaved
<1> QED  BY <1>1, <1>2, <1>3, <1>4, HintStart, HintFails, HintStamp, HintIsOver, HintRestart DEF Hint!Next

\* What the hints promise.
LEMMA HintKeeps == HintInv => Hint!TypeOK /\ Hint!QuietHintsAreUsed
<1> SUFFICES ASSUME HintInv PROVE Hint!TypeOK /\ Hint!QuietHintsAreUsed
    OBVIOUS
<1>1. HintTypes /\ HintCounts /\ HintStored /\ HintFresh /\ HintList(learned) /\ HintList(savedHints.learned)
      BY HintFrame
<1>3. ASSUME NEW list \in [HintTokens -> Nat \cup {None}], HintList(list), NEW t \in HintTokens, list[t] # None
      PROVE  list[t] \in 0..clock
      BY <1>1, <1>3 DEF HintList, HintListed, HintTypes
<1>7. Hint!TypeOK
      BY <1>1, <1>3, HintAssumed DEF Hint!TypeOK, HintTypes, HintShown, HintUpdates, HintSaved, HintCounts
<1>10. queued = 0 /\ ~hintsShown.failed => HintIsShown
       BY <1>1 DEF HintFresh, HintTypes, HintShown
<1>11. Hint!QuietHintsAreUsed
       BY <1>1, <1>10, HintCard DEF Hint!QuietHintsAreUsed, HintIsShown, HintStored, HintList, Hint!Learned,
          HintListed
<1> QED  BY <1>7, <1>11

=============================================================================
