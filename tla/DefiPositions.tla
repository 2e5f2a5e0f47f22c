---------------------------- MODULE DefiPositions ---------------------------
(***************************************************************************)
(* DefiPositionsController: the DeFi positions of the accounts on every    *)
(* network.  An update asks Debank once for all networks and then, on each *)
(* network, the contracts of some providers and the prices of what they    *)
(* hold.  Positions are known by where they come from.                     *)
(***************************************************************************)
EXTENDS Integers

CONSTANTS
    Nets,      \* enabled and disabled networks
    Owners,    \* accounts
    Updates,   \* bound: updates in one behaviour
    Removals,  \* bound: removals of an account in one behaviour
    Restarts,  \* bound
    Current,   \* of an update that saves: the account's state, as it will be then
    None

VARIABLES
    known,         \* #state: None, or for each network None or what is known of it
    selectedOwner,
    remembered,    \* #networksWithPositionsByAccounts: None, or the networks where positions were found
    stored,        \* the same in the storage
    leftOut,       \* (history) where positions were known at a save whose provider was absent or down
    updates,       \* the updates in flight: account, Debank's positions, where each network is
    crossed,       \* (history) an account was removed during an update of it
    started, removals, restarts
defiVars == <<known, selectedOwner, remembered, stored, leftOut, updates, crossed, started, removals,
              restarts>>
networks == <<remembered, stored, leftOut>>
others == <<selectedOwner, crossed, started, removals, restarts>>

Sources == {"custom", "debank"}
Positions == [loading : BOOLEAN, errors : BOOLEAN, positions : SUBSET Sources]
Empty == [loading |-> FALSE, errors |-> FALSE, positions |-> {}]
Nothing == [n \in Nets |-> None]

\* initNetworkState
Inited(k, nets) == [n \in Nets |-> IF n \in nets /\ k[n] = None THEN Empty ELSE k[n]]

\* updatePositions, up to its first await.  Whether the update should be skipped only decides
\* whether an update is emitted: it goes on all the same.
UpdatePositions(u, nets) ==
    /\ selectedOwner # None /\ started < Updates /\ u = started + 1 /\ started' = u
    /\ known' = [known EXCEPT ![selectedOwner] = Inited(IF @ = None THEN Nothing ELSE @, nets)]
    /\ updates' = [v \in DOMAIN updates \cup {u} |->
          IF v # u THEN updates[v]
          ELSE [of |-> selectedOwner, debank |-> {}, before |-> [n \in Nets |-> {}], saved |-> None,
                on |-> [n \in Nets |-> IF n \in nets THEN "debank" ELSE "done"]]]
    /\ UNCHANGED <<selectedOwner, networks, crossed, removals, restarts>>

Goes(u, r) == updates' = [updates EXCEPT ![u] = r]
\* updateSingleNetwork of every network begins in the step of Debank's answer.  Where the account
\* was removed meanwhile, the networks whose state is gone throw.
DebankAnswers(u, found) ==
    LET r == updates[u]
        a == r.of
        nets == {n \in Nets : r.on[n] = "debank"}
    IN /\ nets # {}
       /\ known' = IF known[a] = None THEN known
                   ELSE [known EXCEPT ![a] = [n \in Nets |->
                       IF n \in nets THEN [Inited(known[a], nets)[n] EXCEPT !.loading = TRUE, !.errors = FALSE]
                       ELSE known[a][n]]]
       /\ Goes(u, IF known[a] = None THEN [r EXCEPT !.on = [n \in Nets |-> "thrown"]]
                  ELSE [r EXCEPT !.debank = found,
                          !.before = [n \in Nets |-> IF n \in nets THEN Inited(known[a], nets)[n].positions \ {"debank"} ELSE {}],
                          !.on = [n \in Nets |-> IF n \in nets THEN "custom" ELSE "done"]])
       /\ UNCHANGED <<networks, others>>

\* The end of updateSingleNetwork, with the custom positions that were found.  It throws when the
\* network's state is gone and no custom positions bring it back.
Written(r, s, custom) ==
    [loading |-> FALSE, errors |-> s # None /\ s.errors, positions |-> custom \cup r.debank]
EndNetwork(u, n, s, custom) ==
    LET r == updates[u]
    IN IF known[r.of] = None \/ (s = None /\ custom = {})
       THEN known' = known /\ Goes(u, [r EXCEPT !.on[n] = "thrown"])
       ELSE known' = [known EXCEPT ![r.of][n] = Written(r, s, custom)] /\ Goes(u, [r EXCEPT !.on[n] = "done"])
\* fetchCustomPositions: a provider that does not answer leaves an error, and its positions of before.
\* Without custom positions there is nothing to price.
CustomAnswers(u, n, found, fails) ==
    LET r == updates[u]
        s == IF known[r.of] = None THEN None ELSE known[r.of][n]
        custom == IF found \/ (fails /\ "custom" \in r.before[n]) THEN {"custom"} ELSE {}
    IN /\ r.on[n] = "custom"
       /\ IF fails /\ s = None THEN UNCHANGED known /\ Goes(u, [r EXCEPT !.on[n] = "thrown"])
          ELSE IF custom = {} THEN EndNetwork(u, n, IF fails THEN [s EXCEPT !.errors = TRUE] ELSE s, custom)
          ELSE /\ known' = IF fails THEN [known EXCEPT ![r.of][n].errors = TRUE] ELSE known
               /\ Goes(u, [r EXCEPT !.on[n] = "prices"])
       /\ UNCHANGED <<networks, others>>
\* updatePositionsByProviderAssetPrices: the error of a price that is missing is written and then
\* overwritten in the same step.
PricesAnswer(u, n) ==
    /\ updates[u].on[n] = "prices"
    /\ EndNetwork(u, n, IF known[updates[u].of] = None THEN None ELSE known[updates[u].of][n], {"custom"})
    /\ UNCHANGED <<networks, others>>

\* Promise.all; updateNetworksWithPositions reads the storage, or throws after it when the account
\* was removed.
Drop(u) == updates' = [v \in DOMAIN updates \ {u} |-> updates[v]]
ReadNetworks(u) ==
    LET a == updates[u].of
    IN /\ updates[u].saved = None /\ \A n \in Nets : updates[u].on[n] = "done"
       /\ IF known[a] = None THEN Drop(u)
          ELSE Goes(u, [updates[u] EXCEPT !.saved = [old |-> stored[a], state |-> Current]])
       /\ UNCHANGED <<known, networks, others>>
\* getAccountNetworksWithPositions adds the networks whose positions are known without an error
\* and whose provider is there and answers.
Found(state) == {n \in Nets : state[n] # None /\ ~state[n].errors /\ state[n].positions # {}}
WithPositions(old, state, working) == (IF old = None THEN {} ELSE old) \cup (Found(state) \cap working)
\* All accounts are written from memory, which a restart empties; the state that was handed over
\* is the account's, unless it was removed meanwhile.
SaveNetworks(u, working) ==
    LET a == updates[u].of
        read == updates[u].saved
        state == IF read.state = Current THEN known[a] ELSE read.state
        nets == WithPositions(read.old, state, working)
    IN /\ read # None
       /\ remembered' = [remembered EXCEPT ![a] = nets] /\ stored' = remembered'
       /\ leftOut' = [leftOut EXCEPT ![a] = Found(state) \ nets] /\ Drop(u)
       /\ UNCHANGED <<known, others>>
UpdateThrows(u) ==
    /\ \A n \in Nets : updates[u].on[n] \in {"done", "thrown"}
    /\ \E n \in Nets : updates[u].on[n] = "thrown"
    /\ Drop(u)
    /\ UNCHANGED <<known, networks, others>>

Select(a) == a # selectedOwner /\ selectedOwner' = a /\ UNCHANGED <<known, networks, updates, crossed, started, removals, restarts>>
\* removeAccountData; the account may be added and selected again
RemoveAccountData(a) ==
    /\ removals > 0 /\ removals' = removals - 1
    /\ known' = [known EXCEPT ![a] = None]
    /\ remembered' = [remembered EXCEPT ![a] = None] /\ stored' = remembered' /\ UNCHANGED leftOut
    /\ selectedOwner' = IF selectedOwner = a THEN None ELSE selectedOwner
    /\ updates' = [u \in DOMAIN updates |->
          IF updates[u].of # a \/ updates[u].saved = None THEN updates[u]
          ELSE IF updates[u].saved.state # Current THEN updates[u]
          ELSE [updates[u] EXCEPT !.saved.state = known[a]]]
    /\ crossed' = (crossed \/ \E u \in DOMAIN updates : updates[u].of = a)
    /\ UNCHANGED <<started, restarts>>
\* What is stored is not read again before an update.
Restart ==
    /\ restarts > 0 /\ restarts' = restarts - 1
    /\ known' = [a \in Owners |-> None] /\ remembered' = known' /\ updates' = [u \in {} |-> None]
    /\ UNCHANGED <<selectedOwner, stored, leftOut, crossed, started, removals>>

Init ==
    /\ known = [a \in Owners |-> None] /\ selectedOwner \in Owners
    /\ remembered = known /\ stored = known /\ leftOut = [a \in Owners |-> {}]
    /\ updates = [u \in {} |-> None] /\ crossed = FALSE /\ started = 0 /\ removals = Removals /\ restarts = Restarts
Next ==
    \/ \E u \in 1..Updates, nets \in SUBSET Nets \ {{}} : UpdatePositions(u, nets)
    \/ \E u \in DOMAIN updates :
          \/ ReadNetworks(u) \/ UpdateThrows(u)
          \/ \E working \in SUBSET Nets : SaveNetworks(u, working)
          \/ \E found \in SUBSET {"debank"} : DebankAnswers(u, found)
          \/ \E n \in Nets : PricesAnswer(u, n) \/ \E found, fails \in BOOLEAN : CustomAnswers(u, n, found, fails)
    \/ \E a \in Owners : Select(a) \/ RemoveAccountData(a)
    \/ Restart
Spec == Init /\ [][Next]_defiVars
-----------------------------------------------------------------------------
TypeOK ==
    /\ \A a \in Owners : known[a] # None => known[a] \in [Nets -> Positions \cup {None}]
    /\ selectedOwner \in Owners \cup {None}

\* When no update is in flight, no network of any account is marked as loading, whatever failed
\* and whichever accounts were removed and added again meanwhile: the portfolio is not calculated
\* for a network whose positions load (libs/selectedAccount/selectedAccount.ts:358).  The networks
\* where positions are known without an error are stored, from where the banners that suggest a
\* network take them (main.ts:1550), whichever updates overlapped, but those whose provider was
\* absent or down when the last update of the account wrote; and an update of an account that was
\* removed meanwhile may write what it read before over what one of the account as it was added
\* again has written.
QuietPositionsAreLoaded == DOMAIN updates = {} =>
    \A a \in Owners : known[a] # None => \A n \in Nets : known[a][n] # None =>
        /\ ~known[a][n].loading
        /\ known[a][n].positions # {} /\ ~known[a][n].errors /\ ~crossed =>
               n \in leftOut[a] \/ n \in stored[a]
=============================================================================
