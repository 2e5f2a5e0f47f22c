--------------------------- MODULE SelectedAccount --------------------------
(***************************************************************************)
(* SelectedAccountController: the portfolio and the DeFi positions that    *)
(* are shown for the selected account.  They are computed network by       *)
(* network from what the portfolio and the DeFi controllers hold, and what *)
(* was computed before is kept where nothing seems to have changed.  An    *)
(* answer is known by its block and by the tokens that the user wants to   *)
(* see at the time; DeFi positions by the time of their update.            *)
(***************************************************************************)
EXTENDS Integers

CONSTANTS
    Chains, Addrs,
    SimulatedOps,  \* account operations that wait for a signature
    Starts,        \* accounts that may be selected at first
    Budgets,       \* bounds of a behaviour: loads of the portfolio or of DeFi positions, and turns,
                   \* which are selections, refreshes, disabled networks, changed token lists
    None

VARIABLES
    account,     \* the selected account
    latestOf, pendingOf, defiOf,  \* what the other controllers hold for it on each network
    byNetworks,  \* #portfolioByNetworks
    portfolio,   \* what the UI is given, the owner of its data included
    positions,   \* #_defiPositions, by network
    fromScratch, \* #isPortfolioLoadingFromScratch
    started,     \* portfolioStartedLoadingAtTimestamp: "no", "recent", "late" after 5 seconds
    debounced,   \* #shouldDebounceFlags: the functions that run in the next task
    head,        \* [block, tokens]: the network's block and the user's custom and hidden tokens
    loads, turns
states == <<latestOf, pendingOf, defiOf, head>>
displays == <<byNetworks, portfolio, positions, fromScratch, started>>
vars == <<account, states, displays, debounced, loads, turns>>

NothingOf == [c \in Chains |-> None]
Blank == [loading |-> FALSE, error |-> FALSE, block |-> 0, tokens |-> 0, op |-> None]
DefaultPortfolio == [of |-> None, by |-> NothingOf, ready |-> FALSE, visible |-> FALSE]

\* -- Calculating the portfolio --------------------------------------------

\* The pending state of a network replaces the latest one if it is not older, or simulates an
\* account operation.
Valid(c) ==
    /\ latestOf[c] # None /\ pendingOf[c] # None
    /\ latestOf[c].block > 0 /\ pendingOf[c].block > 0 /\ ~pendingOf[c].error
    /\ pendingOf[c].block >= latestOf[c].block \/ pendingOf[c].op # None
Data(c) == IF Valid(c) THEN pendingOf[c] ELSE latestOf[c]
Simulated(c) == IF pendingOf[c] = None THEN None ELSE pendingOf[c].op
UpdatedAt(c) == IF defiOf[c] = None THEN 0 ELSE defiOf[c].at
DefiLoads(c) == defiOf[c] # None /\ defiOf[c].loading

\* getIsRecalculationNeeded
HasChanged(c, past) ==
    \/ past.op # None \/ Data(c).op # None
    \/ past.block # Data(c).block
    \/ past.at # UpdatedAt(c)
NeedsRecalculation(c, past) ==
    \/ pendingOf[c] = None \/ defiOf[c] = None \/ past = None
    \/ ~latestOf[c].loading /\ ~pendingOf[c].loading /\ ~DefiLoads(c) /\ HasChanged(c, past)

\* calculateSelectedAccountPortfolioByNetworks: a network that is not loaded keeps what was
\* calculated before.
Loaded(c) == (Data(c).block > 0 \/ Data(c).error) /\ ~Data(c).loading /\ ~DefiLoads(c)
Calculated(c) ==
    [of |-> account, block |-> Data(c).block, at |-> UpdatedAt(c), op |-> Simulated(c),
     tokens |-> Data(c).tokens]
Held == {c \in Chains : latestOf[c] # None}
HasState == Held # {} \/ \E c \in Chains : pendingOf[c] # None
Recalculated == {c \in Held : NeedsRecalculation(c, byNetworks[c])}
NewByNetworks ==
    IF ~HasState THEN NothingOf
    ELSE [c \in Chains |-> IF c \in Recalculated /\ Loaded(c) THEN Calculated(c) ELSE byNetworks[c]]
AllReady == Held # {} /\ ~(fromScratch /\ \E c \in Recalculated : ~Loaded(c))
SomeTokens == \E c \in Held : (c \in Recalculated => Loaded(c)) /\ NewByNetworks[c].block > 0
Visible == AllReady \/ (started = "late" /\ SomeTokens)

UpdateSelectedAccountPortfolio ==
    IF account = None THEN UNCHANGED <<byNetworks, portfolio, fromScratch, started>>
    ELSE /\ byNetworks' = NewByNetworks
         /\ portfolio' = [of |-> account, by |-> NewByNetworks, ready |-> AllReady, visible |-> Visible]
         /\ fromScratch' = (fromScratch /\ ~AllReady)
         /\ started' = IF AllReady THEN "no" ELSE IF started = "no" THEN "recent" ELSE started

\* -- Selecting -----------------------------------------------------------

\* resetSelectedAccountPortfolio
\* Mistake: what was calculated for the other account stays
ResetPortfolioKeepsNetworks == portfolio' = DefaultPortfolio /\ fromScratch' = TRUE /\ UNCHANGED byNetworks
ResetPortfolio == portfolio' = DefaultPortfolio /\ fromScratch' = TRUE /\ byNetworks' = NothingOf

\* setAccount: with no account, what was shown stays, except the calculated networks and the
\* positions.  The states of the account that is selected may be absent or of any earlier load.
Earlier == {NothingOf, [c \in Chains |-> [Blank EXCEPT !.block = 1]]}
SetAccount(a, l, p) ==
    /\ turns > 0 /\ turns' = turns - 1 /\ a # account
    /\ account' = a
    /\ IF a = None THEN byNetworks' = NothingOf /\ UNCHANGED <<portfolio, fromScratch>> ELSE ResetPortfolio
    /\ positions' = NothingOf /\ started' = "no"
    /\ latestOf' = l /\ pendingOf' = p /\ defiOf' = NothingOf
    /\ UNCHANGED <<head, debounced, loads>>
\* resetSelectedAccountPortfolio, at a refresh or when data is old
Refresh ==
    /\ turns > 0 /\ turns' = turns - 1 /\ account # None
    /\ ResetPortfolio
    /\ UNCHANGED <<account, states, positions, started, debounced, loads>>
\* onAddOrUpdateNetworks with a disabled network: its states go, and the portfolio is reset
\* (reloadSelectedAccount, which also starts an update of the DeFi positions)
DisableNetwork(c) ==
    /\ turns > 0 /\ turns' = turns - 1 /\ account # None
    /\ latestOf' = [latestOf EXCEPT ![c] = None] /\ pendingOf' = [pendingOf EXCEPT ![c] = None]
    /\ defiOf' = [defiOf EXCEPT ![c] = None]
    /\ ResetPortfolio
    /\ debounced' = debounced \cup {"portfolio", "defi"}
    /\ UNCHANGED <<account, head, positions, started, loads>>

\* -- The functions that run in a task of their own ------------------------

RunPortfolio ==
    /\ "portfolio" \in debounced /\ debounced' = debounced \ {"portfolio"}
    /\ UpdateSelectedAccountPortfolio
    /\ UNCHANGED <<account, states, positions, loads, turns>>
\* updateSelectedAccountDefiPositions: the portfolio counts the positions once all are loaded
AnyDefiLoads == \A c \in Chains : defiOf[c] = None \/ \E d \in Chains : DefiLoads(d)
RunDefi ==
    /\ "defi" \in debounced
    /\ debounced' = (debounced \ {"defi"}) \cup (IF account # None /\ AnyDefiLoads THEN {} ELSE {"portfolio"})
    /\ positions' = IF account = None THEN positions
                    ELSE [c \in Chains |-> IF defiOf[c] = None THEN None ELSE [of |-> account, at |-> defiOf[c].at]]
    /\ UNCHANGED <<account, states, byNetworks, portfolio, fromScratch, started, loads, turns>>

\* -- The other controllers -----------------------------------------------

\* PortfolioController.updatePortfolioState: loading, then an answer or an error, of either part;
\* the updates of a network queue
PortfolioEmits == debounced' = debounced \cup {"portfolio"} /\ UNCHANGED <<account, displays>>
Load(s) == IF s = None THEN [Blank EXCEPT !.loading = TRUE] ELSE [s EXCEPT !.loading = TRUE]
LoadPortfolio(c) ==
    /\ loads > 0 /\ loads' = loads - 1 /\ account # None
    /\ \A s \in {latestOf[c], pendingOf[c]} \ {None} : ~s.loading
    /\ latestOf' = [latestOf EXCEPT ![c] = Load(@)] /\ pendingOf' = [pendingOf EXCEPT ![c] = Load(@)]
    /\ PortfolioEmits /\ UNCHANGED <<defiOf, head, turns>>
Outcomes(s, ops) ==
    {[loading |-> FALSE, error |-> FALSE, block |-> head.block, tokens |-> head.tokens, op |-> o] : o \in ops}
        \cup {[s EXCEPT !.loading = FALSE, !.error = TRUE]}
LatestLoaded(c) ==
    /\ latestOf[c] # None /\ latestOf[c].loading
    /\ \E s \in Outcomes(latestOf[c], {None}) : latestOf' = [latestOf EXCEPT ![c] = s]
    /\ PortfolioEmits /\ UNCHANGED <<pendingOf, defiOf, head, loads, turns>>
PendingLoaded(c) ==
    /\ pendingOf[c] # None /\ pendingOf[c].loading
    /\ \E s \in Outcomes(pendingOf[c], SimulatedOps \cup {None}) : pendingOf' = [pendingOf EXCEPT ![c] = s]
    /\ PortfolioEmits /\ UNCHANGED <<latestOf, defiOf, head, loads, turns>>

\* DefiPositionsController.updatePositions
DefiEmits == debounced' = debounced \cup {"defi"} /\ UNCHANGED <<account, displays>>
LoadDefi(c) ==
    /\ loads > 0 /\ loads' = loads - 1 /\ account # None
    /\ defiOf' = [defiOf EXCEPT ![c] = [loading |-> TRUE, at |-> UpdatedAt(c)]]
    /\ DefiEmits /\ UNCHANGED <<latestOf, pendingOf, head, turns>>
DefiLoaded(c) ==
    /\ DefiLoads(c)
    /\ defiOf' = [defiOf EXCEPT ![c] = [loading |-> FALSE, at |-> @.at + 1]]
    /\ DefiEmits /\ UNCHANGED <<latestOf, pendingOf, head, loads, turns>>

\* The network goes on; the user adds a token or hides one, which a forced update follows.
NextBlock ==
    /\ turns > 0 /\ turns' = turns - 1 /\ head' = [head EXCEPT !.block = @ + 1]
    /\ UNCHANGED <<account, latestOf, pendingOf, defiOf, displays, debounced, loads>>
TokenListChanges ==
    /\ turns > 0 /\ turns' = turns - 1 /\ head' = [head EXCEPT !.tokens = @ + 1]
    /\ UNCHANGED <<account, latestOf, pendingOf, defiOf, displays, debounced, loads>>
TimePasses ==
    /\ started = "recent" /\ started' = "late"
    /\ UNCHANGED <<account, states, byNetworks, portfolio, positions, fromScratch, debounced, loads, turns>>

Init ==
    /\ account \in Starts
    /\ latestOf = NothingOf /\ pendingOf = NothingOf /\ defiOf = NothingOf
    /\ byNetworks = NothingOf /\ portfolio = DefaultPortfolio /\ positions = NothingOf
    /\ fromScratch = TRUE /\ started = "no" /\ debounced = {}
    /\ head = [block |-> 1, tokens |-> 0]
    /\ \E b \in Budgets : loads = b.loads /\ turns = b.turns
Next ==
    \/ \E a \in Addrs, l, p \in Earlier : SetAccount(a, l, p)
    \/ SetAccount(None, NothingOf, NothingOf)
    \/ Refresh \/ RunPortfolio \/ RunDefi
    \/ \E c \in Chains :
          \/ DisableNetwork(c)
          \/ LoadPortfolio(c) \/ LatestLoaded(c) \/ PendingLoaded(c)
          \/ LoadDefi(c) \/ DefiLoaded(c)
    \/ NextBlock \/ TokenListChanges \/ TimePasses

Spec == Init /\ [][Next]_vars
-----------------------------------------------------------------------------
TypeOK ==
    /\ account \in Addrs \cup {None}
    /\ DOMAIN byNetworks = Chains /\ debounced \subseteq {"portfolio", "defi"}
    /\ started \in {"no", "recent", "late"}
    /\ \A c \in Chains : byNetworks[c] # None => byNetworks[c].of = account

Settled(c) ==
    /\ latestOf[c] # None /\ ~latestOf[c].loading /\ pendingOf[c] # None /\ ~pendingOf[c].loading
    /\ \A d \in Chains : ~DefiLoads(d)
ShownOf(c) == portfolio.by[c]
\* When no debounced function waits, nothing of a network loads and no positions load on any network
\* (the portfolio waits for all of them), what is shown for it was calculated from the states that the
\* controllers hold now, although most updates keep what was calculated before
\* (libs/selectedAccount/selectedAccount.ts:391): the same block, the same simulated operation (one
\* whose simulation failed may be missing), the same DeFi positions, of the selected account; and
\* every network with a state is shown when the portfolio is ready.
QuietShownIsCurrent == account # None /\ debounced = {} =>
    /\ \A c \in Chains : Settled(c) /\ Data(c).block > 0 =>
          IF ShownOf(c) = None THEN ~portfolio.ready
          ELSE ShownOf(c) = [Calculated(c) EXCEPT !.tokens = ShownOf(c).tokens,
                                                  !.op = IF pendingOf[c].error THEN ShownOf(c).op ELSE @]
    /\ \A c \in Chains : positions[c] # None => defiOf[c] # None /\ positions[c] = [of |-> account, at |-> defiOf[c].at]
=============================================================================
