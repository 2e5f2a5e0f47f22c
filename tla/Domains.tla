------------------------------- MODULE Domains -------------------------------
(***************************************************************************)
(* DomainsController: the ENS names of addresses, kept for a quarter of an *)
(* hour, and looked up by whoever shows an address.                        *)
(***************************************************************************)
EXTENDS Integers

CONSTANTS
    Addresses,
    Names,     \* names that may be found
    Saves,     \* bound: names that a screen resolved and saves
    None

VARIABLES
    domains,           \* None, or the name (None: there is none) and whether it has expired
    loadingAddresses,
    lookups,           \* the lookups under way: how many of each address
    resolved,          \* ghost: the name that a screen saved while no lookup of its address was under way
    saves
domainsVars == <<domains, loadingAddresses, lookups, resolved, saves>>

Expired(a) == domains[a] # None /\ domains[a].expired
Needed(a) == (domains[a] = None \/ Expired(a)) /\ a \notin loadingAddresses

\* batchReverseLookup begins one lookup of each address in one step; reverseLookup is one of one address
BatchReverseLookup(addrs) ==
    /\ \E a \in addrs : Needed(a)
    /\ lookups' = [a \in Addresses |-> lookups[a] + IF a \in addrs /\ Needed(a) THEN 1 ELSE 0]
    /\ loadingAddresses' = loadingAddresses \cup {a \in addrs : Needed(a)}
    /\ UNCHANGED <<domains, resolved, saves>>

\* An address without name and a lookup that fails are the same
Found(a, name) ==
    /\ lookups[a] > 0 /\ lookups' = [lookups EXCEPT ![a] = @ - 1]
    /\ domains' = [domains EXCEPT ![a] = [ens |-> name, expired |-> FALSE]]
    /\ loadingAddresses' = loadingAddresses \ {a}
    /\ resolved' = [resolved EXCEPT ![a] = None]
    /\ UNCHANGED saves

SaveResolvedReverseLookup(a, name) ==
    /\ saves < Saves /\ saves' = saves + 1
    /\ domains' = [domains EXCEPT ![a] = [ens |-> name, expired |-> FALSE]]
    /\ resolved' = [resolved EXCEPT ![a] = IF lookups[a] = 0 THEN name ELSE None]
    /\ UNCHANGED <<loadingAddresses, lookups>>

QuarterPasses ==
    /\ \E a \in Addresses : domains[a] # None /\ ~domains[a].expired
    /\ domains' = [a \in Addresses |-> IF domains[a] = None THEN None ELSE [domains[a] EXCEPT !.expired = TRUE]]
    /\ resolved' = [a \in Addresses |-> None]
    /\ UNCHANGED <<loadingAddresses, lookups, saves>>

Init ==
    /\ domains = [a \in Addresses |-> None] /\ loadingAddresses = {}
    /\ lookups = [a \in Addresses |-> 0] /\ resolved = [a \in Addresses |-> None] /\ saves = 0
Next ==
    \/ \E addrs \in SUBSET Addresses : BatchReverseLookup(addrs)
    \/ \E a \in Addresses, name \in Names \cup {None} : Found(a, name)
    \/ \E a \in Addresses, name \in Names : SaveResolvedReverseLookup(a, name)
    \/ QuarterPasses
Spec == Init /\ [][Next]_domainsVars
-----------------------------------------------------------------------------
\* Type correctness.
TypeOK ==
    /\ \A a \in Addresses : domains[a] = None \/ domains[a] \in [ens : Names \cup {None}, expired : BOOLEAN]
    /\ loadingAddresses \subseteq Addresses /\ saves \in 0..Saves
    /\ resolved \in [Addresses -> Names \cup {None}]

\* An address is shown as loading just while it is looked up, once at a time, and a name that a
\* screen saved is not lost before it expires, unless a lookup of the address was under way, whose
\* answer, be it a failure, replaces it (domains.ts:46-112).
LookupsAreShown ==
    \A a \in Addresses :
        /\ lookups[a] = IF a \in loadingAddresses THEN 1 ELSE 0
        /\ resolved[a] # None => domains[a].ens = resolved[a]
=============================================================================
