----------------------------- MODULE Portfolio ------------------------------
(***************************************************************************)
(* PortfolioController for one account: the latest and the pending state   *)
(* on each network, the queue of updates per network, what an update       *)
(* simulates, and the gas tank and rewards of the relayer.  What is in a   *)
(* portfolio is left out, except which account operations its pending      *)
(* state was simulated with.                                               *)
(***************************************************************************)
EXTENDS Integers, Sequences

CONSTANTS
    Chains,   \* networks
    Lights,   \* the sets of those whose provider may be a light client, without a pending block
    Batches,  \* account operations that wait for a signature
    Asks,     \* bound: calls of updateSelectedAccount in one behaviour
    Upsets,   \* bound: removals, and times at which a state becomes old
    None

VARIABLES
    there,   \* the account is in AccountsController.accounts
    object,  \* number of the object #latest[account] (and #pending[account]), 0 if there is none
    latest,  \* its network states: None or loading, error, recent, ops and the call they come from
    pendingState,
    queue,   \* #queue: the updates of a network in the order of their calls
    tank,    \* state of the gas tank and rewards in latest
    tankOf,  \* the objects that calls of #getAdditionalPortfolio wait for an answer to write to
    unusual, \* (history) an answer that #getAdditionalPortfolio could not read left its mark
    last,    \* what the last call asked for on a network
    light,   \* the networks of a light client
    asks, upsets
vars == <<light, there, object, latest, pendingState, queue, tank, tankOf, unusual, last, asks, upsets>>
bounds == <<light, asks, upsets>>

\* The sequence without its i-th element.
RemoveAt(s, i) == SubSeq(s, 1, i - 1) \o SubSeq(s, i + 1, Len(s))

Ops == Batches \cup {None}
States == [loading : BOOLEAN, error : BOOLEAN, recent : BOOLEAN, ops : Ops]
New == [loading |-> FALSE, error |-> FALSE, recent |-> FALSE, ops |-> None]
Absent == [c \in Chains |-> None]

\* #getCanSkipUpdate
CanSkip(s, force) == s # None /\ ~force /\ ~s.error /\ (s.recent \/ s.loading)
OpsOf(s) == IF s = None THEN None ELSE s.ops

\* updateSelectedAccount: the operations that the pending state holds now are compared with the
\* new ones later, when the turn of the update comes.  A call is sure to be acted on if it is
\* forced, or if nothing that waits before it can change the pending state meanwhile.  What is
\* simulated, sim, is ops, or nothing when the account's state on the network was not given.
UpdateSelectedAccount(nets, ops, sim, force) ==
    /\ asks > 0 /\ there
    /\ asks' = asks - 1
    /\ object' = IF object = 0 THEN upsets + 1 ELSE object
    /\ queue' = [c \in Chains |-> IF c \notin nets THEN queue[c] ELSE
                    Append(queue[c], [ops |-> ops, sim |-> sim, seen |-> OpsOf(pendingState[c]),
                                      force |-> force, again |-> FALSE, on |-> 0, latest |-> "queued", pending |-> "queued"])]
    /\ last' = [c \in Chains |-> IF c \notin nets THEN last[c]
                                 ELSE [ops |-> ops, sim |-> sim, sure |-> force \/ queue[c] = <<>>]]
    /\ IF CanSkip(tank, force) THEN UNCHANGED <<tank, tankOf>>
       ELSE /\ tank' = [(IF tank = None THEN New ELSE tank) EXCEPT !.loading = TRUE]
            /\ tankOf' = Append(tankOf, object')
    /\ UNCHANGED <<there, latest, pendingState, unusual, light, upsets>>

\* #getAdditionalPortfolio: the answer goes to the object of the call, an error to the one that
\* is #latest[account] now; when there is none, the call throws.
TankRest == UNCHANGED <<there, object, latest, pendingState, queue, last, bounds>>
TankAnswers(i) ==
    /\ tankOf' = RemoveAt(tankOf, i)
    /\ tank' = IF tankOf[i] = object THEN [New EXCEPT !.recent = TRUE] ELSE tank
    /\ unusual' = (unusual /\ tankOf[i] # object)
    /\ TankRest
\* An answer without the expected fields throws, before or after the rewards were written: what
\* was not written stays marked.
TankThrows(i) ==
    /\ tankOf' = RemoveAt(tankOf, i)
    /\ tank' \in {tank, IF tankOf[i] = object THEN [New EXCEPT !.recent = TRUE] ELSE tank}
    /\ unusual' = (unusual \/ (tankOf[i] = object /\ tank # None /\ tank.loading))
    /\ TankRest
TankFails(i) ==
    /\ tankOf' = RemoveAt(tankOf, i)
    /\ tank' = IF object = 0 THEN tank
               ELSE [(IF tank = None THEN New ELSE tank) EXCEPT !.loading = FALSE, !.error = TRUE]
    /\ unusual' = (unusual /\ object = 0)
    /\ TankRest

\* The updates of a network run one after the other.
Runs(c) == DOMAIN queue[c] \cap {1}
Started(s, force) == [(IF s = None THEN New ELSE s) EXCEPT !.loading = TRUE, !.error = IF force THEN FALSE ELSE @]
\* updatePortfolioState, up to its await, first for the latest state and then for the pending
\* one, which a light client takes from the latest block: both are kept as the latest state.
StartUpdate(c, i) ==
    LET u == queue[c][i]
        force == u.force \/ u.ops # u.seen
        first == object # 0 /\ ~CanSkip(latest[c], force)
        there1 == IF first THEN Started(latest[c], force) ELSE latest[c]
        before == IF c \in light THEN there1 ELSE pendingState[c]
        second == object # 0 /\ ~CanSkip(before, force)
        there2 == IF second THEN Started(before, force) ELSE before
    IN /\ u.latest = "queued"
       /\ latest' = [latest EXCEPT ![c] = IF c \in light THEN there2 ELSE there1]
       /\ pendingState' = IF c \in light THEN pendingState ELSE [pendingState EXCEPT ![c] = there2]
       /\ queue' = [queue EXCEPT ![c][i] =
              [u EXCEPT !.on = object, !.latest = IF first THEN "get" ELSE "done",
                        !.pending = IF second THEN "get" ELSE "done"]]
       /\ UNCHANGED <<there, object, tank, tankOf, unusual, last, bounds>>

\* The state of the call's object is replaced, if it is still the account's.
Write(c, i, part, s) ==
    IF part = "pending" /\ c \notin light
    THEN /\ pendingState' = IF queue[c][i].on = object THEN [pendingState EXCEPT ![c] = s] ELSE pendingState
         /\ UNCHANGED latest
    ELSE /\ latest' = IF queue[c][i].on = object THEN [latest EXCEPT ![c] = s] ELSE latest
         /\ UNCHANGED pendingState
GetAnswers(c, i, part) ==
    /\ queue[c][i][part] = "get"
    /\ Write(c, i, part, [New EXCEPT !.recent = TRUE, !.ops = IF part = "pending" THEN queue[c][i].sim ELSE None])
    /\ queue' = [queue EXCEPT ![c][i][part] = "answered"]
    /\ UNCHANGED <<there, object, tank, tankOf, unusual, last, bounds>>
\* An error is kept in the state that the update began with: one that was removed meanwhile,
\* or replaced by the other half of the update, is out of sight.
\* Mistake: the state stays marked as loading
FailedLoading(s) == [s EXCEPT !.error = TRUE]
Failed(s) == [s EXCEPT !.loading = FALSE, !.error = TRUE]
GetFails(c, i, part) ==
    /\ queue[c][i][part] = "get"
    /\ LET s == IF part = "pending" /\ c \notin light THEN pendingState[c] ELSE latest[c]
           replaced == c \in light /\ "answered" \in {queue[c][i].latest, queue[c][i].pending}
       IN Write(c, i, part, IF s = None \/ replaced THEN s ELSE Failed(s))
    /\ queue' = [queue EXCEPT ![c][i][part] = "done"]
    /\ UNCHANGED <<there, object, tank, tankOf, unusual, last, bounds>>
\* The hints are learned and stored, and the next update of the queue may run.
EndUpdate(c, i) ==
    /\ {queue[c][i].latest, queue[c][i].pending} \subseteq {"answered", "done"}
    /\ queue' = [queue EXCEPT ![c] = RemoveAt(@, i)]
    /\ UNCHANGED <<there, object, latest, pendingState, tank, tankOf, unusual, last, bounds>>
\* Learning or storing the hints throws, after a latest state that came for the same operations:
\* the queue's catch runs the update once more.
RetryUpdate(c, i) ==
    LET u == queue[c][i]
    IN /\ u.latest = "answered" /\ u.pending \in {"answered", "done"} /\ u.ops = u.seen /\ ~u.again
       /\ queue' = [queue EXCEPT ![c][i] =
              [u EXCEPT !.again = TRUE, !.on = 0, !.latest = "queued", !.pending = "queued"]]
       /\ UNCHANGED <<there, object, latest, pendingState, tank, tankOf, unusual, last, bounds>>

Upset == upsets > 0 /\ upsets' = upsets - 1
\* removeAccountData; the account may be added again
RemoveAccountData ==
    /\ Upset /\ there /\ there' = FALSE
    /\ object' = 0 /\ latest' = Absent /\ pendingState' = Absent /\ tank' = None /\ unusual' = FALSE
    /\ UNCHANGED <<queue, tankOf, last, light, asks>>
AddAccount ==
    /\ ~there /\ there' = TRUE
    /\ UNCHANGED <<object, latest, pendingState, queue, tank, tankOf, unusual, last, bounds>>
\* removeNetworkData, when a network is disabled
RemoveNetworkData(c) ==
    /\ Upset /\ object # 0
    /\ latest' = [latest EXCEPT ![c] = None] /\ pendingState' = [pendingState EXCEPT ![c] = None]
    /\ UNCHANGED <<there, object, queue, tank, tankOf, unusual, last, light, asks>>
\* The least interval between two updates has passed.
Old(s) == IF s = None THEN None ELSE [s EXCEPT !.recent = FALSE]
TimePasses ==
    /\ Upset /\ object # 0
    /\ latest' = [c \in Chains |-> Old(latest[c])] /\ pendingState' = [c \in Chains |-> Old(pendingState[c])]
    /\ tank' = Old(tank)
    /\ UNCHANGED <<there, object, queue, tankOf, unusual, last, light, asks>>

Init ==
    /\ there = TRUE /\ object = 0
    /\ latest = Absent /\ pendingState = Absent
    /\ queue = [c \in Chains |-> <<>>]
    /\ tank = None /\ tankOf = <<>> /\ unusual = FALSE
    /\ last = [c \in Chains |-> None]
    /\ light \in Lights /\ asks = Asks /\ upsets = Upsets

Next ==
    \/ \E nets \in SUBSET Chains \ {{}}, ops \in Ops, force \in BOOLEAN : \E sim \in {ops, None} :
          UpdateSelectedAccount(nets, ops, sim, force)
    \/ \E i \in DOMAIN tankOf : TankAnswers(i) \/ TankThrows(i) \/ TankFails(i)
    \/ \E c \in Chains : \E i \in Runs(c) :
          \/ StartUpdate(c, i) \/ EndUpdate(c, i) \/ RetryUpdate(c, i)
          \/ \E part \in {"latest", "pending"} : GetAnswers(c, i, part) \/ GetFails(c, i, part)
    \/ RemoveAccountData \/ AddAccount \/ TimePasses
    \/ \E c \in Chains : RemoveNetworkData(c)

Spec == Init /\ [][Next]_vars
-----------------------------------------------------------------------------
TypeOK ==
    /\ latest \in [Chains -> States \cup {None}] /\ pendingState \in [Chains -> States \cup {None}]
    /\ tank \in States \cup {None}
    /\ object = 0 => tank = None

\* When no update of a network waits or runs, its pending state was simulated with what the last
\* call asked for, or with nothing when that call did not give the account's state: a slower, earlier
\* call never overwrites it (portfolio.ts:58), whatever is removed and added again meanwhile, and
\* whichever updates are run again.  A call that finds an update before it is left out unless it is
\* forced; so are states with an error.
QuietPendingIsAsked == \A c \in Chains :
    queue[c] = <<>> /\ pendingState[c] # None /\ last[c].sure =>
        pendingState[c].error \/ pendingState[c].ops \in {last[c].ops, last[c].sim}

\* When no call of a network is in flight, its states are not marked as loading: the mark makes
\* every later update that is not forced skip (portfolio.ts:600).  Nor is the gas tank, unless the
\* relayer's answer was one that #getAdditionalPortfolio throws on (portfolio.ts:507-570).
QuietNothingLoads ==
    /\ \A c \in Chains : queue[c] = <<>> => TRUE \notin {s.loading : s \in {latest[c], pendingState[c]} \ {None}}
    /\ tankOf = <<>> /\ tank # None /\ ~unusual => ~tank.loading
=============================================================================
