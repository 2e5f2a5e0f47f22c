------------------------------ MODULE Accounts ------------------------------
(***************************************************************************)
(* AccountsController (accounts.ts) with what MainController does when an  *)
(* account is added, selected or removed: the accounts in their order, the *)
(* on-chain states that are loaded one network at a time for all callers,  *)
(* and the selected account.  The keys of an account matter as far as they *)
(* say whose state is kept up to date in the background.                   *)
(***************************************************************************)
EXTENDS Integers, Sequences, SequencesExt

CONSTANTS
    Addrs,      \* accounts
    Keyed,      \* those with a key in the keystore; the others are only viewed
    Smart,      \* those that were created as smart accounts
    Starts,     \* the accounts that a storage may hold
    Enabled,    \* the networks that are enabled when the controllers are loaded
    NetIds,     \* the networks
    Moves,      \* bound: calls of the user in one behaviour
    None

VARIABLES
    accounts,   \* AccountsController.accounts, their addresses
    states,     \* accountStates: pairs of an account and a network
    loading,    \* accountStatesLoadingState: the accounts a network's load is for
    missed,     \* pairs whose load failed, or was left out because another load ran
    enabled,    \* NetworksController.networks
    selected,   \* selectedAccount.account
    selecting,  \* calls of #selectAccount past their first check, by who made them
    removing,   \* calls of #removeAccount that wait for the activity
    added,      \* addAccounts waits for the storage: the accounts, and the one to select
    overtaken,  \* an account was removed while it was about to be selected
    moves       \* what the bound leaves
vars == <<accounts, states, loading, missed, enabled, selected, selecting, removing, added,
          overtaken, moves>>
loads == <<loading, missed>>

Removers == {"remove", "picker"}          \* removeAccount and #onAccountPickerSuccess
Selectors == {"user", "added"} \cup Removers
First == IF accounts = <<>> THEN None ELSE Head(accounts)

\* Mistake: without the selected account
InBackgroundKeyed(a) == ToSet(accounts) \cap Keyed
\* #getAccountsToUpdateAccountStatesInBackground
InBackground(a) == {b \in ToSet(accounts) : b = a \/ b \in Keyed}
\* #updateAccountStates: on a network that is loading, the caller waits for that load, whoever
\* it is for, and starts none of its own.
Ask(accs, nets) ==
    /\ loading' = [n \in NetIds |-> IF n \in nets /\ loading[n] = {} THEN accs ELSE loading[n]]
    /\ missed' = missed \cup {p \in accs \X nets : loading[p[2]] # {} /\ p[1] \notin loading[p[2]]}
Loading == \E n \in NetIds : loading[n] # {}
\* reloadSelectedAccount leaves the states alone while any load runs.
Reload(a, nets) ==
    IF Loading
    THEN missed' = missed \cup {p \in {a} \X nets : a \notin loading[p[2]]} /\ UNCHANGED loading
    ELSE Ask({a} \cap ToSet(accounts), nets)

LoadArrives(n) ==
    /\ loading[n] # {}
    /\ states' = states \cup (loading[n] \X {n})
    /\ loading' = [loading EXCEPT ![n] = {}]
    /\ UNCHANGED <<accounts, missed, enabled, selected, selecting, removing, added, overtaken, moves>>
LoadFails(n) ==
    /\ loading[n] # {}
    /\ missed' = missed \cup (loading[n] \X {n})
    /\ loading' = [loading EXCEPT ![n] = {}]
    /\ UNCHANGED <<accounts, states, enabled, selected, selecting, removing, added, overtaken, moves>>

Move == moves > 0 /\ moves' = moves - 1
\* updateAccountStates, which the extension calls again and again
UpdateAccountStates ==
    /\ Move /\ Ask(InBackground(selected), enabled)
    /\ UNCHANGED <<accounts, states, enabled, selected, selecting, removing, added, overtaken>>
\* onPopupOpen, and updateAccountState for the selected account
OnPopupOpen ==
    /\ Move /\ selected # None /\ ~Loading
    /\ Ask({selected} \cap ToSet(accounts), enabled)
    /\ UNCHANGED <<accounts, states, enabled, selected, selecting, removing, added, overtaken>>
\* onAddOrUpdateNetworks of a network that is added or enabled again; disabled, it is not listed.
EnableNetwork(n) ==
    /\ Move /\ n \notin enabled /\ enabled' = enabled \cup {n}
    /\ IF selected = None THEN UNCHANGED loads ELSE Reload(selected, {n})
    /\ UNCHANGED <<accounts, states, selected, selecting, removing, added, overtaken>>
DisableNetwork(n) ==
    /\ Move /\ n \in enabled /\ enabled' = enabled \ {n}
    /\ UNCHANGED <<accounts, states, loads, selected, selecting, removing, added, overtaken>>

\* #selectAccount: an account that is not there is not selected; one that is, after the action
\* window is closed and a swap that waits for a signature is removed from the queue.
Select(by, a) ==
    selecting' = IF a \in ToSet(accounts) THEN [selecting EXCEPT ![by] = [to |-> a, at |-> "closing"]]
                 ELSE selecting
SelectAccount(a) ==
    /\ Move /\ selecting["user"] = None /\ a \in ToSet(accounts) /\ Select("user", a)
    /\ UNCHANGED <<accounts, states, loads, enabled, selected, removing, added, overtaken>>
\* setAccount of SelectedAccountController
ActionWindowCloses(by) ==
    /\ selecting[by] # None /\ selecting[by].at = "closing"
    /\ selected' = selecting[by].to
    /\ selecting' = [selecting EXCEPT ![by].at = "storing"]
    /\ UNCHANGED <<accounts, states, loads, enabled, removing, added, overtaken, moves>>
\* The account that is selected by now is the one whose data is reloaded.
SelectedIsStored(by) ==
    /\ selecting[by] # None /\ selecting[by].at = "storing"
    /\ selecting' = [selecting EXCEPT ![by] = None]
    /\ IF selected = None THEN UNCHANGED loads ELSE Reload(selected, enabled)
    /\ UNCHANGED <<accounts, states, enabled, selected, removing, added, overtaken, moves>>

\* withStatus: removeAccount runs alone, but the account picker does not go through it.
MayRemove(by) ==
    /\ removing[by] = None /\ selecting[by] = None
    /\ by = "remove" => selecting["user"] = None
\* The account that a selection is on its way to; the user's own is over before removeAccount.
OnItsWay(by, a) ==
    \/ added # None /\ added.first = a
    \/ \E s \in Selectors \ (IF by = "remove" THEN {"user"} ELSE {}) :
          selecting[s] = [to |-> a, at |-> "closing"]
RemoveAccount(by, a) ==
    /\ Move /\ MayRemove(by)
    /\ \E i \in DOMAIN accounts : accounts[i] = a /\ accounts' = RemoveAt(accounts, i)
    /\ states' = {p \in states : p[1] # a}
    /\ removing' = [removing EXCEPT ![by] = a]
    /\ overtaken' = (overtaken \/ OnItsWay(by, a))
    /\ UNCHANGED <<loads, enabled, selected, selecting, added>>
Reselects(a) == selected = a
ActivityIsRemoved(by) ==
    /\ removing[by] # None /\ removing' = [removing EXCEPT ![by] = None]
    /\ IF Reselects(removing[by])
       THEN /\ selected' = IF First = None THEN None ELSE selected
            /\ Select(by, First)
       ELSE UNCHANGED <<selected, selecting>>
    /\ UNCHANGED <<accounts, states, loads, enabled, added, overtaken, moves>>

\* #addAccounts; getDefaultSelectedAccount takes a smart account if one was added
AddAccounts(accs, first) ==
    /\ Move /\ added = None /\ selecting["added"] = None
    /\ first \in (IF accs \cap Smart = {} THEN accs ELSE accs \cap Smart)
    /\ \E s \in SetToSeqs(accs \ ToSet(accounts)) : accounts' = accounts \o s
    /\ added' = [new |-> accs \ ToSet(accounts), first |-> first]
    /\ UNCHANGED <<states, loads, enabled, selected, selecting, removing, overtaken>>
AddedAreStored ==
    /\ added # None /\ added' = None
    /\ Select("added", added.first)
    /\ IF added.new = {} THEN UNCHANGED loads ELSE Ask(added.new, enabled)
    /\ UNCHANGED <<accounts, states, enabled, selected, removing, overtaken, moves>>
\* reorderAccounts
ReorderAccounts(i, j) ==
    /\ Move /\ i # j
    /\ LET rest == RemoveAt(accounts, i) IN accounts' = InsertAt(rest, j, accounts[i])
    /\ UNCHANGED <<states, loads, enabled, selected, selecting, removing, added, overtaken>>

\* #load, of the accounts and of the selected one
Init ==
    /\ accounts \in Starts
    /\ selected \in (IF accounts = <<>> THEN {None} ELSE ToSet(accounts))
    /\ enabled = Enabled
    /\ states = {} /\ missed = {}
    /\ loading = [n \in NetIds |-> IF n \in enabled THEN InBackground(selected) ELSE {}]
    /\ selecting = [by \in Selectors |-> None]
    /\ removing = [by \in Removers |-> None]
    /\ added = None /\ overtaken = FALSE /\ moves = Moves

Next ==
    \/ \E n \in NetIds : LoadArrives(n) \/ LoadFails(n) \/ EnableNetwork(n) \/ DisableNetwork(n)
    \/ UpdateAccountStates \/ OnPopupOpen
    \/ \E a \in Addrs : SelectAccount(a) \/ \E by \in Removers : RemoveAccount(by, a)
    \/ \E by \in Selectors : ActionWindowCloses(by) \/ SelectedIsStored(by)
    \/ \E by \in Removers : ActivityIsRemoved(by)
    \/ \E accs \in SUBSET Addrs \ {{}} : \E first \in accs : AddAccounts(accs, first)
    \/ AddedAreStored
    \/ \E i, j \in 1..Len(accounts) : ReorderAccounts(i, j)

Spec == Init /\ [][Next]_vars
-----------------------------------------------------------------------------
TypeOK ==
    /\ ToSet(accounts) \subseteq Addrs /\ IsInjective(accounts)
    /\ states \cup missed \subseteq Addrs \X NetIds
    /\ loading \in [NetIds -> SUBSET Addrs]
    /\ selected \in Addrs \cup {None}
    /\ removing \in [Removers -> Addrs \cup {None}]

Quiet == removing = [by \in Removers |-> None] /\ selecting = [by \in Selectors |-> None] /\ added = None
\* Between calls, the wallet shows an account that it has, and none only when it has none, in
\* whatever order accounts are added, selected and removed (main.ts:1333-1351).  The exception is
\* an account that is removed after the check that it exists and before it is selected, which
\* the callback of addAccounts and the account picker let happen.
QuietSelectedIsAdded ==
    Quiet /\ ~overtaken => IF accounts = <<>> THEN selected = None ELSE selected \in ToSet(accounts)

\* When nothing is being loaded any more, the state of the selected account is there on every
\* enabled network, unless its load failed, or was left out because one for other accounts ran
\* (accounts.ts:152, main.ts:1379).
QuietSelectedHasState ==
    Quiet /\ ~Loading /\ selected \in ToSet(accounts) =>
        \A n \in enabled : <<selected, n>> \in states \cup missed
=============================================================================
