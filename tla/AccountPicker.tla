---------------------------- MODULE AccountPicker ----------------------------
(***************************************************************************)
(* AccountPickerController: it derives pages of accounts from a seed or a  *)
(* device, asks the relayer for linked ones, and adds the selected ones    *)
(* with their keys through MainController.  A page, a search and an        *)
(* addition each wait for others while the user may leave and come back    *)
(* with another seed, and the keystore may be locked.  An account is known *)
(* by where it comes from: its source, path and page, one account to a     *)
(* page; so is its key.                                                    *)
(* The screen asks for a page only while isPageLocked is false and adds    *)
(* accounts only while addAccountsStatus is INITIAL.                       *)
(***************************************************************************)
EXTENDS Integers

CONSTANTS
    Sources,      \* seeds and devices
    Paths,        \* templates of hd paths
    LastPage,     \* bound: pages that the user looks at
    PickerTurns,  \* bound: what the user does in one behaviour
    None

VARIABLES
    source, path, page,  \* the session: keyIterator (None: not initialized), hdPathTemplate, page
    derived,             \* #derivedAccounts
    accountsLoading, linkedLoading, pageError,
    pageCalls,    \* setPage in progress: [source, path, page, auto, at]
    picked,       \* selectedAccountsFromCurrentSession
    ready,        \* readyToAddAccounts and readyToAddKeys
    addCall,      \* the await of #addAccounts or of #onAccountPickerSuccess
    onReady,      \* #addAccountsOnKeystoreReady
    keystoreReady,
    keystoreLocked,  \* #mainKey is null
    leaving,      \* the session that a reset which waits will begin
    addedAccounts, addedKeys,
    refused,    \* (history) keys that came while the keystore was locked
    crossed,    \* (history) a session ended while a page of it was being retrieved
    pickerTurns
vars == <<source, path, page, derived, accountsLoading, linkedLoading, pageError, pageCalls, picked, ready,
          addCall, onReady, keystoreReady, keystoreLocked, leaving, addedAccounts, addedKeys, refused, crossed,
          pickerTurns>>
session == <<source, path>>
shown == <<page, derived, accountsLoading, linkedLoading, pageError, pageCalls>>
keystore == <<keystoreReady, keystoreLocked>>
outcome == <<addedAccounts, addedKeys, refused>>
adding == <<ready, addCall, onReady, keystore, leaving, outcome>>

Accounts == [source : Sources, path : Paths, page : 1..LastPage]
NotReady == [accounts |-> {}, keys |-> {}]
Turn == pickerTurns > 0 /\ pickerTurns' = pickerTurns - 1
isPageLocked == accountsLoading \/ linkedLoading
\* the key that the key iterator makes now, with the present template, for an account of a page
KeyOf(a) == [a EXCEPT !.source = source, !.path = path]

\* -- Pages -------------------------------------------------------------------

\* setPage up to the first await; d is the present session
Load(d, n, calls, auto) ==
    /\ page' = n /\ derived' = {} /\ accountsLoading' = TRUE /\ linkedLoading' = FALSE /\ pageError' = FALSE
    /\ pageCalls' = calls \cup
          {[source |-> d.source, path |-> d.path, page |-> n, auto |-> auto, at |-> "retrieving"]}
Here == [source |-> source, path |-> path]
SetPage(n) ==
    /\ Turn /\ source # None /\ ~isPageLocked /\ ~(n = page /\ derived # {})
    /\ Load(Here, n, pageCalls, FALSE)
    /\ UNCHANGED <<session, picked, adding, crossed>>
AfterTemplate == {}
SetHDPathTemplate(p) ==
    /\ Turn /\ source # None /\ ~isPageLocked /\ p # path
    /\ path' = p /\ picked' = AfterTemplate
    /\ Load([source |-> source, path |-> p], 1, pageCalls, FALSE)
    /\ UNCHANGED <<source, adding, crossed>>

\* #findAndSetLinkedAccounts up to its await, for what is derived by now
Search(c, accounts) ==
    IF accounts = {} \/ c.auto
    THEN pageCalls' = pageCalls \ {c} /\ UNCHANGED linkedLoading
    ELSE linkedLoading' = TRUE /\ pageCalls' = (pageCalls \ {c}) \cup {[c EXCEPT !.at = "linking"]}
\* Nothing asks whether the page is still the one that is shown.  Used accounts of a private key are
\* selected at once.
AccountsRetrieved(c) ==
    /\ c.at = "retrieving" /\ ~c.auto
    /\ LET accounts == {[source |-> c.source, path |-> c.path, page |-> c.page]}
       IN  /\ derived' = accounts /\ Search(c, accounts)
           /\ picked' \in {picked} \cup {picked \cup accounts : x \in {source} \ {None}}
    /\ accountsLoading' = FALSE
    /\ UNCHANGED <<session, page, pageError, adding, crossed, pickerTurns>>
RetrievalFails(c) ==
    /\ c.at = "retrieving" /\ pageError' = TRUE /\ accountsLoading' = FALSE
    /\ Search(c, derived)
    /\ UNCHANGED <<session, page, derived, picked, adding, crossed, pickerTurns>>
\* The answer of a search counts if some search is expected.
LinkedArrive(c) ==
    /\ c.at = "linking" /\ linkedLoading' = FALSE /\ pageCalls' = pageCalls \ {c}
    /\ UNCHANGED <<session, page, derived, accountsLoading, pageError, picked, adding, crossed, pickerTurns>>
\* The page stays locked.
SearchFails(c) ==
    /\ c.at = "linking" /\ pageCalls' = pageCalls \ {c}
    /\ UNCHANGED <<session, page, derived, accountsLoading, linkedLoading, pageError, picked, adding,
                   crossed, pickerTurns>>

\* -- Selection -----------------------------------------------------------------

SelectAccount(a) ==
    /\ Turn /\ source # None /\ a \in derived /\ a \notin picked /\ picked' = picked \cup {a}
    /\ UNCHANGED <<session, shown, adding, crossed>>
DeselectAccount(a) ==
    /\ Turn /\ source # None /\ picked' = picked \ {a}
    /\ UNCHANGED <<session, shown, adding, crossed>>
\* selectNextAccount after the page that it asked for: the first account that is not imported is
\* selected, or the next page is asked for; init goes on to addAccounts after a tick.
NextAccount(c) ==
    /\ c.at = "retrieving" /\ c.auto
    /\ LET a == [source |-> c.source, path |-> c.path, page |-> c.page]
       IN  IF a \in addedAccounts /\ a \in addedKeys
           THEN /\ c.page < LastPage /\ source # None
                /\ Load(Here, c.page + 1, pageCalls \ {c}, TRUE) /\ UNCHANGED picked
           ELSE /\ derived' = {a} /\ accountsLoading' = FALSE
                /\ picked' = IF source = None THEN picked ELSE picked \cup {a}
                /\ pageCalls' = (pageCalls \ {c}) \cup {[c EXCEPT !.at = "selected"]}
                /\ UNCHANGED <<page, linkedLoading, pageError>>
    /\ UNCHANGED <<session, adding, crossed, pickerTurns>>

\* -- Addition ----------------------------------------------------------------

\* addAccounts up to its first await; a locked keystore defers it
BeginAdd ==
    IF keystoreReady THEN addCall' = "relayer" /\ UNCHANGED onReady
    ELSE onReady' = TRUE /\ UNCHANGED addCall
\* addAccountsPromise, the await of #addAccounts or of #onAccountPickerSuccess.  It is there no more
\* when the addition is stuck: it was rejected while addAccountsStatus was LOADING.
MustWait == addCall \notin {None, "stuck"}
AddAccounts ==
    /\ Turn /\ source # None /\ addCall = None /\ leaving = None /\ picked # {} /\ BeginAdd
    /\ UNCHANGED <<session, shown, picked, ready, keystore, leaving, outcome, crossed>>
AutoAdd(c) ==
    /\ c.at = "selected" /\ pageCalls' = pageCalls \ {c}
    /\ IF source = None \/ MustWait THEN UNCHANGED <<addCall, onReady>> ELSE BeginAdd
    /\ UNCHANGED <<session, page, derived, accountsLoading, linkedLoading, pageError, picked, ready,
                   keystore, leaving, outcome, crossed, pickerTurns>>
\* The first secret is stored; the caller says whether the keystore is left unlocked.
KeystoreIsReady ==
    /\ ~keystoreReady /\ keystoreReady' = TRUE /\ onReady' = FALSE /\ keystoreLocked' \in BOOLEAN
    /\ addCall' = IF onReady /\ source # None THEN "relayer" ELSE addCall
    /\ UNCHANGED <<session, shown, picked, ready, leaving, outcome, crossed, pickerTurns>>
\* MainController.lock, at any await of an addition
LockKeystore ==
    /\ Turn /\ keystoreReady /\ ~keystoreLocked /\ keystoreLocked' = TRUE
    /\ UNCHANGED <<session, shown, picked, ready, addCall, onReady, keystoreReady, leaving, outcome, crossed>>
UnlockKeystore ==
    /\ keystoreReady /\ keystoreLocked /\ keystoreLocked' = FALSE
    /\ UNCHANGED <<session, shown, picked, ready, addCall, onReady, keystoreReady, leaving, outcome,
                   crossed, pickerTurns>>
AddStep(from, to) == addCall = from /\ addCall' = to
AddKeeps == UNCHANGED <<session, shown, onReady, keystore, crossed, pickerTurns>>
\* The identities exist: accounts and keys are made of what is selected by now.
IdentitiesCreated ==
    /\ AddStep("relayer", "accounts")
    /\ ready' = [accounts |-> picked, keys |-> {KeyOf(a) : a \in picked}] /\ picked' = {}
    /\ AddKeeps /\ UNCHANGED <<leaving, outcome>>
RelayerFails ==
    /\ AddStep("relayer", None) /\ AddKeeps /\ UNCHANGED <<picked, ready, leaving, outcome>>
\* #onAccountPickerSuccess: the accounts, then, from what is ready by then, the keys
AccountsAdded ==
    /\ AddStep("accounts", "keys") /\ addedAccounts' = addedAccounts \cup ready.accounts
    /\ AddKeeps /\ UNCHANGED <<picked, ready, leaving, addedKeys, refused>>
\* Keys of a device are stored by a locked keystore too; which sources are devices is left open.
KeysAdded ==
    /\ AddStep("keys", None) /\ addedKeys' = addedKeys \cup ready.keys
    /\ AddKeeps /\ UNCHANGED <<picked, ready, leaving, addedAccounts, refused>>
Refused ==
    /\ keystoreLocked /\ refused' = refused \cup ready.keys
    /\ AddKeeps /\ UNCHANGED <<picked, ready, addedAccounts, addedKeys>>
\* #addKeys throws and its withStatus swallows it: the addition ends as usual.
KeysRefused == AddStep("keys", None) /\ Refused /\ UNCHANGED leaving
\* persistTempSeed or getKeystoreSeed throws: #addAccounts rejects and addAccountsStatus stays LOADING,
\* and so does a reset that waits for it.
SeedRefused == AddStep("keys", "stuck") /\ Refused /\ leaving' = None

\* -- Sessions ----------------------------------------------------------------

Sessions ==
    [source : Sources, path : Paths, auto : BOOLEAN] \cup {[source |-> None, path |-> None, auto |-> FALSE]}
\* reset after its await, and the rest of init
Begin(s) ==
    /\ source' = s.source /\ path' = s.path /\ picked' = {} /\ ready' = NotReady /\ onReady' = FALSE
    /\ leaving' = None /\ crossed' = (crossed \/ pageCalls # {})
    /\ IF s.auto THEN Load(s, 1, pageCalls, TRUE)
       ELSE /\ page' = 1 /\ derived' = {} /\ linkedLoading' = FALSE /\ pageError' = FALSE
            /\ UNCHANGED <<accountsLoading, pageCalls>>
    /\ addCall' = None /\ UNCHANGED <<keystore, outcome>>
\* init and reset, from any screen and at any time
Open(s) ==
    /\ Turn /\ leaving = None
    /\ IF MustWait
       THEN /\ leaving' = s
            /\ UNCHANGED <<session, shown, picked, ready,
                           addCall, onReady, keystore, outcome, crossed>>
       ELSE Begin(s)
Left == leaving # None /\ ~MustWait /\ Begin(leaving) /\ UNCHANGED pickerTurns

Init ==
    /\ source = None /\ path = None /\ page = 1 /\ derived = {} /\ accountsLoading = FALSE
    /\ linkedLoading = FALSE /\ pageError = FALSE /\ pageCalls = {} /\ picked = {} /\ ready = NotReady
    /\ addCall = None /\ onReady = FALSE /\ keystoreReady \in BOOLEAN /\ keystoreLocked = ~keystoreReady
    /\ leaving = None
    /\ addedAccounts = {} /\ addedKeys = {} /\ refused = {} /\ crossed = FALSE
    /\ pickerTurns = PickerTurns
Next ==
    \/ \E n \in 1..LastPage : SetPage(n)
    \/ \E p \in Paths : SetHDPathTemplate(p)
    \/ \E c \in pageCalls : \/ AccountsRetrieved(c) \/ RetrievalFails(c) \/ LinkedArrive(c) \/ SearchFails(c)
                            \/ NextAccount(c) \/ AutoAdd(c)
    \/ \E a \in derived : SelectAccount(a)
    \/ \E a \in picked : DeselectAccount(a)
    \/ AddAccounts \/ KeystoreIsReady \/ LockKeystore \/ UnlockKeystore
    \/ IdentitiesCreated \/ RelayerFails \/ AccountsAdded \/ KeysAdded \/ KeysRefused \/ SeedRefused
    \/ \E s \in Sessions : Open(s)
    \/ Left
Spec == Init /\ [][Next]_vars
-----------------------------------------------------------------------------
TypeOK ==
    /\ source \in Sources \cup {None} /\ path \in Paths \cup {None} /\ page \in 1..LastPage
    /\ derived \subseteq Accounts /\ picked \subseteq Accounts
    /\ ready.accounts \subseteq Accounts /\ ready.keys \subseteq Accounts
    /\ addCall \in {None, "relayer", "accounts", "keys", "stuck"}

\* Once no addition is on the way, every account that was added has its own key in the keystore, the
\* one it was derived with, of the same source and template, unless the keystore was locked when its
\* keys came: the account is kept without its key then.  The user may have left for another seed or
\* template at any await of the addition, but not while a page of the session was being retrieved
\* (accountPicker.ts:428-457, 769-930, main.ts:689-727, keystore.ts:649-664).
AddedHaveTheirKeys == ~MustWait /\ ~crossed => addedAccounts \subseteq addedKeys \cup refused

\* Once no page loads, the page that is shown is the one that the session is at.
QuietPageIsShown ==
    source # None /\ pageCalls = {} /\ ~pageError /\ ~crossed /\ derived # {}
        => derived = {[source |-> source, path |-> path, page |-> page]}
=============================================================================
