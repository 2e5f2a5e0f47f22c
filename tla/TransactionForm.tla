-------------------------- MODULE TransactionForm --------------------------
(***************************************************************************)
(* TransactionFormState of the TransactionManagerController: the chains,   *)
(* the token to get, and the list of such tokens, which is fetched at most *)
(* every 500 ms and cached per pair of chains.  A token and a list are     *)
(* known by their chain.  The type of the transaction that the manager     *)
(* shows is a function of this state.  Left out: amounts, the recipient,   *)
(* the portfolio's tokens in the lists, and active routes.                 *)
(***************************************************************************)
EXTENDS Integers

CONSTANTS
    ListChains, Sessions,
    MaxChoices,   \* bound: calls of the user in one behaviour
    None

VARIABLES
    fromChain, toChain,
    fromToken, toToken,
    toList,         \* #toTokenList
    cachedLists,    \* #cachedToTokenLists
    listStatus,     \* updateToTokenListStatus
    recent,         \* the last update is not 500 ms ago
    throttled,      \* the update that waits for that, with the last parameters: [reset, select]
    listCalls,      \* lists being fetched: [n, of, select]
    sessions, choices
vars == <<fromChain, toChain, fromToken, toToken, toList, cachedLists, listStatus, recent, throttled,
          listCalls, sessions, choices>>
chosen == <<fromChain, toChain, fromToken>>

Choice == choices > 0 /\ choices' = choices - 1

\* -- The list of tokens ---------------------------------------------------------

\* The list is there: the token that was asked for is selected, unless there is one.
ShowList(of, token, select) ==
    /\ toList' = of /\ listStatus' = "INITIAL"
    /\ toToken' = IF token = None /\ select /\ of # None THEN of ELSE token
\* Mistake: without chains the status stays
FetchListKeepsStatus(from, to, token, reset, select) ==
    /\ recent' = TRUE /\ listStatus' = "LOADING" /\ toToken' = token /\ UNCHANGED <<toList, cachedLists>>
    /\ listCalls' = IF from = None \/ to = None THEN listCalls
                    ELSE listCalls \cup {[n |-> choices, of |-> to, select |-> select]}
\* updateToTokenList, once the throttle lets it through, up to the answer: a list is taken from the
\* cache, if it is not too old, or fetched.  Its callers say which form they leave.
FetchList(from, to, token, reset, select) ==
    /\ recent' = TRUE /\ UNCHANGED cachedLists
    /\ IF from = None \/ to = None
       THEN listStatus' = "INITIAL" /\ toToken' = token /\ UNCHANGED <<toList, listCalls>>
       ELSE \/ /\ toList' = (IF reset THEN None ELSE toList) /\ listStatus' = "LOADING"
               /\ toToken' = IF reset THEN None ELSE token
               /\ listCalls' = listCalls \cup {[n |-> choices, of |-> to, select |-> select]}
            \/ /\ cachedLists[<<from, to>>] # None /\ UNCHANGED listCalls
               /\ ShowList(cachedLists[<<from, to>>], IF reset THEN None ELSE token, select)
UpdateToTokenList(from, to, token, reset, select) ==
    IF recent THEN /\ throttled' = [reset |-> reset, select |-> select] /\ toToken' = token
                   /\ UNCHANGED <<recent, cachedLists, toList, listStatus, listCalls>>
    ELSE UNCHANGED throttled /\ FetchList(from, to, token, reset, select)
NoListUpdate == UNCHANGED <<cachedLists, toList, listStatus, recent, throttled, listCalls>>

ThrottlePasses ==
    /\ recent /\ recent' = FALSE
    /\ UNCHANGED <<chosen, toToken, toList, cachedLists, listStatus, throttled, listCalls, sessions, choices>>
ThrottledUpdate ==
    /\ ~recent /\ throttled # None /\ throttled' = None
    /\ FetchList(fromChain, toChain, toToken, throttled.reset, throttled.select)
    /\ UNCHANGED <<chosen, sessions, choices>>
\* The answer is stored under the chains that the form has now; without one the old list is shown.
ListArrives(c, ok) ==
    /\ c \in listCalls /\ listCalls' = listCalls \ {c}
    /\ IF ok THEN /\ cachedLists' = [cachedLists EXCEPT ![<<fromChain, toChain>>] = c.of]
                  /\ ShowList(c.of, toToken, c.select)
       ELSE UNCHANGED cachedLists /\ \E of \in {toChain, c.of} : ShowList(of, toToken, c.select)
    /\ UNCHANGED <<chosen, recent, throttled, sessions, choices>>

\* -- The form -------------------------------------------------------------------

\* Without a token to get, the receiving chain follows.
UpdateFromToken(chain) ==
    /\ Choice /\ fromToken' = chain /\ UNCHANGED sessions
    /\ IF fromToken = chain THEN UNCHANGED <<fromChain, toChain, toToken>> /\ NoListUpdate
       ELSE /\ fromChain' = chain
            /\ IF toToken # None THEN UNCHANGED <<toChain, toToken>> /\ NoListUpdate
               ELSE toChain' = chain /\ UpdateToTokenList(chain, chain, toToken, TRUE, FALSE)
UpdateToChain(chain, select) ==
    /\ Choice /\ toChain' = chain /\ UNCHANGED <<fromChain, fromToken, sessions>>
    /\ LET token == IF select THEN chain ELSE toToken
       IN  IF toChain = chain THEN toToken' = token /\ NoListUpdate
           ELSE UpdateToTokenList(fromChain, chain, token, TRUE, select)
UpdateToToken(token) ==
    /\ Choice /\ token \in {toList, None} /\ toToken' = token /\ UNCHANGED <<chosen, sessions>> /\ NoListUpdate
\* The token that was paid with is selected from the new list.
SwitchFromAndToTokens ==
    /\ Choice /\ fromChain' = toChain /\ toChain' = fromChain /\ fromToken' = toToken
    /\ UpdateToTokenList(toChain, fromChain, IF toToken = None THEN fromToken ELSE toToken, TRUE, fromToken # None)
    /\ UNCHANGED sessions
\* A portfolio that is ready updates the list in place; a token that is gone is no longer selected.
PortfolioUpdates ==
    /\ Choice /\ UpdateToTokenList(fromChain, toChain, toToken, FALSE, FALSE)
    /\ UNCHANGED <<chosen, sessions>>
Reset(chain) ==
    /\ fromChain' = chain /\ toChain' = chain /\ fromToken' = None /\ toList' = None
    /\ UNCHANGED <<toToken, cachedLists, listStatus, recent, throttled, listCalls>>
InitForm(s) ==
    /\ Choice /\ s \notin sessions /\ sessions' = sessions \cup {s}
    /\ IF sessions = {} THEN \E c \in ListChains : Reset(c)
       ELSE UNCHANGED <<chosen, toToken, toList, cachedLists, listStatus, recent, throttled, listCalls>>
UnloadScreen(s) ==
    /\ Choice /\ s \in sessions /\ sessions' = sessions \ {s}
    /\ IF sessions = {s} THEN \E c \in ListChains : Reset(c)
       ELSE UNCHANGED <<chosen, toToken, toList, cachedLists, listStatus, recent, throttled, listCalls>>

Init ==
    /\ fromChain = None /\ toChain = None /\ fromToken = None /\ toToken = None /\ toList = None
    /\ cachedLists = [p \in ListChains \X ListChains |-> None]
    /\ listStatus = "INITIAL" /\ recent = FALSE /\ throttled = None /\ listCalls = {}
    /\ sessions = {} /\ choices = MaxChoices
Next ==
    \/ ThrottlePasses \/ ThrottledUpdate \/ \E c \in listCalls, ok \in BOOLEAN : ListArrives(c, ok)
    \/ \E c \in ListChains : UpdateFromToken(c) \/ \E b \in BOOLEAN : UpdateToChain(c, b)
    \/ \E t \in ListChains \cup {None} : UpdateToToken(t)
    \/ SwitchFromAndToTokens \/ PortfolioUpdates
    \/ \E s \in Sessions : InitForm(s) \/ UnloadScreen(s)

Spec == Init /\ [][Next]_vars
-----------------------------------------------------------------------------
TypeOK ==
    /\ {fromChain, toChain, fromToken, toToken, toList} \subseteq ListChains \cup {None}
    /\ listStatus \in {"INITIAL", "LOADING"} /\ sessions \subseteq Sessions
    /\ \A c \in listCalls : c.of \in ListChains

\* The list says that it loads only while a fetch is on the way, whichever updates were throttled,
\* served from the cache, overtaken, or made before the form had chains
\* (transactionFormState.ts:321-428).
FetchingIsCurrent == listStatus = "LOADING" => listCalls # {}
=============================================================================
