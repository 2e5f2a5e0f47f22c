----------------------------- MODULE SwapTokens -----------------------------
(***************************************************************************)
(* The tokens that SwapAndBridgeController offers to get: lists per pair   *)
(* of chains from the provider, kept for some hours and fetched at most    *)
(* every 500 ms, and single tokens that the user adds by their address.    *)
(* A token is a record of its chain and address; the same address may be   *)
(* one on every chain.  Quotes are in SwapQuote.  Left out: search results,*)
(* amounts and the order of the lists.                                     *)
(***************************************************************************)
EXTENDS Integers

CONSTANTS
    Chains,
    Listed, Rare,     \* addresses in the provider's lists, and those it only knows when asked for them
    Turns,            \* bound: calls of the user
    None

VARIABLES
    form,      \* the chains and tokens, and the list for the present chains: #toTokenList
    cached,    \* #cachedToTokenLists: None, or the tokens and whether they are too old
    status,    \* updateToTokenListStatus
    failed,    \* the error 'to-token-list-fetch-failed' is shown
    recent,    \* the last update is not 500 ms ago
    throttled, \* None, or the address that the update which waits for that will select
    fetches,   \* lists being fetched: the chains at the start, what to select and the old list
    selecting, \* updates that selected a token and await the quote
    adding,    \* the token that addToTokenByAddress asks for
    misfiled,  \* ghost: an answer was kept for chains that it is not for
    dropped,   \* ghost: an answer came when other chains were chosen
    turns
tokensVars == <<form, cached, status, failed, recent, throttled, fetches, selecting, adding, misfiled, dropped, turns>>

Addresses == Listed \cup Rare
Token == [chain : Chains, address : Addresses]
Nothing == [none |-> TRUE]       \* an update without a token to select
Key(f) == <<f.fromChain, f.toChain>>
InList(list, address) == {t \in list : t.address = address}
ListOf(chain) == [chain : {chain}, address : Listed]

Turn == turns < Turns /\ turns' = turns + 1

\* The list is there; a token that was asked for is selected, and the quote is awaited
ShowList(f, tokens, select) ==
    LET found == InList(tokens, select) IN
    /\ form' = [f EXCEPT !.list = tokens,
                         !.to = IF f.to = None /\ found # {} THEN CHOOSE t \in found : TRUE ELSE @]
    /\ IF f.to = None /\ found # {}
       THEN selecting' = selecting + 1 /\ status' = "LOADING"
       ELSE status' = "INITIAL" /\ UNCHANGED selecting
Fresh(f) == cached[Key(f)] # None /\ ~cached[Key(f)].old /\ cached[Key(f)].tokens # {}
\* updateToTokenList once it is let through, up to the answer: the list and the selection are reset
FetchList(f, select) ==
    LET emptied == [f EXCEPT !.list = {}, !.to = None] IN
    /\ recent' = TRUE /\ failed' = FALSE
    /\ IF Fresh(f)
       THEN ShowList(emptied, cached[Key(f)].tokens, select) /\ UNCHANGED fetches
       ELSE /\ form' = emptied /\ status' = "LOADING" /\ UNCHANGED selecting
            /\ fetches' = fetches \cup {[n |-> turns, key |-> Key(f), select |-> select,
                  before |-> IF cached[Key(f)] = None THEN {} ELSE cached[Key(f)].tokens]}
UpdateToTokenList(f, select) ==
    IF recent
    THEN throttled' = select /\ form' = f /\ UNCHANGED <<status, failed, recent, fetches, selecting>>
    ELSE FetchList(f, select) /\ UNCHANGED throttled
Keep(f) == form' = f /\ UNCHANGED <<status, failed, recent, throttled, fetches, selecting>>

ThrottlePasses ==
    /\ recent
    /\ IF throttled = None
       THEN recent' = FALSE /\ UNCHANGED <<form, status, failed, throttled, fetches, selecting>>
       ELSE throttled' = None /\ FetchList(form, throttled)
    /\ UNCHANGED <<cached, adding, misfiled, dropped, turns>>
\* The list goes to the cache of the chains that are chosen now, and is shown if they are the same
ListArrives(c) ==
    /\ c \in fetches /\ fetches' = fetches \ {c}
    /\ cached' = [cached EXCEPT ![Key(form)] = [tokens |-> ListOf(c.key[2]), old |-> FALSE]]
    /\ IF c.key = Key(form) THEN ShowList(form, ListOf(c.key[2]), c.select)
       ELSE UNCHANGED <<form, status, selecting>>
    /\ misfiled' = (misfiled \/ c.key # Key(form)) /\ dropped' = (dropped \/ c.key # Key(form))
    /\ UNCHANGED <<failed, recent, throttled, adding, turns>>
ListFails(c) ==
    /\ c \in fetches /\ fetches' = fetches \ {c}
    /\ failed' = (failed \/ c.before = {})
    /\ IF c.key = Key(form) THEN ShowList(form, c.before, c.select)
       ELSE UNCHANGED <<form, status, selecting>>
    /\ dropped' = (dropped \/ c.key # Key(form))
    /\ UNCHANGED <<cached, recent, throttled, adding, misfiled, turns>>
QuoteEnds ==
    /\ selecting > 0 /\ selecting' = selecting - 1 /\ status' = "INITIAL"
    /\ UNCHANGED <<form, cached, failed, recent, throttled, fetches, adding, misfiled, dropped, turns>>
SomeHoursPass ==
    /\ \E k \in Chains \X Chains : cached[k] # None /\ ~cached[k].old
    /\ cached' = [k \in Chains \X Chains |-> IF cached[k] = None THEN None ELSE [cached[k] EXCEPT !.old = TRUE]]
    /\ UNCHANGED <<form, status, failed, recent, throttled, fetches, selecting, adding, misfiled, dropped, turns>>

-----------------------------------------------------------------------------
(* The form.  Without a token to get, the receiving chain follows the      *)
(* paying one; with one it stays, and so does the list.                    *)

SelectFrom(token) ==
    /\ Turn /\ UNCHANGED <<cached, adding, misfiled, dropped>>
    /\ LET f == [form EXCEPT !.from = token]
           moved == (IF form.from = None THEN None ELSE form.from.chain)
                    # (IF token = None THEN None ELSE token.chain)
       IN IF token = None \/ ~moved THEN Keep(f)
          ELSE IF form.to # None THEN Keep([f EXCEPT !.fromChain = token.chain])
          ELSE UpdateToTokenList([f EXCEPT !.fromChain = token.chain, !.toChain = token.chain], Nothing)
\* The paying token that a new portfolio selects.  Not when the user switched it away
UpdatePortfolioTokenList(token) ==
    /\ form.from = None => form.to = None
    /\ token \in {form.from, None} \cup {t \in Token : form.to = None \/ t.address # form.to.address}
    /\ SelectFrom(token)
SelectToChain(chain) ==
    /\ Turn /\ chain # form.toChain /\ UNCHANGED <<cached, adding, misfiled, dropped>>
    /\ UpdateToTokenList([form EXCEPT !.toChain = chain], Nothing)
SelectTo(address) ==
    /\ Turn /\ InList(form.list, address) # {} /\ UNCHANGED <<cached, adding, misfiled, dropped>>
    /\ Keep([form EXCEPT !.to = CHOOSE t \in InList(form.list, address) : TRUE])
\* The token that was paid with is selected from the list of its chain
SwitchFromAndToTokens ==
    /\ Turn /\ UNCHANGED <<cached, adding, misfiled, dropped>>
    /\ LET paid == IF form.from = None THEN Nothing ELSE form.from.address
           got == IF form.to = None THEN None ELSE [form.to EXCEPT !.chain = form.toChain]
       IN UpdateToTokenList([form EXCEPT !.from = got, !.fromChain = form.toChain, !.toChain = form.fromChain,
                !.to = IF form.to = None /\ InList(form.list, paid) # {}
                       THEN CHOOSE t \in InList(form.list, paid) : TRUE ELSE form.to], paid)
\* The form goes on when it was submitted; the screen resets it when it is closed
ResetForm == Turn /\ Keep([form EXCEPT !.to = None]) /\ UNCHANGED <<cached, adding, misfiled, dropped>>
Reset ==
    /\ Turn /\ UNCHANGED <<cached, adding, misfiled, dropped>>
    /\ \E home \in Chains :
        /\ form' = [form EXCEPT !.from = None, !.fromChain = home, !.toChain = home, !.to = None, !.list = {}]
    /\ failed' = FALSE /\ UNCHANGED <<status, recent, throttled, fetches, selecting>>

-----------------------------------------------------------------------------
(* A token by its address *)

AddToTokenByAddress(address) ==
    /\ Turn /\ adding = None /\ InList(form.list, address) = {}
    /\ adding' = [chain |-> form.toChain, address |-> address]
    /\ UNCHANGED <<form, cached, status, failed, recent, throttled, fetches, selecting, misfiled, dropped>>
\* It joins the list that is there now, and that list in the cache
TokenArrives ==
    /\ adding # None /\ adding' = None
    /\ form' = [form EXCEPT !.list = form.list \cup {adding}]
    /\ LET kept == cached[Key(form)] IN
       cached' = [cached EXCEPT ![Key(form)] =
                     IF kept = None THEN None ELSE [kept EXCEPT !.tokens = kept.tokens \cup {adding}]]
    /\ misfiled' = (misfiled \/ adding.chain # form.toChain)
    /\ UNCHANGED <<status, failed, recent, throttled, fetches, selecting, dropped, turns>>
TokenFails ==
    /\ adding # None /\ adding' = None
    /\ UNCHANGED <<form, cached, status, failed, recent, throttled, fetches, selecting, misfiled, dropped, turns>>

Init ==
    /\ \E home \in Chains : form = [from |-> None, fromChain |-> home, toChain |-> home, to |-> None, list |-> {}]
    /\ cached = [k \in Chains \X Chains |-> None]
    /\ status = "INITIAL" /\ failed = FALSE /\ recent = FALSE /\ throttled = None
    /\ fetches = {} /\ selecting = 0 /\ adding = None
    /\ misfiled = FALSE /\ dropped = FALSE /\ turns = 0
Next ==
    \/ ThrottlePasses \/ QuoteEnds \/ SomeHoursPass \/ SwitchFromAndToTokens \/ ResetForm \/ Reset
    \/ \E c \in fetches : ListArrives(c) \/ ListFails(c)
    \/ \E token \in Token \cup {None} : SelectFrom(token) \/ UpdatePortfolioTokenList(token)
    \/ \E chain \in Chains : SelectToChain(chain)
    \/ \E address \in Addresses : SelectTo(address) \/ AddToTokenByAddress(address)
    \/ TokenArrives \/ TokenFails
Spec == Init /\ [][Next]_tokensVars
-----------------------------------------------------------------------------
\* Type correctness.
TypeOK ==
    /\ {form.from, form.to} \subseteq Token \cup {None} /\ form.list \subseteq Token
    /\ {form.fromChain, form.toChain} \subseteq Chains
    /\ \A k \in DOMAIN cached : cached[k] # None => cached[k] \in [tokens : SUBSET Token, old : BOOLEAN]
    /\ status \in {"INITIAL", "LOADING"} /\ failed \in BOOLEAN /\ recent \in BOOLEAN
    /\ throttled \in Addresses \cup {None, Nothing} /\ adding \in Token \cup {None}
    /\ fetches \subseteq [n : 0..Turns, key : Chains \X Chains, select : Addresses \cup {Nothing},
                          before : SUBSET Token]
    /\ selecting \in 0..Turns /\ misfiled \in BOOLEAN /\ dropped \in BOOLEAN /\ turns \in 0..Turns

\* The list that is offered, the token that is selected and what is kept for later are of the
\* chain that the user wants to get, but for the 500 ms in which an update is held back; and the
\* list is not shown as loading while nothing is awaited.  Excepted are behaviours in which an
\* answer arrives after the chains were changed: it is kept for the new ones, and if these needed
\* no list of their own nothing ends the status (swapAndBridge.ts:936-1120).
FetchingIsCurrent ==
    /\ ~misfiled =>
        /\ \A k \in DOMAIN cached : cached[k] # None => \A t \in cached[k].tokens : t.chain = k[2]
        /\ throttled = None => \A t \in form.list \cup ({form.to} \ {None}) : t.chain = form.toChain
    /\ status = "LOADING" /\ ~dropped => fetches # {} \/ selecting > 0
=============================================================================
