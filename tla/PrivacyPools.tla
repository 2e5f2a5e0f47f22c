---------------------------- MODULE PrivacyPools ----------------------------
(***************************************************************************)
(* PrivacyPoolsController: the quote of a relayed withdrawal, and the      *)
(* withdrawals that were given to the relayer.  A form is a model value    *)
(* for its amount, token and recipient, None when it is not valid to fetch *)
(* a quote.  Withdrawals are numbered; shown is the one on the tracking    *)
(* page.  Left out: deposits, which SignAccountOpController signs, the     *)
(* proofs, and the keys, which are derived in one step.                    *)
(***************************************************************************)
EXTENDS Integers

CONSTANTS
    Forms, Owners,
    Withdrawals,  \* bound: withdrawals submitted in one behaviour
    Steps,        \* bound: calls of the user in one behaviour
    None

VARIABLES
    owner,          \* the selected account
    withdrawal,     \* the form
    relayerQuote,   \* [of], of is the form that it was asked for
    updateQuoteId, drawn, updateQuoteStatus,
    fetches,        \* updateQuote in progress: [id, quote], quote is None until it is asked for
    refetching,     \* there is a refetch loop that is not aborted
    shown,          \* latestBroadcastedAccountOp: [w, status]
    submitted,      \* how many withdrawals there are
    submits,        \* directBroadcastWithdrawal in progress: [w, by], by is None until the relayer answers
    pollOf,         \* the withdrawal whose poll is not aborted
    polls,          \* the poll loops: [w, at]
    saved,          \* what Activity holds: [by, status]
    mined,          \* what the network says
    steps
vars == <<owner, withdrawal, relayerQuote, updateQuoteId, drawn, updateQuoteStatus, fetches, refetching,
          shown, submitted, submits, pollOf, polls, saved, mined, steps>>
quoting == <<relayerQuote, updateQuoteId, drawn, updateQuoteStatus, fetches, refetching>>
tracking == <<shown, submitted, submits, pollOf, polls, saved, mined>>

\* -- The quote -------------------------------------------------------------

\* updateQuote, up to the answer with the details of the relayer; f is the form it looks at
UpdateQuote(f) ==
    IF f = None
    THEN /\ relayerQuote' = None /\ UNCHANGED <<updateQuoteId, drawn, fetches>>
         /\ IF relayerQuote = None THEN UNCHANGED <<updateQuoteStatus, refetching>>
            ELSE updateQuoteStatus' = "INITIAL" /\ refetching' = FALSE
    ELSE /\ drawn' = drawn + 1 /\ updateQuoteId' = drawn + 1 /\ updateQuoteStatus' = "LOADING"
         /\ fetches' = fetches \cup {[id |-> drawn + 1, quote |-> None]}
         /\ UNCHANGED <<relayerQuote, refetching>>
QuoteDropped(c) ==
    /\ c \in fetches /\ c.id # updateQuoteId /\ fetches' = fetches \ {c}
    /\ UNCHANGED <<relayerQuote, updateQuoteId, drawn, updateQuoteStatus, refetching>>
\* The amount is read when the details are there.
AskQuote(c) ==
    /\ c \in fetches /\ c.quote = None /\ c.id = updateQuoteId
    /\ fetches' = (fetches \ {c}) \cup {[c EXCEPT !.quote = [of |-> withdrawal]]}
    /\ UNCHANGED <<relayerQuote, updateQuoteId, drawn, updateQuoteStatus, refetching>>
\* startQuoteRefetch replaces the loop, if the form is valid
QuoteArrives(c) ==
    /\ c \in fetches /\ c.quote # None /\ c.id = updateQuoteId /\ fetches' = fetches \ {c}
    /\ relayerQuote' = c.quote /\ refetching' = (withdrawal # None) /\ updateQuoteStatus' = "INITIAL"
    /\ UNCHANGED <<updateQuoteId, drawn>>
QuoteFails(c) ==
    /\ c \in fetches /\ c.id = updateQuoteId /\ fetches' = fetches \ {c} /\ updateQuoteStatus' = "INITIAL"
    /\ UNCHANGED <<relayerQuote, updateQuoteId, drawn, refetching>>
\* 18 seconds later; a bound: a behaviour has no refetch after its last step
Refetch ==
    /\ refetching /\ withdrawal # None /\ updateQuoteStatus # "LOADING" /\ steps > 0
    /\ steps' = steps - 1 /\ UpdateQuote(withdrawal)
    /\ UNCHANGED <<owner, withdrawal, tracking>>

\* -- A withdrawal ----------------------------------------------------------

\* The tracking page shows it before the relayer has it.
DirectBroadcastWithdrawal ==
    /\ steps > 0 /\ steps' = steps - 1 /\ submitted < Withdrawals /\ submitted' = submitted + 1
    /\ shown' = [w |-> submitted + 1, status |-> "Sent"]
    /\ submits' = submits \cup {[w |-> submitted + 1, by |-> None]}
    /\ UNCHANGED <<owner, withdrawal, quoting, pollOf, polls, saved, mined>>
Show(status) == shown' = IF shown = None THEN None ELSE [shown EXCEPT !.status = status]
RelayerRefuses(b) ==
    /\ b \in submits /\ b.by = None /\ submits' = submits \ {b} /\ Show("Failure")
    /\ UNCHANGED <<owner, withdrawal, quoting, submitted, pollOf, polls, saved, mined, steps>>
\* The account and the amount are read now: parseUnits throws on a form that was cleared meanwhile.
RelayerAccepts(b) ==
    /\ b \in submits /\ b.by = None
    /\ \/ submits' = (submits \ {b}) \cup {[b EXCEPT !.by = owner]}
       \/ withdrawal = None /\ submits' = submits \ {b}
    /\ UNCHANGED <<owner, withdrawal, quoting, shown, submitted, pollOf, polls, saved, mined, steps>>
\* cleanupAfterBroadcast
Cleanup ==
    /\ withdrawal' = None /\ relayerQuote' = None /\ updateQuoteStatus' = "INITIAL" /\ updateQuoteId' = 0
    /\ refetching' = FALSE /\ UNCHANGED <<drawn, fetches>>
WithdrawalSaved(b) ==
    /\ b \in submits /\ b.by # None /\ submits' = submits \ {b}
    /\ saved' = [saved EXCEPT ![b.w] = [by |-> b.by, status |-> "Sent"]]
    /\ shown' = [w |-> b.w, status |-> "Sent"]
    /\ Cleanup /\ pollOf' = b.w /\ polls' = polls \cup {[w |-> b.w, at |-> "waiting"]}
    /\ UNCHANGED <<owner, submitted, mined, steps>>

\* -- Its poll ---------------------------------------------------------------

PollStep == UNCHANGED <<owner, withdrawal, quoting, submitted, submits, mined, steps>>
PollEnds(p) ==
    /\ p \in polls /\ p.at = "waiting" /\ pollOf # p.w /\ polls' = polls \ {p}
    /\ UNCHANGED <<shown, pollOf, saved>> /\ PollStep
AskReceipt(p) ==
    /\ p \in polls /\ p.at = "waiting" /\ pollOf = p.w
    /\ polls' = (polls \ {p}) \cup {[p EXCEPT !.at = "asking"]}
    /\ UNCHANGED <<shown, pollOf, saved>> /\ PollStep
NoReceipt(p) ==
    /\ p \in polls /\ p.at = "asking" /\ polls' = (polls \ {p}) \cup {[p EXCEPT !.at = "waiting"]}
    /\ UNCHANGED <<shown, pollOf, saved>> /\ PollStep
\* Mistake: the withdrawal on the page is the one that the receipt is for
SettleShown(p, status) ==
    /\ polls' = (polls \ {p}) \cup {[p EXCEPT !.at = "stopping"]} /\ Show(status)
    /\ saved' = [w \in DOMAIN saved |->
                   IF shown # None /\ shown.w = w /\ saved[w] # None /\ saved[w].by = owner
                   THEN [saved[w] EXCEPT !.status = status] ELSE saved[w]]
\* Only while something is shown, and under the account that is selected now; with the await in
\* updateAccountOpStatus before the poll is stopped.
Settle(p, status) ==
    /\ polls' = (polls \ {p}) \cup {[p EXCEPT !.at = "stopping"]} /\ Show(status)
    /\ saved' = IF shown = None \/ saved[p.w].by # owner THEN saved
                ELSE [saved EXCEPT ![p.w].status = status]
\* a receipt, also for a poll that was aborted while it waited for it
ReceiptArrives(p) ==
    /\ p \in polls /\ p.at = "asking" /\ mined[p.w] # None /\ Settle(p, mined[p.w])
    /\ UNCHANGED pollOf /\ PollStep
\* after 15 minutes
PollTimesOut(p) ==
    /\ p \in polls /\ p.at = "waiting" /\ pollOf = p.w /\ Settle(p, "BroadcastButStuck")
    /\ UNCHANGED pollOf /\ PollStep
\* stopTransactionPolling aborts whichever poll there is
PollStops(p) ==
    /\ p \in polls /\ p.at = "stopping" /\ polls' = polls \ {p} /\ pollOf' = 0
    /\ UNCHANGED <<shown, saved>> /\ PollStep
Mine(w, status) ==
    /\ mined[w] = None /\ saved[w] # None /\ mined' = [mined EXCEPT ![w] = status]
    /\ UNCHANGED <<owner, withdrawal, quoting, shown, submitted, submits, pollOf, polls, saved, steps>>

\* -- The user ---------------------------------------------------------------

Update(f) ==
    /\ steps > 0 /\ steps' = steps - 1 /\ withdrawal' = f /\ UpdateQuote(f)
    /\ UNCHANGED <<owner, tracking>>
\* resetForm, and destroySignAccountOp, which stops the refetch
ResetForm ==
    /\ withdrawal' = None /\ relayerQuote' = None /\ updateQuoteStatus' = "INITIAL" /\ updateQuoteId' = 0
    /\ refetching' = FALSE /\ UNCHANGED <<owner, drawn, fetches>>
DestroySignAccountOp ==
    /\ steps > 0 /\ steps' = steps - 1 /\ refetching /\ refetching' = FALSE
    /\ UNCHANGED <<owner, withdrawal, relayerQuote, updateQuoteId, drawn, updateQuoteStatus, fetches>>
    /\ UNCHANGED tracking
UnloadScreen(forced) ==
    /\ steps > 0 /\ steps' = steps - 1 /\ (forced \/ withdrawal = None)
    /\ ResetForm /\ shown' = None /\ UNCHANGED <<submitted, submits, pollOf, polls, saved, mined>>
SelectAccount(a) ==
    /\ steps > 0 /\ steps' = steps - 1 /\ owner' = a /\ UNCHANGED <<withdrawal, quoting, tracking>>

Init ==
    /\ owner \in Owners /\ withdrawal = None /\ relayerQuote = None /\ updateQuoteId = 0 /\ drawn = 0
    /\ updateQuoteStatus = "INITIAL" /\ fetches = {} /\ refetching = FALSE /\ shown = None
    /\ submitted = 0 /\ submits = {} /\ pollOf = 0 /\ polls = {} /\ steps = Steps
    /\ saved = [w \in 1..Withdrawals |-> None] /\ mined = [w \in 1..Withdrawals |-> None]
Next ==
    \/ \E f \in Forms \cup {None} : Update(f)
    \/ DirectBroadcastWithdrawal \/ DestroySignAccountOp \/ \E b \in BOOLEAN : UnloadScreen(b)
    \/ \E a \in Owners : SelectAccount(a)
    \/ Refetch
    \/ \E c \in fetches :
          /\ QuoteDropped(c) \/ AskQuote(c) \/ QuoteArrives(c) \/ QuoteFails(c)
          /\ UNCHANGED <<owner, withdrawal, tracking, steps>>
    \/ \E b \in submits : RelayerRefuses(b) \/ RelayerAccepts(b) \/ WithdrawalSaved(b)
    \/ \E p \in polls :
          PollEnds(p) \/ AskReceipt(p) \/ NoReceipt(p) \/ ReceiptArrives(p) \/ PollTimesOut(p) \/ PollStops(p)
    \/ \E w \in 1..Withdrawals, s \in {"Success", "Failure"} : Mine(w, s)

Spec == Init /\ [][Next]_vars
-----------------------------------------------------------------------------
TypeOK ==
    /\ owner \in Owners /\ withdrawal \in Forms \cup {None} /\ updateQuoteId \in 0..drawn
    /\ \A c \in fetches : c.id \in 1..drawn
    /\ pollOf \in 0..submitted /\ \A p \in polls : p.w \in 1..submitted /\ saved[p.w] # None

\* Quotes are fetched as long as the form says so: the call that holds the current id is in
\* progress, whatever was debounced, overtaken, made invalid or reset before
\* (privacyPools.ts:620-705).
FetchingIsCurrent == updateQuoteStatus = "LOADING" => \E c \in fetches : c.id = updateQuoteId

\* What the history says of a withdrawal is what the network says of it, or that it took too long,
\* whichever withdrawal is shown and whichever poll was aborted or still waits for a receipt
\* (privacyPools.ts:1206-1295).
SavedStatusIsMined ==
    \A w \in 1..Withdrawals :
       saved[w] # None => saved[w].status \in {"Sent", "BroadcastButStuck", mined[w]}
=============================================================================
