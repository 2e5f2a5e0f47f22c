----------------------------- MODULE TokenHints -----------------------------
(***************************************************************************)
(* Which tokens PortfolioController asks for on one network of the         *)
(* selected account: those the discovery service names, those it learned   *)
(* from transactions, custom ones and, to mark them, hidden ones.  Each    *)
(* update takes its hints when its turn in the queue comes.  That updates  *)
(* may be skipped or given up is in Portfolio.  A contract that is no      *)
(* token has no balance and is never learned.                              *)
(***************************************************************************)
EXTENDS Integers, Sequences, FiniteSets

CONSTANTS
    Tokens,
    Starts,             \* what the account may own at first
    Limit,              \* LEARNED_TOKENS_NETWORK_LIMIT
    Changes, Restarts,  \* bounds: what the user, a trace or a transfer changes
    None

VARIABLES
    owned,        \* tokens that the account has some of
    toBeLearned,  \* #toBeLearnedTokens
    learned,      \* learnedTokens: the update that last found a balance, 0 before the first, or None
    custom, hidden,               \* customTokens, tokenPreferences
    saved,        \* the same in the storage
    toggles,      \* changes of preferences whose update is queued: what they store in the end
    queued,       \* updates that wait for their turn
    update,       \* the update in progress
    shown,        \* the tokens of the last result, which are marked as hidden or custom, criticalError
    known,        \* ghost: tokens that were learned, stored and not pushed out since
    clock, changes, restarts
hintsVars == <<owned, toBeLearned, learned, custom, hidden, saved, toggles, queued, update, shown, known,
               clock, changes, restarts>>
prefs == <<custom, hidden>>

NoUpdate == [stage |-> "none", asked |-> {}, special |-> [t \in Tokens |-> None]]
Nothing == [tokens |-> {}, hidden |-> {}, custom |-> {}, failed |-> FALSE]
Change == changes < Changes /\ changes' = changes + 1
Learned == {t \in Tokens : learned[t] # None}

\* A hidden token among the custom ones or those to learn is "hidden-custom"
SpecialHints == [t \in Tokens |->
    IF t \in hidden THEN IF t \in custom \cup toBeLearned THEN "hidden-custom" ELSE "hidden"
    ELSE IF t \in custom THEN "custom" ELSE IF t \in toBeLearned THEN "learn" ELSE None]

-----------------------------------------------------------------------------
(* What the user and transactions tell *)

AddTokensToBeLearned(t) ==
    /\ Change /\ t \notin toBeLearned /\ toBeLearned' = toBeLearned \cup {t}
    /\ UNCHANGED <<owned, learned, prefs, saved, toggles, queued, update, shown, known, clock, restarts>>
Transferred(t) ==
    /\ Change /\ owned' = (owned \ {t}) \cup ({t} \ owned)
    /\ UNCHANGED <<toBeLearned, learned, prefs, saved, toggles, queued, update, shown, known, clock, restarts>>
\* The change is stored once the update that it asks for is done
Toggled(what) == queued' = queued + 1 /\ toggles' = toggles \cup {[n |-> changes, of |-> what, after |-> queued + 1]}
AddCustomToken(t) ==
    /\ Change /\ t \notin custom /\ custom' = custom \cup {t} /\ Toggled(<<"custom">>)
    /\ UNCHANGED <<owned, toBeLearned, learned, hidden, saved, update, shown, known, clock, restarts>>
\* The preference goes with it
RemoveCustomToken(t) ==
    /\ Change /\ custom' = custom \ {t} /\ hidden' = hidden \ {t}
    /\ Toggled(IF t \in hidden THEN <<"hidden", "custom">> ELSE <<"custom">>)
    /\ UNCHANGED <<owned, toBeLearned, learned, saved, update, shown, known, clock, restarts>>
ToggleHideToken(t) ==
    /\ Change /\ hidden' = (hidden \ {t}) \cup ({t} \ hidden) /\ Toggled(<<"hidden">>)
    /\ UNCHANGED <<owned, toBeLearned, learned, custom, saved, update, shown, known, clock, restarts>>
UpdateSelectedAccount ==
    /\ Change /\ queued' = queued + 1
    /\ UNCHANGED <<owned, toBeLearned, learned, prefs, saved, toggles, update, shown, known, clock, restarts>>

-----------------------------------------------------------------------------
(* An update *)

StartUpdate ==
    /\ queued > 0 /\ update.stage = "none"
    /\ update' = [stage |-> "asking", asked |-> Learned \cup {t \in Tokens : SpecialHints[t] # None},
                  special |-> SpecialHints]
    /\ UNCHANGED <<owned, toBeLearned, learned, prefs, saved, toggles, queued, shown, known, clock, changes, restarts>>

\* Whoever waits for the update goes on with storing what is there then
EndUpdate ==
    /\ queued' = queued - 1 /\ update' = NoUpdate
    /\ toggles' = {[g EXCEPT !.after = @ - 1] : g \in toggles}
UpdateFails ==
    /\ update.stage = "asking" /\ EndUpdate /\ shown' = [shown EXCEPT !.failed = TRUE]
    /\ UNCHANGED <<owned, toBeLearned, learned, prefs, saved, known, clock, changes, restarts>>

\* learnTokens: when there are too many, those whose balance was found longest ago go first, and
\* one that was just learned has no such time
Learn(new) ==
    LET all == [t \in Tokens |-> IF t \in new THEN 0 ELSE learned[t]]
        have == Learned \cup new
    IN \E kept \in IF Cardinality(have) > Limit THEN {s \in SUBSET have : Cardinality(s) = Limit} ELSE {have} :
        /\ \A t \in kept, d \in have \ kept : all[t] >= all[d]
        /\ learned' = [t \in Tokens |-> IF t \in kept THEN all[t] ELSE None]
        /\ known' = known \cap kept

\* The result.  While a transaction was simulated for the first time nothing is learned, and what a
\* static answer of the service names is
Result(found, static, simulated) ==
    /\ update.stage = "asking"
    /\ LET asked == update.asked \cup found
           keep == {t \in asked : t \in owned \/ update.special[t] # None}
           toLearn == {t \in owned \cap asked : update.special[t] = "learn" \/ (static /\ update.special[t] = None)}
                      \ Learned
       IN /\ shown' = [tokens |-> keep,
                       hidden |-> {t \in keep : update.special[t] \in {"hidden", "hidden-custom"}},
                       custom |-> {t \in keep : update.special[t] \in {"custom", "hidden-custom"}},
                       failed |-> FALSE]
          /\ IF simulated
             THEN EndUpdate /\ UNCHANGED <<toBeLearned, learned, known>>
             ELSE /\ Learn(toLearn) /\ toBeLearned' = toBeLearned \ toLearn
                  /\ update' = [update EXCEPT !.stage = "learning", !.asked = found]
                  /\ UNCHANGED <<queued, toggles>>
    /\ UNCHANGED <<owned, prefs, saved, clock, changes, restarts>>
\* The learned ones are stored, and those that only learning found get the time (getUpdatedHints)
StampLearned ==
    /\ update.stage = "learning" /\ clock' = clock + 1
    /\ LET stamped == {t \in Learned \cap shown.tokens \cap owned : t \notin update.asked \cup custom \cup hidden}
       IN learned' = [t \in Tokens |-> IF t \in stamped THEN clock + 1 ELSE learned[t]]
    /\ saved' = [saved EXCEPT !.learned = learned] /\ known' = Learned
    /\ update' = [update EXCEPT !.stage = "saving"]
    /\ UNCHANGED <<owned, toBeLearned, prefs, toggles, queued, shown, changes, restarts>>
\* The discovery service gave no answer of its own
HintsNotAnswered ==
    /\ update.stage = "learning" /\ EndUpdate
    /\ saved' = [saved EXCEPT !.learned = learned] /\ known' = Learned
    /\ UNCHANGED <<owned, toBeLearned, learned, prefs, shown, clock, changes, restarts>>
HintsSaved ==
    /\ update.stage = "saving" /\ EndUpdate
    /\ saved' = [saved EXCEPT !.learned = learned]
    /\ UNCHANGED <<owned, toBeLearned, learned, prefs, shown, known, clock, changes, restarts>>
ToggleSaved(g) ==
    /\ g \in toggles /\ g.after <= 0
    /\ toggles' = (toggles \ {g}) \cup (IF Len(g.of) > 1 THEN {[g EXCEPT !.of = Tail(@)]} ELSE {})
    /\ saved' = IF Head(g.of) = "custom" THEN [saved EXCEPT !.custom = custom] ELSE [saved EXCEPT !.hidden = hidden]
    /\ UNCHANGED <<owned, toBeLearned, learned, prefs, queued, update, shown, known, clock, changes, restarts>>

Restart ==
    /\ restarts < Restarts /\ restarts' = restarts + 1
    /\ learned' = saved.learned /\ custom' = saved.custom /\ hidden' = saved.hidden
    /\ toBeLearned' = {} /\ toggles' = {} /\ queued' = 1 /\ update' = NoUpdate /\ shown' = Nothing
    /\ UNCHANGED <<owned, saved, known, clock, changes>>

Init ==
    /\ owned \in Starts /\ toBeLearned = {} /\ learned = [t \in Tokens |-> None]
    /\ custom = {} /\ hidden = {} /\ saved = [learned |-> learned, custom |-> {}, hidden |-> {}]
    /\ toggles = {} /\ queued = 1 /\ update = NoUpdate /\ shown = Nothing /\ known = {}
    /\ clock = 0 /\ changes = 0 /\ restarts = 0
Next ==
    \/ \E t \in Tokens : \/ AddTokensToBeLearned(t) \/ Transferred(t) \/ AddCustomToken(t)
                         \/ RemoveCustomToken(t) \/ ToggleHideToken(t)
    \/ UpdateSelectedAccount \/ StartUpdate \/ UpdateFails \/ StampLearned \/ HintsNotAnswered \/ HintsSaved \/ Restart
    \/ \E found \in SUBSET owned, static, simulated \in BOOLEAN : Result(found, static, simulated)
    \/ \E g \in toggles : ToggleSaved(g)
Spec == Init /\ [][Next]_hintsVars
-----------------------------------------------------------------------------
\* Type correctness.
TypeOK ==
    /\ {owned, toBeLearned, custom, hidden, known, update.asked} \subseteq SUBSET Tokens
    /\ \A list \in {learned, saved.learned} : \A t \in Tokens : list[t] # None => list[t] \in 0..clock
    /\ shown \in [tokens : SUBSET Tokens, hidden : SUBSET Tokens, custom : SUBSET Tokens, failed : BOOLEAN]
    /\ update.stage \in {"none", "asking", "learning", "saving"} /\ queued \in 0..Changes + 1
    /\ changes \in 0..Changes /\ restarts \in 0..Restarts

\* The learned tokens never outgrow the limit, and what was learned is asked for by every later
\* update, also after a restart, unless the limit pushed it out.  Once no change is being stored,
\* the preferences are what is stored; once no update is queued either, every hidden or custom
\* token is shown and marked as such, and no mark that the user took back is shown, unless the last
\* update failed (portfolio.ts:201-312, 769-890, 919-1000, helpers.ts:209-357).
QuietHintsAreUsed ==
    /\ Cardinality(Learned) <= Limit /\ known \subseteq Learned
    /\ toggles = {} => saved.custom = custom /\ saved.hidden = hidden
    /\ queued = 0 /\ ~shown.failed => shown.hidden = hidden
                                 /\ custom \subseteq shown.custom /\ shown.custom \subseteq custom \cup hidden
=============================================================================
