---------------------------- MODULE KeystoreSeeds ----------------------------
(***************************************************************************)
(* The recovery phrases of KeystoreController: the temporary one, which a  *)
(* screen is still working with, and the stored ones.  The main key is     *)
(* that of Keystore; here it is only there or not.                         *)
(***************************************************************************)
EXTENDS Integers, Sequences, FiniteSets

CONSTANTS
    Phrases,
    Passphrases,
    Null, Undefined,  \* how callers say that a phrase has no passphrase
    Paths,            \* derivation paths
    Adds, Turns, Restarts,  \* bounds: seeds that are pushed, calls of a screen
    None

VARIABLES
    unlocked,  \* the main key is in memory
    tempSeed,  \* #tempSeed
    seeds,     \* #keystoreSeeds, whose ids are given in the order of the list
    saved,     \* 'keystoreSeeds' in the storage
    writes,    \* the queue of the storage
    calls,     \* the call of each method that is in flight
    asked,     \* ghost: seeds that a call has stored, or found stored, and no one has deleted
    wanted,    \* ghost: the temporary seed that was last set and not given up
    overtaken, \* ghost: a temporary seed was set while another one was stored
    adds, turns, restarts
seedsVars == <<unlocked, tempSeed, seeds, saved, writes, calls, asked, wanted, overtaken, adds, turns, restarts>>

Methods == {"addSeed", "updateSeed", "deleteSeed", "persistTempSeed"}
Given == [phrase : Phrases, pass : Passphrases \cup {Null, Undefined}, path : Paths]
Idle == [stage |-> "idle", seed |-> None, id |-> 0, label |-> 0, path |-> None]
\* Labels are numbered; 0 is one of the user's own
Named == 0

NoPassphrase(pass) == pass \in {Null, Undefined}
Kept(pass) == IF NoPassphrase(pass) THEN Null ELSE pass
SeedOf(entry) == <<entry.phrase, Kept(entry.pass)>>

\* An encrypted passphrase is compared with a plain one: only null is found again
Same(entry, given) == entry.phrase = given.phrase /\ entry.pass = Null /\ given.pass = Null
Exists(given) == \E entry \in seeds : Same(entry, given)

-----------------------------------------------------------------------------
(* The storage: a list that is pushed to in place is written as it is when *)
(* its turn comes, one that was replaced as it was.                        *)

Queued(list, by) == [list |-> list, live |-> TRUE, by |-> by]
Held(i) == IF writes[i].live THEN seeds ELSE writes[i].list
Detached == [i \in DOMAIN writes |-> [list |-> Held(i), live |-> FALSE, by |-> writes[i].by]]
\* The entries are shared by all lists and changed in place
Relabel(list, id, label, path) ==
    {IF entry.id = id THEN [entry EXCEPT !.label = label, !.path = path] ELSE entry : entry \in list}

Turn == turns < Turns /\ turns' = turns + 1
Goto(m, stage) == calls' = [calls EXCEPT ![m].stage = stage]
\* The seed is pushed, or it is there and nothing is stored
PushSeed(m, given) ==
    IF Exists(given)
    THEN /\ asked' = IF writes = <<>> THEN asked \cup {SeedOf(given)} ELSE asked
         /\ UNCHANGED <<seeds, writes, adds>>
    ELSE /\ adds < Adds /\ adds' = adds + 1
         /\ seeds' = seeds \cup {[id |-> adds + 1, phrase |-> given.phrase, pass |-> Kept(given.pass),
                               label |-> Cardinality(seeds) + 1, path |-> given.path]}
         /\ writes' = Append(writes, Queued({}, m))
         /\ UNCHANGED asked

-----------------------------------------------------------------------------
(* The temporary seed *)

AddTempSeed(given) ==
    /\ Turn /\ tempSeed' = given /\ wanted' = given
    /\ overtaken' = (overtaken \/ calls["persistTempSeed"].stage # "idle")
    /\ UNCHANGED <<unlocked, seeds, saved, writes, calls, asked, adds, restarts>>
DeleteTempSeed ==
    /\ tempSeed # None /\ tempSeed' = None /\ wanted' = None
    /\ UNCHANGED <<unlocked, seeds, saved, writes, calls, asked, overtaken, adds, turns, restarts>>
ChangeTempSeedHdPath(path) ==
    /\ Turn /\ unlocked /\ tempSeed # None /\ tempSeed.path # path
    /\ tempSeed' = [tempSeed EXCEPT !.path = path]
    /\ wanted' = [wanted EXCEPT !.path = path]
    /\ UNCHANGED <<unlocked, seeds, saved, writes, calls, asked, overtaken, adds, restarts>>

\* The seed that the picker derives from is looked up and takes the picker's path.  The call is
\* refused while another one runs
FindSeed(given) == {entry \in seeds : SeedOf(entry) = SeedOf(given)}
First(entries) == CHOOSE entry \in entries : \A other \in entries : entry.id <= other.id
TakePath(given, path, now) ==
    LET found == FindSeed(given) IN
    calls' = IF unlocked /\ found # {} /\ now["updateSeed"].stage = "idle"
             THEN [now EXCEPT !["updateSeed"] = [stage |-> "begun", seed |-> None, id |-> First(found).id,
                                                 label |-> None, path |-> path]]
             ELSE now

\* The picker has added accounts of the temporary seed
PersistTempSeed(path) ==
    /\ Turn /\ tempSeed # None /\ calls["persistTempSeed"].stage = "idle" /\ unlocked
    /\ PushSeed("persistTempSeed", tempSeed)
    /\ IF Exists(tempSeed)
       THEN /\ TakePath(tempSeed, path, calls)
            /\ tempSeed' = None
            /\ wanted' = IF wanted = tempSeed THEN None ELSE wanted
       ELSE /\ calls' = [calls EXCEPT !["persistTempSeed"] =
                    [stage |-> "storing", seed |-> tempSeed, id |-> adds + 1, label |-> 0, path |-> path]]
            /\ UNCHANGED <<tempSeed, wanted>>
    /\ UNCHANGED <<unlocked, saved, overtaken, restarts>>
\* The picker has added accounts of a stored seed
PickedFromSeed(given, path) ==
    /\ Turn /\ unlocked /\ FindSeed(given) # {} /\ calls["updateSeed"].stage = "idle"
    /\ ~(tempSeed # None /\ tempSeed.phrase = given.phrase)
    /\ TakePath(given, path, calls)
    /\ UNCHANGED <<unlocked, tempSeed, seeds, saved, writes, asked, wanted, overtaken, adds, restarts>>

-----------------------------------------------------------------------------
(* The methods under withStatus *)

MayStart(m) == /\ calls[m].stage = "idle"
               /\ m = "deleteSeed" => \A n \in Methods \ {"persistTempSeed"} : calls[n].stage = "idle"
Start(m, call) ==
    /\ Turn /\ MayStart(m) /\ calls' = [calls EXCEPT ![m] = [call EXCEPT !.stage = "begun"]]
    /\ UNCHANGED <<unlocked, tempSeed, seeds, saved, writes, asked, wanted, overtaken, adds, restarts>>

\* A locked keystore refuses the seed, and the error is only shown
AddSeed ==
    LET call == calls["addSeed"] IN
    /\ call.stage = "begun"
    /\ IF unlocked
       THEN /\ PushSeed("addSeed", call.seed)
            /\ IF Exists(call.seed) THEN Goto("addSeed", "done")
               ELSE calls' = [calls EXCEPT !["addSeed"] = [call EXCEPT !.stage = "storing", !.id = adds + 1]]
       ELSE Goto("addSeed", "done") /\ UNCHANGED <<seeds, writes, asked, adds>>
    /\ UNCHANGED <<unlocked, tempSeed, saved, wanted, overtaken, turns, restarts>>

UpdateSeed ==
    LET call == calls["updateSeed"]
        entry == First({e \in seeds : e.id = call.id})
        label == IF call.label = None THEN entry.label ELSE call.label
        path == IF call.path = None THEN entry.path ELSE call.path
    IN
    /\ call.stage = "begun"
    /\ IF \A e \in seeds : e.id # call.id
       THEN Goto("updateSeed", "done") /\ UNCHANGED <<seeds, writes>>
       ELSE /\ seeds' = Relabel(seeds, call.id, label, path)
            /\ writes' = Append([i \in DOMAIN writes |->
                   [list |-> Relabel(Held(i), call.id, label, path), live |-> FALSE, by |-> writes[i].by]],
                   Queued({}, "updateSeed"))
            /\ Goto("updateSeed", "storing")
    /\ UNCHANGED <<unlocked, tempSeed, saved, asked, wanted, overtaken, adds, turns, restarts>>

DeleteSeed ==
    LET id == calls["deleteSeed"].id IN
    /\ calls["deleteSeed"].stage = "begun"
    /\ seeds' = {entry \in seeds : entry.id # id}
    /\ asked' = asked \ {SeedOf(entry) : entry \in seeds \ seeds'}
    /\ writes' = Append(Detached, Queued({}, "deleteSeed"))
    /\ Goto("deleteSeed", "storing")
    /\ UNCHANGED <<unlocked, tempSeed, saved, wanted, overtaken, adds, turns, restarts>>

\* A write is done and the call that awaits it goes on
Stored ==
    /\ writes # <<>>
    /\ LET write == Head(writes)
           call == calls[write.by]
           there == \E entry \in seeds : entry.id = call.id
       IN
       /\ saved' = Held(1)
       /\ writes' = Tail(writes)
       /\ asked' = IF call.seed # None /\ there THEN asked \cup {SeedOf(call.seed)} ELSE asked
       /\ IF write.by = "persistTempSeed"
          THEN /\ tempSeed' = None
               /\ wanted' = IF wanted # None /\ SeedOf(wanted) = SeedOf(call.seed) THEN None ELSE wanted
               /\ TakePath(call.seed, call.path, [calls EXCEPT !["persistTempSeed"] = Idle])
          ELSE Goto(write.by, "done") /\ UNCHANGED <<tempSeed, wanted>>
    /\ UNCHANGED <<unlocked, seeds, overtaken, adds, turns, restarts>>
\* SUCCESS or ERROR was shown
Return(m) ==
    /\ calls[m].stage = "done" /\ calls' = [calls EXCEPT ![m] = Idle]
    /\ UNCHANGED <<unlocked, tempSeed, seeds, saved, writes, asked, wanted, overtaken, adds, turns, restarts>>

-----------------------------------------------------------------------------
Unlock ==
    /\ ~unlocked /\ unlocked' = TRUE
    /\ UNCHANGED <<tempSeed, seeds, saved, writes, calls, asked, wanted, overtaken, adds, turns, restarts>>
Lock ==
    /\ unlocked /\ unlocked' = FALSE /\ tempSeed' = None /\ wanted' = None
    /\ UNCHANGED <<seeds, saved, writes, calls, asked, overtaken, adds, turns, restarts>>
Restart ==
    /\ restarts < Restarts /\ restarts' = restarts + 1
    /\ unlocked' = FALSE /\ tempSeed' = None /\ wanted' = None
    /\ seeds' = saved /\ writes' = <<>> /\ calls' = [m \in Methods |-> Idle] /\ overtaken' = FALSE
    /\ UNCHANGED <<saved, asked, adds, turns>>

Init ==
    /\ unlocked = FALSE /\ tempSeed = None /\ seeds = {} /\ saved = {} /\ writes = <<>>
    /\ calls = [m \in Methods |-> Idle]
    /\ asked = {} /\ wanted = None /\ overtaken = FALSE /\ adds = 0 /\ turns = 0 /\ restarts = 0
Next ==
    \/ \E given \in Given : AddTempSeed(given) \/ Start("addSeed", [Idle EXCEPT !.seed = given])
    \/ DeleteTempSeed \/ AddSeed \/ UpdateSeed \/ DeleteSeed \/ Stored \/ Unlock \/ Lock \/ Restart
    \/ \E path \in Paths :
        \/ ChangeTempSeedHdPath(path) \/ PersistTempSeed(path)
        \/ \E given \in Given : PickedFromSeed(given, path)
    \/ \E entry \in seeds :
        \/ Start("updateSeed", [Idle EXCEPT !.id = entry.id, !.label = Named])
        \/ Start("deleteSeed", [Idle EXCEPT !.id = entry.id])
    \/ \E m \in Methods : Return(m)
Spec == Init /\ [][Next]_seedsVars
-----------------------------------------------------------------------------
\* Type correctness.
TypeOK ==
    /\ unlocked \in BOOLEAN /\ overtaken \in BOOLEAN
    /\ {tempSeed, wanted} \subseteq Given \cup {None}
    /\ seeds \cup saved \subseteq
           [id : 1..Adds, phrase : Phrases, pass : Passphrases \cup {Null}, label : 0..Adds, path : Paths]
    /\ \A m \in Methods : calls[m].stage \in {"idle", "begun", "storing", "done"}
    /\ asked \subseteq Phrases \X (Passphrases \cup {Null})
    /\ adds \in 0..Adds /\ turns \in 0..Turns /\ restarts \in 0..Restarts

\* A seed whose call has ended is there until it is deleted, with the passphrase it was given and also
\* after a restart; once no write is queued what is stored is what is shown; and a temporary seed
\* is only given up by the user, by a lock or once it is stored.  Excepted is a temporary seed that
\* is set while another one is being stored (keystore.ts:467-592).
SeedsAreKept ==
    /\ \A seed \in asked : \E entry \in saved : SeedOf(entry) = seed
    /\ writes = <<>> => saved = seeds
    /\ wanted # None /\ ~overtaken => tempSeed = wanted
=============================================================================
