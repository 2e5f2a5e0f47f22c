------------------------------- MODULE Phishing ------------------------------
(***************************************************************************)
(* PhishingController: two published lists of blacklisted domains, kept in *)
(* the storage and fetched again once they are six hours old.  A list is   *)
(* known by its version; 0 is the empty list.                              *)
(***************************************************************************)
EXTENDS Integers, FiniteSets

CONSTANTS
    Calls,     \* calls of updateIfNeeded that may run at once
    Load,      \* the call that #load makes
    Versions,  \* bound: versions that are published
    Restarts,  \* bound
    None

Lists == {"metamask", "phantom"}

VARIABLES
    published,
    detection,   \* 'phishingDetection': None, or the lists and whether they are less than six hours old
    blacklist,   \* #blacklist, by the list that it comes from
    lastUpdate,  \* #lastStorageUpdate: None, "recent" or "old"
    updateStatus,
    calls,       \* where each call is, what it read and what it fetched; Load is #load
    overlapped,  \* ghost: two updates ran at once since the start
    restarts
phishingVars == <<published, detection, blacklist, lastUpdate, updateStatus, calls, overlapped, restarts>>

NoLists == [l \in Lists |-> 0]
Idle == [at |-> "idle", read |-> None, got |-> NoLists]
Goes(c, call) == calls' = [calls EXCEPT ![c] = call]

\* updateIfNeeded, up to the storage
UpdateIfNeeded(c) ==
    /\ calls[c].at = "idle" /\ updateStatus = "INITIAL" /\ lastUpdate # "recent"
    /\ Goes(c, [Idle EXCEPT !.at = "reading"])
    /\ UNCHANGED <<published, detection, blacklist, lastUpdate, updateStatus, overlapped, restarts>>

\* The storage answers; #load goes on in any case, and uses what it read at once
Read(c) ==
    /\ calls[c].at = "reading"
    /\ IF c # Load /\ (detection = None \/ detection.age = "recent")
         THEN Goes(c, Idle) /\ UNCHANGED <<blacklist, updateStatus, overlapped>>
         ELSE /\ Goes(c, [at |-> "fetching", read |-> detection, got |-> NoLists])
              /\ blacklist' = IF c = Load /\ detection # None THEN detection.lists ELSE blacklist
              /\ updateStatus' = "LOADING"
              /\ overlapped' = (overlapped \/ \E d \in DOMAIN calls : calls[d].at \in {"fetching", "storing"})
    /\ UNCHANGED <<published, detection, lastUpdate, restarts>>

\* A list that could not be fetched is the one that was read
Fallback(call) ==
    [l \in Lists |-> IF call.got[l] = 0 /\ call.read # None THEN call.read.lists[l] ELSE call.got[l]]
Ends(c, call) ==
    /\ blacklist' = Fallback(call)
    /\ updateStatus' = "INITIAL"
    /\ Goes(c, Idle)

\* Both answers.  Only two full lists are stored.
Fetched(c, failed) ==
    LET call == [calls[c] EXCEPT !.got = [l \in Lists |-> IF l \in failed THEN 0 ELSE published]]
    IN /\ calls[c].at = "fetching"
       /\ IF failed = {}
            THEN Goes(c, [call EXCEPT !.at = "storing"]) /\ UNCHANGED <<blacklist, updateStatus, lastUpdate>>
            ELSE /\ Ends(c, call)
                 /\ lastUpdate' = IF lastUpdate = None /\ call.read # None THEN call.read.age ELSE lastUpdate
       /\ UNCHANGED <<published, detection, overlapped, restarts>>
Stored(c) ==
    /\ calls[c].at = "storing"
    /\ detection' = [lists |-> calls[c].got, age |-> "recent"]
    /\ lastUpdate' = "recent"
    /\ Ends(c, calls[c])
    /\ UNCHANGED <<published, overlapped, restarts>>

Publish ==
    /\ published < Versions /\ published' = published + 1
    /\ UNCHANGED <<detection, blacklist, lastUpdate, updateStatus, calls, overlapped, restarts>>
SixHoursPass ==
    /\ detection # None /\ \A c \in DOMAIN calls : calls[c].at = "idle"
    /\ detection' = [detection EXCEPT !.age = "old"]
    /\ lastUpdate' = IF lastUpdate = None THEN None ELSE "old"
    /\ UNCHANGED <<published, blacklist, updateStatus, calls, overlapped, restarts>>
Restart ==
    /\ restarts < Restarts /\ restarts' = restarts + 1
    /\ calls' = [c \in DOMAIN calls |-> IF c = Load THEN [Idle EXCEPT !.at = "reading"] ELSE Idle]
    /\ blacklist' = NoLists /\ lastUpdate' = None /\ updateStatus' = "INITIAL" /\ overlapped' = FALSE
    /\ UNCHANGED <<published, detection>>

Init ==
    /\ published = 1 /\ restarts = 0 /\ overlapped = FALSE
    /\ detection \in {None, [lists |-> [l \in Lists |-> 1], age |-> "old"]}
    /\ blacklist = NoLists /\ lastUpdate = None /\ updateStatus = "INITIAL"
    /\ calls = [c \in Calls \cup {Load} |-> IF c = Load THEN [Idle EXCEPT !.at = "reading"] ELSE Idle]
Next ==
    \/ \E c \in Calls : UpdateIfNeeded(c)
    \/ \E c \in DOMAIN calls : Read(c) \/ Stored(c)
    \/ \E c \in DOMAIN calls, failed \in SUBSET Lists : Fetched(c, failed)
    \/ Publish \/ SixHoursPass \/ Restart
Spec == Init /\ [][Next]_phishingVars
-----------------------------------------------------------------------------
\* Type correctness.
TypeOK ==
    /\ published \in 1..Versions /\ restarts \in 0..Restarts /\ overlapped \in BOOLEAN
    /\ detection \in [lists : [Lists -> 1..Versions], age : {"recent", "old"}] \cup {None}
    /\ blacklist \in [Lists -> 0..Versions] /\ lastUpdate \in {None, "recent", "old"}
    /\ updateStatus \in {"INITIAL", "LOADING"}
    /\ \A c \in DOMAIN calls : calls[c].at \in {"idle", "reading", "fetching", "storing"}

\* Between updates the lists in use are at least those that are stored, whichever fetches failed,
\* and a failure never puts off the next update.  Updates that overlap are excepted: one that fails
\* puts back the lists that it read, although newer ones were stored (phishing.ts:80-165).
QuietBlacklistIsKept ==
    (\A c \in DOMAIN calls : calls[c].at = "idle") /\ ~overlapped =>
        /\ updateStatus = "INITIAL"
        /\ detection # None => \A l \in Lists : blacklist[l] >= detection.lists[l]
        /\ lastUpdate = "recent" => detection # None /\ detection.age = "recent"
=============================================================================
