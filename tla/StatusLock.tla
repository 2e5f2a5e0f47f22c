----------------------------- MODULE StatusLock -----------------------------
(***************************************************************************)
(* What withStatus of EventEmitter promises of the methods that run under  *)
(* it: a method is in flight at most once, one that was not called with    *)
(* allowConcurrentActions starts only when no method is in flight, and     *)
(* every method that ends shows its outcome before it may start again.     *)
(***************************************************************************)
CONSTANTS
    Methods,    \* the names in statuses
    Concurrent  \* those of them that are called with allowConcurrentActions

VARIABLE status  \* statuses; "ENDED" stands for SUCCESS and ERROR

StatusInit == status = [m \in Methods |-> "INITIAL"]

Claim(m) ==
    /\ status[m] = "INITIAL"
    /\ m \in Concurrent \/ \A n \in Methods : status[n] = "INITIAL"
    /\ status' = [status EXCEPT ![m] = "LOADING"]

Outcome(m) == status[m] = "LOADING" /\ status' = [status EXCEPT ![m] = "ENDED"]

Release(m) == status[m] = "ENDED" /\ status' = [status EXCEPT ![m] = "INITIAL"]

\* The extension is closed and starts again.
Reload == status' = [m \in Methods |-> "INITIAL"]

StatusNext == Reload \/ \E m \in Methods : Claim(m) \/ Outcome(m) \/ Release(m)

StatusSpec == StatusInit /\ [][StatusNext]_status
=============================================================================
