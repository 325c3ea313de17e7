------------------------------- MODULE Breaker -------------------------------
(***************************************************************************)
(* What the comments on StorageCircuitBreaker (crates/core/src/storage.rs) *)
(* promise: "Closed: operations pass, failures are counted; Open: after    *)
(* failure_threshold failures, an immediate error; HalfOpen: after         *)
(* reset_timeout_secs, one attempt; a success closes, a failure reopens."  *)
(***************************************************************************)
EXTENDS Naturals

CONSTANTS
    Threshold,  \* failure_threshold
    Reset       \* reset_timeout_secs

VARIABLES
    mode,   \* closed, open or half-open
    fails,  \* failures since the last success, up to Threshold
    since   \* time since the last failure, up to Reset

vars == <<mode, fails, since>>

AtMost(n, limit) == IF n < limit THEN n ELSE limit

Init == mode = "closed" /\ fails = 0 /\ since = Reset

Success ==
    /\ mode # "open"
    /\ mode' = "closed" /\ fails' = 0
    /\ UNCHANGED since

Failure ==
    /\ mode # "open"
    /\ fails' = AtMost(fails + 1, Threshold)
    /\ since' = 0
    /\ mode' = IF mode = "half-open" \/ fails' = Threshold THEN "open" ELSE mode

Attempt ==
    /\ mode = "open" /\ since = Reset
    /\ mode' = "half-open"
    /\ UNCHANGED <<fails, since>>

Time ==
    /\ since' = AtMost(since + 1, Reset)
    /\ UNCHANGED <<mode, fails>>

Next == Success \/ Failure \/ Attempt \/ Time

Spec == Init /\ [][Next]_vars
=============================================================================
