--------------------------- MODULE BreakerConstants ---------------------------
(* The settings of the circuit breaker (apps/api/src/http/breaker.ts) and what is assumed of them. *)
EXTENDS Naturals

CONSTANTS
    Calls,              \* the requests that may be in run() at once
    FailureThreshold,   \* failures in a row that open the breaker
    OpenMs,             \* how long it then refuses calls
    CallMax,            \* the longest a call may take (queue wait + query timeout)
    MaxTime             \* bound on the clock

ASSUME BreakerAssumption ==
    /\ FailureThreshold \in Nat \ {0}
    /\ OpenMs \in Nat
    /\ CallMax \in Nat
    /\ MaxTime \in Nat
=============================================================================
