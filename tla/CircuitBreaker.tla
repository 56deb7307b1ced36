--------------------------- MODULE CircuitBreaker ---------------------------
(***************************************************************************)
(* The circuit breaker in front of the API's ClickHouse queries            *)
(* (apps/api/src/http/breaker.ts).  run(fn) is two atomic steps of the     *)
(* JavaScript event loop: the admission, up to the call of fn, and the     *)
(* settlement of fn, up to the end of the finally block.  Everything else  *)
(* interleaves between the two: other calls start, settle, and time passes.*)
(***************************************************************************)
EXTENDS BreakerConstants

VARIABLES
    now,        \* Date.now()
    failures,   \* failures in a row
    openedAt,   \* when it last opened, Closed while it is not open
    probing,    \* a probe is out
    running,    \* the calls whose fn has not settled
    startedAt,  \* when each of them was admitted
    probes      \* those of them that were admitted while the breaker was open

vars == <<now, failures, openedAt, probing, running, startedAt, probes>>

Closed == MaxTime + 1
IsOpen == openedAt # Closed

TypeOK ==
    /\ now \in 0..MaxTime
    /\ failures \in Nat
    /\ openedAt \in 0..(MaxTime + 1)
    /\ probing \in BOOLEAN
    /\ running \subseteq Calls
    /\ startedAt \in [Calls -> 0..MaxTime]
    /\ probes \subseteq running

Init ==
    /\ now = 0
    /\ failures = 0
    /\ openedAt = Closed
    /\ probing = FALSE
    /\ running = {}
    /\ startedAt = [c \in Calls |-> 0]
    /\ probes = {}

-----------------------------------------------------------------------------
\* A call may pass an open breaker only once openMs is over and no probe is out.
MayProbeAnyTime == ~probing
MayProbe == now - openedAt >= OpenMs /\ ~probing

\* run(fn) up to the call of fn, breaker closed.  A refused call (BreakerOpenError)
\* changes nothing and is not an action.
Admit(c) ==
    /\ c \notin running
    /\ ~IsOpen
    /\ running' = running \cup {c}
    /\ startedAt' = [startedAt EXCEPT ![c] = now]
    /\ UNCHANGED <<now, failures, openedAt, probing, probes>>

\* The same with the breaker open: the call is the probe.
Probe(c) ==
    /\ c \notin running
    /\ IsOpen
    /\ MayProbe
    /\ probing' = TRUE
    /\ running' = running \cup {c}
    /\ probes' = probes \cup {c}
    /\ startedAt' = [startedAt EXCEPT ![c] = now]
    /\ UNCHANGED <<now, failures, openedAt>>

\* What the finally block leaves behind, whoever the call was.
Settle(c) ==
    /\ c \in running
    /\ running' = running \ {c}
    /\ probes' = probes \ {c}
    /\ probing' = FALSE
    /\ UNCHANGED <<now, startedAt>>

\* fn resolved: closed, whether or not the call was a probe.
Succeed(c) ==
    /\ Settle(c)
    /\ failures' = 0
    /\ openedAt' = Closed

\* fn rejected with an error that counts: opens at the threshold, and an open
\* breaker opens again from now.
Opens == IsOpen \/ failures + 1 >= FailureThreshold
Fail(c) ==
    /\ Settle(c)
    /\ failures' = failures + 1
    /\ openedAt' = IF Opens THEN now ELSE openedAt

\* fn rejected with an error isFailure passes on (too large, overloaded).
PassOn(c) ==
    /\ Settle(c)
    /\ UNCHANGED <<failures, openedAt>>

\* Time passes, but no call outlives CallMax.
Tick ==
    /\ now < MaxTime
    /\ \A c \in running : now - startedAt[c] < CallMax
    /\ now' = now + 1
    /\ UNCHANGED <<failures, openedAt, probing, running, startedAt, probes>>

Next ==
    \/ \E c \in Calls : Admit(c) \/ Probe(c) \/ Succeed(c) \/ Fail(c) \/ PassOn(c)
    \/ Tick

Spec == Init /\ [][Next]_vars

-----------------------------------------------------------------------------
(* CallsEndInTime holds of the API's defaults: a call waits at most        *)
(* MAX_QUEUE_WAIT_MS (250 ms) in the queue and QUERY_TIMEOUT_MS (3.5 s) for *)
(* ClickHouse, and openMs is 10 s.  The configuration accepts more.        *)
CallsEndInTime == CallMax < OpenMs

\* Half open means one call in all: while a probe is out, no call admitted before the
\* breaker opened is still in flight to settle in its place.
ProbeIsAlone == \A c \in probes : running = {c}

\* The probing flag never outlives its probe, or an open breaker would refuse every
\* call for good; and it is never cleared under a probe still out.
ProbingMeansProbe == probing <=> probes # {}
=============================================================================
