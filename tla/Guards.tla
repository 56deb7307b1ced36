-------------------------------- MODULE Guards --------------------------------
(***************************************************************************)
(* What stands between a cache miss of the timeline API and ClickHouse:    *)
(* breaker.run(() => limiter.run(() => repository.rows(address))) of       *)
(* apps/api/src/timeline/service.ts.  Each step of a call is a step of the *)
(* circuit breaker and of the concurrency limiter at once: the wait for a  *)
(* place and the query are both inside the breaker's run.                  *)
(***************************************************************************)
EXTENDS BreakerConstants, LimiterConstants, Sequences

CONSTANTS
    MaxWait,    \* maxQueueWaitMs
    QueryMax    \* QUERY_TIMEOUT_MS

\* What CallMax is made of, in the API's defaults less than openMs.
ASSUME GuardsAssumption ==
    /\ MaxWait \in Nat /\ QueryMax \in Nat
    /\ CallMax = MaxWait + QueryMax
    /\ CallMax < OpenMs

VARIABLES
    now, failures, openedAt, probing, running, startedAt, probes,   \* CircuitBreaker
    active, waiting, inside,                                        \* ConcurrencyLimiter
    enteredAt                                                       \* when each query began

breaker == <<now, failures, openedAt, probing, running, startedAt, probes>>
limiter == <<active, waiting, inside>>
vars == <<breaker, limiter, enteredAt>>

B == INSTANCE CircuitBreaker
L == INSTANCE ConcurrencyLimiter

Init == B!Init /\ L!Init /\ enteredAt = [c \in Calls |-> 0]

Admitted(c) == B!Admit(c) \/ B!Probe(c)

\* A miss that finds a place: the query begins.
Begin(c) ==
    /\ Admitted(c)
    /\ L!Enter(c)
    /\ enteredAt' = [enteredAt EXCEPT ![c] = now]

\* A miss that queues.  (With the queue full too, the call is refused at once: the breaker
\* passes OverloadedError on, and nothing has changed.)
Queue(c) ==
    /\ Admitted(c)
    /\ L!Wait(c)
    /\ UNCHANGED enteredAt

\* isFailure: an OverloadedError says nothing of the database's health.
RefusalCounts(c) == B!Fail(c)
Refusal(c) == B!PassOn(c)

\* The timer of a waiter.
GiveUp(c) ==
    /\ now - startedAt[c] >= MaxWait
    /\ L!TimeOut(c)
    /\ Refusal(c)
    /\ UNCHANGED enteredAt

\* isFailure: rows or a failure are the database's own; TimelineTooLargeError is neither.
Outcome(c) == B!Succeed(c) \/ B!Fail(c) \/ B!PassOn(c)

\* A query ends; the oldest waiter's begins.
End(c) ==
    /\ L!Leave(c)
    /\ Outcome(c)
    /\ enteredAt' = [d \in Calls |-> IF d \in inside' \ inside THEN now
                                     ELSE IF d = c THEN 0 ELSE enteredAt[d]]

\* Time passes: no wait outlasts its timer, no query its timeout.
Tick ==
    /\ \A c \in L!Queued : now - startedAt[c] < MaxWait
    /\ \A c \in inside : now - enteredAt[c] < QueryMax
    /\ B!Tick
    /\ UNCHANGED <<limiter, enteredAt>>

Next ==
    \/ \E c \in Calls : Begin(c) \/ Queue(c) \/ GiveUp(c) \/ End(c)
    \/ Tick

Spec == Init /\ [][Next]_vars

-----------------------------------------------------------------------------
\* breaker.ts:7, "half open lets one call in": while a probe is out nothing else is, the
\* queue's waiters included, or one that settles would end the probe's turn.
ProbeIsAlone == B!ProbeIsAlone

\* The limit on queries, and no place left empty or taken twice, with the breaker around it
\* (limiter.ts:8).
Bounded == L!Bounded
NoIdlePlace == L!NoIdlePlace
WaitsOnce == L!WaitsOnce

\* The two agree on who is in: a call is in the breaker's run exactly while it waits for a
\* place or its query runs, and a probe never waits: a probe stuck behind other queries
\* would keep the breaker open on their account.
InBothOrNeither == running = inside \cup L!Queued /\ probes \subseteq inside

Limited == Bounded /\ NoIdlePlace /\ WaitsOnce /\ InBothOrNeither

\* service.ts:100: "only the database failing or timing out opens it": the breaker opens
\* with the end of a query, never with a call that only waited.
OnlyQueriesOpenIt ==
    [][openedAt' \notin {openedAt, B!Closed} => \E c \in inside : c \notin inside']_vars
=============================================================================
