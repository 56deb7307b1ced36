-------------------------- MODULE ConcurrencyLimiter --------------------------
(***************************************************************************)
(* The API's limit on concurrent database queries                          *)
(* (apps/api/src/http/limiter.ts): at most MaxInFlight runs at once, at    *)
(* most MaxQueue calls waiting for one, each no longer than its timer.     *)
(* JavaScript runs each handler to its end, so acquire, the `finally` of a *)
(* run and a timer's callback are a step each.                             *)
(***************************************************************************)
EXTENDS LimiterConstants, Sequences, FiniteSets, SequencesExt

CONSTANTS Calls

VARIABLES
    active,         \* the runs counted
    waiting,        \* the calls that wait for a run to end, oldest first
    inside          \* the calls let in whose run has not settled

vars == <<active, waiting, inside>>

TypeOK ==
    /\ active \in Nat
    /\ waiting \in Seq(Calls)
    /\ inside \subseteq Calls

Init ==
    /\ active = 0
    /\ waiting = <<>>
    /\ inside = {}

Queued == Range(waiting)
Outside(c) == c \notin inside \cup Queued

FreeOneMore == active <= MaxInFlight
Free == active < MaxInFlight

\* acquire: let in at once.
Enter(c) ==
    /\ Outside(c)
    /\ Free
    /\ active' = active + 1
    /\ inside' = inside \cup {c}
    /\ UNCHANGED waiting

\* acquire: a run is not to be had now, but a place in the queue is.  (With neither, the
\* call is refused and nothing changes.)
Wait(c) ==
    /\ Outside(c)
    /\ ~Free
    /\ Len(waiting) < MaxQueue
    /\ waiting' = Append(waiting, c)
    /\ UNCHANGED <<active, inside>>

\* The timer of a waiter: it leaves the queue, wherever in it, and is refused.
TimeOut(c) ==
    /\ \E i \in DOMAIN waiting :
        /\ waiting[i] = c
        /\ waiting' = RemoveAt(waiting, i)
    /\ UNCHANGED <<active, inside>>

PassOnToNobody(c) ==
    /\ active' = active - 1
    /\ inside' = inside \ {c}
    /\ UNCHANGED waiting

PassOnKeepsQueued(c) ==
    IF waiting = <<>>
    THEN PassOnToNobody(c)
    ELSE /\ inside' = (inside \ {c}) \cup {Head(waiting)}
         /\ UNCHANGED <<active, waiting>>

\* next, at the end of a run: its place goes to the oldest waiter, whose timer is cleared.
PassOn(c) ==
    IF waiting = <<>>
    THEN /\ active' = active - 1
         /\ inside' = inside \ {c}
         /\ UNCHANGED waiting
    ELSE /\ active' = active - 1 + 1
         /\ inside' = (inside \ {c}) \cup {Head(waiting)}
         /\ waiting' = Tail(waiting)

\* The run of a call settles, either way.
Leave(c) == c \in inside /\ PassOn(c)

Next == \E c \in Calls : Enter(c) \/ Wait(c) \/ TimeOut(c) \/ Leave(c)

Spec == Init /\ [][Next]_vars

-----------------------------------------------------------------------------
\* The counter counts the runs, never more than the limit: "at most maxInFlight runs at
\* once; up to maxQueue more wait" (limiter.ts:8).
Bounded == active = Cardinality(inside) /\ active <= MaxInFlight /\ Len(waiting) <= MaxQueue

\* No call waits beside a free place: a place freed while calls wait is taken by one of
\* them in the same step, so a newcomer never overtakes them either.
NoIdlePlace == waiting # <<>> => active = MaxInFlight

\* A waiter is in the queue once and not inside: it is started once.
WaitsOnce ==
    /\ \A i, j \in DOMAIN waiting : waiting[i] = waiting[j] => i = j
    /\ Queued \cap inside = {}
=============================================================================
