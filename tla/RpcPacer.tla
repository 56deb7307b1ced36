------------------------------- MODULE RpcPacer -------------------------------
(***************************************************************************)
(* The JSON-RPC pacing proxy (apps/indexer/scripts/rpcPacer.ts): every     *)
(* request is tried on one upstream after the other, each of which takes   *)
(* Concurrency requests at once; a request waits for a place, is paced,    *)
(* sent, and its answer read.  What runs between two awaits is one step.   *)
(*                                                                         *)
(* Times are left out, and with them the rates and the strikes that give   *)
(* their lengths: a pause or a backoff ends at any moment, and any of the  *)
(* free upstreams may be the one free soonest.                             *)
(***************************************************************************)
EXTENDS Integers, FiniteSets, FiniteSetsExt

CONSTANTS
    Requests, Upstreams,
    NoUpstream,             \* undefined
    Concurrency,            \* options.concurrency
    MaxAttempts,            \* MAX_ATTEMPTS
    InternalErrorAttempts,  \* INTERNAL_ERROR_ATTEMPTS
    RangeOf,                \* [Requests -> Nat], the blocks an eth_getLogs covers; 0 for other requests
    ForBlock,               \* the requests for a block by its number
    LimitOf,                \* [Upstreams -> Nat], the widest range an upstream takes
    Crowded,                \* [Upstreams -> SUBSET Requests], the ranges with more logs than it returns
    Lacks,                  \* [Upstreams -> SUBSET Requests], what its node has pruned
    Leaving                 \* the requests whose client may go; the pacer's own calls have none

PacerAssumption ==
    /\ IsFiniteSet(Requests) /\ IsFiniteSet(Upstreams) /\ Upstreams # {}
    /\ NoUpstream \notin Upstreams
    /\ Concurrency \in Nat \ {0}
    /\ MaxAttempts \in Nat \ {0} /\ InternalErrorAttempts \in Nat \ {0}
    /\ RangeOf \in [Requests -> Nat]
    /\ ForBlock \subseteq Requests
    /\ LimitOf \in [Upstreams -> Nat \ {0}]
    /\ Crowded \in [Upstreams -> SUBSET {r \in Requests : RangeOf[r] # 0}]
    /\ Lacks \in [Upstreams -> SUBSET Requests]
    /\ Leaving \subseteq Requests

NoLimit == -1   \* maxLogRange: undefined

VARIABLES
    pc,         \* where the forward() of each request is
    at,         \* the upstream it has a place at, or was answered by
    tried, refused, attempt, lastRefusal,   \* the locals of forward()
    gone,       \* the requests in progress whose client closed its connection
    inFlight, maxLogRange, paused           \* per upstream

locals == <<tried, refused, attempt, lastRefusal>>
vars == <<pc, at, locals, gone, inFlight, maxLogRange, paused>>

Failures == {"rate-limited", "transient", "internal-error"}
Refusals == {"range-refused", "no-state"}
Ended == {"answered", "refused", "failed", "abandoned"}

Init ==
    /\ pc = [r \in Requests |-> "new"]
    /\ at = [r \in Requests |-> NoUpstream]
    /\ tried = [r \in Requests |-> {}]
    /\ refused = [r \in Requests |-> {}]
    /\ attempt = [r \in Requests |-> 0]
    /\ lastRefusal = [r \in Requests |-> FALSE]
    /\ gone = {}
    /\ inFlight = [u \in Upstreams |-> 0]
    /\ maxLogRange = [u \in Upstreams |-> NoLimit]
    /\ paused = {}

-----------------------------------------------------------------------------
\* The upstreams whose learnt range is too narrow for the request.
TooNarrow(r) == {u \in Upstreams : RangeOf[r] # 0 /\ maxLogRange[u] # NoLimit /\ RangeOf[r] > maxLogRange[u]}
SkippedEvenIfAll(r) == TooNarrow(r)
SkippedAtFirst(r) == IF TooNarrow(r) # Upstreams THEN TooNarrow(r) ELSE {}

Allowed(r) == Upstreams \ refused[r]
Pool(r) == IF Allowed(r) \ tried[r] # {} THEN Allowed(r) \ tried[r] ELSE Allowed(r)
\* pickUpstream: the candidates with a place; it takes the one free soonest.
Free(r) == {u \in Pool(r) : inFlight[u] < Concurrency}

\* Refused by all; near the head, a paused upstream is not waited for either.
MustGiveUp(r) == lastRefusal[r] /\ refused[r] = Upstreams
MayGiveUp(r) == lastRefusal[r] /\ r \in ForBlock /\ Upstreams \ refused[r] \subseteq paused

\* forward returns: its locals are gone.
End(r, how) ==
    /\ pc' = [pc EXCEPT ![r] = how]
    /\ tried' = [tried EXCEPT ![r] = {}]
    /\ refused' = [refused EXCEPT ![r] = {}]
    /\ attempt' = [attempt EXCEPT ![r] = 0]
    /\ lastRefusal' = [lastRefusal EXCEPT ![r] = FALSE]
    /\ gone' = gone \ {r}

\* acquire, up to its return or its wait.
Acquire(r) ==
    \/ /\ r \in gone
       /\ End(r, "abandoned")
       /\ UNCHANGED <<at, inFlight>>
    \/ /\ r \notin gone
       /\ \E u \in Free(r) :
            /\ pc' = [pc EXCEPT ![r] = "paced"]
            /\ at' = [at EXCEPT ![r] = u]
            /\ inFlight' = [inFlight EXCEPT ![u] = @ + 1]
       /\ UNCHANGED <<locals, gone>>
    \/ /\ r \notin gone
       /\ Free(r) = {}
       /\ pc' = [pc EXCEPT ![r] = "waiting"]
       /\ UNCHANGED <<at, locals, gone, inFlight>>

\* One round of forward's loop, up to its first await.
Round(r) ==
    /\ pc[r] = "round"
    /\ \/ /\ MustGiveUp(r) \/ MayGiveUp(r)
          /\ End(r, "refused")
          /\ UNCHANGED <<at, inFlight>>
       \/ ~MustGiveUp(r) /\ Acquire(r)
    /\ UNCHANGED <<maxLogRange, paused>>

\* A request comes; what is known of the upstreams is looked at once.
Start(r) ==
    /\ pc[r] = "new"
    /\ refused' = [refused EXCEPT ![r] = SkippedAtFirst(r)]
    /\ pc' = [pc EXCEPT ![r] = "round"]
    /\ UNCHANGED <<at, tried, attempt, lastRefusal, gone, inFlight, maxLogRange, paused>>

\* A waiter that was woken looks again.
LookAgain(r) ==
    /\ pc[r] = "woken"
    /\ Acquire(r)
    /\ UNCHANGED <<maxLogRange, paused>>

\* The slot has come: the request is sent.
Send(r) ==
    /\ pc[r] = "paced" /\ r \notin gone
    /\ pc' = [pc EXCEPT ![r] = "sent"]
    /\ UNCHANGED <<at, locals, gone, inFlight, maxLogRange, paused>>

WakeOne(p) ==
    LET waiters == {r \in Requests : p[r] = "waiting"}
    IN  IF waiters = {} THEN p ELSE [p EXCEPT ![CHOOSE r \in waiters : TRUE] = "woken"]
WakeAll(p) == [r \in Requests |-> IF p[r] = "waiting" THEN "woken" ELSE p[r]]

\* What an upstream says of a request when nothing fails: a range is refused for its blocks
\* or for its logs ("more than 10000 results").
TruthAt(u, r) ==
    IF RangeOf[r] > LimitOf[u] \/ r \in Crowded[u] THEN "range-refused"
    ELSE IF r \in Lacks[u] THEN "no-state" ELSE "ok"

\* send settles: its `finally` frees the place and wakes the waiters, before the answer is
\* looked at.  A gone client aborts the pace and the request.  (What the answer is, is
\* chosen when it is read.)
Settle(r) ==
    /\ \/ pc[r] = "sent"
       \/ pc[r] = "paced" /\ r \in gone
    /\ inFlight' = [inFlight EXCEPT ![at[r]] = @ - 1]
    /\ pc' = WakeAll([pc EXCEPT ![r] = "answer"])
    /\ UNCHANGED <<at, locals, gone, maxLogRange, paused>>

-----------------------------------------------------------------------------
\* Reading the answer: one action for each way forward goes on.
Reads(r) ==
    /\ pc[r] = "answer" /\ r \notin gone
    /\ at' = [at EXCEPT ![r] = NoUpstream]

AbandonAnswer(r) ==
    /\ pc[r] = "answer" /\ r \in gone
    /\ End(r, "abandoned")
    /\ at' = [at EXCEPT ![r] = NoUpstream]
    /\ UNCHANGED <<inFlight, maxLogRange, paused>>

Accept(r) ==
    /\ Reads(r) /\ TruthAt(at[r], r) = "ok"
    /\ End(r, "answered")
    /\ UNCHANGED <<inFlight, maxLogRange, paused>>

NarrowedTooFar(u, range) == IF range > 2 THEN range - 2 ELSE range - 1
Narrowed(u, range) ==
    IF maxLogRange[u] = NoLimit \/ range - 1 < maxLogRange[u] THEN range - 1 ELSE maxLogRange[u]

\* A refused range or pruned state: on to the next upstream.
NoteRefusal(r) ==
    /\ Reads(r) /\ TruthAt(at[r], r) \in Refusals
    /\ LET u == at[r] IN
        /\ maxLogRange' = IF TruthAt(u, r) = "range-refused"
                          THEN [maxLogRange EXCEPT ![u] = Narrowed(u, RangeOf[r])]
                          ELSE maxLogRange
        /\ tried' = [tried EXCEPT ![r] = @ \cup {u}]
        /\ refused' = [refused EXCEPT ![r] = @ \cup {u}]
    /\ lastRefusal' = [lastRefusal EXCEPT ![r] = TRUE]
    /\ attempt' = [attempt EXCEPT ![r] = @ + 1]
    /\ pc' = [pc EXCEPT ![r] = "round"]
    /\ UNCHANGED <<gone, inFlight, paused>>

AttemptLimit(kind) ==
    IF kind = "internal-error"
    THEN Max({InternalErrorAttempts, Cardinality(Upstreams)})
    ELSE MaxAttempts * Cardinality(Upstreams)

\* A failed attempt; an upstream that limits its rate pauses, for any request.
Failed(r, kind) ==
    /\ Reads(r)
    /\ paused' = IF kind = "rate-limited" THEN paused \cup {at[r]} ELSE paused
    /\ UNCHANGED <<inFlight, maxLogRange>>

GiveUp(r, kind) ==
    /\ Failed(r, kind)
    /\ attempt[r] + 1 >= AttemptLimit(kind)
    /\ End(r, "failed")

\* On to the next upstream; after a failure every one of them had a turn at, a backoff first.
TryAgain(r, kind) ==
    /\ Failed(r, kind)
    /\ attempt[r] + 1 < AttemptLimit(kind)
    /\ LET had == tried[r] \cup {at[r]}
           roundOver == kind # "rate-limited" /\ had \cup refused[r] = Upstreams
       IN  /\ tried' = [tried EXCEPT ![r] = IF roundOver THEN {} ELSE had]
           /\ pc' = [pc EXCEPT ![r] = IF roundOver THEN "backoff" ELSE "round"]
    /\ attempt' = [attempt EXCEPT ![r] = @ + 1]
    /\ UNCHANGED <<refused, lastRefusal, gone>>

BackedOff(r) ==
    /\ pc[r] = "backoff"
    /\ pc' = [pc EXCEPT ![r] = "round"]
    /\ UNCHANGED <<at, locals, gone, inFlight, maxLogRange, paused>>

\* The client of a request in progress closes its connection.
Close(r) ==
    /\ pc[r] \notin Ended \cup {"new"}
    /\ r \in Leaving \ gone
    /\ gone' = gone \cup {r}
    /\ UNCHANGED <<pc, at, locals, inFlight, maxLogRange, paused>>

Unpause(u) ==
    /\ u \in paused
    /\ paused' = paused \ {u}
    /\ UNCHANGED <<pc, at, locals, gone, inFlight, maxLogRange>>

Forward(r) ==
    \/ Start(r) \/ Round(r) \/ LookAgain(r) \/ Send(r) \/ Settle(r)
    \/ AbandonAnswer(r) \/ Accept(r) \/ NoteRefusal(r) \/ BackedOff(r)
    \/ \E kind \in Failures : GiveUp(r, kind) \/ TryAgain(r, kind)

Next ==
    \/ \E r \in Requests : Forward(r) \/ Close(r)
    \/ \E u \in Upstreams : Unpause(u)

Spec == Init /\ [][Next]_vars

(* An upstream that does not answer is cut off after UPSTREAM_TIMEOUT_MS,  *)
(* every slot and backoff comes: what runs goes on.  A waiter has no       *)
(* action of its own and so no fairness: somebody has to wake it.          *)
FairSpec == Spec /\ WF_vars(\E r \in Requests : Forward(r))

-----------------------------------------------------------------------------
Holding(u) == {r \in Requests : at[r] = u /\ pc[r] \in {"paced", "sent"}}

\* The counter of each upstream is the requests that hold a place, never more than the cap,
\* whatever is aborted, fails or is retried (rpcPacer.ts:349, 384).
PlacesCounted == \A u \in Upstreams : inFlight[u] = Cardinality(Holding(u)) /\ inFlight[u] <= Concurrency

\* No wake-up is lost and no request waits for nobody: while a request waits, there is an
\* upstream it may use, and all it would be sent to are at their cap (rpcPacer.ts:346-354).
WaitsForAPlace ==
    \A r \in Requests : pc[r] = "waiting" =>
        Pool(r) # {} /\ \A u \in Pool(r) : inFlight[u] = Concurrency

Came(r) == pc[r] # "new"
Refused(u, r) == TruthAt(u, r) = "range-refused"

\* What is learnt of an upstream is one block less than a range that came and that it refuses,
\* and a refusal is given to the client only when some upstream refuses that very request, and
\* each of the others refuses it too or has refused a range no wider: a failure, a pause or
\* another upstream's limit never makes one (rpcPacer.ts:15-16, 404-411, 438-445).
RefusedByAll ==
    /\ \A u \in Upstreams : maxLogRange[u] # NoLimit =>
         \E q \in Requests : Came(q) /\ Refused(u, q) /\ RangeOf[q] = maxLogRange[u] + 1
    /\ \A r \in Requests \ ForBlock : pc[r] = "refused" =>
         /\ \E u \in Upstreams : TruthAt(u, r) # "ok"
         /\ \A u \in Upstreams : TruthAt(u, r) # "ok" \/ \E q \in Requests : /\ Came(q) /\ Refused(u, q)
                                                                          /\ RangeOf[q] <= RangeOf[r]

\* "Passes an eth_getLogs that an upstream refuses for its block range on to the other upstreams,
\* and returns the refusal only when all of them refuse it" (rpcPacer.ts:14-15).
RefusedOnlyByAll ==
    \A r \in Requests \ ForBlock : pc[r] = "refused" => \A u \in Upstreams : TruthAt(u, r) # "ok"

\* Every request that came ends: with an answer, a refusal, a failure after its attempts, or
\* abandoned, although its client may have gone while it waits for a place.
EveryoneAnswered == <>[](\A r \in DOMAIN pc : pc[r] \in Ended \cup {"new"})
=============================================================================
