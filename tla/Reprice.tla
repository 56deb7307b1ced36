-------------------------------- MODULE Reprice --------------------------------
(***************************************************************************)
(* A reprice of a range of time: its events are counted by bucket, the     *)
(* range is cut (PlanRanges) and each part is priced by a statement of its *)
(* own (PricedEvents).  What the events, the prices and the range may be   *)
(* grows step by step.                                                     *)
(***************************************************************************)
EXTENDS PlanRanges, PricedEvents

CONSTANTS
    AssetIds, Sources,
    Times,          \* the times events and prices may have
    MaxBatch, MaxPrices

RepriceAssumption ==
    /\ PlanAssumption /\ PricingAssumption
    /\ Times \subseteq Nat /\ \E last \in Times : \A t \in Times : t <= last
    /\ Sources \subseteq Nat
    /\ MaxBatch \in Nat /\ MaxPrices \in Nat

VARIABLES
    events,     \* the events, with how often each was written (a history keeps every copy)
    prices,     \* the rows of the price table
    range       \* what is to be priced

vars == <<events, prices, range>>

CopyCounts == 1..2
Forever == 1 + CHOOSE t \in Times : \A u \in Times : u <= t

Init ==
    /\ events = {}
    /\ prices = {}
    /\ range \in {[from |-> from, to |-> to] : from \in Times, to \in Times \cup {Forever}}
    /\ range.from < range.to

\* An event is committed, perhaps more than once.
Happen(asset, at, copies) ==
    /\ Cardinality(events) < MaxBatch
    /\ \A e \in events : e.at <= at /\ ~(e.asset = asset /\ e.at = at)
    /\ events' = events \cup {[asset |-> asset, at |-> at, copies |-> copies]}
    /\ UNCHANGED <<prices, range>>

\* A price arrives, whatever its time.
Publish(asset, at, source) ==
    /\ Cardinality(prices) < MaxPrices
    /\ prices' = prices \cup {[asset |-> asset, at |-> at, source |-> source, price |-> 2 * at + source]}
    /\ UNCHANGED <<events, range>>

Next ==
    \E asset \in AssetIds, at \in Times :
        \/ \E copies \in CopyCounts : Happen(asset, at, copies)
        \/ \E source \in Sources : Publish(asset, at, source)

Spec == Init /\ [][Next]_vars

Within(r) == {e \in events : r.from <= e.at /\ e.at < r.to}

\* countEventsStatement: the events of the range in each bucket, with every copy: an upper
\* bound.
Writes == {w \in Within(range) \X CopyCounts : w[2] <= w[1].copies}
Counted(start) == Cardinality({w \in Writes : start <= w[1].at /\ w[1].at < start + BucketMs})
Buckets == [i \in 1..(Forever \div BucketMs + 1) |->
                [start |-> (i - 1) * BucketMs, events |-> Counted((i - 1) * BucketMs)]]
Plan == Planned(range.from, range.to, Buckets)

\* repriceRanges: one statement for each range of the plan that counts an event.
Stored == [i \in DOMAIN Plan |-> IF Plan[i].events > 0 THEN Priced(Within(Plan[i]), prices) ELSE {}]

-----------------------------------------------------------------------------
\* What an event is worth on its own: the last price at or before it and the first at or
\* after it, of those within reach.
AtMost(e, p) == p.asset = e.asset /\ p.at <= e.at /\ e.at - p.at <= Reach
AtLeast(e, p) == p.asset = e.asset /\ e.at <= p.at /\ p.at - e.at <= Reach
Best(candidates, Nearer(_, _)) ==
    IF candidates = {} THEN {}
    ELSE {CHOOSE p \in candidates : \A q \in candidates :
            Nearer(p, q) \/ (p.at = q.at /\ q.source <= p.source)}
Worth(e) ==
    Price(e, [before |-> Best({p \in prices : AtMost(e, p)}, LAMBDA p, q : p.at > q.at),
              after |-> Best({p \in prices : AtLeast(e, p)}, LAMBDA p, q : p.at < q.at)])

\* pricing.ts:84, "the result depends on the event alone and not on which other events are
\* priced with it": every event of the range is stored by exactly one statement, with what
\* it is worth on its own, however the range is cut.
Repriced ==
    LET stored == Stored
        of(e) == {i \in DOMAIN stored : \E row \in stored[i] : row.event = e}
    IN  \A e \in events :
            /\ Cardinality(of(e)) = IF e \in Within(range) THEN 1 ELSE 0
            /\ \A i \in of(e) : [event |-> e, price |-> Worth(e)] \in stored[i]

\* ranges.ts:36: the ranges follow one another from the range's start to its end, and a
\* statement's events and the days they span are bounded, unless one bucket alone is more.
ChunksBounded ==
    LET plan == Plan
        times(r) == {e.at : e \in Within(r)}
    IN  /\ plan[1].from = range.from /\ plan[Len(plan)].to = range.to
        /\ \A i \in DOMAIN plan : plan[i].from < plan[i].to /\ (i > 1 => plan[i].from = plan[i - 1].to)
        /\ \A i \in DOMAIN plan :
            \/ plan[i].events <= MaxEvents /\ \A t, u \in times(plan[i]) : t - u < MaxSpanMs
            \/ \A t, u \in times(plan[i]) : t \div BucketMs = u \div BucketMs
=============================================================================
