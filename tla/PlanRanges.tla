------------------------------ MODULE PlanRanges ------------------------------
(***************************************************************************)
(* How a reprice is cut in ranges of time that are priced one statement    *)
(* each (packages/clickhouse/src/ranges.ts).  A bucket is a span of        *)
(* BucketMs with the events counted in it; a range is [from, to).          *)
(***************************************************************************)
EXTENDS Integers, Sequences

CONSTANTS
    MaxEvents,      \* the most events a range should hold
    MaxSpanMs,      \* the longest it may span from its first counted event to its last
    BucketMs

PlanAssumption == MaxEvents \in Nat \ {0} /\ MaxSpanMs \in Nat /\ BucketMs \in Nat \ {0}

Least(a, b) == IF a < b THEN a ELSE b
Greatest(a, b) == IF a < b THEN b ELSE a
Ceil(a, b) == (a + b - 1) \div b

\* atomsOf: a bucket clipped to the range and cut in parts of at most MaxEvents, as if its
\* events were spread evenly.
AtomsOf(bucket, from, to) ==
    LET start == Greatest(bucket.start, from)
        end == Least(bucket.start + BucketMs, to)
        parts == Least(Ceil(bucket.events, MaxEvents), end - start)
        cut(i) == start + (i * (end - start)) \div parts
        before(i) == (i * bucket.events) \div parts
    IN  IF bucket.events <= 0 \/ end <= start THEN <<>>
        ELSE [i \in 1..parts |->
                [start |-> cut(i - 1), end |-> cut(i), events |-> before(i) - before(i - 1)]]

\* A range is closed before the atom that would overfill or overstretch it.
ClosesOnOverfill(plan, atom) == plan.events > 0 /\ plan.events + atom.events > MaxEvents
Closes(plan, atom) ==
    /\ plan.events > 0
    /\ \/ plan.events + atom.events > MaxEvents
       \/ \E first \in plan.first : atom.end - first > MaxSpanMs

CloseAfter(plan, atom) ==
    [planned |-> Append(plan.planned, [from |-> plan.start, to |-> atom.start, events |-> plan.events]),
     start |-> atom.end, events |-> 0, first |-> {}]
Close(plan, atom) ==
    [planned |-> Append(plan.planned, [from |-> plan.start, to |-> atom.start, events |-> plan.events]),
     start |-> atom.start, events |-> 0, first |-> {}]

Take(plan, atom) ==
    LET open == IF Closes(plan, atom) THEN Close(plan, atom) ELSE plan
    IN  [open EXCEPT !.events = @ + atom.events, !.first = IF @ = {} THEN {atom.start} ELSE @]

\* The atoms of the buckets, in the order of their starts.
AtomsIn(from, to, buckets) ==
    LET atoms[n \in 0..Len(buckets)] ==
            IF n = 0 THEN <<>> ELSE atoms[n - 1] \o AtomsOf(buckets[n], from, to)
    IN  atoms[Len(buckets)]

\* The loop of planRanges: what is planned when all atoms are taken.
OpenPlan(from) == [planned |-> <<>>, start |-> from, events |-> 0, first |-> {}]
PlanOf(from, atoms) ==
    LET plan[n \in 0..Len(atoms)] == IF n = 0 THEN OpenPlan(from) ELSE Take(plan[n - 1], atoms[n])
    IN  plan[Len(atoms)]

\* planRanges; an open range ends at Forever.
Planned(from, to, buckets) ==
    LET plan == PlanOf(from, AtomsIn(from, to, buckets))
    IN  Append(plan.planned, [from |-> plan.start, to |-> to, events |-> plan.events])
=============================================================================
