----------------------------- MODULE PricedEvents -----------------------------
(***************************************************************************)
(* How a batch of events is priced from the 5 minute prices: the CTEs of   *)
(* pricedEventsCtes (packages/clickhouse/src/pricing.ts).  The prices are  *)
(* read for the batch as a whole, by its assets and by its days.           *)
(* A NULL is {}, a value that may be NULL a set of at most one.            *)
(***************************************************************************)
EXTENDS Integers, FiniteSets

CONSTANTS
    Reach,      \* REACH_SECONDS: a price further from the event is not used
    Stale,      \* STALE_SECONDS: two prices further apart make a STALE one
    Day         \* the length of a day

PricingAssumption == Reach \in Nat /\ Stale \in Nat /\ Day \in Nat \ {0}

\* REACH_DAYS.
ReachDaysRoundedDown == Reach \div Day
ReachDays == (Reach + Day - 1) \div Day
DayOf(t) == t \div Day

\* px_days: the assets and the days that may hold prices of the batch.
Assets(batch) == {e.asset : e \in batch}
Days(batch) == UNION {{DayOf(e.at) + offset : offset \in -ReachDays..ReachDays} : e \in batch}

\* px_points: of the prices read, one for each asset and time, of the largest source.
AnySource(prices) == CHOOSE p \in prices : \A q \in prices : p.price <= q.price
LargestSource(prices) == CHOOSE p \in prices : \A q \in prices : q.source <= p.source
PointsOf(batch, prices) ==
    LET read == {p \in prices : p.asset \in Assets(batch) /\ DayOf(p.at) \in Days(batch)}
    IN  {LargestSource({q \in read : q.asset = p.asset /\ q.at = p.at}) : p \in read}

\* px_series: the next point of each point.
Following(points, p) ==
    LET later == {q \in points : q.asset = p.asset /\ q.at > p.at}
    IN  IF later = {} THEN {} ELSE {CHOOSE q \in later : \A r \in later : q.at <= r.at}
\* px_slice: the series of an asset starts with a sentinel whose next point is its first.
Sentinel == -1
SliceWithoutSentinel(points) == {[asset |-> p.asset, key |-> p.at, at |-> {p}, next |-> Following(points, p)] : p \in points}
SliceOf(points) ==
    SliceWithoutSentinel(points)
        \cup {[asset |-> p.asset, key |-> Sentinel, at |-> {}, next |-> {p}] :
                p \in {q \in points : \A r \in points : r.asset = q.asset => q.at <= r.at}}

\* px_matched: the slice's last row at or before the event (ASOF JOIN), then its own point
\* and the next, each only within reach.
InReach(e, point) == {p \in point : p.at - e.at <= Reach /\ e.at - p.at <= Reach}
Matched(e, slice) ==
    LET rows == {s \in slice : s.asset = e.asset /\ s.key <= e.at}
        row == CHOOSE s \in rows : \A r \in rows : r.key <= s.key
        after == IF \E p \in row.at : p.at = e.at THEN row.at ELSE row.next
    IN  IF rows = {} THEN [before |-> {}, after |-> {}]
        ELSE [before |-> InReach(e, row.at), after |-> InReach(e, after)]

\* px_flagged and px_priced: the flag, the price as a fraction and the source.
Price(e, m) ==
    LET flat(p, flag) == [flag |-> flag, num |-> p.price, den |-> 1, source |-> p.source]
        b == CHOOSE p \in m.before : TRUE
        a == CHOOSE p \in m.after : TRUE
    IN  CASE m.before # {} /\ m.after # {} /\ a.at = b.at -> flat(b, "OK")
          [] m.before # {} /\ m.after # {} /\ a.at # b.at ->
                [flag |-> IF a.at - b.at > Stale THEN "STALE" ELSE "OK",
                 num |-> b.price * (a.at - b.at) + (a.price - b.price) * (e.at - b.at),
                 den |-> a.at - b.at,
                 source |-> b.source]
          [] m.before # {} /\ m.after = {} -> flat(b, "EXTRAPOLATED")
          [] m.before = {} /\ m.after # {} -> flat(a, "EXTRAPOLATED")
          [] OTHER -> [flag |-> "MISSING", num |-> 0, den |-> 1, source |-> 0]

\* The rows a statement stores for its batch.
Priced(batch, prices) ==
    LET slice == SliceOf(PointsOf(batch, prices))
    IN  {[event |-> e, price |-> Price(e, Matched(e, slice))] : e \in batch}
=============================================================================
