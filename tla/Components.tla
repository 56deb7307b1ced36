------------------------------- MODULE Components -------------------------------
(***************************************************************************)
(* Components that are small on their own, side by side.  What is kept of  *)
(* data that lies elsewhere: of a timeline, on its way to the user, by the *)
(* API's cache and the two HTTP caches before it; of the chain's blocks,   *)
(* by the pacing proxy.  What the API keeps of each client's requests.  And *)
(* the statements of a reprice, which keep nothing.                        *)
(***************************************************************************)
EXTENDS Integers

CONSTANTS
    OriginFresh, OriginStale, OriginError, MaxAge, SMaxAge, StaleWhileRevalidate,   \* UserView
    ActiveWindow, MaxGenerations, ViewTime,
    Requests, Txs, SettledDepth, MaxCopies, MaxKnown, Unindexed,                    \* BlockCopies
    MaxHeight, MaxForks, MaxFetches,
    Clients, Hosts, IpSource, Unit, Rate, Burst, MaxKeys, Second, Claimed,            \* ClientLimits
    LimitTime, MaxSetBacks,
    MaxEvents, MaxSpanMs, BucketMs, Reach, StaleGap, Day,                           \* Reprice
    AssetIds, PriceSources, PriceTimes, MaxBatch, MaxPrices

VARIABLES
    time, latest, newest, goneAt, stored, rebuilding, lastBody, edge, browser, asked, waits, shown,
    chain, forks, head, fetches, fullBlocks, transactionBlocks, pc, asks, fetch, got,
    clock, setBacks, buckets, since, granted, comeBack,
    events, prices, range

View == INSTANCE UserView WITH MaxTime <- ViewTime, now <- time
Copies == INSTANCE BlockCopies WITH known <- transactionBlocks
Limits == INSTANCE ClientLimits WITH Claims <- Claimed, MaxTime <- LimitTime, now <- clock
Pricing == INSTANCE Reprice WITH Stale <- StaleGap, Sources <- PriceSources, Times <- PriceTimes

view == <<time, latest, newest, goneAt, stored, rebuilding, lastBody, edge, browser, asked, waits, shown>>
copies == <<chain, forks, head, fetches, fullBlocks, transactionBlocks, pc, asks, fetch, got>>
limits == <<clock, setBacks, buckets, since, granted, comeBack>>
pricing == <<events, prices, range>>

ASSUME CopiesAssumption == View!ViewAssumption /\ Copies!CopiesAssumption
ASSUME LimitsAssumption == Limits!LimitsAssumption
ASSUME PricingAssumption == Pricing!RepriceAssumption

-----------------------------------------------------------------------------
\* A user never sees a timeline replaced longer ago than its lifetimes add up to
\* (service.ts:62-73).
SeenInTime == View!SeenInTime

\* What the proxy answers from a copy is the chain's, unless the copy was fetched to recover a
\* transaction of a block not settled then (rpcPacer.ts:491-504, 554), and no failed fetch is
\* kept (rpcPacer.ts:489).
CopiesKept == Copies!StaleOnlyByRecovery /\ Copies!FailuresNotKept

\* A client has exactly what the burst and the rate give it, and a Retry-After that is true
\* (rateLimit.ts:4).
ExactlyItsRate == [][Limits!ExactlyItsRate]_limits

\* pricing.ts:84, "the result depends on the event alone and not on which other events are
\* priced with it": however a range is cut, each of its events is priced once, as on its own.
Repriced == Pricing!Repriced /\ Pricing!ChunksBounded
=============================================================================
