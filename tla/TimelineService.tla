---------------------------- MODULE TimelineService ----------------------------
(***************************************************************************)
(* The API's timeline lookup (apps/api/src/timeline/service.ts): the cache *)
(* keyed by the active version, the single flight of builds, the limiter   *)
(* their queries pass, the remembered refusals of accounts that are too    *)
(* large, and the version itself, read in the background while switches    *)
(* retarget the API views one after the other.                             *)
(*                                                                         *)
(* A lookup is one step up to its await; what it answers needs no state.   *)
(* The miss budgets, an open breaker and a full queue all refuse a build   *)
(* before it has changed anything: that is a choice here (Refuse).         *)
(***************************************************************************)
EXTENDS LimiterConstants, Sequences, SequencesExt, FiniteSets, Functions

CONSTANTS
    Addresses,
    Versions,       \* of deployments, in the order they are made
    Builds,         \* identities for the builds in progress; bounds how many there are
    MaxBytes,
    Sizes,          \* the bytes a compressed response may take
    MaxTooLarge,    \* TOO_LARGE_MAX_ENTRIES
    Rollbacks,      \* whether a switch may go back to an older version
    MaxSwitches,    \* bound: switches in a behaviour
    MaxEvents       \* bound: events of an account

NoVersion == 0

ASSUME TimelineServiceAssumption ==
    /\ Versions \subseteq Nat \ {NoVersion}
    /\ MaxTooLarge \in Nat \ {0}
    /\ MaxBytes \in Nat /\ Sizes \subseteq Nat \ {0}
    /\ MaxEvents \in Nat
    /\ Rollbacks \in BOOLEAN

VARIABLES
    view,           \* the version each API view reads (ClickHouse)
    target, place,  \* the last switch: its version and the views it has retargeted
    switches,       \* how many there have been
    events,         \* how many events each account has
    known,          \* current?.version: what the API knows as active, NoVersion: nothing yet
    reading,        \* the answer of the running api_status query, NoVersion: none runs
    entries, used,  \* the cache
    flight,         \* the single flight's Map: the build of each key in it
    build,          \* the builds in progress
    active, waiting, inside, \* the limiter
    tooLarge        \* the keys found too large, oldest first, and whether to forget them

cache == <<entries, used>>
queries == <<active, waiting, inside>>
clickhouse == <<view, target, place, switches, events>>
status == <<known, reading>>
vars == <<clickhouse, status, cache, flight, build, queries, tooLarge>>

Keys == (Versions \cup {NoVersion}) \X Addresses
\* What a timeline's rows were read from: the version, and how many of the events.
Timelines == [from : Versions, events : 0..MaxEvents]

Cache == INSTANCE ByteLru WITH Values <- Timelines
Limiter == INSTANCE ConcurrencyLimiter WITH Calls <- Builds

\* keyOf: the version known when the lookup starts is part of the key for good.
KeyOfAddress(a) == <<NoVersion, a>>
KeyOf(a) == <<known, a>>
AddressOf(k) == k[2]

ApiViewsStatusFirst == <<"api_status", "user_timeline_api">>

\* The views of timeline.ts:115 that a lookup depends on, in the order a switch
\* retargets them.
ApiViews == <<"user_timeline_api", "api_status">>

NoRows == [from |-> NoVersion, events |-> 0]
NoBuild == [at |-> "none", key |-> <<NoVersion, NoVersion>>, rows |-> NoRows]

TypeOK ==
    /\ view \in [Range(ApiViews) -> Versions]
    /\ target \in Versions /\ place \in 0..Len(ApiViews)
    /\ switches \in 0..MaxSwitches
    /\ events \in [Addresses -> 0..MaxEvents]
    /\ {known, reading} \subseteq Versions \cup {NoVersion}
    /\ Cache!TypeOK
    /\ DOMAIN flight \subseteq Keys /\ Range(flight) \subseteq Builds
    /\ \A b \in Builds :
        \/ build[b] = NoBuild
        \/ build[b].at = "query" /\ build[b].key \in Keys
        \/ build[b].at = "gzip" /\ build[b].key \in Keys /\ build[b].rows \in Timelines
    /\ Limiter!TypeOK
    /\ tooLarge \in Seq([key : Keys, over : BOOLEAN]) /\ Len(tooLarge) <= MaxTooLarge

\* The API starts while a version is active; its first read may have failed.
Init ==
    /\ target \in Versions /\ place = Len(ApiViews)
    /\ \A v \in Versions : target <= v
    /\ view = [name \in Range(ApiViews) |-> target]
    /\ switches = 0
    /\ events = [a \in Addresses |-> 0]
    /\ known \in {NoVersion, target} /\ reading = NoVersion
    /\ Cache!Init
    /\ flight = <<>>
    /\ build = [b \in Builds |-> NoBuild]
    /\ Limiter!Init
    /\ tooLarge = <<>>

-----------------------------------------------------------------------------
(* ClickHouse, as the other programs change it.                            *)

NewEvent(a) ==
    /\ events[a] < MaxEvents
    /\ events' = [events EXCEPT ![a] = @ + 1]
    /\ UNCHANGED <<view, target, place, switches, status, cache, flight, build, queries, tooLarge>>

\* A switch starts, whether or not the one before it got to its end.
StartSwitch(v) ==
    /\ switches < MaxSwitches
    /\ v # target
    /\ Rollbacks \/ v > target
    /\ target' = v /\ place' = 0 /\ switches' = switches + 1
    /\ UNCHANGED <<view, events, status, cache, flight, build, queries, tooLarge>>

\* It gives the next view the version, in one statement.
Retarget ==
    /\ place < Len(ApiViews)
    /\ place' = place + 1
    /\ view' = [view EXCEPT ![ApiViews[place']] = target]
    /\ UNCHANGED <<target, switches, events, status, cache, flight, build, queries, tooLarge>>

-----------------------------------------------------------------------------
(* The version, refreshed every STATUS_REFRESH_SECONDS (main.ts).  A read  *)
(* gives up sooner than the next one starts, so there is one at a time.    *)

ReadStatus ==
    /\ reading = NoVersion
    /\ reading' = view["api_status"]
    /\ UNCHANGED <<clickhouse, known, cache, flight, build, queries, tooLarge>>

LearnStatus ==
    /\ reading # NoVersion
    /\ known' = reading
    /\ reading' = NoVersion
    /\ UNCHANGED <<clickhouse, cache, flight, build, queries, tooLarge>>

\* The last good version is kept.
MissStatus ==
    /\ reading # NoVersion
    /\ reading' = NoVersion
    /\ UNCHANGED <<clickhouse, known, cache, flight, build, queries, tooLarge>>

-----------------------------------------------------------------------------
(* Lookups.                                                                *)

\* The key was found too large not long ago: the lookup answers so and changes nothing.
Refused(k) == \E i \in DOMAIN tooLarge : tooLarge[i].key = k /\ ~tooLarge[i].over

\* The part of a lookup every answer shares.
Look(a) ==
    /\ ~Refused(KeyOf(a))
    /\ tooLarge' = SelectSeq(tooLarge, LAMBDA e : e.key # KeyOf(a))
    /\ Cache!Get(KeyOf(a))
    /\ UNCHANGED <<clickhouse, status>>

InFlight(k) == k \in DOMAIN flight

\* single flight: a build takes the key until it settles, and the limiter's word is next.
StartBuild(k, b) ==
    /\ build[b] = NoBuild
    /\ flight' = [x \in DOMAIN flight \cup {k} |-> IF x = k THEN b ELSE flight[x]]
    /\ build' = [build EXCEPT ![b] = [at |-> "query", key |-> k, rows |-> NoRows]]
    /\ Limiter!Enter(b) \/ Limiter!Wait(b)

\* Fresh from memory, stale while a refresh runs already, or a miss that joins a build.
Answer(a) ==
    /\ Cache!LifeOf(KeyOf(a)) = "fresh" \/ InFlight(KeyOf(a))
    /\ Look(a)
    /\ UNCHANGED <<flight, build, queries>>

\* Stale, which costs no budget, or a miss within both budgets: a build starts.
Build(a, b) ==
    /\ Cache!LifeOf(KeyOf(a)) # "fresh"
    /\ ~InFlight(KeyOf(a))
    /\ Look(a)
    /\ StartBuild(KeyOf(a), b)

\* No build: over a budget, the breaker is open, or the queue is full.  The answer is an
\* old copy or an error.
Refuse(a) ==
    /\ Cache!LifeOf(KeyOf(a)) # "fresh"
    /\ ~InFlight(KeyOf(a))
    /\ Look(a)
    /\ UNCHANGED <<flight, build, queries>>

-----------------------------------------------------------------------------
(* Builds.                                                                 *)

SettleKeepsKey(b) ==
    /\ build' = [build EXCEPT ![b] = NoBuild]
    /\ UNCHANGED flight

\* The build settles, either way: whoever waits has the answer, and the key is free.
Settle(b) ==
    /\ flight' = [k \in DOMAIN flight \ {build[b].key} |-> flight[k]]
    /\ build' = [build EXCEPT ![b] = NoBuild]

\* The query answers with the rows of the version the view reads then, of all events so far.
QueryAnswers(b) ==
    /\ build[b].at = "query"
    /\ Limiter!Leave(b)
    /\ build' = [build EXCEPT ![b] =
            [at |-> "gzip", key |-> build[b].key,
             rows |-> [from |-> view["user_timeline_api"], events |-> events[AddressOf(build[b].key)]]]]
    /\ UNCHANGED <<clickhouse, status, cache, flight, tooLarge>>

QueryFailsInItsPlace(b) ==
    /\ build[b].at = "query"
    /\ b \in inside
    /\ Settle(b)
    /\ UNCHANGED <<clickhouse, status, cache, queries, tooLarge>>

\* The query fails or times out.
QueryFails(b) ==
    /\ build[b].at = "query"
    /\ Limiter!Leave(b)
    /\ Settle(b)
    /\ UNCHANGED <<clickhouse, status, cache, tooLarge>>

Remember(k) == Append(IF Len(tooLarge) >= MaxTooLarge THEN Tail(tooLarge) ELSE tooLarge,
                      [key |-> k, over |-> FALSE])

\* Too many rows: remembered under the key, for TOO_LARGE_MS.
QueryTooLarge(b) ==
    /\ build[b].at = "query"
    /\ Limiter!Leave(b)
    /\ Settle(b)
    /\ tooLarge' = Remember(build[b].key)
    /\ UNCHANGED <<clickhouse, status, cache>>

\* The wait for a place was too long (OverloadedError).
WaitTooLong(b) ==
    /\ build[b].at = "query"
    /\ Limiter!TimeOut(b)
    /\ Settle(b)
    /\ UNCHANGED <<clickhouse, status, cache, tooLarge>>

\* The response is compressed and goes into the cache, under the key of the lookup that
\* started the build, whatever version is known by now.
Compressed(b) ==
    /\ build[b].at = "gzip"
    /\ \E bytes \in Sizes : Cache!Set(build[b].key, build[b].rows, bytes)
    /\ Settle(b)
    /\ UNCHANGED <<clickhouse, status, queries, tooLarge>>

\* The items cannot be built of the rows, or not compressed: nothing is cached.
ResponseFails(b) ==
    /\ build[b].at = "gzip"
    /\ Settle(b)
    /\ UNCHANGED <<clickhouse, status, cache, queries, tooLarge>>

-----------------------------------------------------------------------------
Age == Cache!Age /\ UNCHANGED <<clickhouse, status, flight, build, queries, tooLarge>>

\* TOO_LARGE_MS are over for a remembered key.
ForgetTooLarge ==
    /\ \E i \in DOMAIN tooLarge : ~tooLarge[i].over /\ tooLarge' = [tooLarge EXCEPT ![i].over = TRUE]
    /\ UNCHANGED <<clickhouse, status, cache, flight, build, queries>>

Next ==
    \/ \E a \in Addresses : NewEvent(a) \/ Answer(a) \/ Refuse(a)
    \/ \E a \in Addresses, b \in Builds : Build(a, b)
    \/ \E b \in Builds : \/ QueryAnswers(b) \/ QueryFails(b) \/ QueryTooLarge(b)
                         \/ WaitTooLong(b) \/ Compressed(b) \/ ResponseFails(b)
    \/ \E v \in Versions : StartSwitch(v)
    \/ Retarget \/ ReadStatus \/ LearnStatus \/ MissStatus \/ Age \/ ForgetTooLarge

Spec == Init /\ [][Next]_vars

-----------------------------------------------------------------------------
Servable(k) == Cache!LifeOf(k) # "gone"

\* Concurrent lookups of a key share one build ("one shared query", service.ts:156), and a
\* key is in the single flight's Map exactly while its build is in progress: one left
\* there would answer every later lookup with a settled build.
FlightIsTheBuilds ==
    /\ \A b \in Builds : build[b] # NoBuild =>
            InFlight(build[b].key) /\ flight[build[b].key] = b
    /\ \A k \in DOMAIN flight : build[flight[k]] # NoBuild /\ build[flight[k]].key = k

\* The limiter's places and queue are taken by the builds whose query has not settled and
\* by no other: a build that failed, or waits for its compression, holds none.
PlacesAreQueries ==
    /\ inside \cup Range(waiting) = {b \in Builds : build[b].at = "query"}
    /\ Limiter!Bounded /\ Limiter!NoIdlePlace

\* The cache's counter is what its entries take, within the budget, and no key has two
\* entries of which a lookup would drop only one (lru.ts:8).
CacheSound == Cache!WithinBudget /\ Cache!OneEntryPerKey

\* What is counted is what there is: the cache's bytes its entries, the limiter's places the
\* builds that query.
Counted == CacheSound /\ PlacesAreQueries

\* What is cached under a version was never read from an older one, though the version is
\* known from one view and the rows come from another, at another moment.  (The same.)
HoldsItsVersion ==
    \A i \in DOMAIN entries : entries[i].value.from >= entries[i].key[1]

\* "a switch must not serve timelines cached from the previous version" (main.ts:25): when
\* the API learns another version, no lookup finds one that was read from the version
\* before and is in the cache already.
NothingOfPrevious ==
    [][(known' # known /\ known # NoVersion) =>
        \A a \in Addresses :
            Servable(KeyOf(a))' => Cache!EntryOf(KeyOf(a))'.value.from # known]_vars
=============================================================================
