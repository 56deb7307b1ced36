------------------------------- MODULE UserView -------------------------------
(***************************************************************************)
(* What a user sees of their timeline: the headers the API's route sends   *)
(* (apps/api/src/routes/timeline.ts and the lifetimes of                   *)
(* apps/api/src/timeline/service.ts), and the way of an answer through two *)
(* HTTP caches that obey them, the edge's and the browser's, as            *)
(* apps/indexer/scripts/watchTimeline.ts has them.                         *)
(*                                                                         *)
(* A timeline is its generation, which is also its ETag: one per change of *)
(* the account's events or of their prices.  Time is in ticks.  An origin  *)
(* reads and answers in one step, however long after it was asked.         *)
(***************************************************************************)
EXTENDS Integers, FiniteSetsExt

CONSTANTS
    OriginFresh,        \* per kind: ORIGIN_FRESH_MS with its jitter, a set
    OriginStale,        \* per kind: ORIGIN_STALE_MS
    OriginError,        \* ORIGIN_ERROR_MS
    MaxAge, SMaxAge, StaleWhileRevalidate,  \* per header: its Cache-Control
    ActiveWindow,       \* ACTIVE_WINDOW_MS
    MaxGenerations, MaxTime                 \* bounds

Timelines == {"empty", "idle", "active"}
Headers == Timelines \cup {"degraded", "unavailable", "too-large", "not-a-user"}

\* The lifetimes of a copy, with their jitter, are none of them nothing and one the longest.
ViewAssumption ==
    /\ OriginFresh \in [Timelines -> SUBSET (Nat \ {0})]
    /\ \A kind \in Timelines : \E most \in OriginFresh[kind] : \A fresh \in OriginFresh[kind] : fresh <= most
    /\ OriginStale \in [Timelines -> Nat] /\ OriginError \in Nat
    /\ {MaxAge, SMaxAge, StaleWhileRevalidate} \subseteq [Headers -> Nat]
    /\ MaxGenerations \in Nat

VARIABLES
    now,
    latest, newest, \* the generation of the timeline, and when its newest event happened
    goneAt,         \* per generation: when it was replaced
    stored,         \* the service's cache entry of the account
    rebuilding,     \* whether a refresh of it runs in the background
    lastBody,       \* of originUpstream
    edge, browser,  \* the layers' entries
    asked,          \* the ETags the edge asks the origin with: one while it refreshes
    waits,          \* which layers wait for it, and whether the user does
    shown           \* the answer the user has just been given

source == <<latest, newest, goneAt>>
origin == <<stored, rebuilding, lastBody>>
vars == <<now, source, origin, edge, browser, asked, waits, shown>>

Generations == 0..MaxGenerations
NoTag == -1
ErrorBody == -2
NoAnswer == [etag |-> NoTag, header |-> "unavailable", body |-> ErrorBody, of |-> "empty"]
NoEntry == [answer |-> NoAnswer, storedAt |-> -1]

Init ==
    /\ now = 0
    /\ latest = 0 /\ newest = 0 /\ goneAt = [g \in Generations |-> 0]
    /\ stored = {} /\ rebuilding = FALSE /\ lastBody = ErrorBody
    /\ edge = NoEntry /\ browser = NoEntry
    /\ asked = {} /\ waits = {}
    /\ shown = NoAnswer

-----------------------------------------------------------------------------
(* The account's timeline.                                                 *)

\* An event is indexed, with its block's time or long after it, or one is priced again.
Change ==
    /\ latest < MaxGenerations
    /\ latest' = latest + 1
    /\ goneAt' = [goneAt EXCEPT ![latest] = now]
    /\ newest' \in {newest, now}
    /\ UNCHANGED <<now, origin, edge, browser, asked, waits, shown>>

Tick ==
    /\ now < MaxTime
    /\ now' = now + 1
    /\ shown' = NoAnswer
    /\ UNCHANGED <<source, origin, edge, browser, asked, waits>>

-----------------------------------------------------------------------------
(* The service: its copy and the lifetimes it gives it.                    *)

Kind == IF latest = 0 THEN "empty" ELSE IF now - newest < ActiveWindow THEN "active" ELSE "idle"

Built(copies) ==
    \E fresh \in OriginFresh[Kind] :
        copies = {[generation |-> latest, kind |-> Kind, freshUntil |-> now + fresh]}

StaleUntil(copy) == copy.freshUntil + OriginStale[copy.kind]
Fresh == {copy \in stored : now < copy.freshUntil}
Stale == {copy \in stored : copy.freshUntil <= now /\ now < StaleUntil(copy)}
LastResort == {copy \in stored : now < StaleUntil(copy) + OriginError} \ (Fresh \cup Stale)

\* The refresh a stale answer started in the background: it may fail.
Refreshed ==
    /\ rebuilding
    /\ rebuilding' = FALSE
    /\ UNCHANGED stored \/ Built(stored')
    /\ UNCHANGED <<now, source, lastBody, edge, browser, asked, waits, shown>>

-----------------------------------------------------------------------------
(* The layers.                                                             *)

FromCopy(copy, header) ==
    [etag |-> copy.generation, header |-> header, body |-> copy.generation, of |-> copy.kind]

\* originUpstream: the answer the edge gets for what the route answered; a 304 has no body.
NotModifiedIfAny(tag, a) == tag # NoTag /\ a.etag # NoTag
NotModified(tag, a) == tag = a.etag /\ tag # NoTag
Body(tag, a) == IF NotModified(tag, a) THEN lastBody ELSE a.body
Arrived(tag, a) ==
    [a EXCEPT !.body = Body(tag, a), !.etag = IF a.etag = NoTag THEN tag ELSE a.etag]

\* The age an answer has at the layer that stored it is kept by the next one.
EntryWithoutAge(a, age) == [answer |-> a, storedAt |-> now]
Entry(a, age) == [answer |-> a, storedAt |-> now - age]
Age(entry) == now - entry.storedAt

EdgeLifetime(h) == SMaxAge[h]
BrowserLifetime(h) == MaxAge[h]

IsFresh(entry, Lifetime(_)) == entry # NoEntry /\ Age(entry) < Lifetime(entry.answer.header)
IsStale(entry, Lifetime(_)) ==
    /\ entry # NoEntry /\ ~IsFresh(entry, Lifetime)
    /\ Age(entry) < Lifetime(entry.answer.header) + StaleWhileRevalidate[entry.answer.header]

\* refresh of the edge: one at a time.
AskOrigin == asked' = IF asked = {} THEN {edge.answer.etag} ELSE asked

\* get of the edge, as the browser's upstream: it answers at once or makes `who` wait.
BrowserAsks(who) ==
    IF "browser" \in waits
    THEN /\ waits' = waits \cup who
         /\ UNCHANGED <<asked, browser>>
    ELSE \/ /\ IsFresh(edge, EdgeLifetime) \/ IsStale(edge, EdgeLifetime)
            /\ browser' = Entry(edge.answer, Age(edge))
            /\ IF IsFresh(edge, EdgeLifetime) THEN UNCHANGED asked ELSE AskOrigin
            /\ UNCHANGED waits
         \/ /\ ~(IsFresh(edge, EdgeLifetime) \/ IsStale(edge, EdgeLifetime))
            /\ AskOrigin
            /\ waits' = waits \cup who \cup {"browser"}
            /\ UNCHANGED browser

\* The user refreshes: get of the browser, and of the edge behind it.
See ==
    /\ "user" \notin waits
    /\ \/ /\ IsFresh(browser, BrowserLifetime)
          /\ shown' = browser.answer
          /\ UNCHANGED <<browser, asked, waits>>
       \/ /\ IsStale(browser, BrowserLifetime)
          /\ shown' = browser.answer
          /\ BrowserAsks({})
       \/ /\ ~IsFresh(browser, BrowserLifetime) /\ ~IsStale(browser, BrowserLifetime)
          /\ BrowserAsks({"user"})
          /\ shown' = IF "user" \in waits' THEN NoAnswer ELSE browser'.answer
    /\ UNCHANGED <<now, source, origin, edge>>

\* The route's answer reaches the edge, and whoever waits.
Answered(tag, a) ==
    LET answer == Arrived(tag, a) IN
    /\ lastBody' = answer.body
    /\ edge' = Entry(answer, 0)
    /\ asked' = {} /\ waits' = {}
    /\ browser' = IF "browser" \in waits THEN Entry(answer, 0) ELSE browser
    /\ shown' = IF "user" \in waits THEN answer ELSE shown
    /\ UNCHANGED <<now, source>>

\* A fresh copy, or a stale one, whose refresh starts.
AnswersCopy(tag) ==
    /\ \E copy \in Fresh \cup Stale :
        /\ Answered(tag, FromCopy(copy, copy.kind))
        /\ rebuilding' = (rebuilding \/ copy \in Stale)
    /\ UNCHANGED stored

AnswersBuilt(tag) ==
    /\ Fresh \cup Stale = {}
    /\ Built(stored')
    /\ \E copy \in stored' : Answered(tag, FromCopy(copy, copy.kind))
    /\ UNCHANGED rebuilding

\* No query could be made: the old copy, if it may still be served, or an error.  An account
\* with too many rows, and an address that is no user's, is refused.
AnswersInstead(tag) ==
    /\ \/ Fresh \cup Stale = {} /\ \E copy \in LastResort : Answered(tag, FromCopy(copy, "degraded"))
       \/ Fresh \cup Stale \cup LastResort = {} /\ Answered(tag, NoAnswer)
       \/ \E h \in {"too-large", "not-a-user"} : Answered(tag, [NoAnswer EXCEPT !.header = h])
    /\ UNCHANGED <<stored, rebuilding>>

\* The request fails: whoever waits gets the error, and the entries stay.
Fails ==
    /\ asked # {}
    /\ asked' = {} /\ waits' = {}
    /\ UNCHANGED <<now, source, origin, edge, browser, shown>>

Next ==
    \/ Change \/ Tick \/ Refreshed \/ See \/ Fails
    \/ \E tag \in asked : AnswersCopy(tag) \/ AnswersBuilt(tag) \/ AnswersInstead(tag)

Spec == Init /\ [][Next]_vars

-----------------------------------------------------------------------------
\* How long after the timeline changed an answer may still be shown: as long as the service may
\* serve its copy, and the layers what they were given, counted once for both of them.
OriginLag(a) ==
    Max(OriginFresh[a.of]) + OriginStale[a.of] + (IF a.header = "degraded" THEN OriginError ELSE 0)
LayersLag(a) == Max({MaxAge[a.header], SMaxAge[a.header]}) + StaleWhileRevalidate[a.header]

\* A user who refreshes never sees a timeline that was replaced longer ago than the lifetimes of
\* its Cache-Control and of the service's copy add up to, whatever failed and whoever asked first
\* (the lifetimes of service.ts:62-73; watchTimeline.ts:12-14 "A real user can only be slower").
SeenInTime ==
    shown.body \in Generations /\ shown.body # latest =>
        now - goneAt[shown.body] < OriginLag(shown) + LayersLag(shown)
===============================================================================
