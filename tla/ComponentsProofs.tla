---------------------------- MODULE ComponentsProofs ----------------------------
(***************************************************************************)
(* Copies that age: what a user is shown of a timeline was replaced no     *)
(* longer ago than the lifetimes it passed add up to.  Copies that stay:   *)
(* what the proxy answers from a block's copy is the chain's, but for the  *)
(* copies fetched to recover a transaction.                                *)
(*                                                                         *)
(* The first argument follows a timeline from the service's copy to the    *)
(* layers: a copy, and an entry, is dated, and its timeline was the latest *)
(* until a time that its date and its lifetime bound.  The second: a block *)
(* below the head's depth is out of the reach of every reorg.              *)
(*                                                                         *)
(* Buckets: what a client is granted is what its bucket accounts for, and  *)
(* a client keeps its bucket until MaxKeys others have asked.              *)
(*                                                                         *)
(* Reprices: the atoms of the buckets cover every event and do not         *)
(* overlap; the plan's ranges follow one another and are cut only where    *)
(* atoms begin; and of the prices read for a batch, the slice's last row   *)
(* at or before an event and its next are the nearest prices there are.    *)
(***************************************************************************)
EXTENDS Components, Sequences, FiniteSets, SequenceTheorems, FiniteSetTheorems,
        NaturalsInduction, WellFoundedInduction, TLAPS

-----------------------------------------------------------------------------
(* The copies of a timeline.                                               *)

LEMMA GreatestIsMax ==
    ASSUME NEW S \in SUBSET Int, \E m \in S : \A n \in S : n <= m
    PROVE  View!Max(S) \in S /\ \A n \in S : n <= View!Max(S)
BY DEF View!Max

\* The longest a copy of a kind is fresh.
LongestFresh(kind) == View!Max(OriginFresh[kind])

LEMMA FreshIsBounded ==
    ASSUME NEW kind \in View!Timelines
    PROVE  /\ LongestFresh(kind) \in Nat \ {0}
           /\ \A fresh \in OriginFresh[kind] : fresh \in Nat /\ fresh <= LongestFresh(kind)
<1>1. OriginFresh[kind] \in SUBSET (Nat \ {0})
  BY CopiesAssumption DEF View!ViewAssumption
<1>2. \E m \in OriginFresh[kind] : \A n \in OriginFresh[kind] : n <= m
  BY CopiesAssumption DEF View!ViewAssumption
<1> QED  BY <1>1, <1>2, GreatestIsMax DEF LongestFresh

\* The lags of an answer are times.
LEMMA LagsAreTimes ==
    ASSUME NEW a, a.of \in View!Timelines, a.header \in View!Headers
    PROVE  /\ View!OriginLag(a) \in Nat \ {0}
           /\ View!LayersLag(a) \in Nat
           /\ MaxAge[a.header] \in Nat /\ SMaxAge[a.header] \in Nat /\ StaleWhileRevalidate[a.header] \in Nat
           /\ MaxAge[a.header] + StaleWhileRevalidate[a.header] <= View!LayersLag(a)
           /\ SMaxAge[a.header] + StaleWhileRevalidate[a.header] <= View!LayersLag(a)
<1>1. /\ MaxAge[a.header] \in Nat /\ SMaxAge[a.header] \in Nat /\ StaleWhileRevalidate[a.header] \in Nat
      /\ OriginStale[a.of] \in Nat /\ OriginError \in Nat
  BY CopiesAssumption DEF View!ViewAssumption
<1>2. View!OriginLag(a) \in Nat \ {0}
  <2>1. PICK longest \in Nat \ {0} : longest = LongestFresh(a.of)
    BY FreshIsBounded
  <2>2. View!OriginLag(a) =
          longest + OriginStale[a.of] + (IF a.header = "degraded" THEN OriginError ELSE 0)
    BY <2>1 DEF View!OriginLag, LongestFresh
  <2> QED  BY <1>1, <2>1, <2>2
<1>3. PICK both : both = {MaxAge[a.header], SMaxAge[a.header]}
  OBVIOUS
<1>4. View!Max(both) \in both /\ \A n \in both : n <= View!Max(both)
  BY <1>1, <1>3, GreatestIsMax
<1>5. View!LayersLag(a) = View!Max(both) + StaleWhileRevalidate[a.header]
  BY <1>3 DEF View!LayersLag
<1> QED  BY <1>1, <1>2, <1>3, <1>4, <1>5

-----------------------------------------------------------------------------
\* When a generation was the latest for the last time, so far.
LastTime(g) == IF g = latest THEN time ELSE goneAt[g]

CopyType == [generation : View!Generations, kind : View!Timelines, freshUntil : Int]
AnswerType == [etag : View!Generations \cup {View!NoTag}, header : View!Headers,
               body : View!Generations \cup {View!ErrorBody}, of : View!Timelines]
EntryType == [answer : AnswerType, storedAt : Int]

\* A generation that has been, replaced less than lag before t.
Dated(g, t, lag) == g \in View!Generations => g <= latest /\ t < LastTime(g) + lag

\* The service's copies.
StoredInv ==
    /\ time \in Nat
    /\ latest \in View!Generations
    /\ goneAt \in [View!Generations -> Nat]
    /\ stored \subseteq CopyType
    /\ \A copy \in stored :
          copy.generation <= latest /\ copy.freshUntil <= LastTime(copy.generation) + LongestFresh(copy.kind)

EntryDated(entry) == Dated(entry.answer.body, entry.storedAt, View!OriginLag(entry.answer))

\* The edge, while it asks; its body is the one of its ETag, or an error's.
EdgeInv ==
    /\ edge \in EntryType
    /\ asked \subseteq {edge.answer.etag}
    /\ lastBody = edge.answer.body
    /\ edge.answer.body \in {edge.answer.etag, View!ErrorBody}
    /\ EntryDated(edge)
BrowserInv == browser \in EntryType /\ EntryDated(browser)
ShownInv ==
    /\ shown \in AnswerType
    /\ Dated(shown.body, time, View!OriginLag(shown) + View!LayersLag(shown))

ViewInv == StoredInv /\ EdgeInv /\ BrowserInv /\ ShownInv

LEMMA ViewStarts == View!Init => ViewInv
<1> SUFFICES ASSUME View!Init  PROVE ViewInv
  OBVIOUS
<1> USE DEF View!Init
<1>1. View!NoAnswer \in AnswerType /\ View!NoAnswer.body = View!ErrorBody
  BY DEF View!NoAnswer, AnswerType, View!NoTag, View!ErrorBody, View!Headers, View!Timelines
<1>2. View!ErrorBody \notin View!Generations
  BY CopiesAssumption DEF View!ErrorBody, View!Generations
<1>3. View!NoEntry \in EntryType /\ View!NoEntry.answer = View!NoAnswer
  BY <1>1 DEF View!NoEntry, EntryType
<1>4. StoredInv
  BY CopiesAssumption DEF StoredInv, View!ViewAssumption, View!Generations
<1>5. EdgeInv
  BY <1>1, <1>2, <1>3 DEF EdgeInv, EntryDated, Dated
<1>6. BrowserInv
  BY <1>1, <1>2, <1>3 DEF BrowserInv, EntryDated, Dated
<1>7. ShownInv
  BY <1>1, <1>2 DEF ShownInv, Dated
<1> QED  BY <1>4, <1>5, <1>6, <1>7 DEF ViewInv

\* Time passes and the account changes: a generation has been the latest until then.
LEMMA DatesStay ==
    ASSUME StoredInv,
           \/ latest' = latest /\ goneAt' = goneAt /\ time' \in Nat /\ time' >= time
           \/ latest' = latest + 1 /\ goneAt' = [goneAt EXCEPT ![latest] = time] /\ time' = time,
           NEW g \in View!Generations, g <= latest
    PROVE  g <= latest' /\ LastTime(g)' >= LastTime(g) /\ LastTime(g) \in Nat /\ LastTime(g)' \in Nat
<1> USE DEF StoredInv, LastTime, View!Generations
<1>1. latest \in Nat /\ g \in Nat
  OBVIOUS
<1>2. CASE latest' = latest /\ goneAt' = goneAt /\ time' \in Nat /\ time' >= time
  BY <1>1, <1>2
<1>3. CASE latest' = latest + 1 /\ goneAt' = [goneAt EXCEPT ![latest] = time] /\ time' = time
  BY <1>1, <1>3
<1> QED  BY <1>2, <1>3

\* An entry that is fresh or stale for a layer is not older than its lifetime there.
LEMMA ServedIsInTime ==
    ASSUME StoredInv, NEW entry \in EntryType, EntryDated(entry),
           \/ time - entry.storedAt < MaxAge[entry.answer.header] + StaleWhileRevalidate[entry.answer.header]
           \/ time - entry.storedAt < SMaxAge[entry.answer.header] + StaleWhileRevalidate[entry.answer.header]
    PROVE  /\ entry.answer \in AnswerType
           /\ Dated(entry.answer.body, time, View!OriginLag(entry.answer) + View!LayersLag(entry.answer))
<1> DEFINE a == entry.answer
<1>1. a \in AnswerType /\ entry.storedAt \in Int
  BY DEF EntryType
<1>2. a.of \in View!Timelines /\ a.header \in View!Headers
  BY <1>1 DEF AnswerType
<1>3. PICK lag \in Nat, more \in Nat : lag = View!OriginLag(a) /\ more = View!LayersLag(a)
  BY <1>2, LagsAreTimes
<1>4. time - entry.storedAt < more
  BY <1>1, <1>2, <1>3, LagsAreTimes DEF StoredInv
<1>5. ASSUME a.body \in View!Generations
      PROVE  a.body <= latest /\ time < LastTime(a.body) + (lag + more)
  <2>1. a.body <= latest /\ entry.storedAt < LastTime(a.body) + lag
    BY <1>3, <1>5 DEF EntryDated, Dated
  <2>2. LastTime(a.body) \in Nat
    BY <1>5 DEF LastTime, StoredInv
  <2> QED  BY <1>1, <1>3, <1>4, <2>1, <2>2 DEF StoredInv
<1> QED  BY <1>1, <1>3, <1>5 DEF Dated

\* A change and a tick: what is dated stays so, and what is shown is cleared by time.
LEMMA DatedStays ==
    ASSUME StoredInv,
           \/ latest' = latest /\ goneAt' = goneAt /\ time' \in Nat /\ time' >= time
           \/ latest' = latest + 1 /\ goneAt' = [goneAt EXCEPT ![latest] = time] /\ time' = time,
           NEW g, NEW t \in Int, NEW lag \in Int, Dated(g, t, lag)
    PROVE  Dated(g, t, lag)'
<1> SUFFICES ASSUME g \in View!Generations
             PROVE  g <= latest' /\ t < LastTime(g)' + lag
  BY DEF Dated
<1>1. g <= latest /\ t < LastTime(g) + lag
  BY DEF Dated
<1>2. g <= latest' /\ LastTime(g)' >= LastTime(g) /\ LastTime(g) \in Nat /\ LastTime(g)' \in Nat
  BY <1>1, DatesStay
<1> QED  BY <1>1, <1>2

LEMMA TimeMoves ==
    ASSUME ViewInv, latest' \in View!Generations, UNCHANGED <<stored, lastBody, edge, browser, asked>>,
           \/ latest' = latest /\ goneAt' = goneAt /\ time' \in Nat /\ time' >= time
           \/ latest' = latest + 1 /\ goneAt' = [goneAt EXCEPT ![latest] = time] /\ time' = time
    PROVE  StoredInv' /\ EdgeInv' /\ BrowserInv'
<1> USE DEF ViewInv
<1>1. StoredInv'
  <2>1. ASSUME NEW copy \in stored
        PROVE  /\ copy.generation <= latest'
               /\ copy.freshUntil <= LastTime(copy.generation)' + LongestFresh(copy.kind)
    <3>1. copy \in CopyType /\ copy.generation <= latest
      BY DEF StoredInv
    <3>2. copy.generation \in View!Generations /\ copy.kind \in View!Timelines /\ copy.freshUntil \in Int
      BY <3>1 DEF CopyType
    <3>3. PICK longest \in Nat : longest = LongestFresh(copy.kind)
      BY <3>2, FreshIsBounded
    <3>4. copy.freshUntil <= LastTime(copy.generation) + longest
      BY <3>3 DEF StoredInv
    <3>5. /\ copy.generation <= latest'
          /\ LastTime(copy.generation)' >= LastTime(copy.generation)
          /\ LastTime(copy.generation) \in Nat /\ LastTime(copy.generation)' \in Nat
      BY <3>1, <3>2, DatesStay
    <3> QED  BY <3>2, <3>3, <3>4, <3>5
  <2>2. time' \in Nat /\ goneAt' \in [View!Generations -> Nat]
    BY DEF StoredInv
  <2> QED  BY <2>1, <2>2 DEF StoredInv, LongestFresh
<1>2. ASSUME NEW entry \in EntryType, EntryDated(entry)
      PROVE  EntryDated(entry)'
  <2>1. entry.answer \in AnswerType /\ entry.storedAt \in Int
    BY <1>2 DEF EntryType
  <2>2. entry.answer.of \in View!Timelines /\ entry.answer.header \in View!Headers
    BY <2>1 DEF AnswerType
  <2>3. PICK lag \in Nat : lag = View!OriginLag(entry.answer)
    BY <2>2, LagsAreTimes
  <2>4. Dated(entry.answer.body, entry.storedAt, lag)
    BY <1>2, <2>3 DEF EntryDated
  <2>5. Dated(entry.answer.body, entry.storedAt, lag)'
    BY <2>1, <2>4, DatedStays
  <2> QED  BY <2>3, <2>5 DEF EntryDated, View!OriginLag
<1>3. EdgeInv'
  <2>1. EntryDated(edge)'
    BY <1>2 DEF EdgeInv, EntryDated, Dated
  <2> QED  BY <2>1 DEF EdgeInv
<1>4. BrowserInv'
  <2>1. EntryDated(browser)'
    BY <1>2 DEF BrowserInv, EntryDated, Dated
  <2> QED  BY <2>1 DEF BrowserInv
<1> QED  BY <1>1, <1>3, <1>4

LEMMA ChangeKeeps == ASSUME ViewInv, View!Change  PROVE ViewInv'
<1>1. /\ latest' = latest + 1 /\ goneAt' = [goneAt EXCEPT ![latest] = time] /\ time' = time
      /\ UNCHANGED <<stored, lastBody, edge, browser, asked, shown>>
  BY DEF View!Change, View!origin
<1>2. latest' \in View!Generations
  BY CopiesAssumption DEF View!Change, ViewInv, StoredInv, View!Generations, View!ViewAssumption
<1>3. StoredInv' /\ EdgeInv' /\ BrowserInv'
  BY <1>1, <1>2, TimeMoves
<1>4. ShownInv'
  <2>1. shown \in AnswerType
    BY DEF ViewInv, ShownInv
  <2>2. shown.of \in View!Timelines /\ shown.header \in View!Headers
    BY <2>1 DEF AnswerType
  <2>3. PICK lag \in Nat : lag = View!OriginLag(shown) + View!LayersLag(shown)
    BY <2>2, LagsAreTimes
  <2>4. Dated(shown.body, time, lag)
    BY <2>3 DEF ViewInv, ShownInv
  <2>5. StoredInv /\ time \in Int
    BY DEF ViewInv, StoredInv
  <2>6. Dated(shown.body, time, lag)'
    BY <1>1, <2>4, <2>5, DatedStays
  <2> QED  BY <1>1, <2>1, <2>3, <2>6 DEF ShownInv, View!OriginLag, View!LayersLag
<1> QED  BY <1>3, <1>4 DEF ViewInv

LEMMA NothingIsShown == shown' = View!NoAnswer => ShownInv'
<1>1. View!NoAnswer \in AnswerType /\ View!NoAnswer.body = View!ErrorBody
  BY DEF View!NoAnswer, AnswerType, View!NoTag, View!ErrorBody, View!Headers, View!Timelines
<1>2. View!ErrorBody \notin View!Generations
  BY CopiesAssumption DEF View!ErrorBody, View!Generations
<1> QED  BY <1>1, <1>2 DEF ShownInv, Dated

LEMMA TickKeeps == ASSUME ViewInv, View!Tick  PROVE ViewInv'
<1>1. /\ latest' = latest /\ goneAt' = goneAt /\ time' = time + 1 /\ shown' = View!NoAnswer
      /\ UNCHANGED <<stored, lastBody, edge, browser, asked>>
  BY DEF View!Tick, View!origin, View!source
<1>2. time' \in Nat /\ time' >= time /\ latest' \in View!Generations
  BY <1>1 DEF ViewInv, StoredInv
<1>3. StoredInv' /\ EdgeInv' /\ BrowserInv'
  BY <1>1, <1>2, TimeMoves
<1> QED  BY <1>1, <1>3, NothingIsShown DEF ViewInv

\* A copy just built is of the timeline as it is.
LEMMA BuiltIsDated == ASSUME StoredInv, View!Built(stored'), UNCHANGED <<time, latest, goneAt>>
                      PROVE  StoredInv'
<1>1. PICK fresh \in OriginFresh[View!Kind] :
        stored' = {[generation |-> latest, kind |-> View!Kind, freshUntil |-> time + fresh]}
  BY DEF View!Built
<1>2. View!Kind \in View!Timelines
  BY DEF View!Kind, View!Timelines
<1>3. fresh \in Nat /\ fresh <= LongestFresh(View!Kind) /\ LongestFresh(View!Kind) \in Nat
  BY <1>1, <1>2, FreshIsBounded
<1>4. stored' \subseteq CopyType
  BY <1>1, <1>2, <1>3 DEF CopyType, StoredInv
<1>5. ASSUME NEW copy \in stored'
      PROVE  /\ copy.generation <= latest
             /\ copy.freshUntil <= LastTime(copy.generation) + LongestFresh(copy.kind)
  BY <1>1, <1>3, <1>5 DEF StoredInv, LastTime, View!Generations
<1> QED  BY <1>4, <1>5 DEF StoredInv, LastTime, LongestFresh

\* An answer of a copy that is served, fresh, stale or as a last resort.
Sound(a) ==
    /\ a \in AnswerType
    /\ IF a.etag = View!NoTag THEN a.body = View!ErrorBody ELSE a.body = a.etag
    /\ Dated(a.body, time, View!OriginLag(a))

\* The answer the edge makes of it, with its own ETag: a 304 gives back the body of that.
LEMMA ArrivesSound ==
    ASSUME ViewInv, NEW tag \in asked, NEW a, Sound(a)
    PROVE  LET answer == View!Arrived(tag, a) IN
             /\ answer \in AnswerType
             /\ answer.body \in {answer.etag, View!ErrorBody}
             /\ Dated(answer.body, time, View!OriginLag(answer))
<1>1. View!ErrorBody \notin View!Generations /\ View!NoTag \notin View!Generations
  BY CopiesAssumption DEF View!ErrorBody, View!NoTag, View!Generations
<1>2. /\ tag = edge.answer.etag /\ tag \in View!Generations \cup {View!NoTag}
      /\ lastBody \in {tag, View!ErrorBody}
  BY DEF ViewInv, EdgeInv, EntryType, AnswerType
<1>3. a \in AnswerType
  BY DEF Sound
<1>4. PICK answer : answer = View!Arrived(tag, a)
  OBVIOUS
<1>5. /\ answer.etag = IF a.etag = View!NoTag THEN tag ELSE a.etag
      /\ answer.body = View!Body(tag, a)
      /\ answer.header = a.header /\ answer.of = a.of
      /\ answer = [etag |-> answer.etag, header |-> a.header, body |-> answer.body, of |-> a.of]
  BY <1>3, <1>4 DEF View!Arrived, AnswerType
<1>6. View!Body(tag, a) \in {a.body, View!ErrorBody} /\ a.body \in {a.etag, View!ErrorBody}
  BY <1>1, <1>2, <1>3 DEF View!Body, View!NotModified, Sound, AnswerType
<1>7. answer.body \in {answer.etag, View!ErrorBody}
  BY <1>5, <1>6, <1>2 DEF Sound
<1>8. answer \in AnswerType
  <2>1. answer.body \in View!Generations \cup {View!ErrorBody}
    BY <1>3, <1>5, <1>6 DEF AnswerType
  <2>2. answer.etag \in View!Generations \cup {View!NoTag}
    BY <1>2, <1>3, <1>5 DEF AnswerType
  <2>3. a.header \in View!Headers /\ a.of \in View!Timelines
    BY <1>3 DEF AnswerType
  <2> QED  BY <1>5, <2>1, <2>2, <2>3 DEF AnswerType
<1>9. Dated(answer.body, time, View!OriginLag(answer))
  <2>1. View!OriginLag(answer) = View!OriginLag(a)
    BY <1>5 DEF View!OriginLag
  <2> QED  BY <1>1, <1>5, <1>6, <2>1 DEF Sound, Dated
<1> QED  BY <1>4, <1>7, <1>8, <1>9

\* It is what the edge keeps then, and whoever waits for it.
LEMMA AnsweredKeeps ==
    ASSUME ViewInv, NEW tag \in asked, NEW a, Sound(a), View!Answered(tag, a)
    PROVE  EdgeInv' /\ BrowserInv' /\ ShownInv' /\ UNCHANGED <<time, latest, goneAt>>
<1>1. UNCHANGED <<time, latest, goneAt>>
  BY DEF View!Answered, View!source
<1>2. PICK answer : answer = View!Arrived(tag, a)
  OBVIOUS
<1>3. /\ answer \in AnswerType
      /\ answer.body \in {answer.etag, View!ErrorBody}
      /\ Dated(answer.body, time, View!OriginLag(answer))
  BY <1>2, ArrivesSound
<1>4. time \in Nat
  BY DEF ViewInv, StoredInv
<1>5. PICK entry : entry = [answer |-> answer, storedAt |-> time]
  OBVIOUS
<1>6. View!Entry(answer, 0) = entry
  BY <1>4, <1>5 DEF View!Entry
<1>7. /\ lastBody' = answer.body /\ edge' = entry /\ asked' = {}
      /\ browser' = entry \/ browser' = browser
      /\ shown' = answer \/ shown' = shown
  BY <1>2, <1>6 DEF View!Answered
<1>8. entry \in EntryType /\ entry.answer = answer /\ entry.storedAt = time
  BY <1>3, <1>4, <1>5 DEF EntryType
<1>9. EntryDated(entry)
  BY <1>3, <1>8 DEF EntryDated
<1>10. ASSUME NEW g, NEW t, NEW lag  PROVE Dated(g, t, lag)' = Dated(g, t, lag)
  BY <1>1 DEF Dated, LastTime
<1>11. EdgeInv'
  <2>1. EntryDated(edge)'
    BY <1>7, <1>8, <1>9, <1>1 DEF EntryDated, Dated, LastTime, View!OriginLag
  <2> QED  BY <1>3, <1>7, <1>8, <2>1 DEF EdgeInv
<1>12. BrowserInv'
  <2>1. CASE browser' = entry
    BY <1>1, <1>8, <1>9, <2>1 DEF BrowserInv, EntryDated, Dated, LastTime, View!OriginLag
  <2>2. CASE browser' = browser
    BY <1>1, <2>2 DEF ViewInv, BrowserInv, EntryDated, Dated, LastTime, View!OriginLag
  <2> QED  BY <1>7, <2>1, <2>2
<1>13. ShownInv'
  <2>1. CASE shown' = answer
    <3>1. answer.of \in View!Timelines /\ answer.header \in View!Headers
      BY <1>3 DEF AnswerType
    <3>2. PICK lag \in Nat, more \in Nat : lag = View!OriginLag(answer) /\ more = View!LayersLag(answer)
      BY <3>1, LagsAreTimes
    <3>3. ASSUME answer.body \in View!Generations
          PROVE  answer.body <= latest /\ time < LastTime(answer.body) + (lag + more)
      <4>1. LastTime(answer.body) \in Nat
        BY <3>3 DEF ViewInv, StoredInv, LastTime
      <4> QED  BY <1>3, <1>4, <3>2, <3>3, <4>1 DEF Dated
    <3> QED  BY <1>1, <1>3, <2>1, <3>2, <3>3 DEF ShownInv, Dated, LastTime, View!OriginLag, View!LayersLag
  <2>2. CASE shown' = shown
    BY <1>1, <2>2 DEF ViewInv, ShownInv, Dated, LastTime, View!OriginLag, View!LayersLag
  <2> QED  BY <1>7, <2>1, <2>2
<1> QED  BY <1>1, <1>11, <1>12, <1>13

\* What the service serves of its copies is sound.
LEMMA CopyIsSound ==
    ASSUME StoredInv, NEW copy \in stored, NEW header \in {copy.kind, "degraded"},
           time < View!StaleUntil(copy) + (IF header = "degraded" THEN OriginError ELSE 0)
    PROVE  Sound(View!FromCopy(copy, header))
<1>1. /\ copy.generation \in View!Generations /\ copy.kind \in View!Timelines /\ copy.freshUntil \in Int
      /\ copy.generation <= latest
  BY DEF StoredInv, CopyType
<1>2. PICK a : a = View!FromCopy(copy, header)
  OBVIOUS
<1>3. /\ a.etag = copy.generation /\ a.body = copy.generation /\ a.header = header /\ a.of = copy.kind
      /\ a \in AnswerType
  BY <1>1, <1>2 DEF View!FromCopy, AnswerType, View!Headers
<1>4. PICK longest \in Nat : longest = LongestFresh(copy.kind)
  BY <1>1, FreshIsBounded
<1>5. PICK more : more = IF header = "degraded" THEN OriginError ELSE 0
  OBVIOUS
<1>6. more \in Nat /\ OriginStale[copy.kind] \in Nat
  BY <1>1, <1>5, CopiesAssumption DEF View!ViewAssumption
<1>7. View!OriginLag(a) = longest + OriginStale[copy.kind] + more
  BY <1>3, <1>4, <1>5 DEF View!OriginLag, LongestFresh
<1>8. time < copy.freshUntil + OriginStale[copy.kind] + more
  BY <1>5 DEF View!StaleUntil
<1>9. copy.freshUntil <= LastTime(copy.generation) + longest
  BY <1>4 DEF StoredInv
<1>10. time \in Nat /\ LastTime(copy.generation) \in Nat
  BY <1>1 DEF StoredInv, LastTime
<1>11. time < LastTime(copy.generation) + (longest + OriginStale[copy.kind] + more)
  BY <1>1, <1>4, <1>6, <1>8, <1>9, <1>10
<1>12. copy.generation # View!NoTag
  BY <1>1, CopiesAssumption DEF View!NoTag, View!Generations
<1> QED  BY <1>1, <1>2, <1>3, <1>7, <1>11, <1>12 DEF Sound, Dated

LEMMA ErrorIsSound ==
    ASSUME NEW a, a.etag = View!NoTag, a.body = View!ErrorBody, a \in AnswerType
    PROVE  Sound(a)
<1>1. View!ErrorBody \notin View!Generations
  BY CopiesAssumption DEF View!ErrorBody, View!Generations
<1> QED  BY <1>1 DEF Sound, Dated

LEMMA AnswersKeep ==
    ASSUME ViewInv, NEW tag \in asked,
           View!AnswersCopy(tag) \/ View!AnswersBuilt(tag) \/ View!AnswersInstead(tag)
    PROVE  ViewInv'
<1>1. StoredInv /\ time \in Nat
  BY DEF ViewInv, StoredInv
<1>2. ASSUME NEW copy \in stored
      PROVE  copy.freshUntil \in Int /\ OriginStale[copy.kind] \in Nat /\ copy.kind # "degraded"
  BY <1>1, CopiesAssumption DEF StoredInv, CopyType, View!ViewAssumption, View!Timelines
<1>3. ASSUME UNCHANGED stored, NEW a, Sound(a), View!Answered(tag, a)  PROVE ViewInv'
  <2>1. EdgeInv' /\ BrowserInv' /\ ShownInv' /\ UNCHANGED <<time, latest, goneAt>>
    BY <1>3, AnsweredKeeps
  <2>2. StoredInv'
    BY <1>1, <1>3, <2>1 DEF StoredInv, LastTime, LongestFresh
  <2> QED  BY <2>1, <2>2 DEF ViewInv
<1>4. CASE View!AnswersCopy(tag)
  <2>1. PICK copy \in View!Fresh \cup View!Stale : View!Answered(tag, View!FromCopy(copy, copy.kind))
    BY <1>4 DEF View!AnswersCopy
  <2>2. copy \in stored /\ time < View!StaleUntil(copy)
    BY <1>1, <1>2, <2>1 DEF View!Fresh, View!Stale, View!StaleUntil
  <2>3. time < View!StaleUntil(copy) + (IF copy.kind = "degraded" THEN OriginError ELSE 0)
    BY <1>1, <1>2, <2>2 DEF View!StaleUntil
  <2>4. Sound(View!FromCopy(copy, copy.kind))
    BY <1>1, <2>2, <2>3, CopyIsSound
  <2> QED  BY <1>3, <1>4, <2>1, <2>4 DEF View!AnswersCopy
<1>5. CASE View!AnswersBuilt(tag)
  <2>1. PICK copy \in stored' : View!Answered(tag, View!FromCopy(copy, copy.kind))
    BY <1>5 DEF View!AnswersBuilt
  <2>2. PICK fresh \in OriginFresh[View!Kind] :
          stored' = {[generation |-> latest, kind |-> View!Kind, freshUntil |-> time + fresh]}
    BY <1>5 DEF View!AnswersBuilt, View!Built
  <2>3. View!Kind \in View!Timelines
    BY DEF View!Kind, View!Timelines
  <2>4. copy.generation = latest /\ copy.kind = View!Kind
    BY <2>1, <2>2
  <2>5. Sound(View!FromCopy(copy, copy.kind))
    <3>1. PICK a : a = View!FromCopy(copy, copy.kind)
      OBVIOUS
    <3>2. /\ a.etag = latest /\ a.body = latest /\ a.of = View!Kind /\ a.header = View!Kind
          /\ a \in AnswerType
      BY <1>1, <2>3, <2>4, <3>1 DEF View!FromCopy, AnswerType, StoredInv, View!Headers
    <3>3. PICK lag \in Nat \ {0} : lag = View!OriginLag(a)
      BY <2>3, <3>2, LagsAreTimes DEF View!Headers
    <3>4. time < LastTime(latest) + lag
      BY <1>1, <3>3 DEF LastTime
    <3>5. latest \in Nat /\ latest # View!NoTag
      BY <1>1, CopiesAssumption DEF StoredInv, View!Generations, View!NoTag
    <3> QED  BY <3>1, <3>2, <3>3, <3>4, <3>5 DEF Sound, Dated
  <2>6. EdgeInv' /\ BrowserInv' /\ ShownInv' /\ UNCHANGED <<time, latest, goneAt>>
    BY <2>1, <2>5, AnsweredKeeps
  <2>7. StoredInv'
    BY <1>1, <1>5, <2>6, BuiltIsDated DEF View!AnswersBuilt
  <2> QED  BY <2>6, <2>7 DEF ViewInv
<1>6. CASE View!AnswersInstead(tag)
  <2>1. UNCHANGED stored
    BY <1>6 DEF View!AnswersInstead
  <2>2. ASSUME NEW copy \in View!LastResort, View!Answered(tag, View!FromCopy(copy, "degraded"))
        PROVE  ViewInv'
    <3>1. copy \in stored
               /\ time < View!StaleUntil(copy) + (IF "degraded" = "degraded" THEN OriginError ELSE 0)
      BY <2>2 DEF View!LastResort
    <3>2. Sound(View!FromCopy(copy, "degraded"))
      BY <1>1, <3>1, CopyIsSound
    <3> QED  BY <1>3, <2>1, <2>2, <3>2
  <2>3. ASSUME NEW h \in {"unavailable", "too-large", "not-a-user"},
               View!Answered(tag, [View!NoAnswer EXCEPT !.header = h])
        PROVE  ViewInv'
    <3>1. PICK a : a = [View!NoAnswer EXCEPT !.header = h]
      OBVIOUS
    <3>2. a \in AnswerType /\ a.etag = View!NoTag /\ a.body = View!ErrorBody
      BY <3>1 DEF View!NoAnswer, AnswerType, View!Headers, View!Timelines
    <3> QED  BY <1>3, <2>1, <2>3, <3>1, <3>2, ErrorIsSound
  <2>4. View!NoAnswer = [View!NoAnswer EXCEPT !.header = "unavailable"]
    BY DEF View!NoAnswer
  <2> QED  BY <1>6, <2>2, <2>3, <2>4 DEF View!AnswersInstead
<1> QED  BY <1>4, <1>5, <1>6

LEMMA ServedByBrowser ==
    ASSUME ViewInv,
           View!IsFresh(browser, View!BrowserLifetime) \/ View!IsStale(browser, View!BrowserLifetime)
    PROVE  /\ browser.answer \in AnswerType
           /\ Dated(browser.answer.body, time, View!OriginLag(browser.answer) + View!LayersLag(browser.answer))
<1>1. StoredInv /\ browser \in EntryType /\ EntryDated(browser)
  BY DEF ViewInv, BrowserInv
<1>2. browser.answer.of \in View!Timelines /\ browser.answer.header \in View!Headers
  BY <1>1 DEF EntryType, AnswerType
<1>3. PICK life \in Nat, more \in Nat :
        life = MaxAge[browser.answer.header] /\ more = StaleWhileRevalidate[browser.answer.header]
  BY <1>2, LagsAreTimes
<1>4. time - browser.storedAt < life \/ time - browser.storedAt < life + more
  BY <1>3 DEF View!IsFresh, View!IsStale, View!Age, View!BrowserLifetime
<1>5. time \in Int /\ browser.storedAt \in Int
  BY <1>1 DEF StoredInv, EntryType
<1>6. time - browser.storedAt < life + more
  BY <1>4, <1>5
<1> QED  BY <1>1, <1>3, <1>6, ServedIsInTime

\* What the browser gets of the edge, at once.
LEMMA ServedByEdge ==
    ASSUME ViewInv, View!IsFresh(edge, View!EdgeLifetime) \/ View!IsStale(edge, View!EdgeLifetime),
           browser' = View!Entry(edge.answer, View!Age(edge))
    PROVE  /\ browser' = edge
           /\ edge.answer \in AnswerType
           /\ Dated(edge.answer.body, time, View!OriginLag(edge.answer) + View!LayersLag(edge.answer))
<1>1. StoredInv /\ edge \in EntryType /\ EntryDated(edge)
  BY DEF ViewInv, EdgeInv
<1>2. edge.answer.of \in View!Timelines /\ edge.answer.header \in View!Headers
  BY <1>1 DEF EntryType, AnswerType
<1>3. PICK life \in Nat, more \in Nat :
        life = SMaxAge[edge.answer.header] /\ more = StaleWhileRevalidate[edge.answer.header]
  BY <1>2, LagsAreTimes
<1>4. time - edge.storedAt < life \/ time - edge.storedAt < life + more
  BY <1>3 DEF View!IsFresh, View!IsStale, View!Age, View!EdgeLifetime
<1>5. time \in Int /\ edge.storedAt \in Int
  BY <1>1 DEF StoredInv, EntryType
<1>6. time - edge.storedAt < life + more
  BY <1>4, <1>5
<1>7. time - (time - edge.storedAt) = edge.storedAt
  BY <1>5
<1>8. browser' = edge
  BY <1>1, <1>7 DEF View!Entry, View!Age, EntryType
<1> QED  BY <1>1, <1>3, <1>6, <1>8, ServedIsInTime

LEMMA BrowserAsksKeeps ==
    ASSUME ViewInv, NEW who, View!BrowserAsks(who), UNCHANGED <<time, View!source, View!origin, edge>>
    PROVE  /\ StoredInv' /\ EdgeInv' /\ BrowserInv'
           /\ \/ browser' = browser
              \/ /\ browser' = edge /\ edge.answer \in AnswerType
                 /\ Dated(edge.answer.body, time, View!OriginLag(edge.answer) + View!LayersLag(edge.answer))
<1>1. UNCHANGED <<time, latest, goneAt, stored, lastBody, edge>>
  BY DEF View!source, View!origin
<1>2. StoredInv'
  BY <1>1 DEF ViewInv, StoredInv, LastTime, LongestFresh
<1>3. asked' = asked \/ asked' = {edge.answer.etag}
  BY DEF View!BrowserAsks, View!AskOrigin
<1>4. EdgeInv'
  BY <1>1, <1>3 DEF ViewInv, EdgeInv, EntryDated, Dated, LastTime, View!OriginLag
<1>5. \/ browser' = browser
      \/ /\ View!IsFresh(edge, View!EdgeLifetime) \/ View!IsStale(edge, View!EdgeLifetime)
         /\ browser' = View!Entry(edge.answer, View!Age(edge))
  BY DEF View!BrowserAsks
<1>6. CASE browser' = browser
  <2>1. BrowserInv'
    BY <1>1, <1>6 DEF ViewInv, BrowserInv, EntryDated, Dated, LastTime, View!OriginLag
  <2> QED  BY <1>2, <1>4, <1>6, <2>1
<1>7. CASE /\ View!IsFresh(edge, View!EdgeLifetime) \/ View!IsStale(edge, View!EdgeLifetime)
           /\ browser' = View!Entry(edge.answer, View!Age(edge))
  <2>1. /\ browser' = edge
        /\ edge.answer \in AnswerType
        /\ Dated(edge.answer.body, time, View!OriginLag(edge.answer) + View!LayersLag(edge.answer))
    BY <1>7, ServedByEdge
  <2>2. BrowserInv'
    BY <1>1, <2>1 DEF ViewInv, EdgeInv, BrowserInv, EntryDated, Dated, LastTime, View!OriginLag
  <2> QED  BY <1>2, <1>4, <2>1, <2>2
<1> QED  BY <1>5, <1>6, <1>7

LEMMA SeeKeeps == ASSUME ViewInv, View!See  PROVE ViewInv'
<1>1. UNCHANGED <<time, View!source, View!origin, edge>> /\ UNCHANGED <<time, latest, goneAt>>
  BY DEF View!See, View!source
<1>2. ASSUME NEW a \in AnswerType, shown' = a,
             Dated(a.body, time, View!OriginLag(a) + View!LayersLag(a))
      PROVE  ShownInv'
  BY <1>1, <1>2 DEF ShownInv, Dated, LastTime, View!OriginLag, View!LayersLag
<1>3. CASE View!IsFresh(browser, View!BrowserLifetime) /\ UNCHANGED <<browser, asked, waits>>
             /\ shown' = browser.answer
  <2>1. ShownInv'
    BY <1>2, <1>3, ServedByBrowser
  <2>2. UNCHANGED <<stored, lastBody>>
    BY <1>1 DEF View!origin
  <2> QED  BY <1>1, <1>3, <2>1, <2>2
           DEF ViewInv, StoredInv, EdgeInv, BrowserInv, EntryDated, Dated, LastTime, LongestFresh, View!OriginLag
<1>4. CASE View!IsStale(browser, View!BrowserLifetime) /\ shown' = browser.answer /\ View!BrowserAsks({})
  <2>1. ShownInv'
    BY <1>2, <1>4, ServedByBrowser
  <2>2. StoredInv' /\ EdgeInv' /\ BrowserInv'
    BY <1>1, <1>4, BrowserAsksKeeps
  <2> QED  BY <2>1, <2>2 DEF ViewInv
<1>5. CASE /\ ~View!IsFresh(browser, View!BrowserLifetime) /\ ~View!IsStale(browser, View!BrowserLifetime)
           /\ View!BrowserAsks({"user"})
           /\ shown' = IF "user" \in waits' THEN View!NoAnswer ELSE browser'.answer
  <2>1. /\ StoredInv' /\ EdgeInv' /\ BrowserInv'
        /\ \/ browser' = browser
           \/ /\ browser' = edge /\ edge.answer \in AnswerType
              /\ Dated(edge.answer.body, time, View!OriginLag(edge.answer) + View!LayersLag(edge.answer))
    BY <1>1, <1>5, BrowserAsksKeeps
  <2>2. CASE shown' = View!NoAnswer
    BY <2>1, <2>2, NothingIsShown DEF ViewInv
  <2>3. CASE "user" \notin waits'
    <3>1. browser' = View!Entry(edge.answer, View!Age(edge))
          /\ (View!IsFresh(edge, View!EdgeLifetime) \/ View!IsStale(edge, View!EdgeLifetime))
      BY <1>5, <2>3 DEF View!BrowserAsks
    <3>2. /\ browser' = edge
          /\ edge.answer \in AnswerType
          /\ Dated(edge.answer.body, time, View!OriginLag(edge.answer) + View!LayersLag(edge.answer))
      BY <3>1, ServedByEdge
    <3>3. shown' = edge.answer
      BY <1>5, <2>3, <3>2
    <3> QED  BY <1>2, <2>1, <3>2, <3>3 DEF ViewInv
  <2> QED  BY <1>5, <2>2, <2>3
<1> QED  BY <1>3, <1>4, <1>5 DEF View!See

LEMMA ViewSteps == ViewInv /\ [View!Next]_(View!vars) => ViewInv'
<1> SUFFICES ASSUME ViewInv, [View!Next]_(View!vars)  PROVE ViewInv'
  OBVIOUS
<1>1. ASSUME UNCHANGED <<time, latest, goneAt, lastBody, edge, browser, shown>>, asked' \subseteq asked,
             StoredInv'
      PROVE  ViewInv'
  BY <1>1 DEF ViewInv, EdgeInv, BrowserInv, ShownInv, EntryDated, Dated, LastTime, View!OriginLag, View!LayersLag
<1>2. CASE View!Refreshed
  <2>1. UNCHANGED <<time, latest, goneAt, lastBody, edge, browser, shown, asked>>
    BY <1>2 DEF View!Refreshed, View!source
  <2>2. CASE UNCHANGED stored
    BY <1>1, <2>1, <2>2 DEF ViewInv, StoredInv, LastTime, LongestFresh
  <2>3. CASE View!Built(stored')
    BY <1>1, <2>1, <2>3, BuiltIsDated DEF ViewInv
  <2> QED  BY <1>2, <2>2, <2>3 DEF View!Refreshed
<1>3. CASE View!Fails
  <2>1. UNCHANGED <<time, latest, goneAt, stored, lastBody, edge, browser, shown>> /\ asked' = {}
    BY <1>3 DEF View!Fails, View!source, View!origin
  <2> QED  BY <1>1, <2>1 DEF ViewInv, StoredInv, LastTime, LongestFresh
<1>4. CASE UNCHANGED View!vars
  <2>1. UNCHANGED <<time, latest, goneAt, stored, lastBody, edge, browser, shown, asked>>
    BY <1>4 DEF View!vars, View!source, View!origin
  <2> QED  BY <1>1, <2>1 DEF ViewInv, StoredInv, LastTime, LongestFresh
<1> QED  BY <1>2, <1>3, <1>4, ChangeKeeps, TickKeeps, SeeKeeps, AnswersKeep DEF View!Next

\* A user who refreshes never sees a timeline that was replaced longer ago than the lifetimes of
\* its Cache-Control and of the service's copy add up to (service.ts:62-73), whatever the
\* lifetimes are.
THEOREM UsersSeeInTime == View!Spec => []SeenInTime
<1>1. ViewInv => SeenInTime
  <2>1. ASSUME ViewInv, shown.body \in View!Generations, shown.body # latest
        PROVE  time - goneAt[shown.body] < View!OriginLag(shown) + View!LayersLag(shown)
    <3>1. shown.of \in View!Timelines /\ shown.header \in View!Headers
      BY <2>1 DEF ViewInv, ShownInv, AnswerType
    <3>2. PICK lag \in Nat : lag = View!OriginLag(shown) + View!LayersLag(shown)
      BY <3>1, LagsAreTimes
    <3>3. time < goneAt[shown.body] + lag
      BY <2>1, <3>2 DEF ViewInv, ShownInv, Dated, LastTime
    <3>4. time \in Nat /\ goneAt[shown.body] \in Nat
      BY <2>1 DEF ViewInv, StoredInv
    <3> QED  BY <3>2, <3>3, <3>4
  <2> QED  BY <2>1 DEF SeenInTime, View!SeenInTime
<1> QED  BY <1>1, ViewStarts, ViewSteps, PTL DEF View!Spec

-----------------------------------------------------------------------------
(* The copies of blocks.                                                   *)

MinedType == [fork : Nat, txs : SUBSET Txs]
BlockType == [fork : Int, txs : SUBSET Txs]
FetchType == [number : Nat \ {0}, block : BlockType, early : BOOLEAN, by : {"settled", "recovery"}]
Missing == {Copies!Pending, Copies!Nothing}

ChainInv ==
    /\ chain \in Seq(MinedType)
    /\ forks \in Nat
    /\ head \in Nat /\ head <= Len(chain)

\* What was fetched as a settled block's is the chain's.
FetchesInv ==
    /\ fetches \in Seq(FetchType)
    /\ \A f \in DOMAIN fetches : fetches[f].by = "settled" => ~fetches[f].early
    /\ \A f \in DOMAIN fetches : ~fetches[f].early =>
          /\ Copies!isSettled(fetches[f].number)
          /\ fetches[f].block \notin Missing => fetches[f].block = chain[fetches[f].number]

\* A number is kept once, and not by a failed fetch.
KeptInv ==
    /\ fullBlocks \in Seq(DOMAIN fetches)
    /\ \A i \in DOMAIN fullBlocks : fetches[fullBlocks[i]].block # Copies!Nothing
    /\ \A i, j \in DOMAIN fullBlocks : fetches[fullBlocks[i]].number = fetches[fullBlocks[j]].number => i = j

\* Whoever awaits a copy awaits the one of the block it asks for.
AwaitsItsBlock(r) ==
    /\ fetch[r] \in DOMAIN fetches
    /\ \A m \in 1..MaxHeight : asks[r] = Copies!ForBlock(m) => fetches[fetch[r]].number = m
HasItsBlock(r) == got[r] = fetches[fetch[r]].block /\ got[r] \notin Missing
Steps == {"idle", "copy", "copied", "forwarded", "receipt", "recover", "answered"}
AskType == Copies!Questions \cup {Copies!ForBlock(1)}
RequestsInv ==
    /\ pc \in [Requests -> Steps] /\ asks \in [Requests -> AskType]
    /\ fetch \in [Requests -> Nat] /\ got \in [Requests -> BlockType]
    /\ \A r \in Requests :
          /\ pc[r] \in {"copy", "copied"} => AwaitsItsBlock(r)
          /\ pc[r] = "copied" => HasItsBlock(r)

BlocksInv == ChainInv /\ FetchesInv /\ KeptInv /\ RequestsInv

LEMMA MissingAreBlocks == Missing \subseteq BlockType
BY DEF Missing, BlockType, Copies!Pending, Copies!Nothing

LEMMA BlocksStart == Copies!Init => BlocksInv
<1> SUFFICES ASSUME Copies!Init  PROVE BlocksInv
  OBVIOUS
<1> USE DEF Copies!Init
<1>1. ChainInv
  BY DEF ChainInv
<1>2. FetchesInv
  BY DEF FetchesInv
<1>3. KeptInv
  BY DEF KeptInv
<1>4. RequestsInv
  <2>1. Copies!Nothing \in BlockType
    BY MissingAreBlocks DEF Missing
  <2>2. asks \in [Requests -> AskType] /\ fetch \in [Requests -> Nat] /\ got \in [Requests -> BlockType]
    BY <2>1 DEF AskType
  <2>3. pc \in [Requests -> Steps]
    BY DEF Steps
  <2>4. \A r \in Requests : pc[r] = "idle"
    OBVIOUS
  <2> QED  BY <2>2, <2>3, <2>4 DEF RequestsInv
<1> QED  BY <1>1, <1>2, <1>3, <1>4 DEF BlocksInv

\* A settled block is of the chain, and no reorg reaches it.
LEMMA SettledIsReached ==
    ASSUME ChainInv, NEW n \in Nat \ {0}, Copies!isSettled(n)
    PROVE  n \in DOMAIN chain /\ n <= Len(chain) - SettledDepth
BY CopiesAssumption DEF ChainInv, Copies!isSettled, Copies!CopiesAssumption

LEMMA ChainMoves ==
    ASSUME BlocksInv, Copies!Mine \/ Copies!Reorg \/ Copies!NoteHead
    PROVE  ChainInv' /\ \A n \in Nat \ {0} : Copies!isSettled(n) =>
                          Copies!isSettled(n)' /\ chain'[n] = chain[n]
<1> USE DEF BlocksInv, ChainInv
<1>1. CASE Copies!Mine
  <2>1. PICK txs \in SUBSET Txs : chain' = Append(chain, [fork |-> forks, txs |-> txs])
    BY <1>1 DEF Copies!Mine
  <2>2. head' = head /\ forks' = forks
    BY <1>1 DEF Copies!Mine
  <2>3. [fork |-> forks, txs |-> txs] \in MinedType
    BY DEF MinedType
  <2>4. chain' \in Seq(MinedType) /\ Len(chain') = Len(chain) + 1
        /\ \A n \in DOMAIN chain : chain'[n] = chain[n]
    BY <2>1, <2>3
  <2>5. ChainInv'
    BY <2>2, <2>4
  <2>6. ASSUME NEW n \in Nat \ {0}, Copies!isSettled(n)
        PROVE  Copies!isSettled(n)' /\ chain'[n] = chain[n]
    BY <2>2, <2>4, <2>6, SettledIsReached DEF Copies!isSettled
  <2> QED  BY <2>5, <2>6
<1>2. CASE Copies!Reorg
  <2>1. PICK n \in DOMAIN chain, txs \in SUBSET Txs :
          /\ n > Len(chain) - SettledDepth
          /\ chain' = [m \in DOMAIN chain |->
                          IF m < n THEN chain[m]
                          ELSE [fork |-> forks + 1, txs |-> IF m = n THEN txs ELSE {}]]
    BY <1>2 DEF Copies!Reorg
  <2>2. head' = head /\ forks' = forks + 1
    BY <1>2 DEF Copies!Reorg
  <2>3. ASSUME NEW m \in DOMAIN chain  PROVE chain'[m] \in MinedType
    <3>1. chain[m] \in MinedType
      OBVIOUS
    <3>2. [fork |-> forks + 1, txs |-> IF m = n THEN txs ELSE {}] \in MinedType
      BY DEF MinedType
    <3> QED  BY <2>1, <3>1, <3>2
  <2>4. chain' \in Seq(MinedType) /\ Len(chain') = Len(chain)
    BY <2>1, <2>3
  <2>5. ChainInv'
    BY <2>2, <2>4
  <2>6. ASSUME NEW m \in Nat \ {0}, Copies!isSettled(m)
        PROVE  Copies!isSettled(m)' /\ chain'[m] = chain[m]
    <3>1. m \in DOMAIN chain /\ m <= Len(chain) - SettledDepth
      BY <2>6, SettledIsReached
    <3>2. m < n
      BY <2>1, <3>1, CopiesAssumption DEF Copies!CopiesAssumption
    <3> QED  BY <2>1, <2>2, <2>6, <3>1, <3>2 DEF Copies!isSettled
  <2> QED  BY <2>5, <2>6
<1>3. CASE Copies!NoteHead
  <2>1. chain' = chain /\ forks' = forks /\ head' \in DOMAIN chain /\ head' > head
    BY <1>3 DEF Copies!NoteHead, Copies!chainVars
  <2> QED  BY <2>1, CopiesAssumption DEF Copies!isSettled, Copies!CopiesAssumption
<1> QED  BY <1>1, <1>2, <1>3

\* What holds of the fetches goes on holding while the chain moves.
LEMMA ChainMovesKeeps ==
    ASSUME BlocksInv, Copies!Mine \/ Copies!Reorg \/ Copies!NoteHead
    PROVE  BlocksInv'
<1>1. UNCHANGED <<fetches, fullBlocks, pc, asks, fetch, got>>
  BY DEF Copies!Mine, Copies!Reorg, Copies!NoteHead, Copies!copyVars
<1>2. ChainInv' /\ \A n \in Nat \ {0} : Copies!isSettled(n) =>
                       Copies!isSettled(n)' /\ chain'[n] = chain[n]
  BY ChainMoves
<1>3. FetchesInv'
  <2>1. ASSUME NEW f \in DOMAIN fetches  PROVE fetches[f].number \in Nat \ {0}
    <3>1. fetches[f] \in FetchType
      BY DEF BlocksInv, FetchesInv
    <3> QED  BY <3>1 DEF FetchType
  <2> QED  BY <1>1, <1>2, <2>1 DEF BlocksInv, FetchesInv
<1>4. KeptInv'
  BY <1>1 DEF BlocksInv, KeptInv
<1>5. RequestsInv'
  BY <1>1 DEF BlocksInv, RequestsInv, AwaitsItsBlock, HasItsBlock
<1> QED  BY <1>2, <1>3, <1>4, <1>5 DEF BlocksInv

\* A request is given the copy that is kept of a block, or a fetch of it that starts.
LEMMA FullBlockKeeps ==
    ASSUME BlocksInv, NEW r \in Requests, NEW n \in Nat \ {0}, NEW by \in {"settled", "recovery"},
           Copies!FullBlock(r, n, by), by = "settled" => Copies!isSettled(n),
           UNCHANGED <<chain, forks, head>>
    PROVE  /\ FetchesInv' /\ KeptInv'
           /\ \A f \in DOMAIN fetches : f \in DOMAIN fetches' /\ fetches'[f] = fetches[f]
           /\ \E f \in DOMAIN fetches' : fetch' = [fetch EXCEPT ![r] = f] /\ fetches'[f].number = n
<1> USE DEF BlocksInv
<1>1. \A f \in DOMAIN fetches : fetches[f] \in FetchType
  BY DEF FetchesInv
<1>2. CASE Copies!CopiesOf(n) # {}
  <2>1. PICK f \in Copies!CopiesOf(n) : fetch' = [fetch EXCEPT ![r] = f]
    BY <1>2 DEF Copies!FullBlock
  <2>2. fetches' = fetches /\ fullBlocks' = fullBlocks
    BY <1>2 DEF Copies!FullBlock, Copies!copyVars
  <2>3. f \in DOMAIN fetches /\ fetches[f].number = n
    BY <2>1 DEF Copies!CopiesOf, Copies!Range, KeptInv
  <2>4. FetchesInv' /\ KeptInv'
    BY <2>2 DEF FetchesInv, KeptInv, Copies!isSettled
  <2> QED  BY <2>1, <2>2, <2>3, <2>4
<1>3. CASE Copies!CopiesOf(n) = {}
  <2>1. PICK f, new, kept :
          /\ f = Len(fetches) + 1
          /\ new = [number |-> n, block |-> Copies!Pending, early |-> ~Copies!isSettled(n), by |-> by]
          /\ kept = Append(fullBlocks, f)
    OBVIOUS
  <2>2. /\ fetches' = Append(fetches, new)
        /\ fullBlocks' = IF Len(kept) > MaxCopies THEN Tail(kept) ELSE kept
        /\ fetch' = [fetch EXCEPT ![r] = f]
    BY <1>3, <2>1 DEF Copies!FullBlock
  <2>3. new \in FetchType /\ new.number = n /\ new.block \in Missing /\ new.block # Copies!Nothing
    <3>1. Copies!Pending \in BlockType
      BY MissingAreBlocks DEF Missing
    <3>2. Copies!Pending # Copies!Nothing
      BY DEF Copies!Pending, Copies!Nothing
    <3>3. (~Copies!isSettled(n)) \in BOOLEAN
      OBVIOUS
    <3> QED  BY <2>1, <3>1, <3>2, <3>3 DEF FetchType, Missing
  <2>4. /\ fetches' \in Seq(FetchType) /\ Len(fetches') = f /\ fetches'[f] = new
        /\ \A g \in DOMAIN fetches : g \in DOMAIN fetches' /\ fetches'[g] = fetches[g] /\ g # f
        /\ \A g \in DOMAIN fetches' : g = f \/ g \in DOMAIN fetches
        /\ f \in DOMAIN fetches'
    BY <2>1, <2>2, <2>3 DEF FetchesInv
  <2>5. FetchesInv'
    <3>1. (~new.early => Copies!isSettled(n)) /\ (new.by = "settled" => ~new.early)
      BY <2>1
    <3> QED  BY <2>3, <2>4, <3>1 DEF FetchesInv, Copies!isSettled
  <2>6. /\ kept \in Seq(DOMAIN fetches')
        /\ \A i \in DOMAIN kept :
              \/ i \in DOMAIN fullBlocks /\ kept[i] = fullBlocks[i]
              \/ i = Len(fullBlocks) + 1 /\ kept[i] = f
    <3>1. fullBlocks \in Seq(DOMAIN fetches')
      BY <2>4 DEF KeptInv
    <3> QED  BY <2>1, <2>4, <3>1
  <2>7. ASSUME NEW i \in DOMAIN kept  PROVE fetches'[kept[i]].block # Copies!Nothing
    <3>1. CASE i \in DOMAIN fullBlocks /\ kept[i] = fullBlocks[i]
      <4>1. fullBlocks[i] \in DOMAIN fetches /\ fetches[fullBlocks[i]].block # Copies!Nothing
        BY <3>1 DEF KeptInv
      <4> QED  BY <2>4, <3>1, <4>1
    <3>2. CASE kept[i] = f
      BY <2>3, <2>4, <3>2
    <3> QED  BY <2>6, <3>1, <3>2
  <2>8. ASSUME NEW i \in DOMAIN fullBlocks
        PROVE  fetches[fullBlocks[i]].number # n /\ fetches'[fullBlocks[i]] = fetches[fullBlocks[i]]
    BY <1>3, <2>4 DEF Copies!CopiesOf, Copies!Range, KeptInv
  <2>9. ASSUME NEW i \in DOMAIN kept, NEW j \in DOMAIN kept,
               fetches'[kept[i]].number = fetches'[kept[j]].number
        PROVE  i = j
    <3>1. fetches'[f].number = n
      BY <2>3, <2>4
    <3>2. CASE i \in DOMAIN fullBlocks /\ kept[i] = fullBlocks[i]
      <4>1. fetches'[kept[i]].number # n /\ fetches'[kept[i]].number = fetches[fullBlocks[i]].number
        BY <2>8, <3>2
      <4>2. j \in DOMAIN fullBlocks /\ kept[j] = fullBlocks[j]
        BY <2>6, <2>9, <3>1, <4>1
      <4>3. fetches'[kept[j]].number = fetches[fullBlocks[j]].number
        BY <2>8, <4>2
      <4>4. fetches[fullBlocks[i]].number = fetches[fullBlocks[j]].number
        BY <2>9, <4>1, <4>3
      <4> QED  BY <3>2, <4>2, <4>4 DEF KeptInv
    <3>3. CASE i = Len(fullBlocks) + 1 /\ kept[i] = f
      <4>1. ~(j \in DOMAIN fullBlocks /\ kept[j] = fullBlocks[j])
        BY <2>8, <2>9, <3>1, <3>3
      <4> QED  BY <2>6, <3>3, <4>1
    <3> QED  BY <2>6, <3>2, <3>3
  <2>10. PICK rest : rest = IF Len(kept) > MaxCopies THEN Tail(kept) ELSE kept
    OBVIOUS
  <2>11. /\ rest \in Seq(DOMAIN fetches')
         /\ \/ rest = kept
            \/ \A i \in DOMAIN rest : i + 1 \in DOMAIN kept /\ rest[i] = kept[i + 1]
    <3>1. CASE Len(kept) > MaxCopies
      <4>1. kept # <<>>
        BY <2>6, <3>1, CopiesAssumption DEF Copies!CopiesAssumption
      <4>2. rest = Tail(kept)
        BY <2>10, <3>1
      <4>3. /\ rest \in Seq(DOMAIN fetches') /\ Len(rest) = Len(kept) - 1
            /\ \A i \in 1..Len(rest) : rest[i] = kept[i + 1]
        BY <2>6, <4>1, <4>2, HeadTailProperties
      <4>4. DOMAIN rest = 1..Len(rest) /\ DOMAIN kept = 1..Len(kept) /\ Len(kept) \in Nat
        BY <2>6, <4>3
      <4>5. ASSUME NEW i \in DOMAIN rest  PROVE i + 1 \in DOMAIN kept /\ rest[i] = kept[i + 1]
        BY <4>3, <4>4
      <4> QED  BY <4>3, <4>5
    <3>2. CASE ~(Len(kept) > MaxCopies)
      BY <2>6, <2>10, <3>2
    <3> QED  BY <3>1, <3>2
  <2>12. KeptInv'
    <3>1. fullBlocks' = rest
      BY <2>2, <2>10
    <3>2. \A i, j \in DOMAIN rest : fetches'[rest[i]].number = fetches'[rest[j]].number => i = j
      <4>1. CASE rest = kept
        BY <2>9, <4>1
      <4>2. CASE \A i \in DOMAIN rest : i + 1 \in DOMAIN kept /\ rest[i] = kept[i + 1]
        <5>1. ASSUME NEW i \in DOMAIN rest, NEW j \in DOMAIN rest,
                     fetches'[rest[i]].number = fetches'[rest[j]].number
              PROVE  i = j
          <6>1. i + 1 = j + 1
            BY <2>9, <4>2, <5>1
          <6>2. i \in Nat /\ j \in Nat
            BY <2>11
          <6> QED  BY <6>1, <6>2
        <5> QED  BY <5>1
      <4> QED  BY <2>11, <4>1, <4>2
    <3>3. \A i \in DOMAIN rest : fetches'[rest[i]].block # Copies!Nothing
      BY <2>7, <2>11
    <3> QED  BY <2>11, <3>1, <3>2, <3>3 DEF KeptInv
  <2> QED  BY <2>2, <2>3, <2>4, <2>5, <2>12
<1> QED  BY <1>2, <1>3

LEMMA RemovedAt ==
    ASSUME NEW S, NEW s \in Seq(S), NEW i \in 1..Len(s)
    PROVE  LET rest == Copies!RemoveAt(s, i) IN
             /\ rest \in Seq(S) /\ Len(rest) = Len(s) - 1
             /\ \A k \in 1..Len(rest) : rest[k] = IF k < i THEN s[k] ELSE s[k + 1]
<1>1. PICK before, after : before = SubSeq(s, 1, i - 1) /\ after = SubSeq(s, i + 1, Len(s))
  OBVIOUS
<1>2. /\ before \in Seq(S) /\ Len(before) = i - 1
      /\ \A k \in 1..(i - 1) : before[k] = s[k]
  BY <1>1
<1>3. /\ after \in Seq(S) /\ Len(after) = Len(s) - i
      /\ \A k \in 1..(Len(s) - i) : after[k] = s[k + i]
  BY <1>1
<1>4. PICK rest : rest = before \o after
  OBVIOUS
<1>5. /\ rest \in Seq(S) /\ Len(rest) = Len(s) - 1
      /\ \A k \in 1..Len(rest) : rest[k] = IF k <= i - 1 THEN before[k] ELSE after[k - (i - 1)]
  <2>1. before \in Seq(S) /\ after \in Seq(S)
    BY <1>2, <1>3
  <2>2. /\ rest \in Seq(S)
        /\ Len(rest) = Len(before) + Len(after)
        /\ \A k \in 1..(Len(before) + Len(after)) :
              rest[k] = IF k <= Len(before) THEN before[k] ELSE after[k - Len(before)]
    BY ONLY <1>4, <2>1, ConcatProperties, Zenon
  <2>3. Len(s) \in Nat /\ i \in Nat
    OBVIOUS
  <2> QED  BY <1>2, <1>3, <2>2, <2>3
<1>6. ASSUME NEW k \in 1..Len(rest)  PROVE rest[k] = IF k < i THEN s[k] ELSE s[k + 1]
  <2>1. CASE k < i
    BY <1>2, <1>5, <2>1
  <2>2. CASE ~(k < i)
    <3>1. k - (i - 1) \in 1..(Len(s) - i) /\ (k - (i - 1)) + i = k + 1
      BY <1>5, <2>2
    <3> QED  BY <1>3, <1>5, <2>2, <3>1
  <2> QED  BY <2>1, <2>2
<1> QED  BY <1>1, <1>4, <1>5, <1>6 DEF Copies!RemoveAt

\* delete of a Map: the one entry of a number goes.
LEMMA DroppedKeeps ==
    ASSUME KeptInv, NEW n
    PROVE  /\ Copies!Dropped(n) \in Seq(DOMAIN fetches)
           /\ \A k \in DOMAIN Copies!Dropped(n) : \E j \in DOMAIN fullBlocks :
                 /\ Copies!Dropped(n)[k] = fullBlocks[j]
                 /\ fetches[fullBlocks[j]].number # n
                 /\ \A l \in DOMAIN Copies!Dropped(n) : Copies!Dropped(n)[l] = fullBlocks[j] => l = k
<1> USE DEF KeptInv
<1>0. \A j, l \in DOMAIN fullBlocks : fullBlocks[j] = fullBlocks[l] => j = l
  OBVIOUS
<1>1. CASE Copies!CopiesOf(n) = {}
  BY <1>0, <1>1 DEF Copies!Dropped, Copies!CopiesOf, Copies!Range
<1>2. CASE Copies!CopiesOf(n) # {}
  <2>1. PICK i : i = CHOOSE k \in DOMAIN fullBlocks : fetches[fullBlocks[k]].number = n
    OBVIOUS
  <2>2. \E j \in DOMAIN fullBlocks : fetches[fullBlocks[j]].number = n
    BY <1>2 DEF Copies!CopiesOf, Copies!Range
  <2>3. i \in DOMAIN fullBlocks /\ fetches[fullBlocks[i]].number = n
    BY <2>1, <2>2
  <2>4. PICK rest : rest = Copies!RemoveAt(fullBlocks, i)
    OBVIOUS
  <2>5. Copies!Dropped(n) = rest
    BY <1>2, <2>1, <2>4 DEF Copies!Dropped
  <2>6. /\ rest \in Seq(DOMAIN fetches) /\ Len(rest) = Len(fullBlocks) - 1
        /\ \A k \in 1..Len(rest) : rest[k] = IF k < i THEN fullBlocks[k] ELSE fullBlocks[k + 1]
    BY <2>3, <2>4, RemovedAt
  <2>7. /\ DOMAIN rest = 1..Len(rest) /\ DOMAIN fullBlocks = 1..Len(fullBlocks) /\ Len(fullBlocks) \in Nat
        /\ i \in Nat
    BY <2>3, <2>6
  <2>8. ASSUME NEW k \in DOMAIN rest
        PROVE  \E j \in DOMAIN fullBlocks :
                 /\ rest[k] = fullBlocks[j]
                 /\ fetches[fullBlocks[j]].number # n
                 /\ \A l \in DOMAIN rest : rest[l] = fullBlocks[j] => l = k
    <3>1. PICK j : j = IF k < i THEN k ELSE k + 1
      OBVIOUS
    <3>2. j \in DOMAIN fullBlocks /\ j # i /\ rest[k] = fullBlocks[j]
      BY <2>6, <2>7, <3>1
    <3>3. fetches[fullBlocks[j]].number # n
      BY <2>3, <3>2
    <3>4. ASSUME NEW l \in DOMAIN rest, rest[l] = fullBlocks[j]  PROVE l = k
      <4>1. PICK m : m = IF l < i THEN l ELSE l + 1
        OBVIOUS
      <4>2. m \in DOMAIN fullBlocks /\ rest[l] = fullBlocks[m]
        BY <2>6, <2>7, <4>1
      <4>3. m = j
        BY <1>0, <3>2, <3>4, <4>2
      <4> QED  BY <2>7, <3>1, <4>1, <4>3
    <3> QED  BY <3>2, <3>3, <3>4
  <2> QED  BY <2>5, <2>6, <2>8
<1> QED  BY <1>1, <1>2

LEMMA FetchedKeeps ==
    ASSUME BlocksInv, NEW f \in DOMAIN fetches, Copies!Fetched(f)
    PROVE  BlocksInv'
<1> USE DEF BlocksInv
<1>1. UNCHANGED <<chain, forks, head, pc, asks, fetch, got>> /\ fetches[f].block = Copies!Pending
  BY DEF Copies!Fetched, Copies!chainVars
<1>2. PICK n : n = fetches[f].number
  OBVIOUS
<1>3. PICK block :
        /\ fetches' = [fetches EXCEPT ![f].block = block]
        /\ \/ n \in DOMAIN chain /\ block = chain[n] /\ fullBlocks' = fullBlocks
           \/ block = Copies!Nothing /\ fullBlocks' = Copies!Dropped(n)
  BY <1>2 DEF Copies!Fetched
<1>4. block \in BlockType /\ (n \in DOMAIN chain /\ block = chain[n] => block # Copies!Nothing)
  <2>1. \A m \in DOMAIN chain : chain[m] \in MinedType
    BY DEF ChainInv
  <2>2. MinedType \subseteq BlockType /\ Copies!Nothing \notin MinedType
    BY DEF MinedType, BlockType, Copies!Nothing
  <2> QED  BY <1>3, <2>1, <2>2, MissingAreBlocks DEF Missing
<1>5. /\ DOMAIN fetches' = DOMAIN fetches
      /\ \A g \in DOMAIN fetches :
            /\ fetches[g] \in FetchType
            /\ fetches'[g].number = fetches[g].number /\ fetches'[g].early = fetches[g].early
            /\ fetches'[g].by = fetches[g].by
            /\ fetches'[g].block = IF g = f THEN block ELSE fetches[g].block
            /\ fetches'[g] \in FetchType
  <2>1. \A g \in DOMAIN fetches : fetches[g] \in FetchType
    BY DEF FetchesInv
  <2>2. DOMAIN fetches' = DOMAIN fetches
    BY <1>3 DEF FetchesInv
  <2>3. \A g \in DOMAIN fetches : g # f => fetches'[g] = fetches[g]
    BY <1>3 DEF FetchesInv
  <2>4. fetches'[f] = [fetches[f] EXCEPT !.block = block]
    BY <1>3 DEF FetchesInv
  <2>5. /\ fetches'[f].number = fetches[f].number /\ fetches'[f].early = fetches[f].early
        /\ fetches'[f].by = fetches[f].by
        /\ fetches'[f].block = block /\ fetches'[f] \in FetchType
    BY <1>4, <2>1, <2>4 DEF FetchType
  <2> QED  BY <2>1, <2>2, <2>3, <2>5
<1>6. FetchesInv'
  <2>1. fetches' \in Seq(FetchType)
    <3>1. DOMAIN fetches = 1..Len(fetches) /\ Len(fetches) \in Nat
      BY DEF FetchesInv
    <3>2. fetches' = [g \in 1..Len(fetches) |-> fetches'[g]]
      BY <1>3, <3>1 DEF FetchesInv
    <3> QED  BY <1>5, <3>1, <3>2, IsASeq
  <2>2. ASSUME NEW g \in DOMAIN fetches, ~fetches[g].early
        PROVE  /\ Copies!isSettled(fetches[g].number)
               /\ fetches'[g].block \notin Missing => fetches'[g].block = chain[fetches[g].number]
    BY <1>2, <1>3, <1>5, <2>2 DEF FetchesInv, Missing
  <2> QED  BY <1>1, <1>5, <2>1, <2>2 DEF FetchesInv, Copies!isSettled
<1>7. KeptInv'
  <2>1. CASE n \in DOMAIN chain /\ block = chain[n] /\ fullBlocks' = fullBlocks
    <3>1. \A i \in DOMAIN fullBlocks : fullBlocks[i] \in DOMAIN fetches
      BY DEF KeptInv
    <3> QED  BY <1>4, <1>5, <2>1, <3>1 DEF KeptInv
  <2>2. CASE block = Copies!Nothing /\ fullBlocks' = Copies!Dropped(n)
    <3>1. PICK rest : rest = Copies!Dropped(n)
      OBVIOUS
    <3>2. /\ rest \in Seq(DOMAIN fetches)
          /\ \A k \in DOMAIN rest : \E j \in DOMAIN fullBlocks :
                /\ rest[k] = fullBlocks[j]
                /\ fetches[fullBlocks[j]].number # n
                /\ \A l \in DOMAIN rest : rest[l] = fullBlocks[j] => l = k
      BY <3>1, DroppedKeeps
    <3>3. ASSUME NEW k \in DOMAIN rest
          PROVE  /\ rest[k] \in DOMAIN fetches
                 /\ fetches'[rest[k]].block # Copies!Nothing
                 /\ \A l \in DOMAIN rest : fetches'[rest[k]].number = fetches'[rest[l]].number => l = k
      <4>1. PICK j \in DOMAIN fullBlocks :
              /\ rest[k] = fullBlocks[j]
              /\ fetches[fullBlocks[j]].number # n
              /\ \A l \in DOMAIN rest : rest[l] = fullBlocks[j] => l = k
        BY <3>2
      <4>2. /\ fullBlocks[j] \in DOMAIN fetches /\ fullBlocks[j] # f
            /\ fetches[fullBlocks[j]].block # Copies!Nothing
        BY <1>2, <4>1 DEF KeptInv
      <4>3. ASSUME NEW l \in DOMAIN rest, fetches'[rest[k]].number = fetches'[rest[l]].number
            PROVE  l = k
        <5>1. PICK m \in DOMAIN fullBlocks : rest[l] = fullBlocks[m]
          BY <3>2
        <5>2. fullBlocks[m] \in DOMAIN fetches
          BY DEF KeptInv
        <5>3. fetches[fullBlocks[m]].number = fetches[fullBlocks[j]].number
          BY <1>5, <4>1, <4>2, <4>3, <5>1, <5>2
        <5>4. m = j
          BY <5>3 DEF KeptInv
        <5> QED  BY <4>1, <5>1, <5>4
      <4> QED  BY <1>5, <4>1, <4>2, <4>3
    <3>4. fullBlocks' = rest
      BY <2>2, <3>1
    <3> QED  BY <1>5, <3>2, <3>3, <3>4 DEF KeptInv
  <2> QED  BY <1>3, <2>1, <2>2
<1>8. RequestsInv'
  <2>1. ASSUME NEW r \in Requests, pc[r] \in {"copy", "copied"}
        PROVE  AwaitsItsBlock(r)' /\ (pc[r] = "copied" => HasItsBlock(r)')
    <3>1. AwaitsItsBlock(r) /\ (pc[r] = "copied" => HasItsBlock(r))
      BY <2>1 DEF RequestsInv
    <3>2. AwaitsItsBlock(r)'
      BY <1>1, <1>5, <3>1 DEF AwaitsItsBlock
    <3>3. ASSUME pc[r] = "copied"  PROVE HasItsBlock(r)'
      <4>1. fetch[r] # f
        BY <1>1, <3>1, <3>3 DEF HasItsBlock, Missing
      <4> QED  BY <1>1, <1>5, <3>1, <3>3, <4>1 DEF HasItsBlock, AwaitsItsBlock
    <3> QED  BY <3>2, <3>3
  <2> QED  BY <1>1, <2>1 DEF RequestsInv
<1> QED  BY <1>1, <1>6, <1>7, <1>8 DEF ChainInv

\* A step of one request that gets to no copy: the others', and what they await, are as before.
LEMMA OneRequestSteps ==
    ASSUME BlocksInv, NEW r \in Requests, UNCHANGED <<chain, forks, head>>,
           FetchesInv', KeptInv',
           \A f \in DOMAIN fetches : f \in DOMAIN fetches' /\ fetches'[f] = fetches[f],
           NEW to \in Steps, NEW block \in BlockType, Copies!Goes(r, to, block),
           NEW q \in AskType, asks' = [asks EXCEPT ![r] = q],
           NEW f \in Nat, fetch' = [fetch EXCEPT ![r] = f],
           to \in {"copy", "copied"} => AwaitsItsBlock(r)',
           to = "copied" => HasItsBlock(r)'
    PROVE  BlocksInv'
<1>1. RequestsInv
  BY DEF BlocksInv
<1>2. /\ pc' \in [Requests -> Steps] /\ asks' \in [Requests -> AskType]
      /\ fetch' \in [Requests -> Nat] /\ got' \in [Requests -> BlockType]
  BY <1>1 DEF RequestsInv, Copies!Goes
<1>3. pc'[r] = to /\ \A s \in Requests \ {r} :
        pc'[s] = pc[s] /\ asks'[s] = asks[s] /\ fetch'[s] = fetch[s] /\ got'[s] = got[s]
  BY <1>1 DEF RequestsInv, Copies!Goes
<1>4. ASSUME NEW s \in Requests
      PROVE  /\ pc'[s] \in {"copy", "copied"} => AwaitsItsBlock(s)'
             /\ pc'[s] = "copied" => HasItsBlock(s)'
  <2>1. CASE s = r
    BY <1>3, <2>1
  <2>2. CASE s # r
    BY <1>1, <1>3, <2>2 DEF RequestsInv, AwaitsItsBlock, HasItsBlock
  <2> QED  BY <2>1, <2>2
<1>5. RequestsInv'
  BY <1>2, <1>4 DEF RequestsInv
<1> QED  BY <1>5 DEF BlocksInv, ChainInv

LEMMA QuestionIsOfItsBlock ==
    ASSUME NEW q, NEW n \in Copies!Source(q), NEW m, q = Copies!ForBlock(m)
    PROVE  m = n
BY DEF Copies!Source, Copies!ForBlock, Copies!ForTx

LEMMA RequestsKeep ==
    ASSUME BlocksInv, NEW r \in Requests,
           \/ Copies!Ask(r) \/ Copies!FromCopy(r) \/ Copies!Forwarded(r)
           \/ Copies!Receipt(r) \/ Copies!Recovered(r)
    PROVE  BlocksInv'
<1>1. UNCHANGED <<chain, forks, head>>
  BY DEF Copies!Ask, Copies!FromCopy, Copies!Forwarded, Copies!Receipt, Copies!Recovered, Copies!chainVars
<1>2. RequestsInv /\ FetchesInv /\ KeptInv /\ ChainInv /\ Copies!Nothing \in BlockType
  BY MissingAreBlocks DEF BlocksInv, Missing
<1>3. asks[r] \in AskType /\ asks = [asks EXCEPT ![r] = asks[r]]
      /\ fetch[r] \in Nat /\ fetch = [fetch EXCEPT ![r] = fetch[r]]
  BY <1>2 DEF RequestsInv
<1>4. ASSUME UNCHANGED Copies!copyVars
      PROVE  /\ FetchesInv' /\ KeptInv'
             /\ \A f \in DOMAIN fetches : f \in DOMAIN fetches' /\ fetches'[f] = fetches[f]
  BY <1>1, <1>2, <1>4 DEF Copies!copyVars, FetchesInv, KeptInv, Copies!isSettled
\* A step that takes up no copy and starts no fetch.
<1>5. ASSUME NEW to \in Steps \ {"copy", "copied"}, Copies!Goes(r, to, Copies!Nothing),
             NEW q \in AskType, asks' = [asks EXCEPT ![r] = q], UNCHANGED <<Copies!copyVars, fetch>>
      PROVE  BlocksInv'
  <2>1. fetch' = [fetch EXCEPT ![r] = fetch[r]]
    BY <1>3, <1>5
  <2> QED  BY <1>1, <1>2, <1>3, <1>4, <1>5, <2>1, OneRequestSteps
\* A step to the block n.
<1>6. ASSUME NEW to \in {"copy", "recover"}, Copies!Goes(r, to, Copies!Nothing),
             NEW q \in AskType, asks' = [asks EXCEPT ![r] = q],
             NEW n \in Nat \ {0}, NEW by \in {"settled", "recovery"}, Copies!FullBlock(r, n, by),
             to = "copy" => n \in Copies!Source(q), by = "settled" => Copies!isSettled(n)
      PROVE  BlocksInv'
  <2>1. /\ FetchesInv' /\ KeptInv'
        /\ \A f \in DOMAIN fetches : f \in DOMAIN fetches' /\ fetches'[f] = fetches[f]
        /\ \E f \in DOMAIN fetches' : fetch' = [fetch EXCEPT ![r] = f] /\ fetches'[f].number = n
    BY <1>1, <1>6, FullBlockKeeps
  <2>2. PICK f \in DOMAIN fetches' : fetch' = [fetch EXCEPT ![r] = f] /\ fetches'[f].number = n
    BY <2>1
  <2>3. f \in Nat
    BY <2>1 DEF FetchesInv
  <2>4. ASSUME to = "copy"  PROVE AwaitsItsBlock(r)'
    <3>1. fetch'[r] = f /\ asks'[r] = q
      BY <1>2, <1>6, <2>2 DEF RequestsInv
    <3>2. \A m \in 1..MaxHeight : q = Copies!ForBlock(m) => n = m
      BY <1>6, <2>4, QuestionIsOfItsBlock
    <3> QED  BY <2>2, <3>1, <3>2 DEF AwaitsItsBlock
  <2>5. to \in Steps /\ to # "copied"
    BY DEF Steps
  <2> QED  BY <1>1, <1>2, <1>6, <2>1, <2>2, <2>3, <2>4, <2>5, OneRequestSteps
<1>7. CASE Copies!Ask(r)
  <2>1. PICK q \in Copies!Questions :
          /\ asks' = [asks EXCEPT ![r] = q]
          /\ \/ \E n \in Copies!Source(q) : Copies!Goes(r, "copy", Copies!Nothing) /\ Copies!FullBlock(r, n, "settled")
             \/ /\ Copies!Goes(r, "forwarded", Copies!Nothing)
                /\ UNCHANGED <<Copies!copyVars, fetch>>
    BY <1>7 DEF Copies!Ask
  <2>2. q \in AskType
    BY DEF AskType
  <2>3. \A n \in Copies!Source(q) : n \in Nat \ {0} /\ Copies!isSettled(n)
    BY CopiesAssumption DEF Copies!Source, Copies!CopiesAssumption
  <2>4. CASE \E n \in Copies!Source(q) : Copies!Goes(r, "copy", Copies!Nothing) /\ Copies!FullBlock(r, n, "settled")
    BY <1>6, <2>1, <2>2, <2>3, <2>4
  <2>5. CASE Copies!Goes(r, "forwarded", Copies!Nothing) /\ UNCHANGED <<Copies!copyVars, fetch>>
    BY <1>5, <2>1, <2>2, <2>5 DEF Steps
  <2> QED  BY <2>1, <2>4, <2>5
<1>8. CASE Copies!FromCopy(r)
  <2>1. /\ pc[r] = "copy" /\ UNCHANGED <<Copies!copyVars, asks, fetch>>
        /\ asks' = [asks EXCEPT ![r] = asks[r]] /\ fetch' = [fetch EXCEPT ![r] = fetch[r]]
    BY <1>3, <1>8 DEF Copies!FromCopy
  <2>2. AwaitsItsBlock(r) /\ pc[r] = "copy"
    BY <1>2, <2>1 DEF RequestsInv
  <2>3. AwaitsItsBlock(r)'
    BY <1>4, <2>1, <2>2 DEF AwaitsItsBlock
  <2>4. PICK block : block = fetches[fetch[r]].block
    OBVIOUS
  <2>5. block \in BlockType
    <3>1. fetches[fetch[r]] \in FetchType
      BY <1>2, <2>2 DEF AwaitsItsBlock, FetchesInv
    <3> QED  BY <2>4, <3>1 DEF FetchType
  <2>6. CASE Copies!Answers(block, asks[r]) /\ Copies!Goes(r, "copied", block)
    <3>1. block \notin Missing
      BY <2>6 DEF Copies!Answers, Missing
    <3>2. got'[r] = block /\ fetches'[fetch'[r]].block = block
      BY <1>2, <1>4, <2>1, <2>2, <2>4, <2>6 DEF Copies!Goes, RequestsInv, AwaitsItsBlock
    <3>3. HasItsBlock(r)'
      BY <3>1, <3>2 DEF HasItsBlock, Missing
    <3> QED  BY <1>1, <1>2, <1>3, <1>4, <2>1, <2>3, <2>5, <2>6, <3>3, OneRequestSteps DEF Steps
  <2>7. CASE Copies!Goes(r, "forwarded", Copies!Nothing)
    BY <1>3, <1>5, <2>1, <2>7 DEF Steps
  <2> QED  BY <1>8, <2>4, <2>6, <2>7 DEF Copies!FromCopy
<1>9. CASE Copies!Forwarded(r)
  <2>1. \E to \in {"answered", "receipt"} : Copies!Goes(r, to, Copies!Nothing)
    BY <1>9 DEF Copies!Forwarded
  <2>2. UNCHANGED <<Copies!copyVars, fetch>> /\ asks' = [asks EXCEPT ![r] = asks[r]]
    BY <1>3, <1>9 DEF Copies!Forwarded
  <2> QED  BY <1>3, <1>5, <2>1, <2>2 DEF Steps
<1>10. CASE Copies!Receipt(r)
  <2>1. asks' = [asks EXCEPT ![r] = asks[r]]
    BY <1>3, <1>10 DEF Copies!Receipt
  <2>2. CASE Copies!Goes(r, "answered", Copies!Nothing) /\ UNCHANGED <<Copies!copyVars, fetch>>
    BY <1>3, <1>5, <2>1, <2>2 DEF Steps
  <2>3. ASSUME NEW t \in Txs, NEW n \in Copies!BlockOf(t),
               Copies!Goes(r, "recover", Copies!Nothing), Copies!FullBlock(r, n, "recovery")
        PROVE  BlocksInv'
    <3>1. n \in Nat \ {0}
      BY <1>2 DEF Copies!BlockOf, ChainInv
    <3> QED  BY <1>3, <1>6, <2>1, <2>3, <3>1
  <2> QED  BY <1>10, <2>2, <2>3 DEF Copies!Receipt
<1>11. CASE Copies!Recovered(r)
  <2>1. /\ Copies!Goes(r, "answered", Copies!Nothing) /\ UNCHANGED <<Copies!copyVars, fetch>>
        /\ asks' = [asks EXCEPT ![r] = asks[r]]
    BY <1>3, <1>11 DEF Copies!Recovered
  <2> QED  BY <1>3, <1>5, <2>1 DEF Steps
<1> QED  BY <1>7, <1>8, <1>9, <1>10, <1>11

LEMMA BlocksStep == BlocksInv /\ [Copies!Next]_(Copies!vars) => BlocksInv'
<1> SUFFICES ASSUME BlocksInv, [Copies!Next]_(Copies!vars)  PROVE BlocksInv'
  OBVIOUS
<1>1. CASE Copies!RememberLogs \/ UNCHANGED Copies!vars
  <2>1. UNCHANGED <<chain, forks, head, fetches, fullBlocks, pc, asks, fetch, got>>
    BY <1>1 DEF Copies!RememberLogs, Copies!vars, Copies!chainVars, Copies!copyVars
  <2> QED  BY <2>1 DEF BlocksInv, ChainInv, FetchesInv, KeptInv, RequestsInv, AwaitsItsBlock, HasItsBlock,
                       Copies!isSettled
<1> QED  BY <1>1, ChainMovesKeeps, FetchedKeeps, RequestsKeep DEF Copies!Next

\* What is answered from a copy is the chain's (rpcPacer.ts:60), unless the copy was fetched to
\* recover a transaction of a block that was not settled then (rpcPacer.ts:554), and no failed
\* fetch is kept (rpcPacer.ts:489), however many blocks, transactions, requests and reorgs of
\* less than SettledDepth there are.
THEOREM StaleCopiesAreRecovered == Copies!Spec => []CopiesKept
<1>1. BlocksInv => CopiesKept
  <2> SUFFICES ASSUME BlocksInv  PROVE CopiesKept
    OBVIOUS
  <2>1. ChainInv /\ FetchesInv /\ KeptInv /\ RequestsInv
    BY DEF BlocksInv
  <2>2. ASSUME NEW r \in Requests, pc[r] = "copied", ~fetches[fetch[r]].early
        PROVE  Copies!IsTheChains(r)
    <3>1. AwaitsItsBlock(r) /\ HasItsBlock(r)
      BY <2>1, <2>2 DEF RequestsInv
    <3>2. PICK n : n = fetches[fetch[r]].number
      OBVIOUS
    <3>3. fetches[fetch[r]] \in FetchType
      BY <2>1, <3>1 DEF AwaitsItsBlock, FetchesInv
    <3>4. n \in Nat \ {0}
      BY <3>2, <3>3 DEF FetchType
    <3>5. Copies!isSettled(n) /\ got[r] = chain[n]
      BY <2>1, <2>2, <3>1, <3>2 DEF FetchesInv, AwaitsItsBlock, HasItsBlock
    <3>6. n \in DOMAIN chain
      BY <2>1, <3>4, <3>5, SettledIsReached
    <3> QED  BY <3>1, <3>2, <3>5, <3>6 DEF Copies!IsTheChains, AwaitsItsBlock
  <2>3. ASSUME NEW r \in Requests, pc[r] = "copied", fetches[fetch[r]].early
        PROVE  fetches[fetch[r]].by = "recovery"
    <3>1. fetch[r] \in DOMAIN fetches
      BY <2>1, <2>3 DEF RequestsInv, AwaitsItsBlock
    <3>2. fetches[fetch[r]] \in FetchType
      BY <2>1, <3>1 DEF FetchesInv
    <3>3. fetches[fetch[r]].by # "settled"
      BY <2>1, <2>3, <3>1 DEF FetchesInv
    <3> QED  BY <3>2, <3>3 DEF FetchType
  <2>4. Copies!StaleOnlyByRecovery
    BY <2>2, <2>3 DEF Copies!StaleOnlyByRecovery, Copies!Copied
  <2>5. Copies!FailuresNotKept
    BY <2>1 DEF Copies!FailuresNotKept, Copies!Range, KeptInv
  <2> QED  BY <2>4, <2>5 DEF CopiesKept
<1> QED  BY <1>1, BlocksStart, BlocksStep, PTL DEF Copies!Spec
-----------------------------------------------------------------------------
(* What a client is given.  Has is what a bucket would hold at a time, were *)
(* it never full since it was looked at; it is linear in that time, which  *)
(* is all that the argument needs, so the products are named once.         *)

Has(tokens, at, t) == tokens + (t - at) * Rate
Due(times, i) == (Len(times) - i + 1) * Unit
Cap == Burst * Unit

LEMMA Numbers ==
    /\ Unit \in Nat \ {0} /\ Rate \in Nat \ {0} /\ Burst \in Nat \ {0}
    /\ MaxKeys \in Nat \ {0} /\ Second \in Nat \ {0}
BY LimitsAssumption DEF Limits!LimitsAssumption

LEMMA CapIs == Cap \in Nat /\ Unit <= Cap
<1>1. PICK u \in Nat \ {0} : u = Unit
  BY Numbers
<1>2. PICK b \in Nat \ {0} : b = Burst
  BY Numbers
<1>3. PICK c \in Nat \ {0} : b = c
  BY <1>2
<1>4. b * u \in Nat /\ u <= b * u
  BY <1>1, <1>2
<1> QED  BY <1>1, <1>2, <1>4 DEF Cap

\* The laws of Has and Due.
LEMMA Apart ==
    ASSUME NEW a \in Int, NEW b \in Int, NEW n \in Int
    PROVE  (a + b) * n = a * n + b * n
OBVIOUS

LEMMA HasIs ==
    ASSUME NEW tokens \in Int, NEW at \in Int, NEW t \in Int
    PROVE  Has(tokens, at, t) \in Int
<1>1. PICK r \in Int : r = Rate
  BY Numbers
<1>2. tokens + (t - at) * r \in Int
  BY <1>1
<1> QED  BY <1>1, <1>2 DEF Has

LEMMA HasMoves ==
    ASSUME NEW tokens \in Int, NEW at \in Int, NEW t \in Int, NEW u \in Int
    PROVE  Has(tokens, at, u) = Has(tokens, at, t) + (u - t) * Rate
<1>1. PICK r \in Int : r = Rate
  BY Numbers
<1>2. PICK a \in Int, b \in Int, c \in Int :
          a = (u - at) * r /\ b = (t - at) * r /\ c = (u - t) * r
  BY <1>1
<1>3. a = b + c
  <2>1. ((t - at) + (u - t)) * r = (t - at) * r + (u - t) * r
    BY <1>1, Apart
  <2>2. (t - at) + (u - t) = u - at
    OBVIOUS
  <2> QED  BY <2>1, <2>2, <1>2
<1>4. Has(tokens, at, u) = tokens + a /\ Has(tokens, at, t) = tokens + b
  BY <1>1, <1>2 DEF Has
<1>5. tokens + a = (tokens + b) + c
  BY ONLY <1>3, tokens \in Int, a \in Int, b \in Int, c \in Int
<1> QED  BY <1>1, <1>2, <1>4, <1>5

\* Of a bucket that was looked at, at u.
LEMMA HasAgain ==
    ASSUME NEW tokens \in Int, NEW at \in Int, NEW t \in Int, NEW u \in Int,
           NEW looked \in Int, looked = Has(tokens, at, u)
    PROVE  Has(looked, u, t) = Has(tokens, at, t)
<1>1. PICK r \in Int : r = Rate
  BY Numbers
<1>2. PICK was \in Int, d \in Int : was = Has(tokens, at, u) /\ d = (t - u) * r
  BY <1>1, HasIs
<1>3. Has(tokens, at, t) = was + d
  <2>1. Has(tokens, at, t) = Has(tokens, at, u) + (t - u) * Rate
    BY HasMoves
  <2> QED  BY <1>1, <1>2, <2>1
<1> QED  BY <1>1, <1>2, <1>3 DEF Has

LEMMA HasLess ==
    ASSUME NEW tokens \in Int, NEW less \in Int, NEW at \in Int, NEW t \in Int,
           NEW rest \in Int, rest = tokens - less
    PROVE  Has(rest, at, t) = Has(tokens, at, t) - less
<1>1. PICK r \in Int : r = Rate
  BY Numbers
<1>2. PICK a \in Int : a = (t - at) * r
  BY <1>1
<1>3. rest + a = (tokens + a) - less
  BY ONLY rest = tokens - less, tokens \in Int, less \in Int, rest \in Int, a \in Int
<1> QED  BY <1>1, <1>2, <1>3 DEF Has

LEMMA DueGrows ==
    ASSUME NEW times \in Seq(Int), NEW t \in Int
    PROVE  /\ \A i \in 1..Len(times) :
                 Due(times, i) \in Int /\ Due(Append(times, t), i) = Due(times, i) + Unit
           /\ Due(Append(times, t), Len(times) + 1) = Unit
<1>1. PICK u \in Int : u = Unit
  BY Numbers
<1>2. PICK n \in Nat : n = Len(times)
  OBVIOUS
<1>3. Len(Append(times, t)) = n + 1
  BY <1>2
<1>4. ASSUME NEW i \in 1..n
      PROVE  (n - i + 1) * u \in Int /\ ((n + 1) - i + 1) * u = (n - i + 1) * u + u
  <2>1. ((n - i + 1) + 1) * u = (n - i + 1) * u + 1 * u
    BY <1>1, <1>2, Apart
  <2>2. (n - i + 1) + 1 = (n + 1) - i + 1 /\ 1 * u = u
    BY <1>1, <1>2
  <2> QED  BY <1>1, <1>2, <2>1, <2>2
<1>5. ((n + 1) - (n + 1) + 1) * u = u
  BY <1>1, <1>2
<1> QED  BY <1>1, <1>2, <1>3, <1>4, <1>5 DEF Due

LEMMA DivisionIs ==
    ASSUME NEW m \in Int, NEW n \in Nat \ {0}
    PROVE  \E q \in Int, r \in 0..(n - 1) : m \div n = q /\ m = q * n + r
<1>1. PICK q \in Int : q = m \div n
  OBVIOUS
<1>2. PICK r \in Int : r = m - q * n
  BY <1>1
<1>3. r \in 0..(n - 1)
  BY <1>1, <1>2, SMTT(30)
<1> QED  BY <1>1, <1>2, <1>3

LEMMA Multiplied ==
    ASSUME NEW m \in Int, NEW n \in Int, NEW d \in Nat, m <= n
    PROVE  m * d <= n * d
<1>1. PICK e \in Nat : e = n - m
  OBVIOUS
<1>2. (m + e) * d = m * d + e * d
  BY <1>1, Apart
<1>3. e * d \in Nat
  BY <1>1
<1>4. m + e = n
  BY <1>1
<1> QED  BY <1>2, <1>3, <1>4

\* Retry-After is long enough: what is added until then makes a token.
LEMMA RetryIsEnough ==
    ASSUME NEW tokens \in Int
    PROVE  /\ Limits!retryAfterSeconds(tokens) \in Nat \ {0}
           /\ Unit <= tokens + (Second * Limits!retryAfterSeconds(tokens)) * Rate
<1>1. PICK r \in Nat \ {0}, s \in Nat \ {0}, u \in Nat \ {0} : r = Rate /\ s = Second /\ u = Unit
  BY Numbers
<1>2. PICK n \in Nat \ {0} : n = r * s
  BY <1>1
<1>3. PICK m \in Int : m = u - tokens
  BY <1>1
<1>4. PICK q \in Int, rest \in 0..(n - 1) : (m + n - 1) \div n = q /\ m + n - 1 = q * n + rest
  BY <1>2, <1>3, DivisionIs
<1>5. m <= q * n
  <2>1. PICK a \in Int : a = q * n
    BY <1>2, <1>4
  <2> QED  BY <1>2, <1>3, <1>4, <2>1
<1>6. PICK w \in Nat \ {0} : w = (IF q < 1 THEN 1 ELSE q) /\ q <= w
  BY <1>4
<1>7. Limits!retryAfterSeconds(tokens) = w
  BY <1>1, <1>2, <1>3, <1>4, <1>6 DEF Limits!retryAfterSeconds, Limits!CeilDiv
<1>8. m <= w * n
  <2>1. q * n <= w * n
    BY <1>2, <1>4, <1>6, Multiplied
  <2>2. PICK a \in Int, b \in Int : a = q * n /\ b = w * n
    BY <1>2, <1>4, <1>6
  <2> QED  BY <1>5, <2>1, <2>2
<1>9. w * n = (s * w) * r
  BY <1>1, <1>2, <1>6
<1>10. PICK a \in Int : a = (s * w) * r
  BY <1>1, <1>6
<1>11. u <= tokens + a
  BY <1>1, <1>3, <1>8, <1>9, <1>10
<1> QED  BY <1>1, <1>6, <1>7, <1>10, <1>11

-----------------------------------------------------------------------------
\* The account of a client that has a bucket.  Since any of its allowed requests the bucket has
\* lost a token each, and got at most what the rate adds; since one of them, it got all of it.
Account(tokens, at, times) ==
    /\ \A i \in 1..Len(times) : Has(tokens, at, times[i]) + Due(times, i) <= Cap
    /\ \E i \in 1..Len(times) : Has(tokens, at, times[i]) + Due(times, i) = Cap

Told(tokens, at, back) == back >= 0 => Unit <= Has(tokens, at, back)

\* Over, of any times.
TooMany(times, t) ==
    \E i \in DOMAIN times : (Len(times) - i + 2) * Unit > Burst * Unit + (t - times[i]) * Rate

LEMMA TooManyIs ==
    ASSUME NEW tokens \in Int, NEW at \in Int, NEW times \in Seq(Int), NEW t \in Int,
           Account(tokens, at, times)
    PROVE  TooMany(times, t) <=> Has(tokens, at, t) < Unit
<1>1. PICK u \in Nat \ {0}, cap \in Nat, h \in Int : u = Unit /\ cap = Cap /\ h = Has(tokens, at, t)
  BY Numbers, CapIs, HasIs
<1>2. ASSUME NEW i \in 1..Len(times)
      PROVE  \E was \in Int, due \in Int, added \in Int :
                /\ was = Has(tokens, at, times[i]) /\ due = Due(times, i)
                /\ added = (t - times[i]) * Rate
                /\ h = was + added
                /\ (Len(times) - i + 2) * Unit = due + u
  <2>0. PICK x \in Int : x = times[i]
    OBVIOUS
  <2>1. PICK was \in Int : was = Has(tokens, at, x)
    BY HasIs
  <2>2. PICK due \in Int : due = Due(times, i)
    BY DueGrows
  <2>3. PICK r \in Int : r = Rate
    BY Numbers
  <2>4. PICK added \in Int : added = (t - x) * r
    BY <2>0, <2>3
  <2>5. h = was + added
    <3>1. Has(tokens, at, t) = Has(tokens, at, x) + (t - x) * Rate
      BY <2>0, HasMoves
    <3> QED  BY <1>1, <2>1, <2>3, <2>4, <3>1
  <2>6. (Len(times) - i + 2) * u = due + u
    <3>0. PICK l \in Int, k \in Int : l = Len(times) /\ k = i
      OBVIOUS
    <3>1. PICK n \in Int : n = (l - k) + 1
      <4>1. (l - k) + 1 \in Int
        BY ONLY l \in Int, k \in Int
      <4> QED  BY ONLY <4>1, Zenon
    <3>2. (n + 1) * u = n * u + 1 * u
      BY <1>1, <3>1, Apart
    <3>3. n + 1 = Len(times) - i + 2 /\ 1 * u = u
      BY <1>1, <3>0, <3>1
    <3>4. due = n * u
      BY <1>1, <2>2, <3>0, <3>1 DEF Due
    <3> QED  BY <3>2, <3>3, <3>4
  <2> QED  BY <1>1, <2>0, <2>1, <2>2, <2>3, <2>4, <2>5, <2>6
<1>3. ASSUME TooMany(times, t)
      PROVE  h < u
  <2>0. DOMAIN times = 1..Len(times)
    OBVIOUS
  <2>1. PICK i \in 1..Len(times) : (Len(times) - i + 2) * Unit > Cap + (t - times[i]) * Rate
    BY <1>3, <2>0, Zenon DEF TooMany, Cap
  <2>2. PICK was \in Int, due \in Int, added \in Int :
            /\ was = Has(tokens, at, times[i]) /\ due = Due(times, i)
            /\ added = (t - times[i]) * Rate
            /\ h = was + added
            /\ (Len(times) - i + 2) * Unit = due + u
    BY <1>2
  <2>3. was + due <= cap
    BY <1>1, <2>2 DEF Account
  <2>4. due + u > cap + added
    BY <1>1, <2>1, <2>2
  <2>5. h = was + added
    BY <2>2
  <2> QED  BY ONLY <2>3, <2>4, <2>5, h \in Int, u \in Int, cap \in Int, was \in Int, due \in Int,
               added \in Int
<1>4. ASSUME h < u
      PROVE  TooMany(times, t)
  <2>1. PICK i \in 1..Len(times) : Has(tokens, at, times[i]) + Due(times, i) = Cap
    BY DEF Account
  <2>2. PICK was \in Int, due \in Int, added \in Int :
            /\ was = Has(tokens, at, times[i]) /\ due = Due(times, i)
            /\ added = (t - times[i]) * Rate
            /\ h = was + added
            /\ (Len(times) - i + 2) * Unit = due + u
    BY <1>2
  <2>3. was + due = cap
    BY <1>1, <2>1, <2>2
  <2>4. due + u > cap + added
    <3>1. h = was + added
      BY <2>2
    <3> QED  BY ONLY <1>4, <2>3, <3>1, h \in Int, u \in Int, cap \in Int, was \in Int, due \in Int,
                 added \in Int
  <2>5. (Len(times) - i + 2) * Unit > Cap + (t - times[i]) * Rate
    BY <1>1, <2>2, <2>4
  <2>6. DOMAIN times = 1..Len(times)
    OBVIOUS
  <2> QED  BY <2>5, <2>6, Zenon DEF TooMany, Cap
<1> QED  BY <1>1, <1>3, <1>4

\* What a bucket holds when it is looked at.
Held(tokens, at, t) == Limits!Lower(Cap, Has(tokens, at, t))

LEMMA HeldIs ==
    ASSUME NEW tokens \in Int, NEW at \in Int, NEW t \in Int
    PROVE  /\ Held(tokens, at, t) \in Int
           /\ Held(tokens, at, t) <= Cap /\ Held(tokens, at, t) <= Has(tokens, at, t)
           /\ Held(tokens, at, t) \in {Cap, Has(tokens, at, t)}
           /\ Held(tokens, at, t) < Unit <=> Has(tokens, at, t) < Unit
<1>1. PICK u \in Nat \ {0}, cap \in Nat, h \in Int :
          u = Unit /\ cap = Cap /\ u <= cap /\ h = Has(tokens, at, t)
  BY Numbers, CapIs, HasIs
<1>2. Held(tokens, at, t) = IF cap <= h THEN cap ELSE h
  BY <1>1 DEF Held, Limits!Lower
<1> QED  BY <1>1, <1>2

\* Looking does not change the account, but for what does not fit.
LEMMA LookedAt ==
    ASSUME NEW tokens \in Int, NEW at \in Int, NEW times \in Seq(Int), NEW t \in Int,
           Account(tokens, at, times), Has(tokens, at, t) < Unit
    PROVE  /\ Held(tokens, at, t) = Has(tokens, at, t)
           /\ Account(Held(tokens, at, t), t, times)
<1>1. Held(tokens, at, t) = Has(tokens, at, t)
  <2>1. PICK u \in Nat \ {0}, cap \in Nat, h \in Int :
            u = Unit /\ cap = Cap /\ u <= cap /\ h = Has(tokens, at, t)
    BY Numbers, CapIs, HasIs
  <2>2. Held(tokens, at, t) = IF cap <= h THEN cap ELSE h
    BY <2>1 DEF Held, Limits!Lower
  <2> QED  BY <2>1, <2>2
<1>2. ASSUME NEW i \in 1..Len(times)
      PROVE  Has(Has(tokens, at, t), t, times[i]) = Has(tokens, at, times[i])
  <2>1. PICK x \in Int : x = times[i]
    OBVIOUS
  <2>2. PICK looked \in Int : looked = Has(tokens, at, t)
    BY HasIs
  <2> QED  BY <2>1, <2>2, HasAgain
<1> QED  BY <1>1, <1>2 DEF Account

\* A request that is allowed.
LEMMA TakenFrom ==
    ASSUME NEW tokens \in Int, NEW at \in Int, NEW times \in Seq(Int), NEW t \in Int,
           Account(tokens, at, times)
    PROVE  Account(Held(tokens, at, t) - Unit, t, Append(times, t))
<1> DEFINE more == Append(times, t)
<1>0. PICK n \in Nat : n = Len(times)
  OBVIOUS
<1>1. PICK u \in Nat \ {0}, cap \in Nat, h \in Int :
          u = Unit /\ cap = Cap /\ h = Has(tokens, at, t)
  BY Numbers, CapIs, HasIs
<1>2. PICK held \in Int : held = Held(tokens, at, t) /\ held <= cap /\ held <= h /\ held \in {cap, h}
  BY <1>1, HeldIs
<1>3. Len(more) = n + 1 /\ more[n + 1] = t /\ \A i \in 1..n : more[i] = times[i]
  BY <1>0
<1>4. PICK left \in Int : left = held - u /\ Has(left, t, t) = left
  <2>1. PICK left \in Int : left = held - u
    BY <1>1, <1>2
  <2> QED  BY <2>1, Numbers DEF Has
<1>5. Has(left, t, more[n + 1]) + Due(more, n + 1) = held
  BY <1>0, <1>1, <1>2, <1>3, <1>4, DueGrows
<1>6. ASSUME NEW i \in 1..n
      PROVE  \E was \in Int, due \in Int, now \in Int :
                /\ was = Has(tokens, at, times[i]) /\ due = Due(times, i)
                /\ now = Has(left, t, more[i]) + Due(more, i)
                /\ now <= was + due
                /\ held = h => now = was + due
  <2>0. PICK x \in Int : x = times[i] /\ x = more[i]
    BY <1>0, <1>3
  <2>1. PICK was \in Int : was = Has(tokens, at, x)
    BY HasIs
  <2>2. PICK due \in Int : due = Due(times, i) /\ Due(more, i) = due + u
    BY <1>0, <1>1, DueGrows
  <2>3. Has(h, t, x) = was
    BY <1>1, <2>1, HasAgain
  <2>4. PICK less \in Nat : less = h - held
    BY <1>1, <1>2
  <2>5. PICK lost \in Int : lost = less + u
    BY <1>1, <2>4
  <2>6. left = h - lost
    BY ONLY <1>4, <2>4, <2>5, h \in Int, held \in Int, less \in Int, lost \in Int, u \in Int, left \in Int
  <2>7. Has(left, t, x) = was - lost
    <3>1. Has(left, t, x) = Has(h, t, x) - lost
      BY <2>6, HasLess
    <3> QED  BY <2>3, <3>1
  <2>8. PICK now \in Int : now = (was - lost) + (due + u)
    BY <1>1, <2>1, <2>2, <2>5
  <2>9. now = (was + due) - less
    BY ONLY <2>5, <2>8, now \in Int, was \in Int, due \in Int, less \in Int, lost \in Int, u \in Int
  <2>10. now <= was + due /\ (held = h => now = was + due)
    BY ONLY <2>4, <2>9, now \in Int, was \in Int, due \in Int, less \in Nat, held \in Int, h \in Int
  <2>11. now = Has(left, t, more[i]) + Due(more, i)
    BY <2>0, <2>2, <2>7, <2>8
  <2> QED  BY <2>0, <2>1, <2>2, <2>10, <2>11
<1>7. ASSUME NEW i \in 1..(n + 1)
      PROVE  Has(left, t, more[i]) + Due(more, i) <= cap
  <2>1. CASE i = n + 1
    BY <1>0, <1>1, <1>2, <1>5, <2>1
  <2>2. CASE i \in 1..n
    <3>1. PICK was \in Int, due \in Int, now \in Int :
              /\ was = Has(tokens, at, times[i]) /\ due = Due(times, i)
              /\ now = Has(left, t, more[i]) + Due(more, i)
              /\ now <= was + due
      BY <1>6, <2>2
    <3>2. was + due <= cap
      BY <1>0, <1>1, <2>2, <3>1 DEF Account
    <3>3. now <= was + due
      BY <3>1
    <3>4. now <= cap
      BY ONLY <3>2, <3>3, was \in Int, due \in Int, now \in Int, cap \in Int
    <3> QED  BY <3>1, <3>4
  <2> QED  BY <1>0, <2>1, <2>2
<1>8. \E i \in 1..(n + 1) : Has(left, t, more[i]) + Due(more, i) = cap
  <2>1. CASE held = cap
    BY <1>0, <1>5, <2>1
  <2>2. CASE held = h
    <3>1. PICK i \in 1..n : Has(tokens, at, times[i]) + Due(times, i) = cap
      BY <1>0, <1>1 DEF Account
    <3>2. Has(left, t, more[i]) + Due(more, i) = cap
      BY <1>6, <2>2, <3>1
    <3> QED  BY <1>0, <3>1, <3>2
  <2> QED  BY <1>2, <2>1, <2>2
<1> QED  BY <1>0, <1>1, <1>2, <1>3, <1>4, <1>7, <1>8 DEF Account

\* The first request of a client that has no bucket.
LEMMA FirstTaken ==
    ASSUME NEW t \in Int
    PROVE  Account(Cap - Unit, t, Append(<<>>, t))
<1>1. PICK u \in Nat \ {0}, cap \in Nat : u = Unit /\ cap = Cap
  BY Numbers, CapIs
<1>2. Append(<<>>, t) = <<t>> /\ Len(<<t>>) = 1
  OBVIOUS
<1>3. Has(cap - u, t, t) = cap - u
  BY <1>1, Numbers DEF Has
<1>4. Due(<<t>>, 1) = u
  BY <1>1, <1>2 DEF Due
<1>5. Has(cap - u, t, <<t>>[1]) + Due(<<t>>, 1) = cap
  BY <1>1, <1>3, <1>4
<1> QED  BY <1>1, <1>2, <1>5 DEF Account

-----------------------------------------------------------------------------
(* The buckets.                                                            *)

BucketType == [key : Clients, tokens : Int, at : Int]

LEMMA KeyIsTheClient ==
    ASSUME NEW client \in Clients, NEW key \in Limits!KeysOf(client)
    PROVE  key = client
<1>0. PICK host \in Hosts, claim \in Claimed :
          \E request \in Limits!Arrivals(Limits!Address(client, host), claim) :
              key = Limits!clientKey(Limits!resolveClientIp(request))
  BY DEF Limits!KeysOf
<1>1. PICK request \in Limits!Arrivals(Limits!Address(client, host), claim) :
          key = Limits!clientKey(Limits!resolveClientIp(request))
  BY <1>0
<1>2. client # "none" /\ client # "cloudflare" /\ IpSource \in {"socket", "cloudflare", "heroku-cloudflare"}
  BY LimitsAssumption DEF Limits!LimitsAssumption, Limits!Sources
<1> DEFINE from == Limits!Address(client, host)
<1>3. from # Limits!NoHeader /\ from # Limits!Edge /\ from.net = client
  BY <1>2 DEF Limits!Address, Limits!NoHeader, Limits!Edge
<1>4. Limits!resolveClientIp(request) = from
  <2>1. \/ Limits!Hop(request) = Limits!Edge /\ request.connectingIp = from /\ IpSource # "socket"
        \/ Limits!Hop(request) = from
    <3>1. CASE IpSource = "heroku-cloudflare"
      <4>1. PICK way \in {"through", "past"} :
                LET hop == IF way = "through" THEN Limits!Edge ELSE from
                IN  request = [socketIp |-> Limits!Router, forwardedFor |-> <<claim, hop>>,
                               connectingIp |-> IF way = "through" THEN from ELSE claim]
        BY <1>1, <3>1 DEF Limits!Arrivals
      <4>2. \A a, b : Limits!lastForwardedHop(<<a, b>>) = b
        BY DEF Limits!lastForwardedHop, Limits!Last
      <4>3. Limits!Hop(request) = IF way = "through" THEN Limits!Edge ELSE from
        BY <3>1, <4>1, <4>2 DEF Limits!Hop
      <4> QED  BY <3>1, <4>1, <4>3
    <3>2. CASE IpSource # "heroku-cloudflare"
      <4>1. PICK way \in (IF IpSource = "socket" THEN {"past"} ELSE {"through", "past"}) :
                request = [socketIp |-> IF way = "through" THEN Limits!Edge ELSE from,
                           forwardedFor |-> <<claim>>,
                           connectingIp |-> IF way = "through" THEN from ELSE claim]
        BY <1>1, <3>2 DEF Limits!Arrivals
      <4>2. Limits!Hop(request) = IF way = "through" THEN Limits!Edge ELSE from
        BY <3>2, <4>1 DEF Limits!Hop
      <4> QED  BY <4>1, <4>2
    <3> QED  BY <3>1, <3>2
  <2>2. CASE Limits!Hop(request) = Limits!Edge /\ request.connectingIp = from /\ IpSource # "socket"
    <3>1. Limits!Believed(request)
      BY <1>3, <2>2 DEF Limits!Believed, Limits!inRanges
    <3> QED  BY <2>2, <3>1 DEF Limits!resolveClientIp
  <2>3. CASE Limits!Hop(request) = from
    <3>1. ~Limits!Believed(request)
      BY <1>3, <2>3 DEF Limits!Believed, Limits!inRanges
    <3> QED  BY <2>3, <3>1 DEF Limits!resolveClientIp
  <2> QED  BY <2>1, <2>2, <2>3
<1> QED  BY <1>1, <1>3, <1>4 DEF Limits!clientKey

\* The keys used after the i-th.
KeysAfter(s, i) == {s[j].key : j \in (i + 1)..Len(s)}

Distinct(s) == \A i, j \in 1..Len(s) : s[i].key = s[j].key => i = j

\* As many as there are places for them.
LEMMA SameCardinality == \A S : Limits!Cardinality(S) = Cardinality(S)
BY DEF Limits!Cardinality, Cardinality, Limits!IsFiniteSet, IsFiniteSet

LEMMA KeysAfterCounted ==
    ASSUME NEW s \in Seq(BucketType), Distinct(s), NEW i \in 0..Len(s)
    PROVE  Cardinality(KeysAfter(s, i)) = Len(s) - i
<1>1. PICK n \in Nat : n = Len(s) /\ i <= n
  OBVIOUS
<1> DEFINE places == (i + 1)..n
           keyAt == [j \in places |-> s[j].key]
<1>2. IsFiniteSet(places) /\ Cardinality(places) = n - i
  <2>1. i + 1 \in Int /\ n \in Int
    BY <1>1
  <2>2. IsFiniteSet(places) /\ Cardinality(places) = IF i + 1 > n THEN 0 ELSE n - (i + 1) + 1
    BY <2>1, FS_Interval
  <2> QED  BY <1>1, <2>2
<1>3. keyAt \in Bijection(places, KeysAfter(s, i))
  <2>1. keyAt \in Injection(places, KeysAfter(s, i))
    BY <1>1 DEF Injection, IsInjective, KeysAfter, Distinct
  <2>2. keyAt \in Surjection(places, KeysAfter(s, i))
    BY <1>1 DEF Surjection, KeysAfter
  <2> QED  BY <2>1, <2>2 DEF Bijection
<1>4. ExistsBijection(places, KeysAfter(s, i))
  BY <1>3 DEF ExistsBijection
<1> QED  BY <1>1, <1>2, <1>4, FS_Bijection

\* t is s without its k-th, or s itself if it has none.
IsWithout(t, s, k) ==
    /\ t \in Seq(BucketType)
    /\ Len(t) = IF k <= Len(s) THEN Len(s) - 1 ELSE Len(s)
    /\ \A i \in 1..Len(t) : t[i] = s[IF i < k THEN i ELSE i + 1]

LEMMA WithoutIs ==
    ASSUME NEW s \in Seq(BucketType), NEW k \in 1..Len(s)
    PROVE  IsWithout(Limits!RemoveAt(s, k), s, k)
<1>1. PICK n \in Nat : n = Len(s) /\ k \in 1..n
  OBVIOUS
<1>2. PICK a : a = SubSeq(s, 1, k - 1)
  OBVIOUS
<1>3. PICK b : b = SubSeq(s, k + 1, n)
  OBVIOUS
<1>4. a \in Seq(BucketType) /\ Len(a) = k - 1 /\ \A i \in 1..(k - 1) : a[i] = s[i]
  BY <1>1, <1>2
<1>5. b \in Seq(BucketType) /\ Len(b) = n - k /\ \A i \in 1..(n - k) : b[i] = s[k + i]
  BY <1>1, <1>3
<1>6. Limits!RemoveAt(s, k) = a \o b
  BY <1>1, <1>2, <1>3 DEF Limits!RemoveAt
<1>7. a \o b \in Seq(BucketType) /\ Len(a \o b) = n - 1
  BY <1>1, <1>4, <1>5
<1>8. ASSUME NEW i \in 1..(n - 1)
      PROVE  (a \o b)[i] = s[IF i < k THEN i ELSE i + 1]
  <2>1. CASE i < k
    BY <1>1, <1>4, <1>5, <2>1
  <2>2. CASE ~(i < k)
    <3>1. i - (k - 1) \in 1..(n - k) /\ k + (i - (k - 1)) = i + 1
      BY <1>1, <2>2
    <3>2. (a \o b)[i] = b[i - (k - 1)]
      BY <1>1, <1>4, <1>5, <2>2
    <3> QED  BY <1>5, <2>2, <3>1, <3>2
  <2> QED  BY <2>1, <2>2
<1>9. PICK t : t = a \o b
  OBVIOUS
<1>10. t \in Seq(BucketType) /\ Len(t) = IF k <= Len(s) THEN Len(s) - 1 ELSE Len(s)
  <2>1. t \in Seq(BucketType) /\ Len(t) = n - 1
    BY <1>7, <1>9
  <2>2. k <= Len(s)
    BY <1>1
  <2> QED  BY <1>1, <2>1, <2>2
<1>11. \A i \in 1..Len(t) : t[i] = s[IF i < k THEN i ELSE i + 1]
  BY <1>7, <1>8, <1>9
<1> QED  BY <1>6, <1>9, <1>10, <1>11 DEF IsWithout

LEMMA TailIs ==
    ASSUME NEW s \in Seq(BucketType), s # <<>>
    PROVE  IsWithout(Tail(s), s, 1)
BY DEF IsWithout

LEMMA SameIs ==
    ASSUME NEW s \in Seq(BucketType)
    PROVE  IsWithout(s, s, Len(s) + 1)
BY DEF IsWithout

\* Who comes after whom is not changed by leaving one out.
LEMMA AfterWithout ==
    ASSUME NEW s \in Seq(BucketType), NEW k \in 1..(Len(s) + 1), NEW t, IsWithout(t, s, k),
           Distinct(s)
    PROVE  /\ Distinct(t)
           /\ \A i \in 1..Len(t) :
                 LET m == IF i < k THEN i ELSE i + 1
                 IN  /\ m \in 1..Len(s) /\ m # k /\ t[i] = s[m]
                     /\ KeysAfter(s, m) =
                          KeysAfter(t, i) \cup {s[j].key : j \in {k} \cap ((m + 1)..Len(s))}
           /\ \A m \in 1..Len(s) : m # k => \E i \in 1..Len(t) : m = IF i < k THEN i ELSE i + 1
<1>1. PICK n \in Nat : n = Len(s)
  OBVIOUS
<1>2. PICK l \in Nat : l = Len(t) /\ l = IF k <= n THEN n - 1 ELSE n
  <2>1. t \in Seq(BucketType) /\ Len(t) = IF k <= Len(s) THEN Len(s) - 1 ELSE Len(s)
    BY DEF IsWithout
  <2>2. PICK l \in Nat : l = Len(t)
    BY <2>1
  <2> QED  BY <1>1, <2>1, <2>2
<1>3. \A i \in 1..l : t[i] = s[IF i < k THEN i ELSE i + 1]
  BY <1>2 DEF IsWithout
<1>4. \A i \in 1..l : (IF i < k THEN i ELSE i + 1) \in 1..n /\ (IF i < k THEN i ELSE i + 1) # k
  BY <1>1, <1>2
<1>5. Distinct(t)
  <2> SUFFICES ASSUME NEW i \in 1..l, NEW j \in 1..l, t[i].key = t[j].key
               PROVE  i = j
    BY <1>2 DEF Distinct
  <2>1. (IF i < k THEN i ELSE i + 1) = (IF j < k THEN j ELSE j + 1)
    BY <1>1, <1>3, <1>4 DEF Distinct
  <2> QED  BY <1>1, <1>2, <2>1
<1>6. \A m \in 1..n : m # k => \E i \in 1..l : m = IF i < k THEN i ELSE i + 1
  <2> SUFFICES ASSUME NEW m \in 1..n, m # k
               PROVE  \E i \in 1..l : m = IF i < k THEN i ELSE i + 1
    OBVIOUS
  <2>1. CASE m < k
    <3>1. m \in 1..l
      BY <1>1, <1>2, <2>1
    <3> QED  BY <2>1, <3>1
  <2>2. CASE m > k
    <3>1. m - 1 \in 1..l /\ ~(m - 1 < k) /\ m = (m - 1) + 1
      BY <1>1, <1>2, <2>2
    <3> QED  BY <3>1
  <2> QED  BY <1>1, <2>1, <2>2
<1>7. ASSUME NEW i \in 1..l, NEW m \in 1..n, m = IF i < k THEN i ELSE i + 1
      PROVE  KeysAfter(s, m) = KeysAfter(t, i) \cup {s[j].key : j \in {k} \cap ((m + 1)..n)}
  <2>1. ASSUME NEW j \in (m + 1)..n, j # k
        PROVE  s[j].key \in KeysAfter(t, i)
    <3>0. j \in 1..n /\ j # k
      BY <1>1, <1>7, <2>1
    <3>1. PICK o \in 1..l : j = IF o < k THEN o ELSE o + 1
      BY <1>6, <3>0
    <3>2. o \in (i + 1)..l
      BY <1>1, <1>2, <1>7, <3>1
    <3>3. t[o] = s[j]
      BY <1>3, <3>1
    <3> QED  BY <1>2, <3>2, <3>3 DEF KeysAfter
  <2>2. ASSUME NEW o \in (i + 1)..l
        PROVE  t[o].key \in KeysAfter(s, m)
    <3>1. PICK j \in (m + 1)..n : j = IF o < k THEN o ELSE o + 1
      BY <1>1, <1>2, <1>4, <1>7
    <3>2. t[o] = s[j]
      BY <1>2, <1>3, <3>1
    <3> QED  BY <1>1, <3>1, <3>2 DEF KeysAfter
  <2>3. \A x \in KeysAfter(s, m) : \E j \in (m + 1)..n : x = s[j].key
    BY <1>1 DEF KeysAfter
  <2>4. \A x \in KeysAfter(t, i) : \E o \in (i + 1)..l : x = t[o].key
    BY <1>2 DEF KeysAfter
  <2>5. \A j \in (m + 1)..n : s[j].key \in KeysAfter(s, m)
    BY <1>1 DEF KeysAfter
  <2>6. KeysAfter(s, m) \subseteq KeysAfter(t, i) \cup {s[j].key : j \in {k} \cap ((m + 1)..n)}
    BY <2>1, <2>3
  <2>7. KeysAfter(t, i) \cup {s[j].key : j \in {k} \cap ((m + 1)..n)} \subseteq KeysAfter(s, m)
    BY <2>2, <2>4, <2>5
  <2> QED  BY <2>6, <2>7
<1>8. ASSUME NEW i \in 1..Len(t)
      PROVE  LET m == IF i < k THEN i ELSE i + 1
             IN  /\ m \in 1..Len(s) /\ m # k /\ t[i] = s[m]
                 /\ KeysAfter(s, m) =
                      KeysAfter(t, i) \cup {s[j].key : j \in {k} \cap ((m + 1)..Len(s))}
  <2>1. PICK m \in 1..n : m = IF i < k THEN i ELSE i + 1
    BY <1>2, <1>4
  <2>2. m # k /\ t[i] = s[m]
    BY <1>2, <1>3, <1>4, <2>1
  <2>3. KeysAfter(s, m) = KeysAfter(t, i) \cup {s[j].key : j \in {k} \cap ((m + 1)..n)}
    BY <1>2, <1>7, <2>1
  <2> QED  BY <1>1, <2>1, <2>2, <2>3
<1> QED  BY <1>1, <1>2, <1>5, <1>6, <1>8

-----------------------------------------------------------------------------
(* The invariant: the others that asked since a client did are those whose *)
(* buckets come after its own, so one that fewer than MaxKeys others asked *)
(* since still has its bucket, and an account that is right.               *)

LimitsInv ==
    /\ clock \in Nat
    /\ buckets \in Seq(BucketType) /\ Distinct(buckets) /\ Len(buckets) <= MaxKeys
    /\ since \in [Clients -> SUBSET Clients]
    /\ granted \in [Clients -> Seq(Int)]
    /\ comeBack \in [Clients -> Int] /\ \A c \in Clients : comeBack[c] >= -1
    /\ \A i \in 1..Len(buckets) :
          /\ since[buckets[i].key] = KeysAfter(buckets, i)
          /\ Account(buckets[i].tokens, buckets[i].at, granted[buckets[i].key])
          /\ Told(buckets[i].tokens, buckets[i].at, comeBack[buckets[i].key])
    /\ \A c \in Clients : granted[c] # <<>> => \E i \in 1..Len(buckets) : buckets[i].key = c

\* What take finds: the k-th bucket is the client's and holds some tokens; or the client has
\* none, gets a full one, and the first one had to go if there was no room.
Finds(client, k, rest, tokens) ==
    /\ k \in 1..(Len(buckets) + 1)
    /\ IsWithout(rest, buckets, k)
    /\ Len(rest) + 1 <= MaxKeys
    /\ tokens \in Int
    /\ \/ /\ k <= Len(buckets) /\ buckets[k].key = client
          /\ tokens = Held(buckets[k].tokens, buckets[k].at, clock)
       \/ /\ \A i \in 1..Len(buckets) : buckets[i].key # client
          /\ tokens = Cap
          /\ k = Len(buckets) + 1 \/ (k = 1 /\ Len(rest) + 1 = MaxKeys)

LEMMA LookedIs ==
    ASSUME LimitsInv, NEW client \in Clients
    PROVE  \E k \in Int, rest \in Seq(BucketType), tokens \in Int :
              /\ Finds(client, k, rest, tokens)
              /\ Limits!Looked(client) = Append(rest, [key |-> client, tokens |-> tokens, at |-> clock])
<1>1. PICK n \in Nat : n = Len(buckets) /\ n <= MaxKeys
  BY DEF LimitsInv
<1>2. buckets \in Seq(BucketType) /\ DOMAIN buckets = 1..n /\ clock \in Int
  BY <1>1 DEF LimitsInv
<1>3. CASE Limits!IndexOf(client) = {}
  <2>1. \A i \in 1..n : buckets[i].key # client
    BY <1>2, <1>3 DEF Limits!IndexOf
  <2>2. Limits!Looked(client) =
          Append(Limits!Evicted(buckets), [key |-> client, tokens |-> Cap, at |-> clock])
    BY <1>3 DEF Limits!Looked, Cap
  <2>3. CASE n >= MaxKeys
    <3>1. Limits!Evicted(buckets) = Tail(buckets) /\ buckets # <<>> /\ n = MaxKeys
      BY <1>1, <1>2, <2>3, Numbers DEF Limits!Evicted
    <3>2. IsWithout(Tail(buckets), buckets, 1)
      BY <1>2, <3>1, TailIs
    <3>3. Tail(buckets) \in Seq(BucketType) /\ Len(Tail(buckets)) + 1 = MaxKeys
      BY <1>1, <1>2, <3>1
    <3>4. Finds(client, 1, Tail(buckets), Cap)
      BY <1>1, <2>1, <3>2, <3>3, CapIs, Numbers DEF Finds
    <3>5. Cap \in Int /\ 1 \in Int
      BY CapIs
    <3> QED  BY <2>2, <3>1, <3>3, <3>4, <3>5, Zenon
  <2>4. CASE ~(n >= MaxKeys)
    <3>1. Limits!Evicted(buckets) = buckets
      BY <1>1, <2>4 DEF Limits!Evicted
    <3>2. IsWithout(buckets, buckets, n + 1)
      BY <1>1, <1>2, SameIs
    <3>3. n + 1 <= MaxKeys
      BY <1>1, <2>4, Numbers
    <3>4. Finds(client, n + 1, buckets, Cap)
      BY <1>1, <2>1, <3>2, <3>3, CapIs DEF Finds
    <3>5. n + 1 \in Int
      BY <1>1
    <3>6. Cap \in Int
      BY CapIs
    <3> QED  BY <1>2, <2>2, <3>1, <3>4, <3>5, <3>6, Zenon
  <2> QED  BY <2>3, <2>4
<1>4. CASE Limits!IndexOf(client) # {}
  <2>1. PICK k : k = (CHOOSE j \in Limits!IndexOf(client) : TRUE)
    OBVIOUS
  <2>2. k \in 1..n /\ buckets[k].key = client
    BY <1>2, <1>4, <2>1 DEF Limits!IndexOf
  <2>3. PICK rest : rest = Limits!RemoveAt(buckets, k)
    OBVIOUS
  <2>4. IsWithout(rest, buckets, k)
    BY <1>1, <1>2, <2>2, <2>3, WithoutIs
  <2>5. PICK tokens \in Int : tokens = Held(buckets[k].tokens, buckets[k].at, clock)
    <3>0. buckets[k] \in BucketType
      BY <1>1, <1>2, <2>2
    <3>1. buckets[k].tokens \in Int /\ buckets[k].at \in Int
      BY <3>0 DEF BucketType
    <3> QED  BY <1>2, <3>1, HeldIs
  <2>6. Limits!Filled(buckets[k]) = tokens
    BY <2>5 DEF Limits!Filled, Held, Cap, Has
  <2>7. Limits!Looked(client) = Append(rest, [key |-> client, tokens |-> tokens, at |-> clock])
    BY <1>4, <2>1, <2>3, <2>6 DEF Limits!Looked, Limits!Without
  <2>8. Len(rest) = n - 1 /\ rest \in Seq(BucketType)
    BY <1>1, <2>2, <2>4 DEF IsWithout
  <2>9. Len(rest) + 1 <= MaxKeys
    BY <1>1, <2>8
  <2>10. Finds(client, k, rest, tokens)
    BY <1>1, <2>2, <2>4, <2>5, <2>9 DEF Finds
  <2>11. k \in Int
    BY <2>2
  <2> QED  BY <2>5, <2>7, <2>8, <2>10, <2>11, Zenon
<1> QED  BY <1>3, <1>4

\* A request, given what take finds.
Takes(client, rest, tokens) ==
    LET allowed == tokens >= Unit
    IN  /\ buckets' = Append(rest, [key |-> client, at |-> clock,
                                    tokens |-> IF allowed THEN tokens - Unit ELSE tokens])
        /\ since' = [c \in Clients |-> IF c = client THEN {} ELSE since[c] \cup {client}]
        /\ granted' = [c \in Clients |->
                          IF c = client /\ allowed THEN Append(granted[c], clock)
                          ELSE IF Cardinality(since'[c]) < MaxKeys THEN granted[c] ELSE <<>>]
        /\ comeBack' = [c \in Clients |->
                          IF c # client THEN comeBack[c]
                          ELSE IF allowed THEN -1
                          ELSE clock + Second * Limits!retryAfterSeconds(tokens)]
        /\ clock' = clock

LEMMA TakeIs ==
    ASSUME LimitsInv, NEW client \in Clients, Limits!Take(client, client)
    PROVE  \E k \in Int, rest \in Seq(BucketType), tokens \in Int :
              Finds(client, k, rest, tokens) /\ Takes(client, rest, tokens)
<1>1. PICK k \in Int, rest \in Seq(BucketType), tokens \in Int :
          /\ Finds(client, k, rest, tokens)
          /\ Limits!Looked(client) = Append(rest, [key |-> client, tokens |-> tokens, at |-> clock])
  BY LookedIs
<1>2. PICK bucket : bucket = [key |-> client, tokens |-> tokens, at |-> clock]
  OBVIOUS
<1>3. bucket \in BucketType
  BY <1>1, <1>2 DEF BucketType, LimitsInv
<1>4. Limits!Last(Append(rest, bucket)) = bucket /\ Limits!Front(Append(rest, bucket)) = rest
  BY <1>1, <1>3 DEF Limits!Last, Limits!Front
<1>5. \A b : rest \o <<b>> = Append(rest, b)
  BY <1>1
<1>6. [bucket EXCEPT !.tokens = @ - Unit] = [key |-> client, at |-> clock, tokens |-> tokens - Unit]
  BY <1>2
<1>7. bucket = [key |-> client, at |-> clock, tokens |-> tokens] /\ bucket.tokens = tokens
  BY <1>2
<1>8. Limits!Looked(client) = Append(rest, bucket)
  BY <1>1, <1>2
<1>9. Takes(client, rest, tokens)
  <2>1. buckets' = Append(rest, [key |-> client, at |-> clock,
                                 tokens |-> IF tokens >= Unit THEN tokens - Unit ELSE tokens])
    <3>1. buckets' = rest \o <<IF tokens >= Unit THEN [bucket EXCEPT !.tokens = @ - Unit] ELSE bucket>>
      BY <1>4, <1>7, <1>8 DEF Limits!Take
    <3>2. CASE tokens >= Unit
      BY <1>5, <1>6, <3>1, <3>2
    <3>3. CASE ~(tokens >= Unit)
      BY <1>5, <1>7, <3>1, <3>3
    <3> QED  BY <3>2, <3>3
  <2>2. since' = [c \in Clients |-> IF c = client THEN {} ELSE since[c] \cup {client}]
    BY DEF Limits!Take
  <2>3. granted' = [c \in Clients |->
                       IF c = client /\ tokens >= Unit THEN Append(granted[c], clock)
                       ELSE IF Cardinality(since'[c]) < MaxKeys THEN granted[c] ELSE <<>>]
    BY <1>4, <1>7, <1>8, SameCardinality DEF Limits!Take
  <2>4. comeBack' = [c \in Clients |->
                       IF c # client THEN comeBack[c]
                       ELSE IF tokens >= Unit THEN -1
                       ELSE clock + Second * Limits!retryAfterSeconds(tokens)]
    BY <1>4, <1>7, <1>8 DEF Limits!Take
  <2>5. clock' = clock
    BY DEF Limits!Take
  <2> QED  BY <2>1, <2>2, <2>3, <2>4, <2>5 DEF Takes
<1> QED  BY <1>1, <1>9

\* The others that asked since, after a request: of a client that keeps its bucket, and of the
\* one that loses it.
LEMMA SinceFollows ==
    ASSUME LimitsInv, NEW client \in Clients, NEW k \in Int, NEW rest \in Seq(BucketType),
           NEW tokens \in Int, Finds(client, k, rest, tokens), Takes(client, rest, tokens)
    PROVE  /\ buckets' \in Seq(BucketType) /\ Distinct(buckets') /\ Len(buckets') = Len(rest) + 1
           /\ Len(buckets') <= MaxKeys
           /\ \A i \in 1..Len(rest) :
                 /\ buckets'[i] = rest[i] /\ rest[i].key \in Clients \ {client}
                 /\ since'[rest[i].key] = KeysAfter(buckets', i)
                 /\ Cardinality(since'[rest[i].key]) < MaxKeys
                 /\ \E m \in 1..Len(buckets) : rest[i] = buckets[m]
           /\ buckets'[Len(rest) + 1].key = client
           /\ since'[client] = KeysAfter(buckets', Len(rest) + 1) /\ Cardinality(since'[client]) < MaxKeys
           /\ \A m \in 1..Len(buckets) :
                 \/ buckets[m].key = client
                 \/ \E i \in 1..Len(rest) : rest[i] = buckets[m]
                 \/ Cardinality(since'[buckets[m].key]) >= MaxKeys
<1>1. PICK n \in Nat : n = Len(buckets)
  BY DEF LimitsInv
<1>2. PICK l \in Nat : l = Len(rest) /\ l + 1 <= MaxKeys
  BY DEF Finds
<1>3. /\ buckets \in Seq(BucketType) /\ Distinct(buckets) /\ clock \in Int
      /\ since \in [Clients -> SUBSET Clients]
  BY DEF LimitsInv
<1>4. k \in 1..(n + 1) /\ IsWithout(rest, buckets, k)
  BY <1>1 DEF Finds
<1>5. /\ Distinct(rest)
      /\ \A i \in 1..l :
            LET m == IF i < k THEN i ELSE i + 1
            IN  /\ m \in 1..n /\ m # k /\ rest[i] = buckets[m]
                /\ KeysAfter(buckets, m) =
                     KeysAfter(rest, i) \cup {buckets[j].key : j \in {k} \cap ((m + 1)..n)}
      /\ \A m \in 1..n : m # k => \E i \in 1..l : m = IF i < k THEN i ELSE i + 1
  <2>1. k \in 1..(Len(buckets) + 1)
    BY <1>1, <1>4
  <2>2. /\ Distinct(rest)
        /\ \A i \in 1..Len(rest) :
              LET m == IF i < k THEN i ELSE i + 1
              IN  /\ m \in 1..Len(buckets) /\ m # k /\ rest[i] = buckets[m]
                  /\ KeysAfter(buckets, m) =
                       KeysAfter(rest, i) \cup {buckets[j].key : j \in {k} \cap ((m + 1)..Len(buckets))}
        /\ \A m \in 1..Len(buckets) :
              m # k => \E i \in 1..Len(rest) : m = IF i < k THEN i ELSE i + 1
    BY <1>3, <1>4, <2>1, AfterWithout
  <2> QED  BY <1>1, <1>2, <2>2, Zenon
<1>6. PICK last \in BucketType : last.key = client /\ buckets' = Append(rest, last)
  <2>1. PICK left \in Int : left = IF tokens >= Unit THEN tokens - Unit ELSE tokens
    <3>1. PICK u \in Nat : u = Unit
      BY Numbers
    <3>2. (IF tokens >= u THEN tokens - u ELSE tokens) \in Int
      BY ONLY tokens \in Int, u \in Nat
    <3> QED  BY <3>1, <3>2
  <2>2. [key |-> client, at |-> clock, tokens |-> left] \in BucketType
    BY <1>3 DEF BucketType
  <2>3. buckets' = Append(rest, [key |-> client, at |-> clock, tokens |-> left])
    BY <2>1 DEF Takes
  <2> QED  BY <2>2, <2>3
<1>7. PICK new : new = buckets'
  OBVIOUS
<1>8. /\ new \in Seq(BucketType) /\ Len(new) = l + 1 /\ new[l + 1].key = client
      /\ \A i \in 1..l : new[i] = rest[i]
  BY <1>2, <1>6, <1>7
<1>9. ASSUME NEW i \in 1..l
      PROVE  rest[i].key \in Clients \ {client}
  <2>1. PICK m \in 1..n : m # k /\ rest[i] = buckets[m]
    BY <1>5
  <2>2. buckets[m] \in BucketType
    BY <1>1, <1>3
  <2>3. buckets[m].key # client
    BY <1>1, <1>3, <2>1 DEF Finds, Distinct
  <2> QED  BY <2>1, <2>2, <2>3 DEF BucketType
<1>10. Distinct(new)
  <2> SUFFICES ASSUME NEW i \in 1..(l + 1), NEW j \in 1..(l + 1), new[i].key = new[j].key
               PROVE  i = j
    BY <1>8 DEF Distinct
  <2>1. CASE i \in 1..l /\ j \in 1..l
    BY <1>2, <1>5, <1>8, <2>1 DEF Distinct
  <2>2. CASE i = l + 1 \/ j = l + 1
    BY <1>2, <1>8, <1>9, <2>2
  <2> QED  BY <1>2, <2>1, <2>2
<1>11. ASSUME NEW i \in 0..(l + 1)
       PROVE  Cardinality(KeysAfter(new, i)) = (l + 1) - i
  BY <1>8, <1>10, <1>11, KeysAfterCounted
<1>12. ASSUME NEW i \in 0..l
       PROVE  KeysAfter(new, i) = KeysAfter(rest, i) \cup {client}
  <2>1. \A j \in (i + 1)..(l + 1) : j = l + 1 \/ j \in (i + 1)..l
    BY <1>2, <1>12
  <2>2. l + 1 \in (i + 1)..(l + 1)
    BY <1>2, <1>12
  <2>3. \A j \in (i + 1)..l : j \in (i + 1)..(l + 1) /\ j \in 1..l
    BY <1>2, <1>12
  <2>4. KeysAfter(new, i) \subseteq KeysAfter(rest, i) \cup {client}
    BY <1>2, <1>8, <2>1, <2>3 DEF KeysAfter
  <2>5. KeysAfter(rest, i) \cup {client} \subseteq KeysAfter(new, i)
    BY <1>2, <1>8, <2>2, <2>3 DEF KeysAfter
  <2> QED  BY <2>4, <2>5
<1>13. \A c \in Clients \ {client} : since'[c] = since[c] \cup {client}
  BY DEF Takes
<1>14. ASSUME NEW i \in 1..l
       PROVE  /\ since'[rest[i].key] = KeysAfter(new, i)
              /\ Cardinality(since'[rest[i].key]) < MaxKeys
  <2>1. PICK m \in 1..n :
            /\ m # k /\ m = IF i < k THEN i ELSE i + 1
            /\ rest[i] = buckets[m]
            /\ KeysAfter(buckets, m) =
                 KeysAfter(rest, i) \cup {buckets[j].key : j \in {k} \cap ((m + 1)..n)}
    BY <1>5
  <2>2. {buckets[j].key : j \in {k} \cap ((m + 1)..n)} \subseteq {client}
    BY <1>1, <1>4, <2>1 DEF Finds
  <2>3. since[rest[i].key] = KeysAfter(buckets, m)
    BY <1>1, <2>1 DEF LimitsInv
  <2>4. since'[rest[i].key] = KeysAfter(rest, i) \cup {client}
    BY <1>9, <1>13, <2>1, <2>2, <2>3
  <2>5. since'[rest[i].key] = KeysAfter(new, i)
    BY <1>12, <2>4
  <2>6. Cardinality(since'[rest[i].key]) = (l + 1) - i
    BY <1>11, <2>5
  <2> QED  BY <1>2, <2>5, <2>6, Numbers
<1>15. /\ since'[client] = KeysAfter(new, l + 1)
       /\ Cardinality(since'[client]) < MaxKeys
  <2>1. since'[client] = {}
    BY DEF Takes
  <2>2. KeysAfter(new, l + 1) = {}
    <3>1. ((l + 1) + 1)..(l + 1) = {}
      BY <1>2
    <3> QED  BY <1>8, <3>1 DEF KeysAfter
  <2>3. Cardinality(KeysAfter(new, l + 1)) = 0
    <3>1. l + 1 \in 0..(l + 1) /\ (l + 1) - (l + 1) = 0
      BY <1>2
    <3> QED  BY <1>11, <3>1
  <2>4. 0 < MaxKeys
    BY Numbers
  <2> QED  BY <2>1, <2>2, <2>3, <2>4, Zenon
<1>16. ASSUME NEW m \in 1..n, buckets[m].key # client, \A i \in 1..l : rest[i] # buckets[m]
       PROVE  Cardinality(since'[buckets[m].key]) >= MaxKeys
  <2>1. m = k
    BY <1>5, <1>16
  <2>2. k = 1 /\ l + 1 = MaxKeys /\ m = 1
    BY <1>1, <1>2, <1>16, <2>1 DEF Finds
  <2>3. KeysAfter(buckets, 1) = KeysAfter(rest, 0)
    <3>1. l = n - 1 /\ \A i \in 1..l : rest[i] = buckets[i + 1]
      BY <1>1, <1>2, <1>4, <1>16, <2>2 DEF IsWithout
    <3>2. \A j \in (1 + 1)..n : j - 1 \in (0 + 1)..l /\ j = (j - 1) + 1
      BY <1>1, <1>2, <3>1
    <3>3. \A j \in (0 + 1)..l : j + 1 \in (1 + 1)..n
      BY <1>1, <1>2, <3>1
    <3>4. \A j \in (1 + 1)..n : buckets[j].key \in KeysAfter(rest, 0)
      <4> SUFFICES ASSUME NEW j \in (1 + 1)..n
                   PROVE  buckets[j].key \in KeysAfter(rest, 0)
        OBVIOUS
      <4>1. PICK o \in (0 + 1)..l : j = o + 1
        BY <3>2
      <4>2. rest[o] = buckets[j]
        BY <3>1, <4>1
      <4> QED  BY <1>2, <4>2 DEF KeysAfter
    <3>5. \A j \in (0 + 1)..l : rest[j].key \in KeysAfter(buckets, 1)
      <4> SUFFICES ASSUME NEW j \in (0 + 1)..l
                   PROVE  rest[j].key \in KeysAfter(buckets, 1)
        OBVIOUS
      <4>1. PICK o \in (1 + 1)..n : o = j + 1
        BY <3>3
      <4>2. rest[j] = buckets[o]
        BY <3>1, <4>1
      <4> QED  BY <1>1, <4>2 DEF KeysAfter
    <3>6. KeysAfter(buckets, 1) \subseteq KeysAfter(rest, 0)
      BY <1>1, <3>4 DEF KeysAfter
    <3>7. KeysAfter(rest, 0) \subseteq KeysAfter(buckets, 1)
      BY <1>2, <3>5 DEF KeysAfter
    <3> QED  BY <3>6, <3>7
  <2>4. buckets[m].key \in Clients \ {client}
    <3>1. buckets[m] \in BucketType
      BY <1>1, <1>3
    <3> QED  BY <1>16, <3>1 DEF BucketType
  <2>5. since[buckets[m].key] = KeysAfter(buckets, 1)
    BY <1>1, <2>2 DEF LimitsInv
  <2>6. since'[buckets[m].key] = KeysAfter(new, 0)
    <3>1. KeysAfter(new, 0) = KeysAfter(rest, 0) \cup {client}
      BY <1>2, <1>12
    <3>2. since'[buckets[m].key] = since[buckets[m].key] \cup {client}
      BY <1>13, <2>4
    <3> QED  BY <2>3, <2>5, <3>1, <3>2, Zenon
  <2>7. Cardinality(since'[buckets[m].key]) = (l + 1) - 0
    BY <1>2, <1>11, <2>6
  <2> QED  BY <1>2, <2>2, <2>7, Numbers
<1>17. \A i \in 1..l : \E m \in 1..n : rest[i] = buckets[m]
  BY <1>5
<1>18. l + 1 <= MaxKeys
  BY <1>2
<1> QED  BY <1>1, <1>2, <1>7, <1>8, <1>9, <1>10, <1>14, <1>15, <1>16, <1>17, <1>18

\* What a client is granted follows from what its bucket holds.
LEMMA FoundIs ==
    ASSUME LimitsInv, NEW client \in Clients, NEW k \in Int, NEW rest \in Seq(BucketType),
           NEW tokens \in Int, Finds(client, k, rest, tokens)
    PROVE  \/ /\ granted[client] = <<>> /\ tokens = Cap
           \/ \E held \in Int, at \in Int :
                 /\ tokens = Held(held, at, clock)
                 /\ Account(held, at, granted[client])
                 /\ Told(held, at, comeBack[client])
<1>1. PICK n \in Nat : n = Len(buckets) /\ buckets \in Seq(BucketType)
  BY DEF LimitsInv
<1>2. CASE k \in 1..n /\ buckets[k].key = client
  <2>1. buckets[k] \in BucketType
    BY <1>1, <1>2
  <2>2. buckets[k].tokens \in Int /\ buckets[k].at \in Int
    BY <2>1 DEF BucketType
  <2>3. /\ Account(buckets[k].tokens, buckets[k].at, granted[client])
        /\ Told(buckets[k].tokens, buckets[k].at, comeBack[client])
    BY <1>1, <1>2 DEF LimitsInv
  <2>4. tokens = Held(buckets[k].tokens, buckets[k].at, clock)
    BY <1>1, <1>2 DEF Finds
  <2> QED  BY <2>2, <2>3, <2>4
<1>3. CASE \A i \in 1..n : buckets[i].key # client
  <2>1. ~(k \in 1..n /\ buckets[k].key = client)
    BY <1>3
  <2>2. tokens = Cap
    BY <1>1, <2>1 DEF Finds
  <2>3. granted[client] = <<>>
    BY <1>1, <1>3 DEF LimitsInv
  <2> QED  BY <2>2, <2>3
<1> QED  BY <1>1, <1>2, <1>3 DEF Finds

\* The account of the client that asked.
LEMMA AccountFollows ==
    ASSUME LimitsInv, NEW client \in Clients, NEW k \in Int, NEW rest \in Seq(BucketType),
           NEW tokens \in Int, Finds(client, k, rest, tokens), Takes(client, rest, tokens)
    PROVE  LET bucket == buckets'[Len(rest) + 1]
           IN  /\ Account(bucket.tokens, bucket.at, granted'[client])
               /\ Told(bucket.tokens, bucket.at, comeBack'[client])
               /\ granted'[client] \in Seq(Int)
               /\ comeBack'[client] \in Int /\ comeBack'[client] >= -1
<1>1. PICK u \in Nat \ {0}, cap \in Nat : u = Unit /\ cap = Cap /\ u <= cap
  BY Numbers, CapIs
<1>2. PICK times \in Seq(Int) : times = granted[client]
  BY DEF LimitsInv
<1>3. clock \in Nat /\ clock \in Int
  BY DEF LimitsInv
<1>4. PICK left \in Int : left = IF tokens >= u THEN tokens - u ELSE tokens
  <2>1. (IF tokens >= u THEN tokens - u ELSE tokens) \in Int
    BY ONLY tokens \in Int, u \in Nat \ {0}
  <2> QED  BY <2>1
<1>5. buckets'[Len(rest) + 1] = [key |-> client, at |-> clock, tokens |-> left]
  <2>1. buckets' = Append(rest, [key |-> client, at |-> clock, tokens |-> left])
    BY <1>1, <1>4 DEF Takes
  <2>2. PICK b : b = [key |-> client, at |-> clock, tokens |-> left]
    OBVIOUS
  <2>3. b \in BucketType
    BY <1>3, <2>2 DEF BucketType
  <2>4. Append(rest, b)[Len(rest) + 1] = b
    BY <2>3
  <2> QED  BY <2>1, <2>2, <2>4
<1>6. CASE tokens >= u
  <2>1. granted'[client] = Append(times, clock) /\ comeBack'[client] = -1
    BY <1>1, <1>2, <1>6 DEF Takes
  <2>2. Account(left, clock, Append(times, clock))
    <3>1. CASE times = <<>> /\ tokens = Cap
      <4>1. left = cap - u
        BY <1>1, <1>4, <1>6, <3>1
      <4> QED  BY <1>1, <1>3, <3>1, <4>1, FirstTaken
    <3>2. CASE \E held \in Int, at \in Int :
                  tokens = Held(held, at, clock) /\ Account(held, at, times)
      <4>1. PICK held \in Int, at \in Int : tokens = Held(held, at, clock) /\ Account(held, at, times)
        BY <3>2
      <4>2. Account(Held(held, at, clock) - Unit, clock, Append(times, clock))
        BY <1>3, <4>1, TakenFrom
      <4>3. left = tokens - u
        BY <1>4, <1>6
      <4> QED  BY <1>1, <4>1, <4>2, <4>3, Zenon
    <3> QED  BY <1>2, <3>1, <3>2, FoundIs
  <2>3. Told(left, clock, -1)
    BY DEF Told
  <2>4. Append(times, clock) \in Seq(Int)
    BY <1>3
  <2> QED  BY <1>5, <2>1, <2>2, <2>3, <2>4
<1>7. CASE ~(tokens >= u)
  <2>1. PICK w \in Int : w = Limits!retryAfterSeconds(tokens) /\ w \in Nat \ {0}
    BY RetryIsEnough
  <2>2. PICK s \in Nat \ {0}, r \in Nat \ {0} : s = Second /\ r = Rate
    BY Numbers
  <2>3. PICK wait \in Nat : wait = s * w
    BY <2>1, <2>2
  <2>4. comeBack'[client] = clock + wait
    BY <1>1, <1>7, <2>1, <2>2, <2>3 DEF Takes
  <2>5. Cardinality(since'[client]) < MaxKeys
    BY SinceFollows
  <2>6. granted'[client] = times
    BY <1>1, <1>2, <1>7, <2>5 DEF Takes
  <2>7. left = tokens
    BY <1>4, <1>7
  <2>8. tokens # cap
    BY <1>1, <1>7
  <2>9. PICK held \in Int, at \in Int : tokens = Held(held, at, clock) /\ Account(held, at, times)
    BY <1>1, <1>2, <2>8, FoundIs
  <2>10. Has(held, at, clock) < Unit
    BY <1>1, <1>3, <1>7, <2>9, HeldIs
  <2>11. Account(left, clock, times)
    BY <1>3, <2>7, <2>9, <2>10, LookedAt
  <2>12. Unit <= Has(left, clock, clock + wait)
    <3>1. Unit <= tokens + (Second * w) * Rate
      BY <2>1, RetryIsEnough
    <3>2. (clock + wait) - clock = wait
      BY <1>3, <2>3
    <3> QED  BY <2>2, <2>3, <2>7, <3>1, <3>2 DEF Has
  <2>13. Told(left, clock, clock + wait)
    BY <2>12 DEF Told
  <2>14. clock + wait \in Int /\ clock + wait >= -1
    BY <1>3, <2>3
  <2> QED  BY <1>5, <2>4, <2>6, <2>11, <2>13, <2>14
<1> QED  BY <1>6, <1>7

\* What is allowed and refused is what the account says.
LEMMA TakeIsExact ==
    ASSUME LimitsInv, NEW client \in Clients, NEW k \in Int, NEW rest \in Seq(BucketType),
           NEW tokens \in Int, Finds(client, k, rest, tokens), Takes(client, rest, tokens)
    PROVE  Limits!ExactlyItsRate
<1>1. PICK u \in Nat \ {0}, cap \in Nat : u = Unit /\ cap = Cap /\ u <= cap
  BY Numbers, CapIs
<1>2. clock \in Int
  BY DEF LimitsInv
<1>3. granted \in [Clients -> Seq(Int)] /\ comeBack \in [Clients -> Int] /\ \A c \in Clients : comeBack[c] >= -1
  BY DEF LimitsInv
<1>4. ASSUME NEW c \in Clients, c # client
      PROVE  /\ ~(Len(granted'[c]) > Len(granted[c]))
             /\ comeBack'[c] = comeBack[c] /\ ~(comeBack'[c] > comeBack[c])
  <2>1. granted'[c] = granted[c] \/ granted'[c] = <<>>
    BY <1>4 DEF Takes
  <2>2. PICK n \in Nat : n = Len(granted[c])
    BY <1>3
  <2>3. Len(<<>>) = 0
    OBVIOUS
  <2>4. comeBack'[c] = comeBack[c] /\ comeBack[c] \in Int
    BY <1>3, <1>4 DEF Takes
  <2> QED  BY <2>1, <2>2, <2>3, <2>4
<1>5. CASE tokens >= u
  <2>1. comeBack'[client] = -1
    BY <1>1, <1>5 DEF Takes
  <2>2. ~Limits!Over(client)
    <3>1. CASE granted[client] = <<>>
      <4>1. DOMAIN granted[client] = {}
        BY <3>1
      <4> QED  BY <4>1 DEF Limits!Over
    <3>2. CASE \E held \in Int, at \in Int :
                  tokens = Held(held, at, clock) /\ Account(held, at, granted[client])
      <4>1. PICK held \in Int, at \in Int :
                tokens = Held(held, at, clock) /\ Account(held, at, granted[client])
        BY <3>2
      <4>2. ~(Has(held, at, clock) < Unit)
        BY <1>1, <1>2, <1>5, <4>1, HeldIs
      <4>3. ~TooMany(granted[client], clock)
        BY <1>2, <1>3, <4>1, <4>2, TooManyIs
      <4> QED  BY <4>3 DEF TooMany, Limits!Over
    <3> QED  BY <3>1, <3>2, FoundIs
  <2>3. ~(comeBack'[client] > comeBack[client])
    BY <1>3, <2>1
  <2> QED  BY <1>4, <2>1, <2>2, <2>3 DEF Limits!ExactlyItsRate
<1>6. CASE ~(tokens >= u)
  <2>1. tokens # cap
    BY <1>1, <1>6
  <2>2. PICK held \in Int, at \in Int :
            /\ tokens = Held(held, at, clock) /\ Account(held, at, granted[client])
            /\ Told(held, at, comeBack[client])
    BY <1>1, <2>1, FoundIs
  <2>3. Has(held, at, clock) < Unit
    BY <1>1, <1>2, <1>6, <2>2, HeldIs
  <2>4. Limits!Over(client)
    <3>1. TooMany(granted[client], clock)
      BY <1>2, <1>3, <2>2, <2>3, TooManyIs
    <3> QED  BY <3>1 DEF TooMany, Limits!Over
  <2>5. ~(comeBack[client] >= 0 /\ clock >= comeBack[client])
    <3> SUFFICES ASSUME comeBack[client] >= 0, clock >= comeBack[client]
                 PROVE  FALSE
      OBVIOUS
    <3>1. PICK back \in Int : back = comeBack[client]
      BY <1>3
    <3>2. PICK was \in Int : was = Has(held, at, back)
      BY HasIs
    <3>3. u <= was
      BY <1>1, <2>2, <3>1, <3>2 DEF Told
    <3>4. PICK r \in Nat, d \in Nat : r = Rate /\ d = clock - back
      <4>1. PICK r \in Nat : r = Rate
        BY Numbers
      <4>2. clock >= back
        BY <3>1
      <4>3. clock - back \in Nat
        BY <1>2, <4>2
      <4> QED  BY <4>1, <4>3
    <3>5. PICK added \in Nat : added = d * r
      BY <3>4
    <3>6. Has(held, at, clock) = was + added
      <4>1. Has(held, at, clock) = Has(held, at, back) + (clock - back) * Rate
        BY <1>2, HasMoves
      <4> QED  BY <3>2, <3>4, <3>5, <4>1
    <3> QED  BY <1>1, <2>3, <3>3, <3>5, <3>6
  <2>6. Len(granted'[client]) = Len(granted[client])
    <3>1. Cardinality(since'[client]) < MaxKeys
      BY SinceFollows
    <3>2. granted'[client] = granted[client]
      BY <1>1, <1>6, <3>1 DEF Takes
    <3> QED  BY <3>2
  <2>7. Len(granted[client]) \in Nat
    BY <1>3
  <2> QED  BY <1>4, <2>4, <2>5, <2>6, <2>7 DEF Limits!ExactlyItsRate
<1> QED  BY <1>5, <1>6

LEMMA TakeKeepsInv ==
    ASSUME LimitsInv, NEW client \in Clients, Limits!Take(client, client)
    PROVE  LimitsInv' /\ Limits!ExactlyItsRate
<1>1. PICK k \in Int, rest \in Seq(BucketType), tokens \in Int :
          Finds(client, k, rest, tokens) /\ Takes(client, rest, tokens)
  BY TakeIs
<1>2. Limits!ExactlyItsRate
  BY <1>1, TakeIsExact
<1>3. PICK l \in Nat : l = Len(rest)
  OBVIOUS
<1>4. /\ buckets' \in Seq(BucketType) /\ Distinct(buckets') /\ Len(buckets') = l + 1
      /\ Len(buckets') <= MaxKeys
      /\ \A i \in 1..l :
            /\ buckets'[i] = rest[i] /\ rest[i].key \in Clients \ {client}
            /\ since'[rest[i].key] = KeysAfter(buckets', i)
            /\ Cardinality(since'[rest[i].key]) < MaxKeys
            /\ \E m \in 1..Len(buckets) : rest[i] = buckets[m]
      /\ buckets'[l + 1].key = client
      /\ since'[client] = KeysAfter(buckets', l + 1)
      /\ \A m \in 1..Len(buckets) :
            \/ buckets[m].key = client
            \/ \E i \in 1..l : rest[i] = buckets[m]
            \/ Cardinality(since'[buckets[m].key]) >= MaxKeys
  <2>1. /\ buckets' \in Seq(BucketType) /\ Distinct(buckets') /\ Len(buckets') = Len(rest) + 1
        /\ Len(buckets') <= MaxKeys
        /\ \A i \in 1..Len(rest) :
              /\ buckets'[i] = rest[i] /\ rest[i].key \in Clients \ {client}
              /\ since'[rest[i].key] = KeysAfter(buckets', i)
              /\ Cardinality(since'[rest[i].key]) < MaxKeys
              /\ \E m \in 1..Len(buckets) : rest[i] = buckets[m]
        /\ buckets'[Len(rest) + 1].key = client
        /\ since'[client] = KeysAfter(buckets', Len(rest) + 1)
        /\ \A m \in 1..Len(buckets) :
              \/ buckets[m].key = client
              \/ \E i \in 1..Len(rest) : rest[i] = buckets[m]
              \/ Cardinality(since'[buckets[m].key]) >= MaxKeys
    BY <1>1, SinceFollows
  <2> QED  BY <1>3, <2>1, Zenon
<1>5. /\ Account(buckets'[l + 1].tokens, buckets'[l + 1].at, granted'[client])
      /\ Told(buckets'[l + 1].tokens, buckets'[l + 1].at, comeBack'[client])
      /\ granted'[client] \in Seq(Int)
      /\ comeBack'[client] \in Int /\ comeBack'[client] >= -1
  <2>1. LET bucket == buckets'[Len(rest) + 1]
        IN  /\ Account(bucket.tokens, bucket.at, granted'[client])
            /\ Told(bucket.tokens, bucket.at, comeBack'[client])
            /\ granted'[client] \in Seq(Int)
            /\ comeBack'[client] \in Int /\ comeBack'[client] >= -1
    BY <1>1, AccountFollows
  <2> QED  BY <1>3, <2>1, Zenon
<1>6. \A c \in Clients \ {client} :
          /\ granted'[c] = IF Cardinality(since'[c]) < MaxKeys THEN granted[c] ELSE <<>>
          /\ comeBack'[c] = comeBack[c]
          /\ since'[c] = since[c] \cup {client}
  BY <1>1 DEF Takes
<1>7. clock' \in Nat
  BY <1>1 DEF Takes, LimitsInv
<1>8. since' \in [Clients -> SUBSET Clients]
  BY <1>1 DEF Takes, LimitsInv
<1>9. granted' \in [Clients -> Seq(Int)]
  <2>1. \A c \in Clients : granted'[c] \in Seq(Int)
    <3> SUFFICES ASSUME NEW c \in Clients
                 PROVE  granted'[c] \in Seq(Int)
      OBVIOUS
    <3>1. CASE c = client
      BY <1>5, <3>1
    <3>2. CASE c # client
      <4>1. granted'[c] = granted[c] \/ granted'[c] = <<>>
        BY <1>6, <3>2
      <4>2. granted[c] \in Seq(Int) /\ <<>> \in Seq(Int)
        BY DEF LimitsInv
      <4> QED  BY <4>1, <4>2
    <3> QED  BY <3>1, <3>2
  <2>2. \E f : granted' = [c \in Clients |-> f[c]]
    <3>1. granted' = [c \in Clients |-> granted'[c]]
      BY <1>1 DEF Takes
    <3> QED  BY <3>1
  <2> QED  BY <2>1, <2>2
<1>10. comeBack' \in [Clients -> Int] /\ \A c \in Clients : comeBack'[c] >= -1
  <2>1. \A c \in Clients : comeBack'[c] \in Int /\ comeBack'[c] >= -1
    BY <1>5, <1>6 DEF LimitsInv
  <2>2. comeBack' = [c \in Clients |-> comeBack'[c]]
    BY <1>1 DEF Takes
  <2> QED  BY <2>1, <2>2
<1>11. ASSUME NEW i \in 1..(l + 1)
       PROVE  /\ since'[buckets'[i].key] = KeysAfter(buckets', i)
              /\ Account(buckets'[i].tokens, buckets'[i].at, granted'[buckets'[i].key])
              /\ Told(buckets'[i].tokens, buckets'[i].at, comeBack'[buckets'[i].key])
  <2>1. CASE i \in 1..l
    <3>1. PICK b : b = rest[i]
      OBVIOUS
    <3>2. /\ buckets'[i] = b /\ b.key \in Clients \ {client}
          /\ since'[b.key] = KeysAfter(buckets', i)
          /\ Cardinality(since'[b.key]) < MaxKeys
          /\ \E m \in 1..Len(buckets) : b = buckets[m]
      BY <1>4, <2>1, <3>1
    <3>3. granted'[b.key] = granted[b.key] /\ comeBack'[b.key] = comeBack[b.key]
      BY <1>6, <3>2
    <3>4. Account(b.tokens, b.at, granted[b.key]) /\ Told(b.tokens, b.at, comeBack[b.key])
      BY <3>2 DEF LimitsInv
    <3> QED  BY <3>2, <3>3, <3>4
  <2>2. CASE i = l + 1
    BY <1>4, <1>5, <2>2
  <2> QED  BY <1>3, <2>1, <2>2
<1>12. ASSUME NEW c \in Clients, granted'[c] # <<>>
       PROVE  \E i \in 1..(l + 1) : buckets'[i].key = c
  <2>1. CASE c = client
    <3>1. l + 1 \in 1..(l + 1)
      BY <1>3
    <3> QED  BY <1>4, <2>1, <3>1
  <2>2. CASE c # client
    <3>1. granted[c] # <<>> /\ Cardinality(since'[c]) < MaxKeys
      BY <1>6, <1>12, <2>2
    <3>2. PICK m \in 1..Len(buckets) : buckets[m].key = c
      BY <3>1 DEF LimitsInv
    <3>3. ~(Cardinality(since'[c]) >= MaxKeys)
      <4>1. PICK x \in Nat \ {0} : x = MaxKeys
        BY Numbers
      <4>2. Cardinality(since'[c]) \in Int
        <5>1. IsFiniteSet(since'[c])
          <6>1. PICK n \in Nat : n = Len(buckets)
            BY DEF LimitsInv
          <6>2. IsFiniteSet(KeysAfter(buckets, m))
            <7>1. m + 1 \in Int /\ n \in Int
              BY <6>1
            <7>2. IsFiniteSet((m + 1)..n)
              BY <7>1, FS_Interval
            <7>3. PICK f : f = [j \in (m + 1)..n |-> buckets[j].key]
              OBVIOUS
            <7>4. f \in Surjection((m + 1)..n, KeysAfter(buckets, m))
              BY <6>1, <7>3 DEF Surjection, KeysAfter
            <7> QED  BY <7>2, <7>4, FS_Surjection
          <6>3. since'[c] = KeysAfter(buckets, m) \cup {client}
            BY <1>6, <2>2, <3>2 DEF LimitsInv
          <6> QED  BY <6>2, <6>3, FS_AddElement
        <5> QED  BY <5>1, FS_CardinalityType
      <4> QED  BY <3>1, <4>1, <4>2
    <3>4. PICK i \in 1..l : rest[i] = buckets[m]
      BY <1>4, <2>2, <3>2, <3>3
    <3>5. i \in 1..(l + 1) /\ buckets'[i].key = c
      BY <1>3, <1>4, <3>2, <3>4
    <3> QED  BY <3>5
  <2> QED  BY <2>1, <2>2
<1>13. LimitsInv'
  BY <1>4, <1>7, <1>8, <1>9, <1>10, <1>11, <1>12 DEF LimitsInv
<1> QED  BY <1>2, <1>13

\* A client has exactly what the burst and the rate give it: the bucket holds what is left of
\* it, whatever the client or others claim, whoever asks between and however the clock is set,
\* and who comes back when told is allowed.
THEOREM EachItsRate == Limits!Spec => ExactlyItsRate
<1>1. Limits!Init => LimitsInv
  <2> SUFFICES ASSUME Limits!Init
               PROVE  LimitsInv
    OBVIOUS
  <2>1. /\ clock = 0 /\ buckets = <<>> /\ since = [c \in Clients |-> {}]
        /\ granted = [c \in Clients |-> <<>>] /\ comeBack = [c \in Clients |-> -1]
    BY DEF Limits!Init
  <2>2. Len(buckets) = 0 /\ buckets \in Seq(BucketType) /\ Distinct(buckets)
    BY <2>1 DEF Distinct
  <2>3. Len(buckets) <= MaxKeys
    BY <2>2, Numbers
  <2> QED  BY <2>1, <2>2, <2>3 DEF LimitsInv
<1>2. LimitsInv /\ [Limits!Next]_Limits!vars => LimitsInv' /\ [Limits!ExactlyItsRate]_limits
  <2> SUFFICES ASSUME LimitsInv, [Limits!Next]_Limits!vars
               PROVE  LimitsInv' /\ [Limits!ExactlyItsRate]_limits
    OBVIOUS
  <2>1. CASE Limits!Ask
    <3>1. PICK client \in Clients : \E key \in Limits!KeysOf(client) : Limits!Take(client, key)
      BY <2>1 DEF Limits!Ask
    <3>2. Limits!Take(client, client)
      BY <3>1, KeyIsTheClient
    <3> QED  BY <3>2, TakeKeepsInv
  <2>2. CASE Limits!Tick \/ Limits!SetBack
    <3>1. clock' \in Nat /\ UNCHANGED <<buckets, since, granted, comeBack>>
      BY <2>2 DEF Limits!Tick, Limits!SetBack, LimitsInv
    <3>2. LimitsInv'
      BY <3>1 DEF LimitsInv
    <3>3. Limits!ExactlyItsRate
      <4>1. \A c \in Clients : Len(granted[c]) \in Nat /\ comeBack[c] \in Int
        BY DEF LimitsInv
      <4> QED  BY <3>1, <4>1 DEF Limits!ExactlyItsRate
    <3> QED  BY <3>2, <3>3
  <2>3. CASE UNCHANGED Limits!vars
    <3>1. UNCHANGED limits
      BY <2>3 DEF limits, Limits!vars
    <3>2. clock' \in Nat /\ UNCHANGED <<buckets, since, granted, comeBack>>
      BY <2>3 DEF Limits!vars, LimitsInv
    <3>3. LimitsInv'
      BY <3>2 DEF LimitsInv
    <3> QED  BY <3>1, <3>3
  <2> QED  BY <2>1, <2>2, <2>3 DEF Limits!Next
<1> QED  BY <1>1, <1>2, PTL DEF Limits!Spec, ExactlyItsRate

-----------------------------------------------------------------------------
(* Steps of a recursive function: the least of a set of numbers, and what  *)
(* is made of a sequence from its start on.                                *)

LEMMA LeastNumber ==
    ASSUME NEW S \in SUBSET Nat, S # {}
    PROVE  \E x \in S : \A y \in S : x <= y
<1> DEFINE less == OpToRel(<, Nat)
<1>1. PICK x \in S : \A y \in S : ~(<<y, x>> \in less)
  BY NatLessThanWellFounded, WFMin
<1>2. less = {pair \in Nat \X Nat : pair[1] < pair[2]}
  BY DEF OpToRel
<1> HIDE DEF less
<1>3. \A m, n \in Nat : m < n => <<m, n>> \in less
  BY <1>2
<1>4. \A m, n \in Nat : ~(m < n) => n <= m
  OBVIOUS
<1> QED  BY <1>1, <1>3, <1>4

LEMMA StepsAlike ==
    ASSUME NEW N \in Nat, NEW f, NEW g, f[0] = g[0],
           \A n \in 1..N : f[n - 1] = g[n - 1] => f[n] = g[n]
    PROVE  \A n \in 0..N : f[n] = g[n]
<1> DEFINE Bad == {m \in 0..N : f[m] # g[m]}
<1>1. SUFFICES ASSUME Bad # {} PROVE FALSE
  OBVIOUS
<1>2. PICK m \in Bad : \A k \in Bad : m <= k
  <2>1. Bad \in SUBSET Nat
    OBVIOUS
  <2> QED  BY ONLY <1>1, <2>1, LeastNumber
<1>3. m \in 0..N /\ m # 0
  OBVIOUS
<1>4. m - 1 \in 0..N /\ m \in 1..N /\ ~(m <= m - 1)
  BY <1>3
<1>5. f[m - 1] = g[m - 1]
  BY <1>2, <1>4
<1> QED  BY <1>4, <1>5

\* From first, one step after the other.
Stepwise(f, N, D, first, step) ==
    f \in [0..N -> D] /\ f[0] = first /\ \A n \in 1..N : f[n] = step[<<f[n - 1], n>>]

LEMMA StepsExist ==
    ASSUME NEW N \in Nat, NEW D, NEW first \in D, NEW step \in [D \X (1..N) -> D]
    PROVE  \E f : Stepwise(f, N, D, first, step)
<1> DEFINE Bad == {m \in 0..N : ~\E f : Stepwise(f, m, D, first, step)}
<1>1. SUFFICES ASSUME Bad # {} PROVE FALSE
  <2>1. N \in 0..N
    OBVIOUS
  <2> QED  BY <2>1
<1>2. PICK m \in Bad : \A k \in Bad : m <= k
  <2>1. Bad \in SUBSET Nat
    OBVIOUS
  <2> QED  BY ONLY <1>1, <2>1, LeastNumber
<1>3. m \in 0..N
  OBVIOUS
<1>4. CASE m = 0
  <2>1. PICK f : f = [i \in 0..0 |-> first]
    OBVIOUS
  <2>2. f[0] = first /\ f \in [0..0 -> D] /\ 1..0 = {}
    BY <2>1
  <2>3. Stepwise(f, 0, D, first, step)
    BY <2>2 DEF Stepwise
  <2> QED  BY <1>4, <2>3
<1>5. CASE m # 0
  <2>1. m - 1 \in 0..N /\ m \in 1..N /\ ~(m <= m - 1) /\ m \in Nat
    BY <1>3, <1>5
  <2>2. PICK f : Stepwise(f, m - 1, D, first, step)
    BY <1>2, <2>1
  <2>3. PICK g : g = [i \in 0..m |-> IF i = m THEN step[<<f[m - 1], m>>] ELSE f[i]]
    OBVIOUS
  <2>4. f \in [0..(m - 1) -> D] /\ m - 1 \in 0..(m - 1)
    BY <2>1, <2>2 DEF Stepwise
  <2>5. f[m - 1] \in D /\ step[<<f[m - 1], m>>] \in D
    BY <2>1, <2>4
  <2>6. \A i \in 0..m : i = m \/ i \in 0..(m - 1)
    BY <2>1
  <2>7. g \in [0..m -> D]
    BY <2>3, <2>4, <2>5, <2>6
  <2>8. \A i \in 0..(m - 1) : g[i] = f[i]
    <3>1. \A i \in 0..(m - 1) : i \in 0..m /\ i # m
      BY <2>1
    <3> QED  BY <2>3, <3>1
  <2>9. g[m] = step[<<f[m - 1], m>>] /\ 0 \in 0..(m - 1)
    BY <2>1, <2>3
  <2>10. \A n \in 1..m : n = m \/ (n \in 1..(m - 1) /\ n \in 0..(m - 1) /\ n - 1 \in 0..(m - 1))
    BY <2>1
  <2>11. \A n \in 1..m : g[n] = step[<<g[n - 1], n>>]
    BY <2>2, <2>4, <2>8, <2>9, <2>10 DEF Stepwise
  <2>12. g[0] = first
    BY <2>2, <2>8, <2>9 DEF Stepwise
  <2>13. Stepwise(g, m, D, first, step)
    BY <2>7, <2>11, <2>12 DEF Stepwise
  <2> QED  BY <2>13
<1> QED  BY <1>4, <1>5

\* What the first n of the parts make.
Joins(f, parts, N, S) ==
    f \in [0..N -> Seq(S)] /\ f[0] = <<>> /\ \A n \in 1..N : f[n] = f[n - 1] \o parts[n]

LEMMA JoinsExist ==
    ASSUME NEW S, NEW N \in Nat, NEW parts, \A n \in 1..N : parts[n] \in Seq(S)
    PROVE  \E f : Joins(f, parts, N, S)
<1> DEFINE step == [x \in Seq(S) \X (1..N) |-> x[1] \o parts[x[2]]]
<1>1. \A s \in Seq(S), n \in 1..N : step[<<s, n>>] = s \o parts[n]
  OBVIOUS
<1>2. step \in [Seq(S) \X (1..N) -> Seq(S)]
  OBVIOUS
<1> HIDE DEF step
<1>6. <<>> \in Seq(S)
  OBVIOUS
<1>3. PICK f : Stepwise(f, N, Seq(S), <<>>, step)
  BY ONLY <1>2, <1>6, N \in Nat, StepsExist
<1>4. \A n \in 1..N : n - 1 \in 0..N
  OBVIOUS
<1>5. Joins(f, parts, N, S)
  BY <1>1, <1>3, <1>4 DEF Stepwise, Joins
<1> QED  BY <1>5

-----------------------------------------------------------------------------
(* The atoms of a bucket.                                                  *)

LEMMA DivisionGrows ==
    ASSUME NEW x \in Nat, NEW y \in Nat, x <= y, NEW P \in Nat \ {0}
    PROVE  x \div P \in Nat /\ y \div P \in Nat /\ x \div P <= y \div P
<1>1. PICK q \in Int, a \in Int : q = x \div P /\ x = a + q * P /\ 0 <= a /\ a < P
  BY ONLY x \in Nat, P \in Nat \ {0}
<1>2. PICK r \in Int, b \in Int : r = y \div P /\ y = b + r * P /\ 0 <= b /\ b < P
  BY ONLY y \in Nat, P \in Nat \ {0}
<1>3. x \div P \in Nat /\ y \div P \in Nat
  BY ONLY x \in Nat, y \in Nat, P \in Nat \ {0}
<1>4. SUFFICES ASSUME r + 1 <= q PROVE FALSE
  BY <1>1, <1>2, <1>3
<1>5. (r + 1) * P <= q * P
  BY ONLY <1>4, r \in Int, q \in Int, P \in Nat \ {0}
<1>6. (r + 1) * P = r * P + P
  BY ONLY r \in Int, P \in Nat \ {0}
<1>7. PICK qp \in Int, rp \in Int : qp = q * P /\ rp = r * P
  BY ONLY q \in Int, r \in Int, P \in Nat \ {0}
<1>8. x = a + qp /\ y = b + rp /\ rp + P <= qp /\ 0 <= a /\ b < P
  BY <1>1, <1>2, <1>5, <1>6, <1>7
<1> QED
  BY ONLY <1>8, x <= y, x \in Nat, y \in Nat, a \in Int, b \in Int, qp \in Int, rp \in Int, P \in Nat \ {0}

LEMMA DivisionMoves ==
    ASSUME NEW x \in Nat, NEW L \in Nat, NEW P \in Nat \ {0}, P <= L
    PROVE  x \div P < (x + L) \div P
<1>1. PICK q \in Int, a \in Int : q = x \div P /\ x = a + q * P /\ 0 <= a /\ a < P
  BY ONLY x \in Nat, P \in Nat \ {0}
<1>2. PICK r \in Int, b \in Int : r = (x + L) \div P /\ x + L = b + r * P /\ 0 <= b /\ b < P
  BY ONLY x \in Nat, L \in Nat, P \in Nat \ {0}
<1>4. SUFFICES ASSUME r <= q PROVE FALSE
  BY <1>1, <1>2
<1>5. r * P <= q * P
  BY ONLY <1>4, r \in Int, q \in Int, P \in Nat \ {0}
<1>7. PICK qp \in Int, rp \in Int : qp = q * P /\ rp = r * P
  BY ONLY q \in Int, r \in Int, P \in Nat \ {0}
<1>8. x = a + qp /\ x + L = b + rp /\ rp <= qp /\ 0 <= a /\ b < P
  BY <1>1, <1>2, <1>5, <1>7
<1> QED
  BY ONLY <1>8, P <= L, x \in Nat, L \in Nat, a \in Int, b \in Int, qp \in Int, rp \in Int, P \in Nat \ {0}

\* The i-th of P cuts of a length L.
Cut(i, L, P) == (i * L) \div P

LEMMA CutsAre ==
    ASSUME NEW L \in Nat, NEW P \in Nat \ {0}, P <= L
    PROVE  /\ \A i \in 0..P : Cut(i, L, P) \in 0..L
           /\ Cut(0, L, P) = 0 /\ Cut(P, L, P) = L
           /\ \A i \in 1..P : Cut(i - 1, L, P) < Cut(i, L, P)
           /\ \A i, j \in 0..P : i <= j => Cut(i, L, P) <= Cut(j, L, P)
<1>1. Cut(0, L, P) = 0
  <2>1. 0 * L = 0
    OBVIOUS
  <2>2. 0 \div P = 0
    BY ONLY P \in Nat \ {0}
  <2> QED  BY <2>1, <2>2 DEF Cut
<1>2. Cut(P, L, P) = L
  <2>1. (P * L) \div P = L
    BY ONLY L \in Nat, P \in Nat \ {0}
  <2> QED  BY <2>1 DEF Cut
<1>3. ASSUME NEW i \in 0..P, NEW j \in 0..P, i <= j  PROVE Cut(i, L, P) \in Nat /\ Cut(j, L, P) \in Nat /\ Cut(i, L, P) <= Cut(j, L, P)
  <2>1. i * L <= j * L /\ i * L \in Nat /\ j * L \in Nat
    BY ONLY <1>3, i \in 0..P, j \in 0..P, P \in Nat \ {0}, L \in Nat
  <2> QED  BY <2>1, DivisionGrows DEF Cut
<1>4. ASSUME NEW i \in 1..P  PROVE Cut(i - 1, L, P) < Cut(i, L, P)
  <2>1. PICK x \in Nat : x = (i - 1) * L
    BY ONLY i \in 1..P, P \in Nat \ {0}, L \in Nat
  <2>2. i * L = x + L
    BY ONLY <2>1, i \in 1..P, P \in Nat \ {0}, L \in Nat
  <2> QED  BY <2>1, <2>2, DivisionMoves DEF Cut
<1>5. 0 \in 0..P /\ P \in 0..P /\ \A i \in 0..P : 0 <= i /\ i <= P
  OBVIOUS
<1>6. \A i \in 0..P : Cut(i, L, P) \in 0..L
  BY <1>1, <1>2, <1>3, <1>5
<1> QED  BY <1>1, <1>2, <1>3, <1>4, <1>6

AtomType == [start : Int, end : Int, events : Nat \ {0}]

\* Atoms one after the other between two times, none in two buckets.
OfOneBucket(atom) == \E k \in Nat : k * BucketMs <= atom.start /\ atom.end <= (k + 1) * BucketMs
Chained(atoms, lo, hi) ==
    /\ atoms \in Seq(AtomType)
    /\ \A i \in 1..Len(atoms) :
          lo <= atoms[i].start /\ atoms[i].start < atoms[i].end /\ atoms[i].end <= hi /\ OfOneBucket(atoms[i])
    /\ \A i, j \in 1..Len(atoms) : i < j => atoms[i].end <= atoms[j].start
Covers(atoms, t) == \E i \in 1..Len(atoms) : atoms[i].start <= t /\ t < atoms[i].end

LEMMA PartsAre ==
    ASSUME NEW v \in Nat \ {0}, NEW m \in Nat \ {0}, NEW L \in Nat \ {0}
    PROVE  LET P == Pricing!Least(Pricing!Ceil(v, m), L) IN P \in Nat \ {0} /\ P <= v /\ P <= L
<1>1. PICK c \in Int, a \in Int : c = (v + m - 1) \div m /\ v + m - 1 = a + c * m /\ 0 <= a /\ a < m
  BY ONLY v \in Nat \ {0}, m \in Nat \ {0}
<1>2. c >= 1
  BY ONLY <1>1, v \in Nat \ {0}, m \in Nat \ {0}
<1>3. c <= v
  <2>1. SUFFICES ASSUME v + 1 <= c PROVE FALSE
    OBVIOUS
  <2>2. (v + 1) * m <= c * m
    BY ONLY <2>1, v \in Nat \ {0}, c \in Int, m \in Nat \ {0}
  <2>3. (v + 1) * m = v * m + m /\ v <= v * m
    BY ONLY v \in Nat \ {0}, m \in Nat \ {0}
  <2>4. PICK vm \in Int, cm \in Int : vm = v * m /\ cm = c * m
    BY ONLY v \in Nat \ {0}, c \in Int, m \in Nat \ {0}
  <2>5. vm + m <= cm /\ v <= vm /\ v + m - 1 = a + cm /\ 0 <= a
    BY <1>1, <2>2, <2>3, <2>4
  <2> QED  BY ONLY <2>5, vm \in Int, cm \in Int, a \in Int, v \in Nat \ {0}, m \in Nat \ {0}
<1>4. Pricing!Ceil(v, m) = c
  BY <1>1 DEF Pricing!Ceil
<1> QED  BY <1>2, <1>3, <1>4 DEF Pricing!Least

\* The cuts of a clipped bucket.
CutIn(atoms, lo, L, P) ==
    /\ atoms \in Seq(AtomType) /\ Len(atoms) = P /\ P <= L
    /\ \A i \in 1..P : atoms[i].start = lo + Cut(i - 1, L, P) /\ atoms[i].end = lo + Cut(i, L, P)

LEMMA AtomsAre ==
    ASSUME NEW s \in Int, NEW v \in Nat \ {0}, NEW from \in Int, NEW to \in Int,
           NEW lo \in Int, NEW L \in Nat \ {0}, NEW atoms,
           lo = Pricing!Greatest(s, from), lo + L = Pricing!Least(s + BucketMs, to),
           atoms = Pricing!AtomsOf([start |-> s, events |-> v], from, to)
    PROVE  \E P \in Nat \ {0} : CutIn(atoms, lo, L, P)
<1>1. PICK hi \in Int : hi = lo + L
  OBVIOUS
<1>2. MaxEvents \in Nat \ {0} /\ BucketMs \in Nat \ {0}
  BY PricingAssumption DEF Pricing!RepriceAssumption, Pricing!PlanAssumption
<1>3. PICK P \in Nat \ {0} : P = Pricing!Least(Pricing!Ceil(v, MaxEvents), L) /\ P <= v /\ P <= L
  BY <1>2, PartsAre
<1>4. PICK cuts : cuts = [i \in 1..P |->
          [start |-> lo + Cut(i - 1, L, P), end |-> lo + Cut(i, L, P), events |-> Cut(i, v, P) - Cut(i - 1, v, P)]]
  OBVIOUS
<1>5. atoms = cuts
  <2>1. PICK bucket : bucket = [start |-> s, events |-> v]
    OBVIOUS
  <2>2. bucket.start = s /\ bucket.events = v
    BY <2>1
  <2>3. /\ Pricing!Greatest(bucket.start, from) = lo /\ Pricing!Least(bucket.start + BucketMs, to) = hi
        /\ hi - lo = L /\ Pricing!Least(Pricing!Ceil(bucket.events, MaxEvents), L) = P
        /\ ~(bucket.events <= 0 \/ hi <= lo)
    BY <1>1, <1>3, <2>2
  <2>4. Pricing!AtomsOf(bucket, from, to) =
          [i \in 1..P |-> [start |-> lo + ((i - 1) * L) \div P, end |-> lo + (i * L) \div P,
                          events |-> (i * bucket.events) \div P - ((i - 1) * bucket.events) \div P]]
    BY ONLY <2>3, Zenon DEF Pricing!AtomsOf
  <2>5. cuts = [i \in 1..P |-> [start |-> lo + ((i - 1) * L) \div P, end |-> lo + (i * L) \div P,
                               events |-> (i * v) \div P - ((i - 1) * v) \div P]]
    BY ONLY <1>4, Zenon DEF Cut
  <2> QED  BY <2>1, <2>2, <2>4, <2>5, Zenon
<1>6. ASSUME NEW i \in 1..P  PROVE cuts[i] \in AtomType
  <2>1. i \in 0..P /\ i - 1 \in 0..P
    OBVIOUS
  <2>2. Cut(i, L, P) \in 0..L /\ Cut(i - 1, L, P) \in 0..L
    BY <1>3, <2>1, CutsAre
  <2>3. Cut(i, v, P) \in 0..v /\ Cut(i - 1, v, P) \in 0..v /\ Cut(i - 1, v, P) < Cut(i, v, P)
    BY <1>3, <2>1, CutsAre
  <2>4. PICK a \in Int, b \in Int, c \in Nat \ {0} :
          a = lo + Cut(i - 1, L, P) /\ b = lo + Cut(i, L, P) /\ c = Cut(i, v, P) - Cut(i - 1, v, P)
    BY <2>2, <2>3
  <2> QED  BY <1>4, <2>4 DEF AtomType
<1>7. cuts \in Seq(AtomType) /\ Len(cuts) = P
  BY <1>4, <1>6
<1>8. \A i \in 1..P : cuts[i].start = lo + Cut(i - 1, L, P) /\ cuts[i].end = lo + Cut(i, L, P)
  BY <1>4
<1> QED  BY <1>3, <1>5, <1>7, <1>8 DEF CutIn

LEMMA NoAtoms ==
    ASSUME NEW s \in Int, NEW v \in Nat, NEW from \in Int, NEW to \in Int, NEW atoms,
           v = 0 \/ ~(Pricing!Greatest(s, from) < Pricing!Least(s + BucketMs, to)),
           atoms = Pricing!AtomsOf([start |-> s, events |-> v], from, to)
    PROVE  atoms = <<>>
<1>1. BucketMs \in Nat \ {0}
  BY PricingAssumption DEF Pricing!RepriceAssumption, Pricing!PlanAssumption
<1>2. v <= 0 \/ Pricing!Least(s + BucketMs, to) <= Pricing!Greatest(s, from)
  BY <1>1 DEF Pricing!Greatest, Pricing!Least
<1> QED  BY <1>2 DEF Pricing!AtomsOf

\* The atoms of the bucket from k * BucketMs on.
LEMMA AtomsChained ==
    ASSUME NEW k \in Nat, NEW v \in Nat, NEW from \in Int, NEW to \in Int,
           NEW lo \in Int, NEW hi \in Int, NEW s \in Int, NEW atoms,
           s = k * BucketMs, lo = Pricing!Greatest(s, from), hi = Pricing!Least(s + BucketMs, to),
           atoms = Pricing!AtomsOf([start |-> s, events |-> v], from, to)
    PROVE  /\ Chained(atoms, lo, hi)
           /\ v # 0 => \A t \in Int : lo <= t /\ t < hi => Covers(atoms, t)
<1>1. CASE v = 0 \/ ~(lo < hi)
  <2>1. atoms = <<>>
    BY ONLY <1>1, s \in Int, v \in Nat, from \in Int, to \in Int, NoAtoms,
            lo = Pricing!Greatest(s, from), hi = Pricing!Least(s + BucketMs, to),
            atoms = Pricing!AtomsOf([start |-> s, events |-> v], from, to)
  <2>2. Chained(atoms, lo, hi)
    <3>1. atoms \in Seq(AtomType) /\ Len(atoms) = 0 /\ 1..0 = {}
      BY ONLY <2>1
    <3> QED  BY ONLY <3>1 DEF Chained
  <2>3. v # 0 => \A t \in Int : ~(lo <= t /\ t < hi)
    BY <1>1
  <2> QED  BY <2>2, <2>3
<1>2. CASE v # 0 /\ lo < hi
  <2>1. PICK L \in Nat \ {0} : L = hi - lo /\ lo + L = hi
    BY ONLY <1>2, lo \in Int, hi \in Int
  <2>2. PICK P \in Nat \ {0} : CutIn(atoms, lo, L, P)
    BY ONLY <1>2, <2>1, s \in Int, v \in Nat, from \in Int, to \in Int, lo \in Int, AtomsAre, L \in Nat \ {0},
            lo = Pricing!Greatest(s, from), hi = Pricing!Least(s + BucketMs, to),
            atoms = Pricing!AtomsOf([start |-> s, events |-> v], from, to)
  <2>3. PICK cut : cut = [i \in 0..P |-> Cut(i, L, P)]
    OBVIOUS
  <2>4. /\ \A i \in 0..P : cut[i] \in 0..L
        /\ cut[0] = 0 /\ cut[P] = L
        /\ \A i \in 1..P : cut[i - 1] < cut[i]
        /\ \A i, j \in 0..P : i <= j => cut[i] <= cut[j]
    <3>1. P <= L
      BY <2>2 DEF CutIn
    <3>2. /\ \A i \in 0..P : Cut(i, L, P) \in 0..L
          /\ Cut(0, L, P) = 0 /\ Cut(P, L, P) = L
          /\ \A i \in 1..P : Cut(i - 1, L, P) < Cut(i, L, P)
          /\ \A i, j \in 0..P : i <= j => Cut(i, L, P) <= Cut(j, L, P)
      BY ONLY <3>1, L \in Nat \ {0}, P \in Nat \ {0}, CutsAre
    <3>3. 0 \in 0..P /\ P \in 0..P /\ \A i \in 1..P : i \in 0..P /\ i - 1 \in 0..P
      OBVIOUS
    <3> QED  BY ONLY <2>3, <3>2, <3>3
  <2>5. atoms \in Seq(AtomType) /\ Len(atoms) = P /\
        \A i \in 1..P : /\ i \in 0..P /\ i - 1 \in 0..P
                        /\ atoms[i].start = lo + cut[i - 1] /\ atoms[i].end = lo + cut[i]
    <3>1. \A i \in 1..P : i \in 0..P /\ i - 1 \in 0..P
      OBVIOUS
    <3> QED  BY ONLY <2>2, <2>3, <3>1 DEF CutIn
  <2>6. k * BucketMs <= lo /\ hi <= (k + 1) * BucketMs
    <3>1. BucketMs \in Nat \ {0}
      BY PricingAssumption DEF Pricing!RepriceAssumption, Pricing!PlanAssumption
    <3>2. (k + 1) * BucketMs = s + BucketMs
      BY <3>1
    <3>3. s <= lo /\ hi <= s + BucketMs
      BY <3>1 DEF Pricing!Greatest, Pricing!Least
    <3> QED  BY <3>2, <3>3
  <2>7. ASSUME NEW i \in 1..P
        PROVE  lo <= atoms[i].start /\ atoms[i].start < atoms[i].end /\ atoms[i].end <= hi /\ OfOneBucket(atoms[i])
    <3>1. PICK a \in 0..L, b \in 0..L : a = cut[i - 1] /\ b = cut[i] /\ a < b
      BY <2>4, <2>5
    <3>2. atoms[i].start = lo + a /\ atoms[i].end = lo + b
      BY <2>5, <3>1
    <3>3. lo <= lo + a /\ lo + a < lo + b /\ lo + b <= hi
      BY <2>1, <3>1
    <3>4. BucketMs \in Nat
      BY PricingAssumption DEF Pricing!RepriceAssumption, Pricing!PlanAssumption
    <3>5. PICK x \in Int, y \in Int : x = k * BucketMs /\ y = (k + 1) * BucketMs
      BY <3>4
    <3>6. x <= lo + a /\ lo + b <= y
      BY <2>6, <3>3, <3>5
    <3>7. OfOneBucket(atoms[i])
      BY <3>2, <3>5, <3>6 DEF OfOneBucket
    <3> QED  BY <3>2, <3>3, <3>7
  <2>8. ASSUME NEW i \in 1..P, NEW j \in 1..P, i < j  PROVE atoms[i].end <= atoms[j].start
    <3>1. i <= j - 1
      BY <2>8
    <3>2. PICK a \in 0..L, b \in 0..L : a = cut[i] /\ b = cut[j - 1] /\ a <= b
      BY <2>4, <2>5, <3>1
    <3>3. atoms[i].end = lo + a /\ atoms[j].start = lo + b
      BY <2>5, <3>2
    <3> QED  BY <3>2, <3>3
  <2>9. Chained(atoms, lo, hi)
    BY <2>5, <2>7, <2>8 DEF Chained
  <2>10. ASSUME NEW t \in Int, lo <= t, t < hi  PROVE Covers(atoms, t)
    <3>1. PICK S : S = {i \in 0..P : t < lo + cut[i]}
      OBVIOUS
    <3>2. S \in SUBSET Nat /\ P \in S
      BY <2>1, <2>4, <2>10, <3>1
    <3>3. PICK i \in S : \A j \in S : i <= j
      BY <3>2, LeastNumber
    <3>4. i \in 1..P
      <4>1. i # 0
        BY <2>4, <2>10, <3>1
      <4> QED  BY <3>1, <4>1
    <3>5. i - 1 \in 0..P /\ ~(i <= i - 1)
      BY <3>4
    <3>6. ~(t < lo + cut[i - 1])
      BY <3>1, <3>3, <3>5
    <3>7. atoms[i].start <= t /\ t < atoms[i].end
      <4>1. PICK a \in Int, b \in Int : a = cut[i - 1] /\ b = cut[i]
        <5>1. cut[i - 1] \in Int /\ cut[i] \in Int
          BY ONLY <2>4, <2>5, <3>4, L \in Nat \ {0}, P \in Nat \ {0}
        <5> QED  BY ONLY <5>1
      <4>2. t < lo + b /\ ~(t < lo + a)
        BY <3>1, <3>6, <4>1
      <4>3. atoms[i].start = lo + a /\ atoms[i].end = lo + b
        BY <2>5, <3>4, <4>1
      <4> QED  BY ONLY <4>2, <4>3, a \in Int, b \in Int, lo \in Int, t \in Int
    <3> QED  BY <2>5, <3>4, <3>7 DEF Covers
  <2> QED  BY <2>9, <2>10
<1> QED  BY <1>1, <1>2

-----------------------------------------------------------------------------
(* The atoms of all buckets.                                               *)

LEMMA ChainsJoin ==
    ASSUME NEW a, NEW b, NEW lo \in Int, NEW mid \in Int, NEW low \in Int, NEW hi \in Int,
           Chained(a, lo, mid), Chained(b, low, hi), lo <= low, mid <= low, mid <= hi
    PROVE  /\ Chained(a \o b, lo, hi)
           /\ \A t \in Int : Covers(a, t) \/ Covers(b, t) => Covers(a \o b, t)
<1>1. a \in Seq(AtomType) /\ b \in Seq(AtomType)
  BY DEF Chained
<1>2. PICK k \in Nat, l \in Nat : k = Len(a) /\ l = Len(b)
  BY <1>1, LenProperties
<1>3. PICK c : c = a \o b
  OBVIOUS
<1>4. c \in Seq(AtomType) /\ Len(c) = k + l /\ \A i \in 1..(k + l) : c[i] = IF i <= k THEN a[i] ELSE b[i - k]
  <2>1. /\ a \o b \in Seq(AtomType) /\ Len(a \o b) = Len(a) + Len(b)
        /\ \A i \in 1..(Len(a) + Len(b)) : (a \o b)[i] = IF i <= Len(a) THEN a[i] ELSE b[i - Len(a)]
    BY ONLY <1>1, ConcatProperties, Zenon
  <2> QED  BY ONLY <1>2, <1>3, <2>1, Zenon
<1>5. /\ \A i \in 1..k : /\ lo <= a[i].start /\ a[i].start < a[i].end /\ a[i].end <= mid /\ OfOneBucket(a[i])
                         /\ a[i].start \in Int /\ a[i].end \in Int
      /\ \A i, j \in 1..k : i < j => a[i].end <= a[j].start
  <2>1. \A i \in 1..k : a[i] \in AtomType
    BY <1>1, <1>2, ElementOfSeq
  <2>2. \A x \in AtomType : x.start \in Int /\ x.end \in Int
    BY DEF AtomType
  <2> QED  BY ONLY <1>2, <2>1, <2>2, Chained(a, lo, mid) DEF Chained
<1>6. /\ \A i \in 1..l : /\ low <= b[i].start /\ b[i].start < b[i].end /\ b[i].end <= hi /\ OfOneBucket(b[i])
                         /\ b[i].start \in Int /\ b[i].end \in Int
      /\ \A i, j \in 1..l : i < j => b[i].end <= b[j].start
  <2>1. \A i \in 1..l : b[i] \in AtomType
    BY <1>1, <1>2, ElementOfSeq
  <2>2. \A x \in AtomType : x.start \in Int /\ x.end \in Int
    BY DEF AtomType
  <2> QED  BY ONLY <1>2, <2>1, <2>2, Chained(b, low, hi) DEF Chained
<1>7. \A i \in 1..(k + l) : \/ i \in 1..k /\ c[i] = a[i]
                            \/ i - k \in 1..l /\ c[i] = b[i - k] /\ k < i
  BY ONLY <1>4, k \in Nat, l \in Nat
<1>8. ASSUME NEW i \in 1..(k + l)
      PROVE  lo <= c[i].start /\ c[i].start < c[i].end /\ c[i].end <= hi /\ OfOneBucket(c[i])
  BY <1>5, <1>6, <1>7
<1>9. ASSUME NEW i \in 1..(k + l), NEW j \in 1..(k + l), i < j  PROVE c[i].end <= c[j].start
  <2>1. CASE j \in 1..k /\ c[j] = a[j]
    <3>1. i \in 1..k /\ c[i] = a[i]
      BY ONLY <1>4, <1>9, <2>1, k \in Nat, l \in Nat, i \in 1..(k + l)
    <3> QED  BY <1>5, <1>9, <2>1, <3>1
  <2>2. CASE j - k \in 1..l /\ c[j] = b[j - k] /\ k < j
    <3>1. CASE i \in 1..k /\ c[i] = a[i]
      <4>1. PICK x \in Int, y \in Int : x = a[i].end /\ y = b[j - k].start
        BY <1>5, <1>6, <2>2, <3>1
      <4>2. x <= mid /\ low <= y
        BY <1>5, <1>6, <2>2, <3>1, <4>1
      <4> QED  BY <2>2, <3>1, <4>1, <4>2
    <3>2. CASE i - k \in 1..l /\ c[i] = b[i - k] /\ k < i
      <4>1. i - k < j - k
        BY <1>9
      <4> QED  BY <1>6, <2>2, <3>2, <4>1
    <3> QED  BY <1>7, <3>1, <3>2
  <2> QED  BY <1>7, <2>1, <2>2
<1>10. Chained(c, lo, hi)
  BY ONLY <1>4, <1>8, <1>9 DEF Chained
<1>11. ASSUME NEW t \in Int, Covers(a, t)  PROVE Covers(c, t)
  <2>1. PICK i \in 1..k : a[i].start <= t /\ t < a[i].end
    BY <1>2, <1>11 DEF Covers
  <2>2. i \in 1..(k + l) /\ i <= k
    BY ONLY i \in 1..k, k \in Nat, l \in Nat
  <2> QED  BY ONLY <1>4, <2>1, <2>2 DEF Covers
<1>12. ASSUME NEW t \in Int, Covers(b, t)  PROVE Covers(c, t)
  <2>1. PICK i \in 1..l : b[i].start <= t /\ t < b[i].end
    BY <1>2, <1>12 DEF Covers
  <2>2. i + k \in 1..(k + l) /\ ~(i + k <= k) /\ (i + k) - k = i
    BY ONLY i \in 1..l, k \in Nat, l \in Nat
  <2> QED  BY ONLY <1>4, <2>1, <2>2 DEF Covers
<1> QED  BY <1>3, <1>10, <1>11, <1>12

\* Counts of buckets from 0 on.
Even(counts, N) ==
    /\ Len(counts) = N
    /\ \A n \in 1..N : /\ counts[n] = [start |-> (n - 1) * BucketMs, events |-> counts[n].events]
                      /\ counts[n].events \in Nat

\* What is joined of the first n counts.
AllAtoms(atoms, counts, from, to, n) ==
    /\ Chained(atoms, from, Pricing!Least(to, n * BucketMs))
    /\ \A k \in 1..n, t \in Int :
          /\ counts[k].events # 0 /\ from <= t /\ t < to
          /\ (k - 1) * BucketMs <= t /\ t < k * BucketMs
          => Covers(atoms, t)

LEMMA OneMoreBucket ==
    ASSUME NEW N \in Nat, NEW counts, Even(counts, N), NEW from \in Nat, NEW to \in Nat,
           NEW n \in 1..N, NEW a, AllAtoms(a, counts, from, to, n - 1)
    PROVE  AllAtoms(a \o Pricing!AtomsOf(counts[n], from, to), counts, from, to, n)
<1>1. BucketMs \in Nat \ {0}
  BY PricingAssumption DEF Pricing!RepriceAssumption, Pricing!PlanAssumption
<1>2. PICK m \in Nat : m = n - 1 /\ n = m + 1
  OBVIOUS
<1>3. PICK s \in Nat, e \in Nat : s = m * BucketMs /\ e = n * BucketMs /\ e = s + BucketMs
  BY <1>1, <1>2
<1>4. PICK v \in Nat : v = counts[n].events
  BY DEF Even
<1>5. counts[n] = [start |-> s, events |-> v]
  BY <1>2, <1>3, <1>4 DEF Even
<1>6. PICK b : b = Pricing!AtomsOf(counts[n], from, to)
  OBVIOUS
<1>7. PICK low \in Int, hi \in Int : /\ low = Pricing!Greatest(s, from) /\ hi = Pricing!Least(s + BucketMs, to)
                                   /\ from <= low /\ s <= low /\ (low = s \/ low = from)
                                   /\ hi <= e /\ hi <= to /\ (hi = e \/ hi = to)
  BY ONLY <1>1, <1>3, s \in Nat, e \in Nat, from \in Nat, to \in Nat DEF Pricing!Greatest, Pricing!Least
<1>8. /\ Chained(b, low, hi)
      /\ v # 0 => \A t \in Int : low <= t /\ t < hi => Covers(b, t)
  BY ONLY <1>3, <1>5, <1>6, <1>7, m \in Nat, v \in Nat, from \in Nat, to \in Nat, low \in Int, hi \in Int,
          s \in Nat, AtomsChained
<1>9. PICK mid \in Int : mid = Pricing!Least(to, s) /\ mid <= s /\ mid <= to
  BY DEF Pricing!Least
<1>10. Chained(a, from, mid)
  BY <1>2, <1>3, <1>9 DEF AllAtoms
<1>11. hi = Pricing!Least(to, e)
  BY <1>7 DEF Pricing!Least
<1>12. /\ Chained(a \o b, from, hi)
       /\ \A t \in Int : Covers(a, t) \/ Covers(b, t) => Covers(a \o b, t)
  <2>1. from <= low /\ mid <= low /\ mid <= hi /\ from \in Int
    BY ONLY <1>1, <1>3, <1>7, <1>9, s \in Nat, e \in Nat, mid \in Int, low \in Int, hi \in Int,
            from \in Nat, to \in Nat
  <2> QED
    BY ONLY <1>8, <1>10, <2>1, mid \in Int, low \in Int, hi \in Int, ChainsJoin
<1>13. ASSUME NEW k \in 1..n, NEW t \in Int, counts[k].events # 0, from <= t, t < to,
              (k - 1) * BucketMs <= t, t < k * BucketMs
       PROVE  Covers(a \o b, t)
  <2>1. CASE k = n
    <3>1. v # 0 /\ s <= t /\ t < e
      BY <1>2, <1>3, <1>4, <1>13, <2>1
    <3>2. low <= t /\ t < hi
      BY <1>7, <1>13, <3>1
    <3> QED  BY <1>8, <1>12, <3>1, <3>2
  <2>2. CASE k # n
    <3>1. k \in 1..m
      BY <1>2, <2>2
    <3>2. Covers(a, t)
      BY <1>2, <1>13, <3>1 DEF AllAtoms
    <3> QED  BY <1>12, <3>2
  <2> QED  BY <2>1, <2>2
<1> QED  BY ONLY <1>3, <1>6, <1>11, <1>12, <1>13 DEF AllAtoms

LEMMA BucketsAtoms ==
    ASSUME NEW N \in Nat, NEW counts, Even(counts, N), NEW from \in Nat, NEW to \in Nat, NEW n \in 1..N
    PROVE  Pricing!AtomsOf(counts[n], from, to) \in Seq(AtomType)
<1>1. BucketMs \in Nat \ {0}
  BY PricingAssumption DEF Pricing!RepriceAssumption, Pricing!PlanAssumption
<1>2. PICK m \in Nat : m = n - 1
  OBVIOUS
<1>3. PICK s \in Int, v \in Nat : s = m * BucketMs /\ v = counts[n].events
  BY <1>1, <1>2 DEF Even
<1>4. PICK low \in Int, hi \in Int : low = Pricing!Greatest(s, from) /\ hi = Pricing!Least(s + BucketMs, to)
  BY ONLY <1>1, s \in Int, from \in Nat, to \in Nat DEF Pricing!Greatest, Pricing!Least
<1>5. counts[n] = [start |-> s, events |-> v]
  BY <1>2, <1>3 DEF Even
<1>6. PICK b : b = Pricing!AtomsOf(counts[n], from, to)
  OBVIOUS
<1>7. from \in Int /\ to \in Int
  OBVIOUS
<1>8. Chained(b, low, hi)
  BY ONLY <1>3, <1>4, <1>5, <1>6, <1>7, m \in Nat, v \in Nat, low \in Int, hi \in Int, s \in Int, AtomsChained
<1> QED  BY <1>6, <1>8 DEF Chained

LEMMA AtomsInAre ==
    ASSUME NEW N \in Nat, NEW counts, Even(counts, N), NEW from \in Nat, NEW to \in Nat
    PROVE  AllAtoms(Pricing!AtomsIn(from, to, counts), counts, from, to, N)
<1> DEFINE parts == [n \in 1..N |-> Pricing!AtomsOf(counts[n], from, to)]
<1> DEFINE Defines(g) == g = [k \in 0..N |-> IF k = 0 THEN <<>> ELSE g[k - 1] \o Pricing!AtomsOf(counts[k], from, to)]
<1>1. BucketMs \in Nat \ {0}
  BY PricingAssumption DEF Pricing!RepriceAssumption, Pricing!PlanAssumption
<1>2. ASSUME NEW n \in 1..N  PROVE parts[n] \in Seq(AtomType) /\ parts[n] = Pricing!AtomsOf(counts[n], from, to)
  BY BucketsAtoms
<1> HIDE DEF parts
<1>3. PICK f : Joins(f, parts, N, AtomType)
  BY ONLY <1>2, N \in Nat, JoinsExist
<1>4. \A n \in 1..N : n \in 0..N /\ n - 1 \in 0..N /\ n # 0
  OBVIOUS
<1>5. f[0] = <<>> /\ \A k \in 1..N : f[k] = f[k - 1] \o Pricing!AtomsOf(counts[k], from, to)
  BY <1>2, <1>3 DEF Joins
<1>6. Pricing!AtomsIn(from, to, counts) = f[N]
  <2>1. Pricing!AtomsIn(from, to, counts) = (CHOOSE g : Defines(g))[N]
    BY DEF Even, Pricing!AtomsIn
  <2>2. PICK h : h = [k \in 0..N |-> f[k]]
    OBVIOUS
  <2>3. \A k \in 0..N : k = 0 \/ (k \in 1..N /\ k - 1 \in 0..N)
    OBVIOUS
  <2>4. \A k \in 0..N : h[k] = (IF k = 0 THEN <<>> ELSE h[k - 1] \o Pricing!AtomsOf(counts[k], from, to))
    BY <1>5, <2>2, <2>3
  <2>5. Defines(h)
    BY <2>2, <2>4
  <2>6. PICK g : g = CHOOSE d : Defines(d)
    OBVIOUS
  <2>7. Defines(g)
    BY <2>5, <2>6
  <2>8. 0 \in 0..N /\ N \in 0..N
    OBVIOUS
  <2>9. g[0] = <<>> /\ \A k \in 1..N : g[k] = g[k - 1] \o Pricing!AtomsOf(counts[k], from, to)
    BY <1>4, <2>7, <2>8
  <2> HIDE DEF Defines
  <2>10. g[0] = f[0] /\ \A k \in 1..N : g[k - 1] = f[k - 1] => g[k] = f[k]
    BY <1>5, <2>9
  <2>11. \A k \in 0..N : g[k] = f[k]
    BY ONLY <2>10, N \in Nat, StepsAlike
  <2> QED  BY <2>1, <2>6, <2>8, <2>11
<1> HIDE DEF Defines
<1> DEFINE Bad == {n \in 0..N : ~AllAtoms(f[n], counts, from, to, n)}
<1>7. SUFFICES ASSUME Bad # {} PROVE FALSE
  <2>1. N \in 0..N
    OBVIOUS
  <2> QED  BY <1>6, <2>1
<1>8. PICK n \in Bad : \A k \in Bad : n <= k
  <2>1. Bad \in SUBSET Nat
    OBVIOUS
  <2> QED  BY ONLY <1>7, <2>1, LeastNumber
<1>9. CASE n = 0
  <2>1. f[0] \in Seq(AtomType) /\ Len(f[0]) = 0 /\ 1..0 = {}
    BY <1>5
  <2>2. AllAtoms(f[0], counts, from, to, 0)
    BY ONLY <2>1 DEF AllAtoms, Chained
  <2> QED  BY <1>9, <2>2
<1>10. CASE n # 0
  <2>1. n \in 1..N /\ n - 1 \in 0..N /\ ~(n <= n - 1)
    BY <1>10
  <2>2. AllAtoms(f[n - 1], counts, from, to, n - 1)
    BY <1>8, <2>1
  <2>3. PICK a : a = f[n - 1]
    OBVIOUS
  <2>4. AllAtoms(a \o Pricing!AtomsOf(counts[n], from, to), counts, from, to, n)
    BY ONLY <2>1, <2>2, <2>3, N \in Nat, Even(counts, N), from \in Nat, to \in Nat, OneMoreBucket
  <2> QED  BY <1>5, <2>1, <2>3, <2>4
<1> QED  BY <1>9, <1>10

-----------------------------------------------------------------------------
(* The plan.                                                               *)

PlannedType == [from : Int, to : Int, events : Int]
PlanType == [planned : Seq(PlannedType), start : Int, events : Int, first : SUBSET Int]

\* Ranges that follow one another from a time to another.
Successive(s, first, last) ==
    /\ s \in Seq(PlannedType)
    /\ Len(s) = 0 => last = first
    /\ Len(s) # 0 => s[1].from = first /\ s[Len(s)].to = last
    /\ \A i \in 1..Len(s) : first <= s[i].from /\ s[i].from < s[i].to /\ s[i].to <= last
    /\ \A i \in 2..Len(s) : s[i].from = s[i - 1].to
    /\ \A i, j \in 1..Len(s) : i < j => s[i].to <= s[j].from

\* A range has one atom, or no more events and no longer a span than it should; and it counts
\* an event when it has an atom.
Inside(r, atoms) == {j \in 1..Len(atoms) : r.from <= atoms[j].start /\ atoms[j].start < r.to}
Fits(r, atoms) ==
    /\ r.events > 0 \/ Inside(r, atoms) = {}
    /\ \/ \A j, k \in Inside(r, atoms) : j = k
       \/ r.events <= MaxEvents /\ \A j, k \in Inside(r, atoms) : atoms[k].end - atoms[j].start <= MaxSpanMs
\* A time no atom is cut at.
Whole(t, atoms) == \A j \in 1..Len(atoms) : ~(atoms[j].start < t /\ t < atoms[j].end)
AllFit(s, atoms) == \A i \in 1..Len(s) : Fits(s[i], atoms) /\ Whole(s[i].from, atoms)

LEMMA OneMoreRange ==
    ASSUME NEW s, NEW first \in Int, NEW last \in Int, Successive(s, first, last), first <= last,
           NEW to \in Int, last < to, NEW v \in Int, NEW r, r = [from |-> last, to |-> to, events |-> v],
           NEW atoms, AllFit(s, atoms), Fits(r, atoms), Whole(last, atoms)
    PROVE  Successive(Append(s, r), first, to) /\ AllFit(Append(s, r), atoms)
<1>1. s \in Seq(PlannedType) /\ r \in PlannedType
  BY DEF Successive, PlannedType
<1>2. PICK n \in Nat : n = Len(s)
  BY <1>1, LenProperties
<1>3. PICK c : c = Append(s, r)
  OBVIOUS
<1>4. c \in Seq(PlannedType) /\ Len(c) = n + 1 /\ (\A i \in 1..n : c[i] = s[i]) /\ c[n + 1] = r
  BY ONLY <1>1, <1>2, <1>3, AppendProperties
<1>5. r.from = last /\ r.to = to
  OBVIOUS
<1>6. \A i \in 1..n : s[i].from \in Int /\ s[i].to \in Int
  <2>1. \A i \in 1..n : s[i] \in PlannedType
    BY <1>1, <1>2, ElementOfSeq
  <2>2. \A x \in PlannedType : x.from \in Int /\ x.to \in Int
    BY DEF PlannedType
  <2> QED  BY ONLY <2>1, <2>2
<1>7. /\ n = 0 => last = first
      /\ n # 0 => s[1].from = first /\ s[n].to = last
      /\ \A i \in 1..n : first <= s[i].from /\ s[i].from < s[i].to /\ s[i].to <= last
      /\ \A i \in 2..n : s[i].from = s[i - 1].to
      /\ \A i, j \in 1..n : i < j => s[i].to <= s[j].from
  BY ONLY <1>2, Successive(s, first, last) DEF Successive
<1>8. \A i \in 1..(n + 1) : i \in 1..n \/ i = n + 1
  OBVIOUS
<1>9. c[1].from = first /\ c[n + 1].to = to
  <2>1. CASE n = 0
    BY <1>4, <1>5, <1>7, <2>1
  <2>2. CASE n # 0
    <3>1. 1 \in 1..n
      BY <2>2
    <3> QED  BY <1>4, <1>5, <1>7, <2>2, <3>1
  <2> QED  BY <2>1, <2>2
<1>10. ASSUME NEW i \in 1..(n + 1)
       PROVE  first <= c[i].from /\ c[i].from < c[i].to /\ c[i].to <= to
  <2>1. CASE i \in 1..n
    <3>1. first <= s[i].from /\ s[i].from < s[i].to /\ s[i].to <= last /\ s[i].to \in Int
      BY <1>6, <1>7, <2>1
    <3> QED  BY <1>4, <2>1, <3>1
  <2>2. CASE i = n + 1
    BY <1>4, <1>5, <2>2
  <2> QED  BY <1>8, <2>1, <2>2
<1>11. ASSUME NEW i \in 2..(n + 1)  PROVE c[i].from = c[i - 1].to
  <2>1. CASE i \in 2..n
    <3>1. i \in 1..n /\ i - 1 \in 1..n
      BY <2>1
    <3> QED  BY <1>4, <1>7, <2>1, <3>1
  <2>2. CASE i = n + 1
    <3>1. i - 1 = n /\ n \in 1..n /\ n # 0
      BY <2>2
    <3> QED  BY <1>4, <1>5, <1>7, <2>2, <3>1
  <2> QED  BY <2>1, <2>2
<1>12. ASSUME NEW i \in 1..(n + 1), NEW j \in 1..(n + 1), i < j  PROVE c[i].to <= c[j].from
  <2>1. i \in 1..n
    BY <1>12
  <2>2. CASE j \in 1..n
    BY <1>4, <1>7, <1>12, <2>1, <2>2
  <2>3. CASE j = n + 1
    BY <1>4, <1>5, <1>7, <2>1, <2>3
  <2> QED  BY <1>8, <2>2, <2>3
<1>13. Successive(c, first, to)
  <2>1. n + 1 # 0
    OBVIOUS
  <2> QED  BY ONLY <1>4, <1>9, <1>10, <1>11, <1>12, <2>1 DEF Successive
<1>14. AllFit(c, atoms)
  <2>1. ASSUME NEW i \in 1..(n + 1)  PROVE Fits(c[i], atoms) /\ Whole(c[i].from, atoms)
    <3>1. CASE i \in 1..n
      BY <1>2, <1>4, <3>1 DEF AllFit
    <3>2. CASE i = n + 1
      BY <1>4, <1>5, <3>2
    <3> QED  BY <1>8, <3>1, <3>2
  <2> QED  BY ONLY <1>4, <2>1 DEF AllFit
<1> QED  BY <1>3, <1>13, <1>14

\* What Take leaves, field by field.
LEMMA Taken ==
    ASSUME NEW plan \in PlanType, NEW atom \in AtomType
    PROVE  /\ Pricing!Take(plan, atom) \in PlanType
           /\ Pricing!Closes(plan, atom) =>
                /\ Pricing!Take(plan, atom).planned =
                      Append(plan.planned, [from |-> plan.start, to |-> atom.start, events |-> plan.events])
                /\ Pricing!Take(plan, atom).start = atom.start
                /\ Pricing!Take(plan, atom).events = atom.events
                /\ Pricing!Take(plan, atom).first = {atom.start}
           /\ ~Pricing!Closes(plan, atom) =>
                /\ Pricing!Take(plan, atom).planned = plan.planned
                /\ Pricing!Take(plan, atom).start = plan.start
                /\ Pricing!Take(plan, atom).events = plan.events + atom.events
                /\ Pricing!Take(plan, atom).first = IF plan.first = {} THEN {atom.start} ELSE plan.first
<1>1. PICK q \in Seq(PlannedType), x \in Int, v \in Int, w \in SUBSET Int :
        q = plan.planned /\ x = plan.start /\ v = plan.events /\ w = plan.first
  BY DEF PlanType
<1>2. q \in Seq(PlannedType) /\ w \in SUBSET Int /\ plan = [planned |-> q, start |-> x, events |-> v, first |-> w]
  BY <1>1 DEF PlanType
<1>3. PICK s \in Int, c \in Nat : s = atom.start /\ c = atom.events
  BY DEF AtomType
<1>4. CASE Pricing!Closes(plan, atom)
  <2>1. PICK r : r = [from |-> x, to |-> s, events |-> v]
    OBVIOUS
  <2>2. PICK l : l = Append(q, r)
    OBVIOUS
  <2>3. l \in Seq(PlannedType)
    <3>1. r \in PlannedType
      BY <2>1 DEF PlannedType
    <3> QED  BY ONLY <1>2, <2>2, <3>1, AppendProperties
  <2>4. PICK o : o = [planned |-> l, start |-> s, events |-> 0, first |-> {}]
    OBVIOUS
  <2>5. Pricing!Take(plan, atom) =
          [o EXCEPT !.events = @ + atom.events, !.first = IF @ = {} THEN {atom.start} ELSE @]
    <3>1. Pricing!Close(plan, atom) = o
      BY <1>1, <1>3, <2>1, <2>2, <2>4 DEF Pricing!Close
    <3> QED  BY ONLY <1>4, <3>1, Zenon DEF Pricing!Take
  <2>6. Pricing!Take(plan, atom) = [planned |-> l, start |-> s, events |-> c, first |-> {s}]
    <3>1. o.events + atom.events = c /\ o.first = {}
      BY ONLY <1>3, <2>4, c \in Nat
    <3>2. [o EXCEPT !.events = o.events + atom.events, !.first = IF o.first = {} THEN {atom.start} ELSE o.first] =
            [o EXCEPT !.events = c, !.first = {s}]
      BY ONLY <1>3, <3>1
    <3> QED  BY ONLY <2>4, <2>5, <3>2
  <2> QED  BY <1>1, <1>3, <1>4, <2>1, <2>2, <2>3, <2>6 DEF PlanType
<1>5. CASE ~Pricing!Closes(plan, atom)
  <2>1. Pricing!Take(plan, atom) =
          [plan EXCEPT !.events = @ + atom.events, !.first = IF @ = {} THEN {atom.start} ELSE @]
    BY ONLY <1>5, Zenon DEF Pricing!Take
  <2>2. PICK y : y = IF w = {} THEN {s} ELSE w
    OBVIOUS
  <2>3. Pricing!Take(plan, atom) = [planned |-> q, start |-> x, events |-> v + c, first |-> y]
    BY <1>2, <1>3, <2>1, <2>2
  <2>4. y \in SUBSET Int
    BY <1>2, <1>3, <2>2
  <2>5. PICK t : t = Pricing!Take(plan, atom)
    OBVIOUS
  <2>6. t \in PlanType
    BY ONLY <2>3, <2>4, <2>5, q \in Seq(PlannedType), x \in Int, v \in Int, c \in Nat DEF PlanType
  <2>7. t.planned = q /\ t.start = x /\ t.events = v + c /\ t.first = y
    BY ONLY <2>3, <2>5
  <2> QED  BY <1>1, <1>3, <1>5, <2>2, <2>5, <2>6, <2>7, Zenon
<1> QED  BY <1>4, <1>5

LEMMA OpenTyped ==
    ASSUME NEW from \in Int
    PROVE  Pricing!OpenPlan(from) \in PlanType
<1>1. <<>> \in Seq(PlannedType) /\ {} \in SUBSET Int /\ 0 \in Int
  OBVIOUS
<1> QED  BY <1>1 DEF Pricing!OpenPlan, PlanType

\* The plans of the loop, one after each atom.
Plans(f, atoms, from, N) ==
    /\ f[0] = Pricing!OpenPlan(from)
    /\ \A k \in 1..N : f[k] = Pricing!Take(f[k - 1], atoms[k])
    /\ \A k \in 0..N : f[k] \in PlanType

LEMMA PlansExist ==
    ASSUME NEW atoms \in Seq(AtomType), NEW from \in Int, NEW N \in Nat, N = Len(atoms)
    PROVE  \E f : Plans(f, atoms, from, N) /\ Pricing!PlanOf(from, atoms) = f[N]
<1> DEFINE step == [x \in PlanType \X (1..N) |-> Pricing!Take(x[1], atoms[x[2]])]
<1> DEFINE Defines(g) == g = [k \in 0..N |-> IF k = 0 THEN Pricing!OpenPlan(from) ELSE Pricing!Take(g[k - 1], atoms[k])]
<1>1. \A k \in 1..N : atoms[k] \in AtomType
  BY ElementOfSeq
<1>2. \A p \in PlanType, k \in 1..N : step[<<p, k>>] = Pricing!Take(p, atoms[k])
  OBVIOUS
<1>3. step \in [PlanType \X (1..N) -> PlanType]
  <2>1. \A p \in PlanType, k \in 1..N : Pricing!Take(p, atoms[k]) \in PlanType
    BY <1>1, Taken
  <2>2. \A x \in PlanType \X (1..N) : x[1] \in PlanType /\ x[2] \in 1..N
    OBVIOUS
  <2> QED  BY <2>1, <2>2
<1> HIDE DEF step
<1>4. Pricing!OpenPlan(from) \in PlanType
  BY OpenTyped
<1>5. PICK f : Stepwise(f, N, PlanType, Pricing!OpenPlan(from), step)
  BY ONLY <1>3, <1>4, N \in Nat, StepsExist
<1>6. \A k \in 1..N : k \in 0..N /\ k - 1 \in 0..N /\ k # 0
  OBVIOUS
<1>7. Plans(f, atoms, from, N)
  BY <1>2, <1>5, <1>6 DEF Stepwise, Plans
<1>8. Pricing!PlanOf(from, atoms) = f[N]
  <2>1. Pricing!PlanOf(from, atoms) = (CHOOSE g : Defines(g))[N]
    BY DEF Pricing!PlanOf
  <2>2. PICK h : h = [k \in 0..N |-> f[k]]
    OBVIOUS
  <2>3. \A k \in 0..N : k = 0 \/ (k \in 1..N /\ k - 1 \in 0..N)
    OBVIOUS
  <2>4. \A k \in 0..N : h[k] = (IF k = 0 THEN Pricing!OpenPlan(from) ELSE Pricing!Take(h[k - 1], atoms[k]))
    BY <1>7, <2>2, <2>3 DEF Plans
  <2>5. Defines(h)
    BY <2>2, <2>4
  <2>6. PICK g : g = CHOOSE d : Defines(d)
    OBVIOUS
  <2>7. Defines(g)
    BY <2>5, <2>6
  <2>8. 0 \in 0..N /\ N \in 0..N
    OBVIOUS
  <2>9. g[0] = Pricing!OpenPlan(from) /\ \A k \in 1..N : g[k] = Pricing!Take(g[k - 1], atoms[k])
    BY <1>6, <2>7, <2>8
  <2> HIDE DEF Defines
  <2>10. g[0] = f[0] /\ \A k \in 1..N : g[k - 1] = f[k - 1] => g[k] = f[k]
    BY <1>7, <2>9 DEF Plans
  <2>11. \A k \in 0..N : g[k] = f[k]
    BY ONLY <2>10, N \in Nat, StepsAlike
  <2> QED  BY <2>1, <2>6, <2>8, <2>11
<1> QED  BY <1>7, <1>8

\* The range that is open after n atoms: since atom m, the m-th and alone, or within the bounds.
Opened(plan, atoms, from, n) ==
    /\ n = 0 => plan.first = {} /\ plan.events = 0 /\ plan.start = from
    /\ n # 0 => \E m \in 1..n :
          /\ plan.first = {atoms[m].start} /\ plan.events \in Nat \ {0}
          /\ plan.start <= atoms[m].start
          /\ \A j \in 1..(m - 1) : atoms[j].start < plan.start
          /\ m = n \/ (plan.events <= MaxEvents /\ atoms[n].end - atoms[m].start <= MaxSpanMs)

PlanInv(plan, atoms, from, n) ==
    /\ plan \in PlanType /\ from <= plan.start
    /\ Successive(plan.planned, from, plan.start)
    /\ AllFit(plan.planned, atoms)
    /\ Whole(plan.start, atoms)
    /\ Opened(plan, atoms, from, n)

LEMMA ChainFacts ==
    ASSUME NEW atoms, NEW lo, NEW hi, Chained(atoms, lo, hi)
    PROVE  /\ \A i \in 1..Len(atoms) : /\ atoms[i] \in AtomType /\ atoms[i].start \in Int /\ atoms[i].end \in Int
                                       /\ atoms[i].events \in Nat \ {0} /\ atoms[i].start < atoms[i].end
                                       /\ lo <= atoms[i].start /\ atoms[i].end <= hi
           /\ \A i, j \in 1..Len(atoms) : i < j => atoms[i].end <= atoms[j].start
<1>1. atoms \in Seq(AtomType)
  BY DEF Chained
<1>2. \A i \in 1..Len(atoms) : atoms[i] \in AtomType
  BY <1>1, ElementOfSeq
<1>3. \A x \in AtomType : x.start \in Int /\ x.end \in Int /\ x.events \in Nat \ {0}
  BY DEF AtomType
<1> QED  BY <1>2, <1>3 DEF Chained

\* A range that is closed within the bounds, or with one atom, fits.
LEMMA OpenFits ==
    ASSUME NEW atoms, NEW lo, NEW hi, Chained(atoms, lo, hi),
           NEW N \in Nat, N = Len(atoms), NEW n \in 0..N, NEW plan, plan.start \in Int, NEW from,
           Opened(plan, atoms, from, n), NEW to \in Int,
           \A j \in 1..N : atoms[j].start < to => j <= n,
           NEW r, r.from = plan.start, r.to = to, r.events = plan.events
    PROVE  Fits(r, atoms)
<1>1. Inside(r, atoms) \subseteq 1..n
  BY DEF Inside
<1>2. CASE n = 0
  BY <1>1, <1>2 DEF Fits
<1>3. CASE n # 0
  <2>1. PICK m \in 1..n :
          /\ plan.events \in Nat \ {0}
          /\ \A j \in 1..(m - 1) : atoms[j].start < plan.start
          /\ m = n \/ (plan.events <= MaxEvents /\ atoms[n].end - atoms[m].start <= MaxSpanMs)
    BY <1>3 DEF Opened
  <2> r.events > 0
    BY <2>1
  <2>2. \A j \in 1..N : atoms[j].start \in Int /\ atoms[j].end \in Int /\ atoms[j].start < atoms[j].end
    BY ChainFacts
  <2>3. \A i, j \in 1..N : i < j => atoms[i].end <= atoms[j].start
    BY ChainFacts
  <2>4. \A j \in Inside(r, atoms) : j \in m..n
    <3>1. ASSUME NEW j \in Inside(r, atoms)  PROVE j \in m..n
      <4>1. j \in 1..n /\ plan.start <= atoms[j].start /\ j \in 1..N
        BY <1>1 DEF Inside
      <4>2. ~(j \in 1..(m - 1))
        BY <2>1, <2>2, <4>1
      <4> QED  BY <4>1, <4>2
    <3> QED  BY <3>1
  <2>5. CASE m = n
    <3>1. \A j, k \in Inside(r, atoms) : j = k
      BY <2>4, <2>5
    <3> QED  BY <3>1 DEF Fits
  <2>6. CASE plan.events <= MaxEvents /\ atoms[n].end - atoms[m].start <= MaxSpanMs
    <3>1. ASSUME NEW j \in Inside(r, atoms), NEW k \in Inside(r, atoms)
          PROVE  atoms[k].end - atoms[j].start <= MaxSpanMs
      <4>1. j \in m..n /\ k \in m..n /\ m \in 1..N /\ n \in 1..N /\ j \in 1..N /\ k \in 1..N
        BY <1>3, <2>4
      <4>2. PICK a \in Int, b \in Int, c \in Int, d \in Int :
              a = atoms[m].start /\ b = atoms[j].start /\ c = atoms[k].end /\ d = atoms[n].end
        BY <2>2, <4>1
      <4>3. a <= b
        <5>1. CASE j = m
          BY <4>2, <5>1
        <5>2. CASE m < j
          <6>1. atoms[m].start < atoms[m].end /\ atoms[m].end <= b /\ atoms[m].end \in Int
            BY ONLY <2>2, <2>3, <4>1, <4>2, <5>2
          <6> QED  BY ONLY <4>2, <6>1, a \in Int, b \in Int
        <5> QED  BY <4>1, <5>1, <5>2
      <4>4. c <= d
        <5>1. CASE k = n
          BY <4>2, <5>1
        <5>2. CASE k < n
          <6>1. c <= atoms[n].start /\ atoms[n].start < d /\ atoms[n].start \in Int
            BY ONLY <2>2, <2>3, <4>1, <4>2, <5>2
          <6> QED  BY ONLY <6>1, c \in Int, d \in Int
        <5> QED  BY <4>1, <5>1, <5>2
      <4>5. MaxSpanMs \in Nat
        BY PricingAssumption DEF Pricing!RepriceAssumption, Pricing!PlanAssumption
      <4>6. d - a <= MaxSpanMs
        BY <2>6, <4>2
      <4>7. c - b <= MaxSpanMs
        BY ONLY <4>3, <4>4, <4>5, <4>6, a \in Int, b \in Int, c \in Int, d \in Int
      <4> QED  BY <4>2, <4>7
    <3> QED  BY <2>6, <3>1 DEF Fits
  <2> QED  BY <2>1, <2>5, <2>6
<1> QED  BY <1>2, <1>3

LEMMA OneMoreAtom ==
    ASSUME NEW atoms, NEW from \in Int, NEW hi \in Int, Chained(atoms, from, hi),
           NEW N \in Nat, N = Len(atoms), NEW n \in 1..N, NEW plan, PlanInv(plan, atoms, from, n - 1),
           NEW next, next = Pricing!Take(plan, atoms[n])
    PROVE  PlanInv(next, atoms, from, n)
<1>1. PICK p \in Nat : p = n - 1 /\ n = p + 1 /\ p \in 0..N
  OBVIOUS
<1>2. \A i \in 1..N : /\ atoms[i] \in AtomType /\ atoms[i].start \in Int /\ atoms[i].end \in Int
                      /\ atoms[i].events \in Nat \ {0} /\ atoms[i].start < atoms[i].end /\ from <= atoms[i].start
  BY ChainFacts
<1>3. \A i, j \in 1..N : i < j => atoms[i].end <= atoms[j].start
  BY ChainFacts
<1>4. PICK atom \in AtomType : atom = atoms[n]
  BY <1>2
<1>5. atom.start \in Int /\ atom.end \in Int /\ atom.events \in Nat \ {0}
  BY <1>2, <1>4
<1>6. plan \in PlanType /\ plan.start \in Int /\ plan.events \in Int /\ from <= plan.start
  BY DEF PlanInv, PlanType
<1>7. n # 0
  OBVIOUS
<1>8. Opened(plan, atoms, from, p)
  BY <1>1 DEF PlanInv
<1>9. \A i \in 1..p : i \in 1..N /\ i < n
  BY <1>1
<1>10. CASE Pricing!Closes(plan, atom)
  <2>1. /\ next \in PlanType
        /\ next.planned = Append(plan.planned, [from |-> plan.start, to |-> atom.start, events |-> plan.events])
        /\ next.start = atom.start /\ next.events = atom.events /\ next.first = {atom.start}
    BY <1>4, <1>6, <1>10, Taken
  <2>2. p # 0
    BY <1>8, <1>10 DEF Opened, Pricing!Closes
  <2>3. PICK m \in 1..p : plan.start <= atoms[m].start
    BY <1>8, <2>2 DEF Opened
  <2>4. plan.start < atom.start
    <3>1. atoms[m].start < atoms[m].end /\ atoms[m].end <= atoms[n].start /\ atoms[m].start \in Int /\ atoms[m].end \in Int
      BY <1>2, <1>3, <1>9
    <3> QED  BY ONLY <1>4, <1>5, <1>6, <2>3, <3>1
  <2>5. PICK r : r = [from |-> plan.start, to |-> atom.start, events |-> plan.events]
    OBVIOUS
  <2>6. Fits(r, atoms)
    <3>1. \A j \in 1..N : atoms[j].start < atom.start => j <= p
      <4>1. ASSUME NEW j \in 1..N, p < j  PROVE ~(atoms[j].start < atom.start)
        <5>1. CASE j = n
          BY <1>2, <1>4, <5>1
        <5>2. CASE n < j
          BY <1>2, <1>3, <1>4, <5>2
        <5> QED  BY <1>1, <4>1, <5>1, <5>2
      <4> QED  BY <1>1, <4>1
    <3>2. r.from = plan.start /\ r.to = atom.start /\ r.events = plan.events
      BY <2>5
    <3> QED
      BY ONLY <1>1, <1>5, <1>6, <1>8, <3>1, <3>2, Chained(atoms, from, hi), N \in Nat, N = Len(atoms), OpenFits
  <2>7. Whole(atom.start, atoms)
    <3>1. ASSUME NEW j \in 1..N  PROVE ~(atoms[j].start < atom.start /\ atom.start < atoms[j].end)
      <4>1. CASE j < n
        BY <1>2, <1>3, <1>4, <4>1
      <4>2. CASE n <= j
        <5>1. CASE j = n
          BY <1>2, <1>4, <5>1
        <5>2. CASE n < j
          BY <1>2, <1>3, <1>4, <5>2
        <5> QED  BY <4>2, <5>1, <5>2
      <4> QED  BY <4>1, <4>2
    <3> QED  BY <3>1 DEF Whole
  <2>8. Successive(next.planned, from, next.start) /\ AllFit(next.planned, atoms)
    <3>1. Successive(plan.planned, from, plan.start) /\ AllFit(plan.planned, atoms) /\ Whole(plan.start, atoms)
      BY DEF PlanInv
    <3>2. PICK s : s = plan.planned
      OBVIOUS
    <3>3. Successive(Append(s, r), from, atom.start) /\ AllFit(Append(s, r), atoms)
      BY ONLY <1>5, <1>6, <2>4, <2>5, <2>6, <3>1, <3>2, from \in Int, OneMoreRange
    <3> QED  BY <2>1, <2>5, <3>2, <3>3
  <2>9. Opened(next, atoms, from, n)
    <3>1. \A j \in 1..(n - 1) : atoms[j].start < next.start
      <4>1. ASSUME NEW j \in 1..p  PROVE atoms[j].start < atom.start
        <5>1. j \in 1..N /\ j < n
          BY <1>9
        <5>2. atoms[j].end <= atoms[n].start
          BY <1>3, <5>1
        <5> QED  BY <1>2, <1>4, <1>5, <5>1, <5>2
      <4> QED  BY <1>1, <2>1, <4>1
    <3>2. /\ next.first = {atoms[n].start} /\ next.events \in Nat \ {0}
          /\ next.start <= atoms[n].start /\ n \in 1..n
      BY <1>4, <1>5, <2>1
    <3> QED  BY ONLY <1>7, <3>1, <3>2 DEF Opened
  <2>10. from <= next.start
    BY <1>5, <1>6, <2>1, <2>4
  <2> QED  BY <2>1, <2>7, <2>8, <2>9, <2>10 DEF PlanInv
<1>11. CASE ~Pricing!Closes(plan, atom)
  <2>1. /\ next \in PlanType /\ next.planned = plan.planned /\ next.start = plan.start
        /\ next.events = plan.events + atom.events
        /\ next.first = IF plan.first = {} THEN {atom.start} ELSE plan.first
    BY <1>4, <1>6, <1>11, Taken
  <2>2. Opened(next, atoms, from, n)
    <3>1. CASE p = 0
      <4>1. plan.first = {} /\ plan.events = 0 /\ plan.start = from /\ n = 1
        <5>1. n = 1
          BY ONLY <1>1, <3>1
        <5> QED  BY ONLY <1>8, <3>1, <5>1, Zenon DEF Opened
      <4>2. next.first = {atoms[n].start} /\ next.events \in Nat \ {0} /\ next.start <= atoms[n].start
        BY <1>2, <1>4, <1>5, <2>1, <4>1
      <4>3. n \in 1..n /\ 1..(n - 1) = {}
        BY <4>1
      <4> QED  BY <1>7, <4>2, <4>3 DEF Opened
    <3>2. CASE p # 0
      <4>1. PICK m \in 1..p :
              /\ plan.first = {atoms[m].start} /\ plan.events \in Nat \ {0}
              /\ plan.start <= atoms[m].start
              /\ \A j \in 1..(m - 1) : atoms[j].start < plan.start
        BY <1>8, <3>2 DEF Opened
      <4>2. ~(plan.events + atom.events > MaxEvents) /\ ~(atom.end - atoms[m].start > MaxSpanMs)
        BY <1>11, <4>1 DEF Pricing!Closes
      <4>3. MaxEvents \in Nat /\ MaxSpanMs \in Nat
        BY PricingAssumption DEF Pricing!RepriceAssumption, Pricing!PlanAssumption
      <4>4. next.events \in Nat \ {0} /\ next.events <= MaxEvents
        BY ONLY <1>5, <2>1, <4>1, <4>2, <4>3
      <4>5. atoms[n].end - atoms[m].start <= MaxSpanMs
        <5>1. atoms[m].start \in Int
          BY <1>2, <1>9
        <5> QED  BY ONLY <1>4, <1>5, <4>2, <4>3, <5>1
      <4>6. next.first = {atoms[m].start} /\ m \in 1..n
        <5>1. m \in 1..n
          BY ONLY <1>1, m \in 1..p, p \in Nat
        <5>2. plan.first # {}
          BY ONLY <4>1
        <5> QED  BY ONLY <2>1, <4>1, <5>1, <5>2
      <4> QED  BY ONLY <1>7, <2>1, <4>1, <4>4, <4>5, <4>6 DEF Opened
    <3> QED  BY <3>1, <3>2
  <2> QED  BY <2>1, <2>2 DEF PlanInv
<1> QED  BY <1>10, <1>11

LEMMA PlanInvHolds ==
    ASSUME NEW atoms, NEW from \in Int, NEW hi \in Int, Chained(atoms, from, hi)
    PROVE  PlanInv(Pricing!PlanOf(from, atoms), atoms, from, Len(atoms))
<1>1. atoms \in Seq(AtomType)
  BY DEF Chained
<1>2. PICK N \in Nat : N = Len(atoms)
  BY <1>1, LenProperties
<1>3. PICK f : Plans(f, atoms, from, N) /\ Pricing!PlanOf(from, atoms) = f[N]
  BY ONLY <1>1, <1>2, from \in Int, PlansExist
<1> DEFINE Bad == {n \in 0..N : ~PlanInv(f[n], atoms, from, n)}
<1>4. SUFFICES ASSUME Bad # {} PROVE FALSE
  <2>1. N \in 0..N
    OBVIOUS
  <2> QED  BY <1>2, <1>3, <2>1
<1>5. PICK n \in Bad : \A k \in Bad : n <= k
  <2>1. Bad \in SUBSET Nat
    OBVIOUS
  <2> QED  BY ONLY <1>4, <2>1, LeastNumber
<1>6. CASE n = 0
  <2>1. f[0] = Pricing!OpenPlan(from) /\ f[0] \in PlanType
    BY <1>3, OpenTyped DEF Plans
  <2>2. f[0].planned = <<>> /\ f[0].start = from /\ f[0].events = 0 /\ f[0].first = {}
    BY <2>1 DEF Pricing!OpenPlan
  <2>3. Successive(<<>>, from, from) /\ AllFit(<<>>, atoms)
    <3>1. <<>> \in Seq(PlannedType) /\ Len(<<>>) = 0 /\ 1..0 = {} /\ 2..0 = {}
      OBVIOUS
    <3> QED  BY ONLY <3>1 DEF Successive, AllFit
  <2>4. Whole(from, atoms)
    <3>1. \A j \in 1..Len(atoms) : from <= atoms[j].start /\ atoms[j].start \in Int
      BY ChainFacts
    <3> QED  BY <3>1 DEF Whole
  <2>5. PlanInv(f[0], atoms, from, 0)
    BY <2>1, <2>2, <2>3, <2>4 DEF PlanInv, Opened
  <2> QED  BY <1>6, <2>5
<1>7. CASE n # 0
  <2>1. n \in 1..N /\ n - 1 \in 0..N /\ ~(n <= n - 1)
    BY <1>7
  <2>2. PICK plan, next : plan = f[n - 1] /\ next = f[n]
    OBVIOUS
  <2>3. PlanInv(plan, atoms, from, n - 1)
    BY <1>5, <2>1, <2>2
  <2>4. next = Pricing!Take(plan, atoms[n])
    BY <1>3, <2>1, <2>2 DEF Plans
  <2>5. PlanInv(next, atoms, from, n)
    BY ONLY <1>2, <2>1, <2>3, <2>4, from \in Int, hi \in Int, N \in Nat, Chained(atoms, from, hi), OneMoreAtom
  <2> QED  BY <2>2, <2>5
<1> QED  BY <1>6, <1>7

\* What planRanges promises, for whatever it was given.
LEMMA PlannedFits ==
    ASSUME NEW N \in Nat, NEW counts, Even(counts, N), NEW from \in Nat, NEW to \in Nat, from < to,
           NEW atoms, atoms = Pricing!AtomsIn(from, to, counts), NEW plan, plan = Pricing!Planned(from, to, counts)
    PROVE  Successive(plan, from, to) /\ AllFit(plan, atoms) /\ AllAtoms(atoms, counts, from, to, N)
<1>1. AllAtoms(atoms, counts, from, to, N)
  BY AtomsInAre
<1>2. PICK hi \in Int : hi = Pricing!Least(to, N * BucketMs) /\ hi <= to
  BY PricingAssumption DEF Pricing!RepriceAssumption, Pricing!PlanAssumption, Pricing!Least
<1>3. Chained(atoms, from, hi)
  BY <1>1, <1>2 DEF AllAtoms
<1>4. from \in Int /\ to \in Int
  OBVIOUS
<1>5. PICK p : p = Pricing!PlanOf(from, atoms)
  OBVIOUS
<1>6. PlanInv(p, atoms, from, Len(atoms))
  BY ONLY <1>3, <1>4, <1>5, hi \in Int, PlanInvHolds
<1>7. PICK n \in Nat : n = Len(atoms)
  BY <1>3, LenProperties DEF Chained
<1>8. p \in PlanType /\ p.start \in Int /\ p.events \in Int /\ from <= p.start
  BY <1>6 DEF PlanInv, PlanType
<1>9. PICK r, s : r = [from |-> p.start, to |-> to, events |-> p.events] /\ s = p.planned
  OBVIOUS
<1>10. plan = Append(s, r)
  BY <1>5, <1>9 DEF Pricing!Planned
<1>11. \A i \in 1..n : /\ atoms[i].start \in Int /\ atoms[i].end \in Int /\ atoms[i].start < atoms[i].end
                       /\ atoms[i].end <= hi
  BY <1>3, <1>7, ChainFacts
<1>12. p.start < to
  <2>1. Opened(p, atoms, from, n)
    BY <1>6, <1>7 DEF PlanInv
  <2>2. CASE n = 0
    BY <2>1, <2>2 DEF Opened
  <2>3. CASE n # 0
    <3>1. PICK m \in 1..n : p.start <= atoms[m].start
      BY <2>1, <2>3 DEF Opened
    <3> QED  BY <1>2, <1>8, <1>11, <3>1
  <2> QED  BY <2>2, <2>3
<1>13. Fits(r, atoms)
  <2>1. r.from = p.start /\ r.to = to /\ r.events = p.events
    BY <1>9
  <2>2. n \in 0..n /\ \A j \in 1..n : atoms[j].start < to => j <= n
    OBVIOUS
  <2>3. Opened(p, atoms, from, n)
    BY <1>6, <1>7 DEF PlanInv
  <2> QED  BY ONLY <1>3, <1>4, <1>7, <1>8, <2>1, <2>2, <2>3, n \in Nat, OpenFits
<1>14. Successive(Append(s, r), from, to) /\ AllFit(Append(s, r), atoms)
  <2>1. Successive(s, from, p.start) /\ AllFit(s, atoms) /\ Whole(p.start, atoms)
    BY <1>6, <1>9 DEF PlanInv
  <2> QED  BY ONLY <1>4, <1>8, <1>9, <1>12, <1>13, <2>1, OneMoreRange
<1> QED  BY <1>1, <1>10, <1>14

-----------------------------------------------------------------------------
(* The prices.                                                             *)

PricesSound ==
    /\ IsFiniteSet(prices)
    /\ \A p \in prices : p.at \in Nat /\ p.source \in Nat
    /\ \A p, q \in prices : p.asset = q.asset /\ p.at = q.at /\ p.source = q.source => p = q

\* What is read of an asset and a time: the price of the largest source.
Top(p) ==
    /\ p \in prices
    /\ \A q \in prices : q.asset = p.asset /\ q.at = p.at => q.source <= p.source

LEMMA LargestExists ==
    ASSUME PricesSound, NEW S \in SUBSET prices, S # {}
    PROVE  \E p \in S : \A q \in S : q.source <= p.source
<1> DEFINE Greatest(T) == \E p \in T : \A q \in T : q.source <= p.source
<1> DEFINE Without == {T \in SUBSET prices : T # {} /\ ~Greatest(T)}
<1> DEFINE Bad == {Cardinality(T) : T \in Without}
<1>1. SUFFICES ASSUME S \in Without PROVE FALSE
  OBVIOUS
<1>2. \A T \in SUBSET prices : IsFiniteSet(T) /\ Cardinality(T) \in Nat
  BY FS_Subset, FS_CardinalityType DEF PricesSound
<1>3. Bad # {} /\ Bad \in SUBSET Nat
  BY <1>1, <1>2
<1>4. PICK n \in Bad : \A m \in Bad : n <= m
  <2> HIDE DEF Bad
  <2> QED  BY ONLY <1>3, LeastNumber
<1>5. PICK T \in Without : n = Cardinality(T)
  BY <1>4
<1>6. PICK t \in T : TRUE
  BY <1>5
<1>7. PICK U \in SUBSET prices : U = T \ {t}
  BY <1>5
<1>8. Cardinality(U) = n - 1 /\ n \in Nat
  BY <1>2, <1>5, <1>6, <1>7, FS_RemoveElement
<1>9. U \notin Without
  BY <1>4, <1>8
<1>10. CASE U = {}
  <2>1. T = {t} /\ t.source \in Nat
    BY <1>5, <1>6, <1>7, <1>10 DEF PricesSound
  <2>2. Greatest(T)
    BY <2>1
  <2> QED  BY <1>5, <2>2
<1>11. CASE U # {}
  <2>1. PICK u \in U : \A q \in U : q.source <= u.source
    BY <1>9, <1>11
  <2>2. \A q \in T : q \in U \/ q = t
    BY <1>7
  <2>3. \A q \in T : q.source \in Nat
    BY <1>5 DEF PricesSound
  <2>4. u \in T
    BY <1>7, <2>1
  <2>5. CASE t.source <= u.source
    <3>1. \A q \in T : q.source <= u.source
      BY <2>1, <2>2, <2>5
    <3>2. Greatest(T)
      BY <2>4, <3>1
    <3> QED  BY <1>5, <3>2
  <2>6. CASE ~(t.source <= u.source)
    <3>1. \A q \in T : q.source <= t.source
      BY <1>6, <2>1, <2>2, <2>3, <2>4, <2>6
    <3>2. Greatest(T)
      BY <1>6, <3>1
    <3> QED  BY <1>5, <3>2
  <2> QED  BY <2>5, <2>6
<1> QED  BY <1>10, <1>11

LEMMA TopExists ==
    ASSUME PricesSound, NEW p \in prices
    PROVE  \E t \in prices : Top(t) /\ t.asset = p.asset /\ t.at = p.at
<1> DEFINE S == {q \in prices : q.asset = p.asset /\ q.at = p.at}
<1>1. S \in SUBSET prices /\ S # {}
  OBVIOUS
<1>2. PICK t \in S : \A q \in S : q.source <= t.source
  <2> HIDE DEF S
  <2> QED  BY <1>1, LargestExists
<1> QED  BY <1>2 DEF Top

LEMMA TopUnique ==
    ASSUME PricesSound, NEW p, NEW q, Top(p), Top(q), p.asset = q.asset, p.at = q.at
    PROVE  p = q
<1>1. p \in prices /\ q \in prices /\ p.source \in Nat /\ q.source \in Nat
  BY DEF Top, PricesSound
<1>2. p.source <= q.source /\ q.source <= p.source
  BY <1>1 DEF Top
<1>3. p.source = q.source
  BY <1>1, <1>2
<1> QED  BY <1>1, <1>3 DEF PricesSound

\* The prices that are read for a batch.
Read(batch) ==
    {p \in prices : p.asset \in Pricing!Assets(batch) /\ Pricing!DayOf(p.at) \in Pricing!Days(batch)}

LEMMA PointsAre ==
    ASSUME PricesSound, NEW batch
    PROVE  Pricing!PointsOf(batch, prices) = {p \in Read(batch) : Top(p)}
<1> DEFINE Same(p) == {q \in Read(batch) : q.asset = p.asset /\ q.at = p.at}
<1>1. Pricing!PointsOf(batch, prices) = {Pricing!LargestSource(Same(p)) : p \in Read(batch)}
  BY DEF Pricing!PointsOf, Read
<1>2. ASSUME NEW p \in Read(batch)
      PROVE  /\ Pricing!LargestSource(Same(p)) \in Same(p)
             /\ Top(Pricing!LargestSource(Same(p)))
  <2>1. Same(p) \in SUBSET prices /\ Same(p) # {}
    BY DEF Read
  <2>2. \E t \in Same(p) : \A q \in Same(p) : q.source <= t.source
    <3> HIDE DEF Same
    <3> QED  BY <2>1, LargestExists
  <2>3. PICK t : t = Pricing!LargestSource(Same(p))
    OBVIOUS
  <2>4. t \in Same(p) /\ \A q \in Same(p) : q.source <= t.source
    BY <2>2, <2>3 DEF Pricing!LargestSource
  <2>5. \A q \in prices : q.asset = t.asset /\ q.at = t.at => q \in Same(p)
    BY <2>4 DEF Read
  <2>6. Top(t)
    BY <2>1, <2>4, <2>5 DEF Top
  <2> QED  BY <2>3, <2>4, <2>6
<1>3. ASSUME NEW p \in Read(batch), Top(p)
      PROVE  p = Pricing!LargestSource(Same(p))
  <2>1. PICK t : t = Pricing!LargestSource(Same(p))
    OBVIOUS
  <2>2. t \in Same(p) /\ Top(t)
    BY <1>2, <2>1
  <2>3. t.asset = p.asset /\ t.at = p.at
    BY <2>2
  <2> QED  BY <1>3, <2>1, <2>2, <2>3, TopUnique
<1>4. ASSUME NEW t \in Pricing!PointsOf(batch, prices)  PROVE t \in Read(batch) /\ Top(t)
  <2>1. PICK p \in Read(batch) : t = Pricing!LargestSource(Same(p))
    BY <1>1
  <2> QED  BY <1>2, <2>1
<1>5. ASSUME NEW p \in Read(batch), Top(p)  PROVE p \in Pricing!PointsOf(batch, prices)
  BY <1>1, <1>3, <1>5
<1> QED  BY <1>4, <1>5

\* A price within reach of an event lies on one of its days.
LEMMA DaysAfter ==
    ASSUME NEW t \in Nat, NEW u \in Nat, NEW D \in Nat \ {0}, NEW R \in Nat, t <= u + R
    PROVE  t \div D <= u \div D + (R + D - 1) \div D
<1>1. PICK m \in Int, e \in Int : m = t \div D /\ t = e + m * D /\ 0 <= e /\ e < D
  BY ONLY t \in Nat, D \in Nat \ {0}
<1>2. PICK n \in Int, f \in Int : n = u \div D /\ u = f + n * D /\ 0 <= f /\ f < D
  BY ONLY u \in Nat, D \in Nat \ {0}
<1>3. PICK k \in Int, c \in Int : k = (R + D - 1) \div D /\ R + D - 1 = c + k * D /\ 0 <= c /\ c < D
  BY ONLY R \in Nat, D \in Nat \ {0}
<1>4. SUFFICES ASSUME n + k + 1 <= m PROVE FALSE
  BY <1>1, <1>2, <1>3
<1>5. (n + k + 1) * D <= m * D
  BY ONLY <1>4, n \in Int, k \in Int, m \in Int, D \in Nat \ {0}
<1>6. (n + k + 1) * D = n * D + k * D + D
  BY ONLY n \in Int, k \in Int, D \in Nat \ {0}
<1>7. PICK nd \in Int, kd \in Int, md \in Int : nd = n * D /\ kd = k * D /\ md = m * D
  BY ONLY n \in Int, k \in Int, m \in Int, D \in Nat \ {0}
<1>8. nd + kd + D <= md
  BY ONLY <1>5, <1>6, <1>7
<1>9. R + D - 1 = c + kd /\ t = e + md /\ u = f + nd
  BY <1>1, <1>2, <1>3, <1>7
<1>10. 0 <= e /\ f < D /\ c < D
  BY <1>1, <1>2, <1>3
<1> QED
  BY ONLY <1>8, <1>9, <1>10, t <= u + R, nd \in Int, kd \in Int, md \in Int, c \in Int,
          e \in Int, f \in Int, t \in Nat, u \in Nat, D \in Nat \ {0}, R \in Nat

LEMMA DaysApart ==
    ASSUME NEW t \in Nat, NEW u \in Nat, NEW D \in Nat \ {0}, NEW R \in Nat, t <= u + R, u <= t + R
    PROVE  t \div D - u \div D \in -((R + D - 1) \div D)..((R + D - 1) \div D)
<1>1. t \div D <= u \div D + (R + D - 1) \div D
  BY DaysAfter
<1>2. u \div D <= t \div D + (R + D - 1) \div D
  BY DaysAfter
<1>3. t \div D \in Int /\ u \div D \in Int /\ (R + D - 1) \div D \in Int
  BY ONLY t \in Nat, u \in Nat, D \in Nat \ {0}, R \in Nat
<1>4. PICK q \in Int, r \in Int, k \in Int : q = t \div D /\ r = u \div D /\ k = (R + D - 1) \div D
  BY <1>3
<1> QED  BY ONLY <1>1, <1>2, <1>4, q \in Int, r \in Int, k \in Int

InReachOf(e, p) == p.at - e.at <= Reach /\ e.at - p.at <= Reach

\* What is read for a batch of one of its events: the top prices of its asset, all those within
\* reach among them.
Seen(M, e) ==
    /\ \A p \in M : Top(p) /\ p.asset = e.asset
    /\ \A p : Top(p) /\ p.asset = e.asset /\ InReachOf(e, p) => p \in M

MineOf(batch, e) == {p \in Pricing!PointsOf(batch, prices) : p.asset = e.asset}

LEMMA MineIsSeen ==
    ASSUME PricesSound, NEW batch, NEW e \in batch, e.at \in Nat
    PROVE  Seen(MineOf(batch, e), e)
<1>1. \A p \in MineOf(batch, e) : Top(p) /\ p.asset = e.asset
  BY PointsAre DEF MineOf
<1>2. ASSUME NEW p, Top(p), p.asset = e.asset, InReachOf(e, p)  PROVE p \in MineOf(batch, e)
  <2>1. p \in prices /\ p.at \in Nat
    BY <1>2 DEF Top, PricesSound
  <2>2. p.asset \in Pricing!Assets(batch)
    BY <1>2 DEF Pricing!Assets
  <2>3. Reach \in Nat /\ Day \in Nat \ {0}
    BY PricingAssumption DEF Pricing!RepriceAssumption, Pricing!PricingAssumption
  <2>4. PICK t \in Nat, u \in Nat : t = p.at /\ u = e.at
    BY <2>1
  <2>5. t <= u + Reach /\ u <= t + Reach
    BY <1>2, <2>3, <2>4 DEF InReachOf
  <2>6. t \div Day - u \div Day \in -Pricing!ReachDays..Pricing!ReachDays
    BY <2>3, <2>4, <2>5, DaysApart DEF Pricing!ReachDays
  <2>7. t \div Day \in Int /\ u \div Day \in Int
    BY <2>3
  <2>8. PICK x \in Int, y \in Int : x = t \div Day /\ y = u \div Day
    BY <2>7
  <2>9. x = y + (x - y) /\ x - y \in -Pricing!ReachDays..Pricing!ReachDays
    BY <2>6, <2>8
  <2>10. Pricing!DayOf(p.at) = x /\ Pricing!DayOf(e.at) = y
    BY <2>4, <2>8 DEF Pricing!DayOf
  <2>11. x \in {y + offset : offset \in -Pricing!ReachDays..Pricing!ReachDays}
    BY ONLY <2>9
  <2>12. Pricing!DayOf(p.at) \in Pricing!Days(batch)
    BY <2>10, <2>11 DEF Pricing!Days
  <2>13. p \in Read(batch)
    BY <2>1, <2>2, <2>12 DEF Read
  <2> QED  BY <1>2, <2>13, PointsAre DEF MineOf
<1> QED  BY <1>1, <1>2 DEF Seen

Before(e) == {p \in prices : Pricing!AtMost(e, p)}
After(e) == {p \in prices : Pricing!AtLeast(e, p)}
BestBefore(e) ==
    IF Before(e) = {} THEN {}
    ELSE {CHOOSE p \in Before(e) : \A q \in Before(e) : p.at > q.at \/ (p.at = q.at /\ q.source <= p.source)}
BestAfter(e) ==
    IF After(e) = {} THEN {}
    ELSE {CHOOSE p \in After(e) : \A q \in After(e) : p.at < q.at \/ (p.at = q.at /\ q.source <= p.source)}

\* A price within reach has a top one beside it that is seen.
LEMMA ReachedIsSeen ==
    ASSUME PricesSound, NEW M, NEW e, Seen(M, e), NEW q \in prices, q.asset = e.asset, InReachOf(e, q)
    PROVE  \E t \in M : t.at = q.at /\ q.source <= t.source /\ t \in prices
<1>1. PICK t \in prices : Top(t) /\ t.asset = q.asset /\ t.at = q.at
  BY TopExists
<1>2. InReachOf(e, t)
  BY <1>1 DEF InReachOf
<1>3. t \in M
  BY <1>1, <1>2 DEF Seen
<1>4. q.source <= t.source
  BY <1>1 DEF Top
<1> QED  BY <1>1, <1>3, <1>4

LEMMA LastBefore ==
    ASSUME PricesSound, NEW M, NEW e, e.at \in Nat, Seen(M, e),
           NEW b \in M, b.at <= e.at, \A q \in M : q.at <= e.at => q.at <= b.at
    PROVE  Pricing!InReach(e, {b}) = BestBefore(e)
<1>1. b \in prices /\ b.asset = e.asset /\ b.at \in Nat /\ Top(b) /\ Reach \in Nat
  BY PricingAssumption DEF Seen, Top, PricesSound, Pricing!RepriceAssumption, Pricing!PricingAssumption
<1>2. ASSUME NEW q \in Before(e)
      PROVE  /\ q.at < b.at \/ (q.at = b.at /\ q.source <= b.source)
             /\ q.at \in Nat /\ q.source \in Nat /\ q.asset = b.asset
             /\ e.at - q.at <= Reach
  <2>1. q \in prices /\ q.asset = e.asset /\ q.at <= e.at /\ e.at - q.at <= Reach /\ q.at \in Nat /\ q.source \in Nat
    BY DEF Before, Pricing!AtMost, PricesSound
  <2>2. InReachOf(e, q)
    BY <1>1, <2>1 DEF InReachOf
  <2>3. PICK t \in M : t.at = q.at
    BY <2>1, <2>2, ReachedIsSeen
  <2>4. q.at <= b.at
    BY <2>1, <2>3
  <2>5. q.at = b.at => q.source <= b.source
    BY <1>1, <2>1 DEF Top
  <2> QED  BY <1>1, <2>1, <2>4, <2>5
<1>3. CASE e.at - b.at <= Reach
  <2>1. b \in Before(e)
    BY <1>1, <1>3 DEF Before, Pricing!AtMost
  <2>2. Pricing!InReach(e, {b}) = {b}
    BY <1>1, <1>3 DEF Pricing!InReach
  <2>3. PICK c : c = CHOOSE p \in Before(e) : \A q \in Before(e) : p.at > q.at \/ (p.at = q.at /\ q.source <= p.source)
    OBVIOUS
  <2>4. \A q \in Before(e) : b.at > q.at \/ (b.at = q.at /\ q.source <= b.source)
    BY <1>1, <1>2
  <2>5. c \in Before(e) /\ \A q \in Before(e) : c.at > q.at \/ (c.at = q.at /\ q.source <= c.source)
    BY <2>1, <2>3, <2>4
  <2>6. c.at > b.at \/ (c.at = b.at /\ b.source <= c.source)
    BY <2>1, <2>5
  <2>7. b.source \in Nat
    BY <1>1 DEF PricesSound
  <2>8. c.at = b.at /\ c.source = b.source /\ c.asset = b.asset
    BY <1>1, <1>2, <2>5, <2>6, <2>7
  <2>9. c = b
    BY <1>1, <2>5, <2>8 DEF PricesSound, Before
  <2> QED  BY <2>1, <2>2, <2>3, <2>9 DEF BestBefore
<1>4. CASE ~(e.at - b.at <= Reach)
  <2>1. Before(e) = {}
    BY <1>1, <1>2, <1>4
  <2>2. Pricing!InReach(e, {b}) = {}
    BY <1>4 DEF Pricing!InReach
  <2> QED  BY <2>1, <2>2 DEF BestBefore
<1> QED  BY <1>3, <1>4

LEMMA NoneBefore ==
    ASSUME PricesSound, NEW M, NEW e, e.at \in Nat, Seen(M, e), \A q \in M : ~(q.at <= e.at)
    PROVE  BestBefore(e) = {}
<1>1. ASSUME NEW q \in Before(e)  PROVE FALSE
  <2>1. q \in prices /\ q.asset = e.asset /\ q.at <= e.at /\ e.at - q.at <= Reach /\ q.at \in Nat
    BY DEF Before, Pricing!AtMost, PricesSound
  <2>2. InReachOf(e, q)
    BY <2>1, PricingAssumption DEF InReachOf, Pricing!RepriceAssumption, Pricing!PricingAssumption
  <2>3. PICK t \in M : t.at = q.at
    BY <2>1, <2>2, ReachedIsSeen
  <2> QED  BY <2>1, <2>3
<1> QED  BY <1>1 DEF BestBefore

LEMMA FirstAfter ==
    ASSUME PricesSound, NEW M, NEW e, e.at \in Nat, Seen(M, e),
           NEW b \in M, e.at <= b.at, \A q \in M : e.at <= q.at => b.at <= q.at
    PROVE  Pricing!InReach(e, {b}) = BestAfter(e)
<1>1. b \in prices /\ b.asset = e.asset /\ b.at \in Nat /\ Top(b) /\ Reach \in Nat
  BY PricingAssumption DEF Seen, Top, PricesSound, Pricing!RepriceAssumption, Pricing!PricingAssumption
<1>2. ASSUME NEW q \in After(e)
      PROVE  /\ b.at < q.at \/ (q.at = b.at /\ q.source <= b.source)
             /\ q.at \in Nat /\ q.source \in Nat /\ q.asset = b.asset
             /\ q.at - e.at <= Reach
  <2>1. q \in prices /\ q.asset = e.asset /\ e.at <= q.at /\ q.at - e.at <= Reach /\ q.at \in Nat /\ q.source \in Nat
    BY DEF After, Pricing!AtLeast, PricesSound
  <2>2. InReachOf(e, q)
    BY <1>1, <2>1 DEF InReachOf
  <2>3. PICK t \in M : t.at = q.at
    BY <2>1, <2>2, ReachedIsSeen
  <2>4. b.at <= q.at
    BY <2>1, <2>3
  <2>5. q.at = b.at => q.source <= b.source
    BY <1>1, <2>1 DEF Top
  <2> QED  BY <1>1, <2>1, <2>4, <2>5
<1>3. CASE b.at - e.at <= Reach
  <2>1. b \in After(e)
    BY <1>1, <1>3 DEF After, Pricing!AtLeast
  <2>2. Pricing!InReach(e, {b}) = {b}
    BY <1>1, <1>3 DEF Pricing!InReach
  <2>3. PICK c : c = CHOOSE p \in After(e) : \A q \in After(e) : p.at < q.at \/ (p.at = q.at /\ q.source <= p.source)
    OBVIOUS
  <2>4. \A q \in After(e) : b.at < q.at \/ (b.at = q.at /\ q.source <= b.source)
    BY <1>1, <1>2
  <2>5. c \in After(e) /\ \A q \in After(e) : c.at < q.at \/ (c.at = q.at /\ q.source <= c.source)
    BY <2>1, <2>3, <2>4
  <2>6. c.at < b.at \/ (c.at = b.at /\ b.source <= c.source)
    BY <2>1, <2>5
  <2>7. b.source \in Nat
    BY <1>1 DEF PricesSound
  <2>8. c.at = b.at /\ c.source = b.source /\ c.asset = b.asset
    BY <1>1, <1>2, <2>5, <2>6, <2>7
  <2>9. c = b
    BY <1>1, <2>5, <2>8 DEF PricesSound, After
  <2> QED  BY <2>1, <2>2, <2>3, <2>9 DEF BestAfter
<1>4. CASE ~(b.at - e.at <= Reach)
  <2>1. After(e) = {}
    BY <1>1, <1>2, <1>4
  <2>2. Pricing!InReach(e, {b}) = {}
    BY <1>4 DEF Pricing!InReach
  <2> QED  BY <2>1, <2>2 DEF BestAfter
<1> QED  BY <1>3, <1>4

LEMMA NoneAfter ==
    ASSUME PricesSound, NEW M, NEW e, e.at \in Nat, Seen(M, e), \A q \in M : ~(e.at <= q.at)
    PROVE  BestAfter(e) = {}
<1>1. ASSUME NEW q \in After(e)  PROVE FALSE
  <2>1. q \in prices /\ q.asset = e.asset /\ e.at <= q.at /\ q.at - e.at <= Reach /\ q.at \in Nat
    BY DEF After, Pricing!AtLeast, PricesSound
  <2>2. InReachOf(e, q)
    BY <2>1, PricingAssumption DEF InReachOf, Pricing!RepriceAssumption, Pricing!PricingAssumption
  <2>3. PICK t \in M : t.at = q.at
    BY <2>1, <2>2, ReachedIsSeen
  <2> QED  BY <2>1, <2>3
<1> QED  BY <1>1 DEF BestAfter

-----------------------------------------------------------------------------
(* The row of the slice.                                                   *)

RowOf(points, p) == [asset |-> p.asset, key |-> p.at, at |-> {p}, next |-> Pricing!Following(points, p)]
OpeningRow(p) == [asset |-> p.asset, key |-> Pricing!Sentinel, at |-> {}, next |-> {p}]
Opens(points, p) == p \in points /\ \A r \in points : r.asset = p.asset => p.at <= r.at

LEMMA SliceIs ==
    ASSUME NEW points
    PROVE  \A s : s \in Pricing!SliceOf(points) <=>
              \/ \E p \in points : s = RowOf(points, p)
              \/ \E p : Opens(points, p) /\ s = OpeningRow(p)
BY DEF Pricing!SliceOf, Pricing!SliceWithoutSentinel, RowOf, OpeningRow, Opens

RowsOf(points, e) == {s \in Pricing!SliceOf(points) : s.asset = e.asset /\ s.key <= e.at}
Picked(rows) == CHOOSE s \in rows : \A r \in rows : r.key <= s.key

\* The top prices an event's batch reads of its asset, and the points they are among.
Mine(M, points, e) ==
    /\ M = {p \in points : p.asset = e.asset}
    /\ \A p \in M : p.at \in Nat
    /\ \A p, q \in M : p.at = q.at => p = q

LEMMA RowsAre ==
    ASSUME NEW points, NEW M, NEW e, Mine(M, points, e)
    PROVE  \A s : s \in RowsOf(points, e) <=>
              \/ \E p \in M : s = RowOf(points, p) /\ p.at <= e.at
              \/ \E p \in M : Opens(points, p) /\ s = OpeningRow(p) /\ -1 <= e.at
<1>1. \A p : RowOf(points, p).asset = p.asset /\ RowOf(points, p).key = p.at
  BY DEF RowOf
<1>2. \A p : OpeningRow(p).asset = p.asset /\ OpeningRow(p).key = -1
  BY DEF OpeningRow, Pricing!Sentinel
<1>3. \A p : p \in M <=> p \in points /\ p.asset = e.asset
  BY DEF Mine
<1>4. \A p : Opens(points, p) => p \in points
  BY DEF Opens
<1>5. \A s : s \in RowsOf(points, e) <=> s \in Pricing!SliceOf(points) /\ s.asset = e.asset /\ s.key <= e.at
  BY DEF RowsOf
<1> QED  BY <1>1, <1>2, <1>3, <1>4, <1>5, SliceIs

\* The last price at or before the event, if there is one.
IsLast(M, e, b) == b \in M /\ b.at <= e.at /\ \A q \in M : q.at <= e.at => q.at <= b.at

LEMMA LastIsPicked ==
    ASSUME NEW points, NEW M, NEW e, Mine(M, points, e), e.at \in Nat, NEW b, IsLast(M, e, b)
    PROVE  RowsOf(points, e) # {} /\ Picked(RowsOf(points, e)) = RowOf(points, b)
<1>1. b \in M /\ b.at \in Nat /\ b.at <= e.at
  BY DEF IsLast, Mine
<1>2. PICK rows : rows = RowsOf(points, e)
  OBVIOUS
<1>3. PICK mine : mine = RowOf(points, b)
  OBVIOUS
<1>4. mine \in rows /\ mine.key = b.at
  BY <1>1, <1>2, <1>3, RowsAre DEF RowOf
<1>5. ASSUME NEW r \in rows  PROVE r.key <= b.at /\ (r.key = b.at => r = mine)
  <2>1. CASE \E p \in M : r = RowOf(points, p) /\ p.at <= e.at
    <3>1. PICK p \in M : r = RowOf(points, p) /\ p.at <= e.at
      BY <2>1
    <3>2. r.key = p.at /\ p.at <= b.at /\ p.at \in Nat
      BY <3>1 DEF RowOf, IsLast, Mine
    <3>3. p.at = b.at => p = b
      BY <1>1 DEF Mine
    <3> QED  BY <1>3, <3>1, <3>2, <3>3
  <2>2. CASE \E p \in M : Opens(points, p) /\ r = OpeningRow(p) /\ -1 <= e.at
    <3>1. r.key = -1
      BY <2>2 DEF OpeningRow, Pricing!Sentinel
    <3> QED  BY <1>1, <3>1
  <2> QED  BY <1>2, <2>1, <2>2, RowsAre
<1>6. PICK s : s = Picked(rows)
  OBVIOUS
<1>7. s \in rows /\ \A r \in rows : r.key <= s.key
  <2>1. \E t \in rows : \A r \in rows : r.key <= t.key
    BY <1>4, <1>5
  <2> QED  BY <1>6, <2>1 DEF Picked
<1>8. b.at <= s.key /\ s.key <= b.at
  BY <1>4, <1>5, <1>7
<1>9. s.key \in Int
  <2>1. \A p \in M : RowOf(points, p).key \in Int /\ OpeningRow(p).key \in Int
    BY DEF RowOf, OpeningRow, Pricing!Sentinel, Mine
  <2> QED  BY <1>2, <1>7, <2>1, RowsAre
<1>10. s.key = b.at
  BY <1>1, <1>8, <1>9
<1> QED  BY <1>2, <1>3, <1>4, <1>5, <1>6, <1>7, <1>10

LEMMA FirstIsPicked ==
    ASSUME NEW points, NEW M, NEW e, Mine(M, points, e), e.at \in Nat,
           \A q \in M : ~(q.at <= e.at), NEW f \in M, \A q \in M : f.at <= q.at
    PROVE  RowsOf(points, e) # {} /\ Picked(RowsOf(points, e)) = OpeningRow(f)
<1>1. Opens(points, f)
  BY DEF Opens, Mine
<1>2. \A p \in M : Opens(points, p) => p = f
  BY DEF Opens, Mine
<1>3. PICK rows : rows = RowsOf(points, e)
  OBVIOUS
<1>4. rows = {OpeningRow(f)}
  <2>1. \A s : s \in rows <=> s = OpeningRow(f)
    BY <1>1, <1>2, <1>3, RowsAre
  <2> QED  BY <2>1
<1>5. OpeningRow(f).key = -1
  BY DEF OpeningRow, Pricing!Sentinel
<1>6. \A r \in rows : r.key <= OpeningRow(f).key
  BY <1>4, <1>5
<1> QED  BY <1>3, <1>4, <1>6 DEF Picked

\* The next of a point is the first later one of its asset.
LEMMA FollowingIs ==
    ASSUME NEW points, NEW M, NEW e, Mine(M, points, e), NEW b \in M
    PROVE  \/ Pricing!Following(points, b) = {} /\ \A q \in M : ~(q.at > b.at)
           \/ \E a \in M : /\ Pricing!Following(points, b) = {a} /\ a.at > b.at
                           /\ \A q \in M : q.at > b.at => a.at <= q.at
<1>1. PICK later : later = {q \in points : q.asset = b.asset /\ q.at > b.at}
  OBVIOUS
<1>2. \A q : q \in later <=> q \in M /\ q.at > b.at
  BY <1>1 DEF Mine
<1>3. Pricing!Following(points, b) = IF later = {} THEN {} ELSE {CHOOSE q \in later : \A r \in later : q.at <= r.at}
  BY <1>1 DEF Pricing!Following
<1>4. CASE later = {}
  BY <1>2, <1>3, <1>4
<1>5. CASE later # {}
  <2>1. PICK times : times = {q.at : q \in later} /\ times \in SUBSET Nat
    <3>1. \A q \in later : q.at \in Nat
      BY <1>2 DEF Mine
    <3> QED  BY <3>1
  <2>2. PICK t \in times : \A u \in times : t <= u
    <3>1. times # {}
      BY <1>5, <2>1
    <3> QED  BY <2>1, <3>1, LeastNumber
  <2>3. \E q \in later : \A r \in later : q.at <= r.at
    BY <2>1, <2>2
  <2>4. PICK a : a = CHOOSE q \in later : \A r \in later : q.at <= r.at
    OBVIOUS
  <2>5. a \in later /\ \A r \in later : a.at <= r.at
    BY <2>3, <2>4
  <2> QED  BY <1>2, <1>3, <1>5, <2>4, <2>5
<1> QED  BY <1>4, <1>5

LEMMA MatchedIs ==
    ASSUME NEW points, NEW e
    PROVE  Pricing!Matched(e, Pricing!SliceOf(points)) =
             LET rows == RowsOf(points, e)
                 row == Picked(rows)
                 after == IF \E p \in row.at : p.at = e.at THEN row.at ELSE row.next
             IN  IF rows = {} THEN [before |-> {}, after |-> {}]
                 ELSE [before |-> Pricing!InReach(e, row.at), after |-> Pricing!InReach(e, after)]
BY DEF Pricing!Matched, RowsOf, Picked

LEMMA MatchedIsNearest ==
    ASSUME PricesSound, NEW batch, NEW e \in batch, e.at \in Nat
    PROVE  Pricing!Matched(e, Pricing!SliceOf(Pricing!PointsOf(batch, prices)))
             = [before |-> BestBefore(e), after |-> BestAfter(e)]
<1>1. PICK points : points = Pricing!PointsOf(batch, prices)
  OBVIOUS
<1>2. PICK M : M = {p \in points : p.asset = e.asset}
  OBVIOUS
<1>3. Seen(M, e)
  BY <1>1, <1>2, MineIsSeen DEF MineOf
<1>4. Mine(M, points, e)
  <2>1. \A p \in M : p.at \in Nat
    BY <1>3 DEF Seen, Top, PricesSound
  <2>2. \A p, q \in M : p.at = q.at => p = q
    BY <1>3, TopUnique DEF Seen
  <2> QED  BY <1>2, <2>1, <2>2 DEF Mine
<1>5. \A p \in M : p.at \in Nat
  BY <1>4 DEF Mine
<1>6. PICK rows : rows = RowsOf(points, e)
  OBVIOUS
<1>7. ASSUME rows # {}, NEW before, NEW after, NEW next, NEW row, row = Picked(rows),
             row.at = before, row.next = next,
             after = IF \E p \in before : p.at = e.at THEN before ELSE next,
             Pricing!InReach(e, before) = BestBefore(e), Pricing!InReach(e, after) = BestAfter(e)
      PROVE  Pricing!Matched(e, Pricing!SliceOf(points)) = [before |-> BestBefore(e), after |-> BestAfter(e)]
  BY <1>6, <1>7, MatchedIs
<1>8. Pricing!InReach(e, {}) = {}
  BY DEF Pricing!InReach
<1>9. CASE \E p \in M : p.at <= e.at
  <2>1. PICK gaps : gaps = {e.at - p.at : p \in {q \in M : q.at <= e.at}} /\ gaps \in SUBSET Nat
    <3>1. \A p \in {q \in M : q.at <= e.at} : e.at - p.at \in Nat
      BY <1>5
    <3> QED  BY <3>1
  <2>2. PICK gap \in gaps : \A g \in gaps : gap <= g
    <3>1. gaps # {}
      BY <1>9, <2>1
    <3> QED  BY <2>1, <3>1, LeastNumber
  <2>3. PICK b \in M : b.at <= e.at /\ gap = e.at - b.at
    BY <2>1, <2>2
  <2>4. \A q \in M : q.at <= e.at => q.at <= b.at
    <3>1. ASSUME NEW q \in M, q.at <= e.at  PROVE q.at <= b.at
      <4>1. e.at - b.at <= e.at - q.at
        BY <2>1, <2>2, <2>3, <3>1
      <4> QED  BY <1>5, <4>1
    <3> QED  BY <3>1
  <2>5. IsLast(M, e, b)
    BY <2>3, <2>4 DEF IsLast
  <2>6. rows # {} /\ Picked(rows) = RowOf(points, b)
    BY <1>4, <1>6, <2>5, LastIsPicked
  <2>7. Pricing!InReach(e, {b}) = BestBefore(e)
    BY <1>3, <2>3, <2>4, LastBefore
  <2>8. PICK row : row = RowOf(points, b)
    OBVIOUS
  <2>9. row.at = {b} /\ row.next = Pricing!Following(points, b)
    BY <2>8 DEF RowOf
  <2>10. CASE b.at = e.at
    <3>1. \A q \in M : e.at <= q.at => b.at <= q.at
      BY <2>10
    <3>2. Pricing!InReach(e, {b}) = BestAfter(e)
      BY <1>3, <2>10, <3>1, FirstAfter
    <3> QED  BY <1>1, <1>7, <2>6, <2>7, <2>8, <2>9, <2>10, <3>2
  <2>11. CASE b.at # e.at
    <3>1. \A q \in M : e.at <= q.at <=> q.at > b.at
      BY <1>5, <2>3, <2>4, <2>11
    <3>2. ~\E p \in {b} : p.at = e.at
      BY <2>11
    <3>3. PICK next : next = Pricing!Following(points, b)
      OBVIOUS
    <3>4. Pricing!InReach(e, next) = BestAfter(e)
      <4>1. CASE next = {} /\ \A q \in M : ~(q.at > b.at)
        BY <1>3, <1>8, <3>1, <4>1, NoneAfter
      <4>2. CASE \E a \in M : next = {a} /\ a.at > b.at /\ \A q \in M : q.at > b.at => a.at <= q.at
        <5>1. PICK a \in M : next = {a} /\ a.at > b.at /\ \A q \in M : q.at > b.at => a.at <= q.at
          BY <4>2
        <5>2. e.at <= a.at /\ \A q \in M : e.at <= q.at => a.at <= q.at
          BY <3>1, <5>1
        <5> QED  BY <1>3, <5>1, <5>2, FirstAfter
      <4> QED  BY <1>4, <3>3, <4>1, <4>2, FollowingIs
    <3> QED  BY <1>1, <1>7, <2>6, <2>7, <2>8, <2>9, <3>2, <3>3, <3>4
  <2> QED  BY <2>10, <2>11
<1>10. CASE ~\E p \in M : p.at <= e.at
  <2>1. BestBefore(e) = {}
    BY <1>3, <1>10, NoneBefore
  <2>2. CASE M = {}
    <3>1. rows = {}
      BY <1>4, <1>6, <2>2, RowsAre
    <3>2. BestAfter(e) = {}
      BY <1>3, <2>2, NoneAfter
    <3> QED  BY <1>1, <1>6, <2>1, <3>1, <3>2, MatchedIs
  <2>3. CASE M # {}
    <3>1. PICK times : times = {q.at : q \in M} /\ times \in SUBSET Nat
      BY <1>5
    <3>2. PICK t \in times : \A u \in times : t <= u
      <4>1. times # {}
        BY <2>3, <3>1
      <4> QED  BY <3>1, <4>1, LeastNumber
    <3>3. PICK f \in M : t = f.at
      BY <3>1, <3>2
    <3>4. \A q \in M : f.at <= q.at
      BY <3>1, <3>2, <3>3
    <3>5. rows # {} /\ Picked(rows) = OpeningRow(f)
      BY <1>4, <1>6, <1>10, <3>4, FirstIsPicked
    <3>6. Pricing!InReach(e, {f}) = BestAfter(e)
      <4>1. e.at <= f.at
        BY <1>5, <1>10
      <4> QED  BY <1>3, <3>4, <4>1, FirstAfter
    <3>7. PICK row : row = OpeningRow(f)
      OBVIOUS
    <3>8. row.at = {} /\ row.next = {f}
      BY <3>7 DEF OpeningRow
    <3> QED  BY <1>1, <1>7, <1>8, <2>1, <3>5, <3>6, <3>7, <3>8
  <2> QED  BY <2>2, <2>3
<1> QED  BY <1>9, <1>10

\* What a statement stores of an event is what the event is worth on its own.
LEMMA PricedAsWorth ==
    ASSUME PricesSound, NEW batch, NEW e \in batch, \A d \in batch : d.at \in Nat
    PROVE  [event |-> e, price |-> Pricing!Worth(e)] \in Pricing!Priced(batch, prices)
<1>1. Pricing!Worth(e) = Pricing!Price(e, [before |-> BestBefore(e), after |-> BestAfter(e)])
  BY DEF Pricing!Worth, Pricing!Best, BestBefore, BestAfter, Before, After
<1>2. Pricing!Matched(e, Pricing!SliceOf(Pricing!PointsOf(batch, prices)))
        = [before |-> BestBefore(e), after |-> BestAfter(e)]
  BY MatchedIsNearest
<1>3. Pricing!Priced(batch, prices) =
        {[event |-> d, price |-> Pricing!Price(d, Pricing!Matched(d, Pricing!SliceOf(Pricing!PointsOf(batch, prices))))]
           : d \in batch}
  BY DEF Pricing!Priced
<1>4. [event |-> e, price |-> Pricing!Price(e, Pricing!Matched(e, Pricing!SliceOf(Pricing!PointsOf(batch, prices))))]
        \in Pricing!Priced(batch, prices)
  BY <1>3, Zenon
<1> QED  BY <1>1, <1>2, <1>4, Zenon

-----------------------------------------------------------------------------
(* What a reprice knows: its events and its prices are finitely many, and  *)
(* a price row is told by its asset, its time and its source.              *)

LEMMA SamePricedCardinality == \A S : Pricing!Cardinality(S) = Cardinality(S)
BY DEF Pricing!Cardinality, Cardinality, Pricing!IsFiniteSet, IsFiniteSet

Published(p) ==
    /\ p = [asset |-> p.asset, at |-> p.at, source |-> p.source, price |-> 2 * p.at + p.source]
    /\ p.at \in PriceTimes /\ p.source \in PriceSources

PricingInv ==
    /\ IsFiniteSet(events) /\ \A e \in events : e.at \in PriceTimes /\ e.copies \in Pricing!CopyCounts
    /\ IsFiniteSet(prices) /\ \A p \in prices : Published(p)
    /\ range.from \in PriceTimes /\ range.to \in PriceTimes \cup {Pricing!Forever} /\ range.from < range.to

LEMMA PricingInits ==
    ASSUME Pricing!Init
    PROVE  PricingInv
<1>1. range.from \in PriceTimes /\ range.to \in PriceTimes \cup {Pricing!Forever}
  BY DEF Pricing!Init
<1>2. events = {} /\ prices = {} /\ range.from < range.to
  BY DEF Pricing!Init
<1> QED  BY <1>1, <1>2, FS_EmptySet DEF PricingInv

LEMMA PricingSteps ==
    ASSUME PricingInv, [Pricing!Next]_(Pricing!vars)
    PROVE  PricingInv'
<1>1. CASE UNCHANGED Pricing!vars
  BY <1>1 DEF PricingInv, Pricing!vars, Published, Pricing!CopyCounts, Pricing!Forever
<1>2. ASSUME NEW asset \in AssetIds, NEW at \in PriceTimes, NEW count \in Pricing!CopyCounts,
             Pricing!Happen(asset, at, count)
      PROVE  PricingInv'
  <2>1. PICK e : e = [asset |-> asset, at |-> at, copies |-> count]
    OBVIOUS
  <2>2. events' = events \cup {e} /\ prices' = prices /\ range' = range
    BY <1>2, <2>1 DEF Pricing!Happen
  <2>3. e.at \in PriceTimes /\ e.copies \in Pricing!CopyCounts
    BY <2>1
  <2>4. IsFiniteSet(events')
    BY <2>2, FS_AddElement DEF PricingInv
  <2> QED  BY <2>2, <2>3, <2>4 DEF PricingInv, Published, Pricing!CopyCounts, Pricing!Forever
<1>3. ASSUME NEW asset \in AssetIds, NEW at \in PriceTimes, NEW source \in PriceSources,
             Pricing!Publish(asset, at, source)
      PROVE  PricingInv'
  <2>1. PICK p : p = [asset |-> asset, at |-> at, source |-> source, price |-> 2 * at + source]
    OBVIOUS
  <2>2. prices' = prices \cup {p} /\ events' = events /\ range' = range
    BY <1>3, <2>1 DEF Pricing!Publish
  <2>3. Published(p)
    BY <2>1 DEF Published
  <2>4. IsFiniteSet(prices')
    BY <2>2, FS_AddElement DEF PricingInv
  <2>5. \A q \in prices' : Published(q)
    BY <2>2, <2>3 DEF PricingInv
  <2> QED  BY <2>2, <2>4, <2>5 DEF PricingInv, Published, Pricing!CopyCounts, Pricing!Forever
<1> QED  BY <1>1, <1>2, <1>3 DEF Pricing!Next

LEMMA PricesAreSound ==
    ASSUME PricingInv
    PROVE  PricesSound
<1>1. PriceTimes \subseteq Nat /\ PriceSources \subseteq Nat
  BY PricingAssumption DEF Pricing!RepriceAssumption
<1>2. ASSUME NEW p \in prices  PROVE p.at \in Nat /\ p.source \in Nat
  BY <1>1 DEF PricingInv, Published
<1>3. ASSUME NEW p \in prices, NEW q \in prices, p.asset = q.asset, p.at = q.at, p.source = q.source
      PROVE  p = q
  <2>1. /\ p = [asset |-> p.asset, at |-> p.at, source |-> p.source, price |-> 2 * p.at + p.source]
        /\ q = [asset |-> q.asset, at |-> q.at, source |-> q.source, price |-> 2 * q.at + q.source]
    BY DEF PricingInv, Published
  <2> QED  BY <1>3, <2>1, Zenon
<1> QED  BY <1>2, <1>3 DEF PricingInv, PricesSound

\* The last time and the times an event may have.
LEMMA TimesAre ==
    /\ Pricing!Forever \in Nat /\ BucketMs \in Nat \ {0}
    /\ \A t \in PriceTimes : t \in Nat /\ t < Pricing!Forever
<1>1. PriceTimes \subseteq Nat /\ \E last \in PriceTimes : \A t \in PriceTimes : t <= last
  BY PricingAssumption DEF Pricing!RepriceAssumption
<1>2. PICK last : last = CHOOSE t \in PriceTimes : \A u \in PriceTimes : u <= t
  OBVIOUS
<1>3. last \in PriceTimes /\ \A u \in PriceTimes : u <= last
  BY <1>1, <1>2
<1>4. Pricing!Forever = 1 + last
  BY <1>2 DEF Pricing!Forever
<1>5. BucketMs \in Nat \ {0}
  BY PricingAssumption DEF Pricing!RepriceAssumption, Pricing!PlanAssumption
<1> QED  BY <1>1, <1>3, <1>4, <1>5

LEMMA QuotientIs ==
    ASSUME NEW t \in Nat, NEW P \in Nat \ {0}, NEW k \in Nat, NEW a \in Int, NEW b \in Int,
           a = k * P, b = (k + 1) * P, a <= t, t < b
    PROVE  t \div P = k
<1>1. PICK q \in Int, r \in Int : q = t \div P /\ t = r + q * P /\ 0 <= r /\ r < P
  BY ONLY t \in Nat, P \in Nat \ {0}
<1>2. ~(q + 1 <= k)
  <2>1. SUFFICES ASSUME q + 1 <= k PROVE FALSE
    OBVIOUS
  <2>2. (q + 1) * P <= k * P
    BY ONLY <2>1, q \in Int, k \in Nat, P \in Nat \ {0}
  <2>3. (q + 1) * P = q * P + P
    BY ONLY q \in Int, P \in Nat \ {0}
  <2>4. PICK qp \in Int : qp = q * P
    BY ONLY q \in Int, P \in Nat \ {0}
  <2>5. qp + P <= a /\ t = r + qp /\ r < P
    BY <1>1, <2>2, <2>3, <2>4
  <2> QED  BY ONLY <2>5, a <= t, qp \in Int, a \in Int, r \in Int, t \in Nat, P \in Nat \ {0}
<1>3. ~(k + 1 <= q)
  <2>1. SUFFICES ASSUME k + 1 <= q PROVE FALSE
    OBVIOUS
  <2>2. (k + 1) * P <= q * P
    BY ONLY <2>1, q \in Int, k \in Nat, P \in Nat \ {0}
  <2>4. PICK qp \in Int : qp = q * P
    BY ONLY q \in Int, P \in Nat \ {0}
  <2>5. b <= qp /\ t = r + qp /\ 0 <= r
    BY <1>1, <2>2, <2>4
  <2> QED  BY ONLY <2>5, t < b, qp \in Int, b \in Int, r \in Int, t \in Nat
<1> QED  BY <1>1, <1>2, <1>3

LEMMA DivisionFloors ==
    ASSUME NEW t \in Nat, NEW P \in Nat \ {0}
    PROVE  \E k \in Nat : k = t \div P /\ k * P <= t /\ t < (k + 1) * P
<1>1. PICK q \in Int, r \in Int : q = t \div P /\ t = r + q * P /\ 0 <= r /\ r < P
  BY ONLY t \in Nat, P \in Nat \ {0}
<1>2. q \in Nat
  BY ONLY <1>1, t \in Nat, P \in Nat \ {0}
<1>3. (q + 1) * P = q * P + P
  BY ONLY q \in Int, P \in Nat \ {0}
<1>4. PICK qp \in Int : qp = q * P
  BY ONLY q \in Int, P \in Nat \ {0}
<1>5. qp <= t /\ t < qp + P
  BY ONLY <1>1, <1>4, t \in Nat, P \in Nat \ {0}, r \in Int, qp \in Int
<1> QED  BY <1>1, <1>2, <1>3, <1>4, <1>5

\* A bucket with an event counts some.
LEMMA CountedIs ==
    ASSUME PricingInv, NEW start
    PROVE  /\ Pricing!Counted(start) \in Nat
           /\ \A e \in events : start <= e.at /\ e.at < start + BucketMs /\ e \in Pricing!Within(range) => Pricing!Counted(start) # 0
<1>1. PICK W : W = {w \in Pricing!Writes : start <= w[1].at /\ w[1].at < start + BucketMs}
  OBVIOUS
<1>2. IsFiniteSet(events \X (1..2))
  <2>1. IsFiniteSet(1..2)
    <3>1. 1 \in Int /\ 2 \in Int
      OBVIOUS
    <3> QED  BY ONLY <3>1, FS_Interval
  <2> QED  BY <2>1, FS_Product DEF PricingInv
<1>3. W \in SUBSET (events \X (1..2))
  BY <1>1 DEF Pricing!Writes, Pricing!CopyCounts, Pricing!Within
<1>4. IsFiniteSet(W) /\ Cardinality(W) \in Nat
  BY <1>2, <1>3, FS_Subset, FS_CardinalityType
<1>5. Pricing!Counted(start) = Cardinality(W)
  BY <1>1, SamePricedCardinality DEF Pricing!Counted
<1>6. ASSUME NEW e \in events, start <= e.at, e.at < start + BucketMs, e \in Pricing!Within(range)
      PROVE  Cardinality(W) # 0
  <2>1. e.copies \in 1..2
    BY DEF PricingInv, Pricing!CopyCounts
  <2>2. <<e, 1>> \in Pricing!Writes
    BY <1>6, <2>1 DEF Pricing!Writes, Pricing!CopyCounts
  <2>3. <<e, 1>> \in W
    BY <1>1, <1>6, <2>2
  <2> QED  BY <1>4, <2>3, FS_EmptySet
<1> QED  BY <1>4, <1>5, <1>6

BucketCount == Pricing!Forever \div BucketMs + 1

LEMMA BucketsAreEven ==
    ASSUME PricingInv
    PROVE  BucketCount \in Nat /\ Even(Pricing!Buckets, BucketCount)
<1>1. BucketCount \in Nat
  <2>1. PICK k \in Nat : k = Pricing!Forever \div BucketMs
    BY TimesAre, DivisionFloors
  <2> QED  BY <2>1 DEF BucketCount
<1>2. PICK N, b : N \in Nat /\ b = Pricing!Buckets /\ N = BucketCount
  BY <1>1
<1>3. b = [i \in 1..N |-> [start |-> (i - 1) * BucketMs, events |-> Pricing!Counted((i - 1) * BucketMs)]]
  BY <1>2 DEF Pricing!Buckets, BucketCount
<1>4. Len(b) = N
  BY <1>2, <1>3
<1>5. ASSUME NEW n \in 1..N
      PROVE  b[n] = [start |-> (n - 1) * BucketMs, events |-> b[n].events] /\ b[n].events \in Nat
             /\ b[n].events = Pricing!Counted((n - 1) * BucketMs)
  BY <1>2, <1>3, CountedIs
<1> QED  BY <1>2, <1>4, <1>5 DEF Even

LEMMA EventsCovered ==
    ASSUME PricingInv, NEW atoms, AllAtoms(atoms, Pricing!Buckets, range.from, range.to, BucketCount),
           NEW e \in events, range.from <= e.at, e.at < range.to
    PROVE  Covers(atoms, e.at)
<1>1. PICK t \in Nat : t = e.at /\ t < Pricing!Forever
  BY TimesAre DEF PricingInv
<1>2. PICK k \in Nat : k = t \div BucketMs /\ k * BucketMs <= t /\ t < (k + 1) * BucketMs
  BY TimesAre, DivisionFloors
<1>3. k + 1 \in 1..BucketCount
  <2>1. t <= Pricing!Forever /\ Pricing!Forever \in Nat /\ BucketMs \in Nat \ {0}
    BY <1>1, TimesAre
  <2>2. k <= Pricing!Forever \div BucketMs /\ Pricing!Forever \div BucketMs \in Nat
    BY <1>2, <2>1, DivisionGrows
  <2> QED  BY <2>2 DEF BucketCount
<1>4. PICK a \in Nat, b \in Nat : a = k * BucketMs /\ b = (k + 1) * BucketMs /\ b = a + BucketMs
  BY TimesAre
<1>5. Pricing!Buckets[k + 1].events = Pricing!Counted(a)
  <2>1. (k + 1) - 1 = k
    OBVIOUS
  <2>2. Pricing!Buckets = [i \in 1..BucketCount |-> [start |-> (i - 1) * BucketMs, events |-> Pricing!Counted((i - 1) * BucketMs)]]
    BY DEF Pricing!Buckets, BucketCount
  <2> QED  BY <1>3, <1>4, <2>1, <2>2
<1>6. Pricing!Counted(a) # 0
  <2>1. e \in Pricing!Within(range)
    BY DEF Pricing!Within
  <2> QED  BY <1>1, <1>2, <1>4, <2>1, CountedIs
<1>7. t \in Int /\ (k + 1) - 1 = k
  OBVIOUS
<1> QED  BY <1>1, <1>2, <1>3, <1>5, <1>6, <1>7 DEF AllAtoms

LEMMA RangeTimes ==
    ASSUME PricingInv
    PROVE  range.from \in Nat /\ range.to \in Nat /\ range.from < range.to
BY TimesAre DEF PricingInv

\* The plan of the reprice.
LEMMA ThePlan ==
    ASSUME PricingInv
    PROVE  \E atoms :
              /\ Successive(Pricing!Plan, range.from, range.to) /\ AllFit(Pricing!Plan, atoms)
              /\ AllAtoms(atoms, Pricing!Buckets, range.from, range.to, BucketCount)
<1>1. PICK from \in Nat, to \in Nat : from = range.from /\ to = range.to /\ from < to
  BY RangeTimes
<1>2. PICK N, counts : N \in Nat /\ N = BucketCount /\ counts = Pricing!Buckets /\ Even(counts, N)
  BY BucketsAreEven
<1>3. PICK atoms, plan : atoms = Pricing!AtomsIn(from, to, counts) /\ plan = Pricing!Planned(from, to, counts)
  OBVIOUS
<1>4. Successive(plan, from, to) /\ AllFit(plan, atoms) /\ AllAtoms(atoms, counts, from, to, N)
  BY ONLY <1>1, <1>2, <1>3, from \in Nat, to \in Nat, PlannedFits
<1>5. Pricing!Plan = plan
  BY <1>1, <1>2, <1>3 DEF Pricing!Plan
<1> QED  BY <1>1, <1>2, <1>4, <1>5

\* A time within a range of the plan has its atom there.
LEMMA AtomInside ==
    ASSUME NEW t \in Nat, NEW r, r.from <= t, t < r.to, r.from \in Int, r.to \in Int,
           NEW atoms, NEW lo, NEW hi, Chained(atoms, lo, hi), Whole(r.from, atoms), Covers(atoms, t)
    PROVE  \E j \in Inside(r, atoms) : j \in 1..Len(atoms) /\ atoms[j].start <= t /\ t < atoms[j].end
<1>1. PICK j \in 1..Len(atoms) : atoms[j].start <= t /\ t < atoms[j].end
  BY DEF Covers
<1>2. atoms[j].start \in Int /\ atoms[j].end \in Int
  BY ChainFacts
<1>3. r.from <= atoms[j].start /\ atoms[j].start < r.to
  BY <1>1, <1>2 DEF Whole
<1>4. j \in Inside(r, atoms)
  BY <1>3 DEF Inside
<1> QED  BY <1>1, <1>4

\* What ChunksBounded says of a range.
LEMMA FitsIsBounded ==
    ASSUME NEW T \in SUBSET Nat, NEW r, r.from \in Int, r.to \in Int, \A t \in T : r.from <= t /\ t < r.to,
           NEW atoms, NEW lo, NEW hi, Chained(atoms, lo, hi), Whole(r.from, atoms), Fits(r, atoms),
           \A t \in T : Covers(atoms, t)
    PROVE  \/ r.events <= MaxEvents /\ \A t, u \in T : t - u < MaxSpanMs
           \/ \A t, u \in T : t \div BucketMs = u \div BucketMs
<1>1. \A t \in T : \E j \in Inside(r, atoms) : j \in 1..Len(atoms) /\ atoms[j].start <= t /\ t < atoms[j].end
  BY AtomInside
<1>2. CASE \A j, k \in Inside(r, atoms) : j = k
  <2>1. ASSUME NEW t \in T, NEW u \in T  PROVE t \div BucketMs = u \div BucketMs
    <3>1. PICK j \in Inside(r, atoms) : j \in 1..Len(atoms) /\ atoms[j].start <= t /\ t < atoms[j].end
      BY <1>1
    <3>2. atoms[j].start <= u /\ u < atoms[j].end
      BY <1>1, <1>2
    <3>3. OfOneBucket(atoms[j])
      BY <3>1 DEF Chained
    <3>4. BucketMs \in Nat \ {0}
      BY TimesAre
    <3>5. PICK k \in Nat : k * BucketMs <= atoms[j].start /\ atoms[j].end <= (k + 1) * BucketMs
      BY <3>3 DEF OfOneBucket
    <3>6. PICK a \in Int, b \in Int : a = k * BucketMs /\ b = (k + 1) * BucketMs
      BY <3>4
    <3>7. PICK s \in Int, d \in Int : s = atoms[j].start /\ d = atoms[j].end
      BY <3>1, ChainFacts
    <3>8. t \in Nat /\ u \in Nat /\ a <= t /\ t < b /\ a <= u /\ u < b
      <4>1. s <= t /\ t < d /\ s <= u /\ u < d /\ a <= s /\ d <= b
        BY ONLY <3>1, <3>2, <3>5, <3>6, <3>7
      <4>2. t \in Nat /\ u \in Nat
        OBVIOUS
      <4> QED  BY ONLY <4>1, <4>2, a \in Int, b \in Int, s \in Int, d \in Int
    <3>9. t \div BucketMs = k /\ u \div BucketMs = k
      BY ONLY <3>4, <3>6, <3>8, k \in Nat, a \in Int, b \in Int, QuotientIs
    <3> QED  BY <3>9
  <2> QED  BY <2>1
<1>3. CASE r.events <= MaxEvents /\ \A j, k \in Inside(r, atoms) : atoms[k].end - atoms[j].start <= MaxSpanMs
  <2>1. ASSUME NEW t \in T, NEW u \in T  PROVE t - u < MaxSpanMs
    <3>1. PICK k \in Inside(r, atoms) : k \in 1..Len(atoms) /\ t < atoms[k].end
      BY <1>1
    <3>2. PICK j \in Inside(r, atoms) : j \in 1..Len(atoms) /\ atoms[j].start <= u
      BY <1>1
    <3>3. PICK s \in Int, d \in Int : s = atoms[j].start /\ d = atoms[k].end
      BY <3>1, <3>2, ChainFacts
    <3>4. d - s <= MaxSpanMs /\ s <= u /\ t < d
      BY <1>3, <3>1, <3>2, <3>3
    <3>5. MaxSpanMs \in Nat /\ t \in Nat /\ u \in Nat
      BY PricingAssumption DEF Pricing!RepriceAssumption, Pricing!PlanAssumption
    <3> QED  BY ONLY <3>4, <3>5, s \in Int, d \in Int
  <2> QED  BY <1>3, <2>1
<1> QED  BY <1>2, <1>3 DEF Fits

\* Every time of ranges that follow one another is within one of them, and in no other.
LEMMA OneRange ==
    ASSUME NEW plan, NEW from \in Int, NEW to \in Int, from < to, Successive(plan, from, to), NEW t \in Int
    PROVE  /\ from <= t /\ t < to => \E i \in 1..Len(plan) : plan[i].from <= t /\ t < plan[i].to
           /\ \A i, j \in 1..Len(plan) :
                 plan[i].from <= t /\ t < plan[i].to /\ plan[j].from <= t /\ t < plan[j].to => i = j
           /\ \A i \in 1..Len(plan) : plan[i].from <= t /\ t < plan[i].to => from <= t /\ t < to
<1>1. plan \in Seq(PlannedType)
  BY DEF Successive
<1>2. PICK n \in Nat : n = Len(plan)
  BY <1>1, LenProperties
<1>3. \A i \in 1..n : plan[i].from \in Int /\ plan[i].to \in Int
  <2>1. \A i \in 1..n : plan[i] \in PlannedType
    BY <1>1, <1>2, ElementOfSeq
  <2> QED  BY <2>1 DEF PlannedType
<1>4. /\ n = 0 => to = from
      /\ n # 0 => plan[1].from = from /\ plan[n].to = to
      /\ \A i \in 1..n : from <= plan[i].from /\ plan[i].from < plan[i].to /\ plan[i].to <= to
      /\ \A i \in 2..n : plan[i].from = plan[i - 1].to
      /\ \A i, j \in 1..n : i < j => plan[i].to <= plan[j].from
  BY ONLY <1>2, Successive(plan, from, to) DEF Successive
<1>5. ASSUME from <= t, t < to  PROVE \E i \in 1..n : plan[i].from <= t /\ t < plan[i].to
  <2>1. n # 0 /\ n \in 1..n
    BY <1>4
  <2>2. PICK S : S = {i \in 1..n : t < plan[i].to}
    OBVIOUS
  <2>3. S \in SUBSET Nat /\ S # {}
    BY <1>4, <1>5, <2>1, <2>2
  <2>4. PICK i \in S : \A j \in S : i <= j
    BY ONLY <2>3, LeastNumber
  <2>5. i \in 1..n /\ t < plan[i].to
    BY <2>2
  <2>6. CASE i = 1
    BY <1>4, <1>5, <2>1, <2>5, <2>6
  <2>7. CASE i # 1
    <3>1. i - 1 \in 1..n /\ i \in 2..n /\ ~(i <= i - 1)
      BY <2>5, <2>7
    <3>2. ~(t < plan[i - 1].to)
      BY <2>2, <2>4, <3>1
    <3> QED  BY <1>3, <1>4, <2>5, <3>1, <3>2
  <2> QED  BY <2>6, <2>7
<1>6. ASSUME NEW i \in 1..n, NEW j \in 1..n,
             plan[i].from <= t, t < plan[i].to, plan[j].from <= t, t < plan[j].to
      PROVE  i = j
  <2>1. ~(i < j)
    BY <1>3, <1>4, <1>6
  <2>2. ~(j < i)
    BY <1>3, <1>4, <1>6
  <2> QED  BY <2>1, <2>2
<1>7. ASSUME NEW i \in 1..n, plan[i].from <= t, t < plan[i].to  PROVE from <= t /\ t < to
  BY <1>3, <1>4, <1>7
<1> QED  BY <1>2, <1>5, <1>6, <1>7

\* A range of the plan with an event counts one, so its statement runs.
LEMMA StatementRuns ==
    ASSUME PricingInv, NEW plan, plan = Pricing!Plan, NEW i \in 1..Len(plan), NEW e \in events,
           plan[i].from <= e.at, e.at < plan[i].to
    PROVE  plan[i].events > 0
<1>1. PICK atoms :
         /\ Successive(plan, range.from, range.to) /\ AllFit(plan, atoms)
         /\ AllAtoms(atoms, Pricing!Buckets, range.from, range.to, BucketCount)
  BY ThePlan
<1>2. PICK t \in Nat : t = e.at
  BY TimesAre DEF PricingInv
<1>3. plan \in Seq(PlannedType)
  BY <1>1 DEF Successive
<1>4. PICK r : r = plan[i] /\ r \in PlannedType
  BY <1>3, ElementOfSeq
<1>5. r.from \in Int /\ r.to \in Int /\ r.from <= t /\ t < r.to
  BY <1>2, <1>4 DEF PlannedType
<1>6. range.from \in Nat /\ range.to \in Nat /\ range.from <= r.from /\ r.to <= range.to
  BY <1>1, <1>4, RangeTimes DEF Successive
<1>7. Covers(atoms, t)
  <2>1. range.from <= t /\ t < range.to
    BY ONLY <1>5, <1>6, t \in Nat
  <2> QED  BY <1>1, <1>2, <2>1, EventsCovered
<1>8. Fits(r, atoms) /\ Whole(r.from, atoms)
  BY <1>1, <1>4 DEF AllFit
<1>9. PICK lo, hi : Chained(atoms, lo, hi)
  BY <1>1 DEF AllAtoms
<1>10. Inside(r, atoms) # {}
  <2>1. \E j \in Inside(r, atoms) : j \in 1..Len(atoms) /\ atoms[j].start <= t /\ t < atoms[j].end
    BY ONLY <1>5, <1>7, <1>8, <1>9, t \in Nat, AtomInside
  <2> QED  BY ONLY <2>1
<1> QED  BY <1>4, <1>8, <1>10 DEF Fits

\* The one statement of an event prices it as on its own.
LEMMA InvRepriced ==
    ASSUME PricingInv
    PROVE  Pricing!Repriced
<1>1. PICK plan : plan = Pricing!Plan /\ Successive(plan, range.from, range.to)
  BY ThePlan
<1>2. PICK statements : statements = Pricing!Stored
  OBVIOUS
<1>3. DOMAIN plan = 1..Len(plan) /\ Len(plan) \in Nat
  BY <1>1 DEF Successive
<1>4. /\ DOMAIN statements = 1..Len(plan)
      /\ \A i \in 1..Len(plan) :
            statements[i] = IF plan[i].events > 0 THEN Pricing!Priced(Pricing!Within(plan[i]), prices) ELSE {}
  BY <1>1, <1>2, <1>3 DEF Pricing!Stored
<1>5. \A i \in 1..Len(plan), e \in events :
         (\E row \in statements[i] : row.event = e) <=> (plan[i].from <= e.at /\ e.at < plan[i].to)
  <2>1. ASSUME NEW i \in 1..Len(plan), NEW e \in events
        PROVE  (\E row \in statements[i] : row.event = e) <=> e \in Pricing!Within(plan[i])
    <3>1. PICK batch : batch = Pricing!Within(plan[i])
      OBVIOUS
    <3>2. Pricing!Priced(batch, prices) =
            {[event |-> d, price |-> Pricing!Price(d, Pricing!Matched(d, Pricing!SliceOf(Pricing!PointsOf(batch, prices))))]
                          : d \in batch}
      BY DEF Pricing!Priced
    <3>3. \A d : [event |-> d, price |-> Pricing!Price(d, Pricing!Matched(d, Pricing!SliceOf(Pricing!PointsOf(batch, prices))))].event = d
      OBVIOUS
    <3>4. (\E row \in Pricing!Priced(batch, prices) : row.event = e) <=> e \in batch
      BY ONLY <3>2, <3>3, Zenon
    <3>5. CASE plan[i].events > 0
      BY <1>4, <3>1, <3>4, <3>5
    <3>6. CASE ~(plan[i].events > 0)
      <4>1. statements[i] = {}
        BY <1>4, <3>6
      <4>2. e \notin batch
        BY <1>1, <3>1, <3>6, StatementRuns DEF Pricing!Within
      <4> QED  BY <3>1, <4>1, <4>2
    <3> QED  BY <3>5, <3>6
  <2> QED  BY <2>1 DEF Pricing!Within
<1>6. ASSUME NEW e \in events
      PROVE  LET of == {i \in DOMAIN statements : \E row \in statements[i] : row.event = e}
             IN  /\ Pricing!Cardinality(of) = IF e \in Pricing!Within(range) THEN 1 ELSE 0
                 /\ \A i \in of : [event |-> e, price |-> Pricing!Worth(e)] \in statements[i]
  <2> DEFINE of == {i \in DOMAIN statements : \E row \in statements[i] : row.event = e}
  <2>1. PICK t \in Nat : t = e.at
    BY TimesAre DEF PricingInv
  <2>2. PICK O : O = {i \in 1..Len(plan) : plan[i].from <= t /\ t < plan[i].to}
    OBVIOUS
  <2>3. of = O
    BY <1>4, <1>5, <2>1, <2>2
  <2>4. PICK from \in Int, to \in Int : from = range.from /\ to = range.to /\ from < to
    BY RangeTimes
  <2>5. /\ from <= t /\ t < to => \E i \in 1..Len(plan) : plan[i].from <= t /\ t < plan[i].to
        /\ \A i, j \in 1..Len(plan) :
              plan[i].from <= t /\ t < plan[i].to /\ plan[j].from <= t /\ t < plan[j].to => i = j
        /\ \A i \in 1..Len(plan) : plan[i].from <= t /\ t < plan[i].to => from <= t /\ t < to
    <3>1. t \in Int
      OBVIOUS
    <3> QED  BY ONLY <1>1, <2>4, <3>1, from \in Int, to \in Int, OneRange
  <2>6. (e \in Pricing!Within(range)) <=> (from <= t /\ t < to)
    BY <2>1, <2>4 DEF Pricing!Within
  <2>7. Cardinality(O) = IF e \in Pricing!Within(range) THEN 1 ELSE 0
    <3>1. CASE e \in Pricing!Within(range)
      <4>1. PICK i \in 1..Len(plan) : plan[i].from <= t /\ t < plan[i].to
        BY <2>5, <2>6, <3>1
      <4>2. O = {i}
        BY <2>2, <2>5, <4>1
      <4> QED  BY <3>1, <4>2, FS_Singleton
    <3>2. CASE e \notin Pricing!Within(range)
      <4>1. O = {}
        BY <2>2, <2>5, <2>6, <3>2
      <4> QED  BY <3>2, <4>1, FS_EmptySet
    <3> QED  BY <3>1, <3>2
  <2>8. ASSUME NEW i \in O  PROVE [event |-> e, price |-> Pricing!Worth(e)] \in statements[i]
    <3>1. PICK batch : batch = Pricing!Within(plan[i])
      OBVIOUS
    <3>2. e \in batch /\ \A d \in batch : d.at \in Nat
      <4>1. \A d \in batch : d \in events
        BY <3>1 DEF Pricing!Within
      <4>2. \A d \in events : d.at \in Nat
        BY TimesAre DEF PricingInv
      <4>3. e \in batch
        BY <2>1, <2>2, <3>1 DEF Pricing!Within
      <4> QED  BY <4>1, <4>2, <4>3
    <3>3. [event |-> e, price |-> Pricing!Worth(e)] \in Pricing!Priced(batch, prices)
      BY ONLY PricingInv, <3>2, PricesAreSound, PricedAsWorth
    <3>4. statements[i] = Pricing!Priced(batch, prices)
      <4>1. i \in 1..Len(plan) /\ plan[i].from <= e.at /\ e.at < plan[i].to
        BY <2>1, <2>2
      <4>2. plan[i].events > 0
        BY <1>1, <4>1, StatementRuns
      <4> QED  BY <1>4, <3>1, <4>1, <4>2
    <3> QED  BY <3>3, <3>4
  <2>9. Pricing!Cardinality(O) = Cardinality(O)
    BY SamePricedCardinality
  <2> QED  BY <2>3, <2>7, <2>8, <2>9
<1> QED  BY ONLY <1>2, <1>6, Zenon DEF Pricing!Repriced

\* A statement has one atom of one bucket, or few events of a short span.
LEMMA InvChunksBounded ==
    ASSUME PricingInv
    PROVE  Pricing!ChunksBounded
<1>1. PICK plan, atoms :
         /\ plan = Pricing!Plan /\ Successive(plan, range.from, range.to) /\ AllFit(plan, atoms)
         /\ AllAtoms(atoms, Pricing!Buckets, range.from, range.to, BucketCount)
  BY ThePlan
<1>2. PICK from \in Int, to \in Int : from = range.from /\ to = range.to /\ from < to
  BY RangeTimes
<1>3. plan \in Seq(PlannedType)
  BY <1>1 DEF Successive
<1>4. PICK n \in Nat : n = Len(plan)
  BY <1>3, LenProperties
<1>5. DOMAIN plan = 1..n
  BY <1>3, <1>4, LenProperties
<1>6. \A i \in 1..n : plan[i].from \in Int /\ plan[i].to \in Int
  <2>1. \A i \in 1..n : plan[i] \in PlannedType
    BY <1>3, <1>4, ElementOfSeq
  <2> QED  BY <2>1 DEF PlannedType
<1>7. /\ n = 0 => to = from
      /\ n # 0 => plan[1].from = from /\ plan[n].to = to
      /\ \A i \in 1..n : from <= plan[i].from /\ plan[i].from < plan[i].to /\ plan[i].to <= to
      /\ \A i \in 2..n : plan[i].from = plan[i - 1].to
  BY ONLY <1>1, <1>2, <1>4 DEF Successive
<1>8. plan[1].from = range.from /\ plan[Len(plan)].to = range.to
  BY <1>2, <1>4, <1>7
<1>9. \A i \in 1..n : plan[i].from < plan[i].to /\ (i > 1 => plan[i].from = plan[i - 1].to)
  <2>1. \A i \in 1..n : i > 1 => i \in 2..n
    OBVIOUS
  <2> QED  BY <1>7, <2>1
<1>10. ASSUME NEW i \in 1..n
       PROVE  LET times == {e.at : e \in Pricing!Within(plan[i])}
              IN  \/ plan[i].events <= MaxEvents /\ \A t, u \in times : t - u < MaxSpanMs
                  \/ \A t, u \in times : t \div BucketMs = u \div BucketMs
  <2>1. PICK T : T = {e.at : e \in Pricing!Within(plan[i])}
    OBVIOUS
  <2>2. \A t \in T : \E e \in events : t = e.at /\ plan[i].from <= t /\ t < plan[i].to
    BY <2>1 DEF Pricing!Within
  <2>3. \A e \in events : e.at \in Nat
    BY TimesAre DEF PricingInv
  <2>4. T \in SUBSET Nat
    BY <2>2, <2>3
  <2>5. \A t \in T : Covers(atoms, t)
    <3>1. ASSUME NEW t \in T  PROVE Covers(atoms, t)
      <4>1. PICK e \in events : t = e.at /\ plan[i].from <= t /\ t < plan[i].to
        BY <2>2
      <4>2. range.from <= e.at /\ e.at < range.to
        <5>1. from <= plan[i].from /\ plan[i].to <= to /\ plan[i].from \in Int /\ plan[i].to \in Int /\ t \in Nat
          BY <1>6, <1>7, <2>4
        <5> QED  BY ONLY <1>2, <4>1, <5>1, from \in Int, to \in Int
      <4> QED  BY <1>1, <4>1, <4>2, EventsCovered
    <3> QED  BY <3>1
  <2>6. PICK r : r = plan[i] /\ r.from \in Int /\ r.to \in Int
    BY <1>6
  <2>7. Fits(r, atoms) /\ Whole(r.from, atoms)
    BY <1>1, <1>4, <2>6 DEF AllFit
  <2>8. PICK lo, hi : Chained(atoms, lo, hi)
    BY <1>1 DEF AllAtoms
  <2>9. \A t \in T : r.from <= t /\ t < r.to
    BY <2>2, <2>6
  <2>10. \/ r.events <= MaxEvents /\ \A t, u \in T : t - u < MaxSpanMs
         \/ \A t, u \in T : t \div BucketMs = u \div BucketMs
    BY ONLY <2>4, <2>5, <2>6, <2>7, <2>8, <2>9, FitsIsBounded
  <2> QED  BY <2>1, <2>6, <2>10
<1> QED  BY ONLY <1>1, <1>5, <1>8, <1>9, <1>10 DEF Pricing!ChunksBounded

-----------------------------------------------------------------------------
\* However a range is cut in statements, each of its events is stored by exactly one of
\* them, with what it is worth on its own; the statements follow one another over the range
\* and each is bounded (pricing.ts:84, ranges.ts:36).
THEOREM RepricesAlike == Pricing!Spec => []Repriced
<1>1. Pricing!Init => PricingInv
  BY PricingInits
<1>2. PricingInv /\ [Pricing!Next]_(Pricing!vars) => PricingInv'
  BY PricingSteps
<1>3. PricingInv => Repriced
  BY InvRepriced, InvChunksBounded DEF Repriced
<1> QED  BY <1>1, <1>2, <1>3, PTL DEF Pricing!Spec
=============================================================================
