------------------------- MODULE TimelineServiceProofs -------------------------
(***************************************************************************)
(* Three results about the API's lookups, for any accounts, builds, limits *)
(* and cache size.  The single flight's Map is the builds in progress.     *)
(* While switches only go to newer versions, what is cached under a        *)
(* version was read from it or from a newer one: the version is learned    *)
(* from the view a switch retargets last, so it is never ahead of the view *)
(* the rows come from.  And what the cache and the limiter count is what   *)
(* there is: a sum over the entries is taken apart at the entry that goes. *)
(***************************************************************************)
EXTENDS TimelineService, FiniteSetTheorems, SequenceTheorems, NaturalsInduction, WellFoundedInduction,
        TLAPS

USE TimelineServiceAssumption DEF TimelineServiceAssumption

LEMMA Numbers == Versions \cup {NoVersion} \subseteq Nat
  BY DEF NoVersion

-----------------------------------------------------------------------------
(* Types: TypeOK without the cache's byte counter (whose type needs a sum  *)
(* over the entries), the limiter's and the events' bounds.                *)

Record == [at : {"none", "query", "gzip"},
           key : Keys \cup {NoBuild.key},
           rows : [from : Versions \cup {NoVersion}, events : Nat]]

Types ==
    /\ view \in [{"user_timeline_api", "api_status"} -> Versions]
    /\ target \in Versions
    /\ place \in 0..2
    /\ events \in [Addresses -> Nat]
    /\ known \in Versions \cup {NoVersion}
    /\ reading \in Versions \cup {NoVersion}
    /\ build \in [Builds -> Record]
    /\ \A b \in Builds : build[b].at # "none" => build[b].key \in Keys

LEMMA Views ==
    /\ Len(ApiViews) = 2
    /\ ApiViews[1] = "user_timeline_api"
    /\ ApiViews[2] = "api_status"
    /\ Range(ApiViews) = {"user_timeline_api", "api_status"}
  BY DEF ApiViews, Range

\* The numbers the results below compare.
LEMMA TypesNumbers ==
    ASSUME Types
    PROVE  /\ view["api_status"] \in Nat /\ view["user_timeline_api"] \in Nat
           /\ target \in Nat /\ known \in Nat /\ reading \in Nat
  BY Numbers DEF Types

LEMMA KeyNumbers == ASSUME NEW k \in Keys PROVE k[1] \in Nat /\ k[2] \in Addresses
  BY Numbers DEF Keys

LEMMA TypesInit == Init => Types
  <1> SUFFICES ASSUME Init PROVE Types
    OBVIOUS
  <1>1. NoBuild \in Record
    BY DEF NoBuild, NoRows, NoVersion, Record
  <1>2. build \in [Builds -> Record] /\ \A b \in Builds : build[b].at = "none"
    BY <1>1 DEF Init, NoBuild
  <1>3. view \in [{"user_timeline_api", "api_status"} -> Versions]
    BY Views DEF Init
  <1>4. place \in 0..2 /\ target \in Versions /\ events \in [Addresses -> Nat]
    BY Views DEF Init
  <1>5. {known, reading} \subseteq Versions \cup {NoVersion}
    BY DEF Init
  <1> QED
    BY <1>2, <1>3, <1>4, <1>5 DEF Types

\* The steps of the builds change no type of the rest.
LEMMA TypesBuild ==
    ASSUME Types, UNCHANGED <<clickhouse, status>>,
           NEW b \in Builds, NEW r \in Record, r.at # "none" => r.key \in Keys,
           build' = [build EXCEPT ![b] = r]
    PROVE  Types'
  <1>1. build' \in [Builds -> Record] /\ \A c \in Builds : build'[c].at # "none" => build'[c].key \in Keys
    BY DEF Types
  <1> QED
    BY <1>1 DEF Types, clickhouse, status

LEMMA NoBuildIsNone == NoBuild \in Record /\ NoBuild.at = "none"
  BY DEF NoBuild, NoRows, NoVersion, Record

LEMMA TypesSettle ==
    ASSUME Types, UNCHANGED <<clickhouse, status>>, NEW b \in Builds, Settle(b)
    PROVE  Types'
  BY TypesBuild, NoBuildIsNone DEF Settle

LEMMA TypesStart ==
    ASSUME Types, UNCHANGED <<clickhouse, status>>,
           NEW a \in Addresses, NEW b \in Builds, StartBuild(KeyOf(a), b)
    PROVE  Types'
  <1> DEFINE r == [at |-> "query", key |-> KeyOf(a), rows |-> NoRows]
  <1>1. KeyOf(a) \in Keys
    BY DEF Types, KeyOf, Keys
  <1>2. r \in Record /\ r.key \in Keys
    BY <1>1 DEF Record, NoRows, NoVersion
  <1>3. build' = [build EXCEPT ![b] = r]
    BY DEF StartBuild
  <1> HIDE DEF r
  <1> QED
    BY <1>2, <1>3, TypesBuild

\* The query's answer replaces the record of its build by one with the rows.
LEMMA AnswerRecord ==
    ASSUME Types, NEW b \in Builds, QueryAnswers(b)
    PROVE  LET r == [at |-> "gzip", key |-> build[b].key,
                     rows |-> [from |-> view["user_timeline_api"],
                               events |-> events[AddressOf(build[b].key)]]]
           IN  r \in Record /\ r.key \in Keys /\ build' = [build EXCEPT ![b] = r]
  <1> DEFINE rows == [from |-> view["user_timeline_api"], events |-> events[AddressOf(build[b].key)]]
             r == [at |-> "gzip", key |-> build[b].key, rows |-> rows]
  <1>1. build[b] \in Record /\ build[b].at = "query" /\ build[b].key \in Keys
    BY DEF Types, QueryAnswers
  <1>2. AddressOf(build[b].key) \in Addresses
    BY <1>1 DEF Keys, AddressOf
  <1>3. rows \in [from : Versions \cup {NoVersion}, events : Nat]
    BY <1>2 DEF Types
  <1>4. build' = [build EXCEPT ![b] = r]
    BY DEF QueryAnswers
  <1> HIDE DEF rows
  <1>5. r \in Record /\ r.key \in Keys
    BY <1>1, <1>3 DEF Record
  <1> QED
    BY <1>4, <1>5 DEF rows

LEMMA TypesStep == Types /\ [Next]_vars => Types'
  <1> SUFFICES ASSUME Types, [Next]_vars PROVE Types'
    OBVIOUS
  <1>1. ASSUME NEW a \in Addresses, NewEvent(a) PROVE Types'
    BY <1>1 DEF Types, NewEvent, status
  <1>2. ASSUME NEW a \in Addresses, Answer(a) \/ Refuse(a) PROVE Types'
    BY <1>2 DEF Types, Answer, Refuse, Look, clickhouse, status
  <1>3. ASSUME NEW a \in Addresses, NEW b \in Builds, Build(a, b) PROVE Types'
    BY <1>3, TypesStart DEF Build, Look
  <1>4. ASSUME NEW b \in Builds, QueryAnswers(b) PROVE Types'
    BY <1>4, AnswerRecord, TypesBuild DEF QueryAnswers
  <1>5. ASSUME NEW b \in Builds,
               QueryFails(b) \/ QueryTooLarge(b) \/ WaitTooLong(b)
                 \/ Compressed(b) \/ ResponseFails(b)
        PROVE Types'
    BY <1>5, TypesSettle DEF QueryFails, QueryTooLarge, WaitTooLong, Compressed, ResponseFails
  <1>6. ASSUME NEW v \in Versions, StartSwitch(v) PROVE Types'
    BY <1>6 DEF Types, StartSwitch, status
  <1>7. CASE Retarget
    <2>1. place' \in {1, 2} /\ target \in Versions
      BY <1>7, Views DEF Types, Retarget
    <2>2. view' \in [{"user_timeline_api", "api_status"} -> Versions]
      BY <1>7, <2>1, Views DEF Types, Retarget
    <2> QED
      BY <1>7, <2>1, <2>2 DEF Types, Retarget, status
  <1>8. CASE ReadStatus \/ LearnStatus \/ MissStatus
    BY <1>8 DEF Types, ReadStatus, LearnStatus, MissStatus, clickhouse
  <1>9. CASE Age \/ ForgetTooLarge
    BY <1>9 DEF Types, Age, ForgetTooLarge, clickhouse, status
  <1>10. CASE UNCHANGED vars
    BY <1>10 DEF Types, vars, clickhouse, status
  <1> QED
    BY <1>1, <1>2, <1>3, <1>4, <1>5, <1>6, <1>7, <1>8, <1>9, <1>10 DEF Next

-----------------------------------------------------------------------------
(* The single flight.                                                      *)

FlightInv ==
    /\ build = [b \in Builds |-> build[b]]
    /\ \A k \in DOMAIN flight : flight[k] \in Builds
    /\ FlightIsTheBuilds

LEMMA StartBuildFlight ==
    ASSUME FlightInv, NEW k, NEW b \in Builds, ~InFlight(k), StartBuild(k, b)
    PROVE  FlightInv'
  <1>1. /\ build[b] = NoBuild
        /\ flight' = [x \in DOMAIN flight \cup {k} |-> IF x = k THEN b ELSE flight[x]]
        /\ build' = [build EXCEPT ![b] = [at |-> "query", key |-> k, rows |-> NoRows]]
        /\ k \notin DOMAIN flight
    BY DEF StartBuild, InFlight
  <1>2. /\ build' = [c \in Builds |-> build'[c]]
        /\ build'[b] # NoBuild /\ build'[b].key = k
        /\ \A c \in Builds : c # b => build'[c] = build[c]
    BY <1>1 DEF FlightInv, NoBuild
  <1>3. \A c \in Builds : build'[c] # NoBuild =>
            build'[c].key \in DOMAIN flight' /\ flight'[build'[c].key] = c
    BY <1>1, <1>2 DEF FlightInv, FlightIsTheBuilds, InFlight
  <1>4. \A x \in DOMAIN flight' : build'[flight'[x]] # NoBuild /\ build'[flight'[x]].key = x
    <2> TAKE x \in DOMAIN flight'
    <2>1. CASE x = k
      BY <1>1, <1>2, <2>1
    <2>2. CASE x # k
      <3>1. x \in DOMAIN flight /\ flight'[x] = flight[x]
        BY <1>1, <2>2
      <3>2. build[flight[x]] # NoBuild /\ build[flight[x]].key = x
        BY <3>1 DEF FlightInv, FlightIsTheBuilds
      <3>3. flight[x] # b
        BY <1>1, <3>2
      <3>4. build'[flight[x]] = build[flight[x]]
        BY <1>1, <3>3
      <3> QED
        BY <3>1, <3>2, <3>4
    <2> QED
      BY <2>1, <2>2
  <1>5. \A x \in DOMAIN flight' : flight'[x] \in Builds
    BY <1>1 DEF FlightInv
  <1> QED
    BY <1>2, <1>3, <1>4, <1>5 DEF FlightInv, FlightIsTheBuilds, InFlight

LEMMA SettleFlight ==
    ASSUME FlightInv, NEW b \in Builds, build[b] # NoBuild, Settle(b)
    PROVE  FlightInv'
  <1>1. /\ flight' = [k \in DOMAIN flight \ {build[b].key} |-> flight[k]]
        /\ build' = [build EXCEPT ![b] = NoBuild]
    BY DEF Settle
  <1>2. /\ build' = [c \in Builds |-> build'[c]]
        /\ build'[b] = NoBuild
        /\ \A c : c # b => build'[c] = build[c]
    BY <1>1 DEF FlightInv
  <1>3. flight[build[b].key] = b
    BY DEF FlightInv, FlightIsTheBuilds
  <1>4. \A c \in Builds : build'[c] # NoBuild =>
            build'[c].key \in DOMAIN flight' /\ flight'[build'[c].key] = c
    BY <1>1, <1>2, <1>3 DEF FlightInv, FlightIsTheBuilds, InFlight
  <1>5. \A k \in DOMAIN flight' : build'[flight'[k]] # NoBuild /\ build'[flight'[k]].key = k
    BY <1>1, <1>2 DEF FlightInv, FlightIsTheBuilds
  <1>6. \A k \in DOMAIN flight' : flight'[k] \in Builds
    BY <1>1 DEF FlightInv
  <1> QED
    BY <1>2, <1>4, <1>5, <1>6 DEF FlightInv, FlightIsTheBuilds, InFlight

LEMMA QueryAnswersFlight ==
    ASSUME Types, FlightInv, NEW b \in Builds, QueryAnswers(b)
    PROVE  FlightInv'
  <1>1. PICK r \in Record : r.at = "gzip" /\ r.key = build[b].key /\ build' = [build EXCEPT ![b] = r]
    BY AnswerRecord
  <1>2. build[b] # NoBuild /\ r # NoBuild /\ flight' = flight
    BY <1>1 DEF QueryAnswers, NoBuild
  <1>3. /\ build' = [c \in Builds |-> build'[c]]
        /\ build'[b] = r
        /\ \A c : c # b => build'[c] = build[c]
    BY <1>1 DEF FlightInv
  <1>4. \A c \in Builds : build'[c].key = build[c].key /\ (build'[c] # NoBuild <=> build[c] # NoBuild)
    BY <1>1, <1>2, <1>3
  <1> QED
    BY <1>2, <1>3, <1>4 DEF FlightInv, FlightIsTheBuilds, InFlight

LEMMA FlightInit == Init => FlightInv
  BY DEF Init, FlightInv, FlightIsTheBuilds

LEMMA FlightStep == Types /\ FlightInv /\ [Next]_vars => FlightInv'
  <1> SUFFICES ASSUME Types, FlightInv, [Next]_vars PROVE FlightInv'
    OBVIOUS
  <1>1. ASSUME UNCHANGED <<flight, build>> PROVE FlightInv'
    BY <1>1 DEF FlightInv, FlightIsTheBuilds, InFlight
  <1>2. ASSUME NEW a \in Addresses, NEW b \in Builds, Build(a, b) PROVE FlightInv'
    BY <1>2, StartBuildFlight DEF Build
  <1>3. ASSUME NEW b \in Builds, QueryAnswers(b) PROVE FlightInv'
    BY <1>3, QueryAnswersFlight
  <1>4. ASSUME NEW b \in Builds,
               QueryFails(b) \/ QueryTooLarge(b) \/ WaitTooLong(b)
                 \/ Compressed(b) \/ ResponseFails(b)
        PROVE FlightInv'
    <2>1. Settle(b) /\ build[b].at # "none"
      BY <1>4 DEF QueryFails, QueryTooLarge, WaitTooLong, Compressed, ResponseFails
    <2> QED
      BY <2>1, SettleFlight, NoBuildIsNone
  <1>5. ASSUME NEW a \in Addresses, NewEvent(a) \/ Answer(a) \/ Refuse(a) PROVE UNCHANGED <<flight, build>>
    BY <1>5 DEF NewEvent, Answer, Refuse
  <1>6. CASE Retarget \/ ReadStatus \/ LearnStatus \/ MissStatus \/ Age \/ ForgetTooLarge \/ UNCHANGED vars
    BY <1>1, <1>6 DEF Retarget, ReadStatus, LearnStatus, MissStatus, Age, ForgetTooLarge, vars
  <1>7. ASSUME NEW v \in Versions, StartSwitch(v) PROVE FlightInv'
    BY <1>1, <1>7 DEF StartSwitch
  <1> QED
    BY <1>1, <1>2, <1>3, <1>4, <1>5, <1>6, <1>7 DEF Next

\* Concurrent lookups share a build, and a key is taken exactly while its build is in
\* progress, for any number of accounts, versions and builds, rollbacks included.
THEOREM FlightSound == Spec => []FlightIsTheBuilds
  <1>1. Types /\ FlightInv /\ [Next]_vars => (Types /\ FlightInv)'
    BY TypesStep, FlightStep
  <1>2. FlightInv => FlightIsTheBuilds
    BY DEF FlightInv
  <1> QED
    BY TypesInit, FlightInit, <1>1, <1>2, PTL DEF Spec

-----------------------------------------------------------------------------
(* The cache's steps keep what they do not store: each entry was there, or *)
(* is the one that is set.                                                 *)


\* t is s without its i-th element.
IsWithout(t, s, i) ==
    /\ Len(t) = Len(s) - 1
    /\ \A n \in 1..(Len(s) - 1) : t[n] = IF n < i THEN s[n] ELSE s[n + 1]

\* Where the n-th element stood before the i-th one was taken out.
At(n, i) == IF n < i THEN n ELSE n + 1

LEMMA RemovedAt ==
    ASSUME NEW S, NEW s \in Seq(S), NEW i \in 1..Len(s), NEW t, t = RemoveAt(s, i)
    PROVE  t \in Seq(S) /\ IsWithout(t, s, i)
  <1> DEFINE before == SubSeq(s, 1, i - 1)
             after == SubSeq(s, i + 1, Len(s))
  <1>1. t = before \o after
    BY DEF RemoveAt
  <1>2. PICK l \in Nat : l = Len(s)
    OBVIOUS
  <1>3. i \in 1..l /\ i - 1 \in Nat /\ l - i \in Nat /\ (i - 1) + (l - i) = l - 1
    BY <1>2
  <1>a. /\ before \in Seq(S) /\ Len(before) = i - 1
        /\ \A n \in 1..(i - 1) : before[n] = s[n]
    BY <1>2, <1>3
  <1>b. /\ after \in Seq(S) /\ Len(after) = l - i
        /\ \A n \in 1..(l - i) : after[n] = s[i + n]
    BY <1>2, <1>3
  <1> HIDE DEF before, after
  <1>4. /\ t \in Seq(S) /\ Len(t) = l - 1
        /\ \A n \in 1..(l - 1) : t[n] = IF n <= i - 1 THEN before[n] ELSE after[n - (i - 1)]
    <2>1. /\ before \o after \in Seq(S)
          /\ Len(before \o after) = Len(before) + Len(after)
          /\ \A n \in 1..(Len(before) + Len(after)) :
               (before \o after)[n] = IF n <= Len(before) THEN before[n] ELSE after[n - Len(before)]
      BY ONLY <1>a, <1>b, ConcatProperties
    <2>2. Len(before) + Len(after) = l - 1 /\ Len(before) = i - 1
      BY <1>3, <1>a, <1>b
    <2> QED
      BY ONLY <1>1, <2>1, <2>2, Zenon
  <1>5. ASSUME NEW n \in 1..(l - 1) PROVE t[n] = IF n < i THEN s[n] ELSE s[n + 1]
    <2>1. CASE n < i
      <3>1. n <= i - 1 /\ n \in 1..(i - 1)
        BY <1>3, <2>1
      <3>2. t[n] = before[n]
        BY <1>4, <3>1
      <3> QED
        BY <1>a, <2>1, <3>1, <3>2
    <2>2. CASE ~(n < i)
      <3>1. ~(n <= i - 1) /\ n - (i - 1) \in 1..(l - i) /\ i + (n - (i - 1)) = n + 1
        BY <1>3, <2>2
      <3>2. t[n] = after[n - (i - 1)]
        BY <1>4, <3>1
      <3>3. after[n - (i - 1)] = s[i + (n - (i - 1))]
        BY <1>b, <3>1
      <3> QED
        BY <2>2, <3>1, <3>2, <3>3
    <2> QED
      BY <2>1, <2>2
  <1> QED
    BY <1>2, <1>4, <1>5 DEF IsWithout

LEMMA WithoutKeeps ==
    ASSUME NEW S, entries \in Seq(S), NEW k
    PROVE  /\ Cache!Without(k) \in Seq(S)
           /\ \A n \in DOMAIN Cache!Without(k) : \E m \in DOMAIN entries : Cache!Without(k)[n] = entries[m]
  <1>1. CASE ~Cache!Has(k)
    BY <1>1 DEF Cache!Without
  <1>2. CASE Cache!Has(k)
    <2>1. Cache!PlaceOf(k) \in 1..Len(entries)
      BY <1>2 DEF Cache!Has, Cache!PlaceOf
    <2>2. PICK i \in 1..Len(entries) : i = Cache!PlaceOf(k)
      BY <2>1
    <2>3. PICK s \in Seq(S) : s = entries
      OBVIOUS
    <2>4. PICK r : r = Cache!Without(k)
      OBVIOUS
    <2>5. r \in Seq(S) /\ \A n \in 1..Len(r) : \E m \in 1..Len(entries) : r[n] = entries[m]
      <3>1. r = RemoveAt(s, i) /\ i \in 1..Len(s)
        BY <1>2, <2>2, <2>3, <2>4 DEF Cache!Without, Cache!RemoveAt, RemoveAt
      <3>2. r \in Seq(S) /\ IsWithout(r, s, i)
        BY ONLY <3>1, s \in Seq(S), RemovedAt
      <3>3. ASSUME NEW n \in 1..Len(r) PROVE \E m \in 1..Len(s) : r[n] = s[m]
        <4>1. n \in 1..(Len(s) - 1) /\ Len(s) \in Nat
          BY <3>2 DEF IsWithout
        <4>2. n \in 1..Len(s) /\ n + 1 \in 1..Len(s)
          BY <4>1
        <4> QED
          BY <3>2, <4>1, <4>2 DEF IsWithout
      <3> QED
        BY ONLY <2>3, <3>2, <3>3, Zenon
    <2>6. DOMAIN r = 1..Len(r) /\ DOMAIN entries = 1..Len(entries)
      BY <2>5
    <2> QED
      BY ONLY <2>4, <2>5, <2>6, Zenon
  <1> QED
    BY <1>1, <1>2

Cached == entries \in Seq(Cache!Entry)

LEMMA GetKeeps ==
    ASSUME Cached, NEW k, Cache!Get(k)
    PROVE  Cached' /\ \A i \in DOMAIN entries' : \E j \in DOMAIN entries : entries'[i] = entries[j]
  <1>1. CASE UNCHANGED entries
    BY <1>1 DEF Cached
  <1>2. CASE entries' = Cache!Without(k)
    BY <1>2, WithoutKeeps DEF Cached
  <1>3. CASE Cache!Has(k) /\ entries' = Append(Cache!Without(k), Cache!EntryOf(k))
    <2>1. Cache!PlaceOf(k) \in DOMAIN entries
      BY <1>3 DEF Cache!Has, Cache!PlaceOf
    <2>2. PICK p \in DOMAIN entries : Cache!EntryOf(k) = entries[p]
      BY <2>1 DEF Cache!EntryOf
    <2>3. PICK r : r = Cache!Without(k)
      OBVIOUS
    <2>4. r \in Seq(Cache!Entry) /\ \A n \in DOMAIN r : \E m \in DOMAIN entries : r[n] = entries[m]
      BY <2>3, WithoutKeeps DEF Cached
    <2>5. entries[p] \in Cache!Entry
      BY <2>2 DEF Cached
    <2>6. entries' = Append(r, entries[p])
      BY <1>3, <2>2, <2>3
    <2>7. /\ entries' \in Seq(Cache!Entry)
          /\ DOMAIN r = 1..Len(r) /\ DOMAIN entries' = 1..(Len(r) + 1)
          /\ \A n \in 1..Len(r) : entries'[n] = r[n]
          /\ entries'[Len(r) + 1] = entries[p]
      BY <2>4, <2>5, <2>6
    <2>8. \A i \in DOMAIN entries' : i \in DOMAIN r \/ i = Len(r) + 1
      BY <2>4, <2>7
    <2> QED
      BY <2>2, <2>4, <2>7, <2>8 DEF Cached
  <1> QED
    BY <1>1, <1>2, <1>3 DEF Cache!Get, Cache!vars

LEMMA SetKeeps ==
    ASSUME Cached, NEW k \in Keys, NEW value \in Timelines, NEW bytes \in Nat, Cache!Set(k, value, bytes)
    PROVE  /\ Cached'
           /\ \A i \in DOMAIN entries' :
                \/ entries'[i].key = k /\ entries'[i].value = value
                \/ \E j \in DOMAIN entries : entries'[i] = entries[j]
  <1>1. CASE entries' = Cache!Without(k)
    BY <1>1, WithoutKeeps DEF Cached
  <1>2. CASE Cache!Store(k, value, bytes)
    <2>1. PICK r : r = Cache!Without(k)
      OBVIOUS
    <2>2. r \in Seq(Cache!Entry) /\ \A n \in DOMAIN r : \E m \in DOMAIN entries : r[n] = entries[m]
      BY <2>1, WithoutKeeps DEF Cached
    <2>3. PICK e : e = [key |-> k, value |-> value, bytes |-> bytes, life |-> "fresh"]
      OBVIOUS
    <2>4. e \in Cache!Entry /\ e.key = k /\ e.value = value
      BY <2>3 DEF Cache!Entry, Cache!Lives
    <2>5. PICK all : all = Append(r, e)
      OBVIOUS
    <2>6. PICK evicted \in 0..Len(all) : entries' = SubSeq(all, evicted + 1, Len(all))
      BY <1>2, <2>1, <2>3, <2>5 DEF Cache!Store
    <2>7. /\ all \in Seq(Cache!Entry) /\ Len(all) = Len(r) + 1 /\ Len(r) \in Nat
          /\ \A n \in 1..Len(r) : all[n] = r[n]
          /\ all[Len(r) + 1] = e
      BY <2>2, <2>4, <2>5
    <2>8. /\ entries' \in Seq(Cache!Entry)
          /\ DOMAIN entries' = 1..(Len(all) - evicted)
          /\ \A i \in 1..(Len(all) - evicted) : entries'[i] = all[evicted + i]
      BY <2>6, <2>7
    <2>9. \A i \in DOMAIN entries' : evicted + i \in 1..Len(r) \/ evicted + i = Len(r) + 1
      <3>1. PICK n \in Nat : n = Len(r)
        BY <2>7
      <3>2. evicted \in 0..(n + 1) /\ DOMAIN entries' = 1..(n + 1 - evicted)
        BY <2>7, <2>8, <3>1
      <3>3. ASSUME NEW i \in 1..(n + 1 - evicted)  PROVE evicted + i \in 1..n \/ evicted + i = n + 1
        BY ONLY <3>2
      <3> QED  BY <3>1, <3>2, <3>3
    <2>10. DOMAIN r = 1..Len(r)
      BY <2>2
    <2>11. \A i \in DOMAIN entries' : entries'[i] = all[evicted + i]
      BY <2>8
    <2>12. Cached'
      BY <2>8 DEF Cached, Cache!Entry, Cache!Lives
    <2>13. ASSUME NEW i \in DOMAIN entries' PROVE entries'[i] = e \/ \E n \in DOMAIN r : entries'[i] = r[n]
      BY ONLY <2>7, <2>9, <2>10, <2>11, <2>13, Zenon
    <2> QED
      BY <2>2, <2>4, <2>12, <2>13
  <1> QED
    BY <1>1, <1>2 DEF Cache!Set

LEMMA AgeKeeps ==
    ASSUME Cached, Cache!Age
    PROVE  /\ Cached'
           /\ DOMAIN entries' = DOMAIN entries
           /\ \A i \in DOMAIN entries' :
                entries'[i].key = entries[i].key /\ entries'[i].value = entries[i].value
  <1>a. PICK i \in DOMAIN entries : \E life \in Cache!NextLives(entries[i].life) :
            entries' = [entries EXCEPT ![i].life = life]
    BY DEF Cache!Age
  <1>1. PICK life \in Cache!NextLives(entries[i].life) : entries' = [entries EXCEPT ![i].life = life]
    BY <1>a
  <1>2. entries[i] \in Cache!Entry
    BY DEF Cached
  <1>3. life \in Cache!Lives
    BY <1>1, <1>2 DEF Cache!NextLives, Cache!Lives, Cache!Entry
  <1>4. [entries[i] EXCEPT !.life = life] \in Cache!Entry
    BY <1>2, <1>3 DEF Cache!Entry
  <1>5. [entries[i] EXCEPT !.life = life].key = entries[i].key
        /\ [entries[i] EXCEPT !.life = life].value = entries[i].value
    BY <1>2 DEF Cache!Entry
  <1>6. entries' = [entries EXCEPT ![i] = [entries[i] EXCEPT !.life = life]]
    BY <1>1
  <1> QED
    BY <1>4, <1>5, <1>6 DEF Cached

-----------------------------------------------------------------------------
(* Versions, while no switch goes back.                                    *)

\* A switch retargets the timeline's view before the status view, and the API knows at
\* most what the status view has said.
ViewsInOrder ==
    /\ view["api_status"] <= view["user_timeline_api"]
    /\ view["user_timeline_api"] <= target
    /\ place >= 1 => view["user_timeline_api"] = target

KnowsNoMore ==
    /\ known <= view["api_status"]
    /\ reading <= view["api_status"]
    /\ reading # NoVersion => known <= reading

\* A build's key is of a version known by now, and its rows are no older than the key.
BuildsInOrder ==
    \A b \in Builds : build[b].at # "none" =>
        /\ build[b].key[1] <= known
        /\ build[b].at = "gzip" => build[b].key[1] <= build[b].rows.from /\ build[b].rows \in Timelines

\* The events a build reads are within their bound, so its rows are a Timelines.
EventsBounded == events \in [Addresses -> 0..MaxEvents]

VersionInv ==
    Types /\ EventsBounded /\ Cached /\ ViewsInOrder /\ KnowsNoMore /\ BuildsInOrder /\ HoldsItsVersion

LEMMA VersionInit == Init => VersionInv
  <1> SUFFICES ASSUME Init PROVE VersionInv
    OBVIOUS
  <1>1. Types
    BY TypesInit
  <1>2. \A name \in {"user_timeline_api", "api_status"} : view[name] = target
    BY Views DEF Init
  <1>3. ViewsInOrder /\ KnowsNoMore
    BY <1>1, <1>2 DEF Init, ViewsInOrder, KnowsNoMore, NoVersion, Types
  <1>4. BuildsInOrder
    BY DEF Init, BuildsInOrder, NoBuild
  <1>5. Cached /\ HoldsItsVersion
    BY DEF Init, Cached, HoldsItsVersion, Cache!Init
  <1>6. EventsBounded
    BY DEF Init, EventsBounded
  <1> QED
    BY <1>1, <1>3, <1>4, <1>5, <1>6 DEF VersionInv

\* A lookup moves entries about and adds none.
LEMMA LookHolds ==
    ASSUME VersionInv, NEW a \in Addresses, Look(a)
    PROVE  Cached' /\ HoldsItsVersion'
  <1>1. Cached' /\ \A i \in DOMAIN entries' : \E j \in DOMAIN entries : entries'[i] = entries[j]
    BY GetKeeps DEF VersionInv, Look
  <1> QED
    BY <1>1 DEF VersionInv, HoldsItsVersion

\* What the steps of a lookup or a build leave alone.
LEMMA RestHolds ==
    ASSUME VersionInv, UNCHANGED <<clickhouse, status>>
    PROVE  EventsBounded' /\ ViewsInOrder' /\ KnowsNoMore'
  BY DEF VersionInv, EventsBounded, ViewsInOrder, KnowsNoMore, clickhouse, status

LEMMA BuildStepHolds ==
    ASSUME VersionInv, NEW a \in Addresses, NEW b \in Builds, Build(a, b)
    PROVE  VersionInv'
  <1>1. UNCHANGED <<clickhouse, status>>
    BY DEF Build, Look
  <1>2. build' = [build EXCEPT ![b] = [at |-> "query", key |-> KeyOf(a), rows |-> NoRows]]
    BY DEF Build, StartBuild
  <1>3. KeyOf(a)[1] = known /\ known \in Nat
    BY DEF KeyOf, VersionInv, Types, NoVersion
  <1>4. BuildsInOrder'
    BY <1>1, <1>2, <1>3 DEF VersionInv, Types, BuildsInOrder, status
  <1>5. Types'
    BY <1>1, TypesStart DEF Build, VersionInv
  <1> QED
    BY <1>1, <1>4, <1>5, LookHolds, RestHolds DEF Build, VersionInv

LEMMA QueryAnswersHolds ==
    ASSUME VersionInv, NEW b \in Builds, QueryAnswers(b)
    PROVE  VersionInv'
  <1>1. UNCHANGED <<clickhouse, status>> /\ UNCHANGED entries
    BY DEF QueryAnswers, cache
  <1>2. PICK r : r = [at |-> "gzip", key |-> build[b].key,
                      rows |-> [from |-> view["user_timeline_api"],
                                events |-> events[AddressOf(build[b].key)]]]
    OBVIOUS
  <1>3. build' = [build EXCEPT ![b] = r]
    BY <1>2 DEF QueryAnswers
  <1>4. build[b].at = "query" /\ build[b].key \in Keys /\ build[b].key[1] <= known
    BY DEF QueryAnswers, VersionInv, Types, BuildsInOrder
  <1>5. AddressOf(build[b].key) \in Addresses /\ build[b].key[1] \in Nat
    BY <1>4, KeyNumbers DEF AddressOf
  <1>6. r.at = "gzip" /\ r.key = build[b].key /\ r.rows.from = view["user_timeline_api"]
    BY <1>2
  <1>7. r.rows \in Timelines
    BY <1>2, <1>5 DEF VersionInv, EventsBounded, Types, Timelines
  <1>8. build[b].key[1] <= view["user_timeline_api"]
    <2>1. view["user_timeline_api"] \in Nat /\ view["api_status"] \in Nat /\ known \in Nat
      BY TypesNumbers DEF VersionInv
    <2>2. known <= view["api_status"] /\ view["api_status"] <= view["user_timeline_api"]
      BY DEF VersionInv, ViewsInOrder, KnowsNoMore
    <2> QED
      BY <1>4, <1>5, <2>1, <2>2
  <1>9. BuildsInOrder'
    BY <1>1, <1>3, <1>4, <1>6, <1>7, <1>8 DEF VersionInv, Types, BuildsInOrder, status
  <1>10. Types'
    BY TypesStep DEF VersionInv, Next
  <1>11. Cached' /\ HoldsItsVersion'
    BY <1>1 DEF VersionInv, Cached, HoldsItsVersion
  <1> QED
    BY <1>1, <1>9, <1>10, <1>11, RestHolds DEF VersionInv

LEMMA SettleHolds ==
    ASSUME VersionInv, UNCHANGED <<clickhouse, status>>, NEW b \in Builds, Settle(b)
    PROVE  Types' /\ BuildsInOrder'
  <1>1. build' = [build EXCEPT ![b] = NoBuild]
    BY DEF Settle
  <1>2. BuildsInOrder'
    BY <1>1, NoBuildIsNone DEF VersionInv, Types, BuildsInOrder, status
  <1> QED
    BY <1>2, TypesSettle DEF VersionInv

LEMMA FailureHolds ==
    ASSUME VersionInv, NEW b \in Builds,
           QueryFails(b) \/ QueryTooLarge(b) \/ WaitTooLong(b) \/ ResponseFails(b)
    PROVE  VersionInv'
  <1>1. UNCHANGED <<clickhouse, status>> /\ UNCHANGED entries /\ Settle(b)
    BY DEF QueryFails, QueryTooLarge, WaitTooLong, ResponseFails, cache
  <1>2. Cached' /\ HoldsItsVersion'
    BY <1>1 DEF VersionInv, Cached, HoldsItsVersion
  <1> QED
    BY <1>1, <1>2, SettleHolds, RestHolds DEF VersionInv

LEMMA CompressedHolds ==
    ASSUME VersionInv, NEW b \in Builds, Compressed(b)
    PROVE  VersionInv'
  <1>1. UNCHANGED <<clickhouse, status>> /\ Settle(b) /\ build[b].at = "gzip"
    BY DEF Compressed
  <1>2. PICK bytes \in Sizes : Cache!Set(build[b].key, build[b].rows, bytes)
    BY DEF Compressed
  <1>3. /\ build[b].key \in Keys
        /\ build[b].rows \in Timelines
        /\ build[b].key[1] <= build[b].rows.from
    BY <1>1 DEF VersionInv, Types, BuildsInOrder
  <1>4. /\ Cached'
        /\ \A i \in DOMAIN entries' :
             \/ entries'[i].key = build[b].key /\ entries'[i].value = build[b].rows
             \/ \E j \in DOMAIN entries : entries'[i] = entries[j]
    BY <1>2, <1>3, SetKeeps DEF VersionInv
  <1>5. HoldsItsVersion'
    BY <1>3, <1>4 DEF VersionInv, HoldsItsVersion
  <1> QED
    BY <1>1, <1>4, <1>5, SettleHolds, RestHolds DEF VersionInv

LEMMA SwitchHolds ==
    ASSUME VersionInv, ~Rollbacks, (\E v \in Versions : StartSwitch(v)) \/ Retarget
    PROVE  VersionInv'
  <1>1. /\ UNCHANGED <<status, entries, build, events>>
        /\ view["api_status"] \in Nat /\ view["user_timeline_api"] \in Nat /\ target \in Nat
        /\ known \in Nat /\ reading \in Nat
    <2>1. UNCHANGED <<status, entries, build, events>>
      BY DEF StartSwitch, Retarget, cache
    <2> QED
      BY <2>1, TypesNumbers DEF VersionInv
  <1>2. Types'
    BY TypesStep DEF VersionInv, Next
  <1>3. Cached' /\ HoldsItsVersion' /\ EventsBounded'
    BY <1>1 DEF VersionInv, Cached, HoldsItsVersion, EventsBounded
  <1>4. BuildsInOrder'
    BY <1>1 DEF VersionInv, BuildsInOrder, status
  <1>5. ViewsInOrder' /\ KnowsNoMore'
    <2>1. ASSUME NEW v \in Versions, StartSwitch(v) PROVE ViewsInOrder' /\ KnowsNoMore'
      <3>1. v > target /\ v \in Nat /\ target' = v /\ place' = 0 /\ view' = view
        BY <2>1 DEF StartSwitch
      <3> QED
        BY <1>1, <3>1 DEF VersionInv, ViewsInOrder, KnowsNoMore, status
    <2>2. CASE Retarget /\ place = 0
      <3>0. place' = 1 /\ ApiViews[place'] = "user_timeline_api"
        BY <2>2, Views DEF Retarget
      <3>1. target' = target /\ place' = 1 /\ view' = [view EXCEPT !["user_timeline_api"] = target]
        BY <2>2, <3>0 DEF Retarget
      <3>2. view'["user_timeline_api"] = target /\ view'["api_status"] = view["api_status"]
        BY <3>1 DEF VersionInv, Types
      <3> QED
        BY <1>1, <3>1, <3>2 DEF VersionInv, ViewsInOrder, KnowsNoMore, status
    <2>3. CASE Retarget /\ place # 0
      <3>1. place = 1 /\ place' = 2 /\ target' = target
        BY <2>3, Views DEF Retarget, VersionInv, Types
      <3>2. view' = [view EXCEPT !["api_status"] = target]
        BY <2>3, <3>1, Views DEF Retarget
      <3>3. view'["api_status"] = target /\ view'["user_timeline_api"] = view["user_timeline_api"]
        BY <3>2 DEF VersionInv, Types
      <3>4. view["user_timeline_api"] = target
        BY <3>1 DEF VersionInv, ViewsInOrder
      <3> QED
        BY <1>1, <3>1, <3>3, <3>4 DEF VersionInv, ViewsInOrder, KnowsNoMore, status
    <2> QED
      BY <2>1, <2>2, <2>3
  <1> QED
    BY <1>2, <1>3, <1>4, <1>5 DEF VersionInv

LEMMA StatusHolds ==
    ASSUME VersionInv, ReadStatus \/ LearnStatus \/ MissStatus
    PROVE  VersionInv' /\ known <= known'
  <1>1. /\ UNCHANGED <<clickhouse, entries, build>>
        /\ view["api_status"] \in Nat
        /\ known \in Nat /\ reading \in Nat
    <2>1. UNCHANGED <<clickhouse, entries, build>>
      BY DEF ReadStatus, LearnStatus, MissStatus, cache
    <2> QED
      BY <2>1, TypesNumbers DEF VersionInv
  <1>2. Types'
    BY TypesStep DEF VersionInv, Next
  <1>3. Cached' /\ HoldsItsVersion' /\ EventsBounded' /\ ViewsInOrder'
    BY <1>1 DEF VersionInv, Cached, HoldsItsVersion, EventsBounded, ViewsInOrder, clickhouse
  <1>4. KnowsNoMore' /\ known <= known' /\ known' \in Nat
    <2>1. view' = view
      BY <1>1 DEF clickhouse
    <2>2. CASE ReadStatus
      BY <1>1, <2>1, <2>2 DEF VersionInv, KnowsNoMore, ReadStatus, NoVersion
    <2>3. CASE LearnStatus
      BY <1>1, <2>1, <2>3 DEF VersionInv, KnowsNoMore, LearnStatus, NoVersion
    <2>4. CASE MissStatus
      BY <1>1, <2>1, <2>4 DEF VersionInv, KnowsNoMore, MissStatus, NoVersion
    <2> QED
      BY <2>2, <2>3, <2>4
  <1>5. BuildsInOrder'
    <2>1. ASSUME NEW b \in Builds, build[b].at # "none" PROVE build[b].key[1] \in Nat
      <3>1. build[b].key \in Keys
        BY <2>1 DEF VersionInv, Types
      <3> QED
        BY <3>1, KeyNumbers
    <2> QED
      BY <1>1, <1>4, <2>1 DEF VersionInv, BuildsInOrder
  <1> QED
    BY <1>2, <1>3, <1>4, <1>5 DEF VersionInv

LEMMA VersionStep ==
    ASSUME ~Rollbacks, VersionInv, [Next]_vars
    PROVE  VersionInv'
  <1>1. ASSUME NEW a \in Addresses, NewEvent(a) PROVE VersionInv'
    <2>1. /\ UNCHANGED <<view, target, place, status, entries, build>>
          /\ events' = [events EXCEPT ![a] = events[a] + 1] /\ events[a] < MaxEvents
      BY <1>1 DEF NewEvent, cache
    <2>2. EventsBounded'
      <3>1. events \in [Addresses -> 0..MaxEvents]
        BY DEF VersionInv, EventsBounded
      <3>2. events[a] + 1 \in 0..MaxEvents
        BY <2>1, <3>1
      <3> QED
        BY <2>1, <3>1, <3>2 DEF EventsBounded
    <2>3. Types'
      BY <1>1, TypesStep DEF VersionInv, Next
    <2> QED
      BY <2>1, <2>2, <2>3
         DEF VersionInv, Cached, ViewsInOrder, KnowsNoMore, BuildsInOrder, HoldsItsVersion, status
  <1>2. ASSUME NEW a \in Addresses, Answer(a) \/ Refuse(a) PROVE VersionInv'
    <2>1. Look(a) /\ UNCHANGED <<clickhouse, status>> /\ build' = build
      BY <1>2 DEF Answer, Refuse, Look
    <2>2. Types'
      BY <1>2, TypesStep DEF VersionInv, Next
    <2>3. BuildsInOrder'
      BY <2>1 DEF VersionInv, BuildsInOrder, status
    <2> QED
      BY <2>1, <2>2, <2>3, LookHolds, RestHolds DEF VersionInv
  <1>3. CASE Age
    <2>1. UNCHANGED <<clickhouse, status>> /\ build' = build /\ Cache!Age
      BY <1>3 DEF Age
    <2>2. Cached' /\ HoldsItsVersion'
      BY <2>1, AgeKeeps DEF VersionInv, HoldsItsVersion
    <2>3. Types' /\ BuildsInOrder'
      BY <1>3, <2>1, TypesStep DEF VersionInv, Next, BuildsInOrder, status
    <2> QED
      BY <2>1, <2>2, <2>3, RestHolds DEF VersionInv
  <1>4. CASE ForgetTooLarge \/ UNCHANGED vars
    <2>1. UNCHANGED <<clickhouse, status>> /\ build' = build /\ entries' = entries
      BY <1>4 DEF ForgetTooLarge, vars, cache
    <2>2. Types' /\ BuildsInOrder' /\ Cached' /\ HoldsItsVersion'
      BY <1>4, <2>1, TypesStep DEF VersionInv, Next, BuildsInOrder, Cached, HoldsItsVersion, status
    <2> QED
      BY <2>1, <2>2, RestHolds DEF VersionInv
  <1> QED
    BY <1>1, <1>2, <1>3, <1>4, BuildStepHolds, QueryAnswersHolds, FailureHolds, CompressedHolds,
       SwitchHolds, StatusHolds DEF Next

\* While switches only go to newer versions, what the API has cached under a version was
\* read from it or from a newer one: for any accounts, cache, limits and bounds, and though
\* a switch may stop between its views.
THEOREM VersionsHold ==
    ASSUME ~Rollbacks
    PROVE  Spec => []HoldsItsVersion
  <1>1. Init => VersionInv
    BY VersionInit
  <1>2. VersionInv /\ [Next]_vars => VersionInv'
    BY VersionStep
  <1>3. VersionInv => HoldsItsVersion
    BY DEF VersionInv
  <1> QED
    BY <1>1, <1>2, <1>3, PTL DEF Spec

\* And so, when the API learns that a switch was made, it has nothing cached of the version
\* before: what it may serve under the new version is of the new version or a later one.
THEOREM SwitchServesNothingOld ==
    ASSUME ~Rollbacks
    PROVE  Spec => NothingOfPrevious
  <1>1. Init => VersionInv
    BY VersionInit
  <1>2. VersionInv /\ [Next]_vars => VersionInv'
    BY VersionStep
  <1> DEFINE Served(a) == Servable(KeyOf(a))' => Cache!EntryOf(KeyOf(a))'.value.from # known
             Step == (known' # known /\ known # NoVersion) => \A a \in Addresses : Served(a)
  <1>3. VersionInv /\ VersionInv' /\ [Next]_vars => [Step]_vars
    <2> SUFFICES ASSUME VersionInv, VersionInv', Next, known' # known, NEW a \in Addresses, Servable(KeyOf(a))'
                 PROVE  Cache!EntryOf(KeyOf(a))'.value.from # known
      OBVIOUS
    <2>1. CASE LearnStatus
      <3>1. known < known' /\ known \in Nat /\ known' \in Nat
        BY <2>1, StatusHolds DEF VersionInv, Types, NoVersion
      <3>2. PICK p \in DOMAIN entries' : entries'[p].key = KeyOf(a)' /\ Cache!EntryOf(KeyOf(a))' = entries'[p]
        BY DEF Servable, Cache!LifeOf, Cache!Has, Cache!EntryOf, Cache!PlaceOf
      <3>3. entries'[p].key[1] = known'
        BY <3>2 DEF KeyOf
      <3>4. entries'[p].value.from >= known'
        BY <3>2, <3>3 DEF VersionInv, HoldsItsVersion
      <3>5. entries'[p] \in Cache!Entry
        BY <3>2 DEF VersionInv, Cached
      <3>6. entries'[p].value.from \in Nat
        BY <3>5, Numbers DEF Cache!Entry, Timelines
      <3> QED
        BY <3>1, <3>2, <3>4, <3>6
    <2>2. CASE known' = known
      BY <2>2
    <2> QED
      BY <2>1, <2>2 DEF Next, NewEvent, Answer, Refuse, Look, Build, QueryAnswers, QueryFails,
         QueryTooLarge, WaitTooLong, Compressed, ResponseFails, StartSwitch, Retarget, ReadStatus, MissStatus,
         Age, ForgetTooLarge, status
  <1> QED
    BY <1>1, <1>2, <1>3, PTL DEF Spec, NothingOfPrevious

-----------------------------------------------------------------------------
(* The bytes of the cache's entries: a sum over a sequence.                *)

\* Any set of natural numbers that is not empty has a least one: the order of the natural
\* numbers is well-founded.
LEMMA LeastNumber ==
    ASSUME NEW S \in SUBSET Nat, S # {}
    PROVE  \E x \in S : \A y \in S : x <= y
  <1> DEFINE less == OpToRel(<, Nat)
  <1>1. PICK x \in S : \A y \in S : ~(<<y, x>> \in less)
    BY NatLessThanWellFounded, WFMin
  <1>2. less = {pair \in Nat \X Nat : pair[1] < pair[2]}
    BY DEF OpToRel
  <1> HIDE DEF less
  <1>3. \A m, n \in Nat : m < n => <<m, n>> \in less
    BY <1>2
  <1>4. \A m, n \in Nat : ~(m < n) => n <= m
    OBVIOUS
  <1> QED
    BY <1>1, <1>3, <1>4

\* A running sum of the bytes of s.
Sums(s, f) ==
    /\ f \in [0..Len(s) -> Int]
    /\ f[0] = 0
    /\ \A n \in 1..Len(s) : f[n] = f[n - 1] + s[n].bytes

Sized(s) == Len(s) \in Nat /\ \A n \in 1..Len(s) : s[n].bytes \in Int

LEMMA SumsAlike ==
    ASSUME NEW s, Sized(s), NEW f, NEW g, Sums(s, f), Sums(s, g), NEW n \in 0..Len(s)
    PROVE  f[n] = g[n]
  <1> DEFINE Bad == {m \in 0..Len(s) : f[m] # g[m]}
  <1>1. SUFFICES ASSUME Bad # {} PROVE FALSE
    OBVIOUS
  <1>2. PICK m \in Bad : \A k \in Bad : m <= k
    <2>1. Bad \in SUBSET Nat
      BY DEF Sized
    <2> QED
      BY ONLY <1>1, <2>1, LeastNumber
  <1>3. m # 0 /\ m \in 0..Len(s) /\ Len(s) \in Nat
    BY DEF Sums, Sized
  <1>4. m - 1 \in 0..Len(s) /\ m - 1 \notin Bad /\ m \in 1..Len(s)
    BY <1>2, <1>3
  <1> QED
    BY <1>4 DEF Sums

LEMMA SumsExist == ASSUME NEW s, Sized(s) PROVE \E f : Sums(s, f)
  <1> DEFINE Upto(m, f) == /\ f \in [0..m -> Int]
                           /\ f[0] = 0
                           /\ \A n \in 1..m : f[n] = f[n - 1] + s[n].bytes
             Bad == {m \in 0..Len(s) : ~\E f : Upto(m, f)}
  <1>1. SUFFICES ASSUME Bad # {} PROVE FALSE
    <2>1. Len(s) \in 0..Len(s)
      BY DEF Sized
    <2>2. Bad = {} => \E f : Upto(Len(s), f)
      BY ONLY <2>1, Zenon
    <2> QED
      BY <2>2 DEF Sums
  <1>2. PICK m \in Bad : \A k \in Bad : m <= k
    <2>1. Bad \in SUBSET Nat
      BY DEF Sized
    <2> QED
      BY ONLY <1>1, <2>1, LeastNumber
  <1>3. m \in 0..Len(s) /\ Len(s) \in Nat
    BY DEF Sized
  <1>4. CASE m = 0
    <2>1. Upto(0, [i \in 0..0 |-> 0])
      OBVIOUS
    <2> QED
      BY <1>4, <2>1
  <1>5. CASE m # 0
    <2>1. m - 1 \in 0..Len(s) /\ m \in 1..Len(s) /\ ~(m <= m - 1)
      BY <1>3, <1>5
    <2>2. PICK f : Upto(m - 1, f)
      BY <1>2, <2>1
    <2> DEFINE g == [i \in 0..m |-> IF i = m THEN f[m - 1] + s[m].bytes ELSE f[i]]
    <2>3. m \in Nat /\ m # 0 /\ s[m].bytes \in Int /\ f \in [0..(m - 1) -> Int]
      BY <1>3, <1>5, <2>1, <2>2 DEF Sized
    <2>4. g \in [0..m -> Int]
      BY <2>3
    <2>5. g[0] = 0 /\ \A n \in 1..m : g[n] = g[n - 1] + s[n].bytes
      BY <2>2, <2>3
    <2> QED
      BY <2>4, <2>5
  <1> QED
    BY <1>4, <1>5

\* The sum is what any running sum ends in.
LEMMA BytesAre == ASSUME NEW s, Sized(s), NEW f, Sums(s, f) PROVE Cache!Bytes(s) = f[Len(s)]
  <1> DEFINE Defines(g) == g = [n \in 0..Len(s) |-> IF n = 0 THEN 0 ELSE g[n - 1] + s[n].bytes]
  <1>1. Cache!Bytes(s) = (CHOOSE g : Defines(g))[Len(s)]
    BY DEF Cache!Bytes
  <1>2. Defines(f)
    <2>1. \A n \in 0..Len(s) : n = 0 \/ n \in 1..Len(s)
      BY DEF Sized
    <2> QED
      BY <2>1 DEF Sums
  <1>3. PICK g : g = CHOOSE h : Defines(h)
    OBVIOUS
  <1>4. Defines(g)
    BY <1>2, <1>3
  <1>5. g \in [0..Len(s) -> Int]
    <2> DEFINE Bad == {n \in 0..Len(s) : g[n] \notin Int}
    <2>1. SUFFICES ASSUME Bad # {} PROVE FALSE
      BY <1>4
    <2>2. PICK m \in Bad : \A k \in Bad : m <= k
      <3>1. Bad \in SUBSET Nat
        BY DEF Sized
      <3> QED
        BY ONLY <2>1, <3>1, LeastNumber
    <2>3. m \in 0..Len(s) /\ Len(s) \in Nat
      BY DEF Sized
    <2>4. g[m] = IF m = 0 THEN 0 ELSE g[m - 1] + s[m].bytes
      BY <1>4, <2>3
    <2>5. m # 0
      BY <2>4
    <2>6. m - 1 \in 0..Len(s) /\ m \in 1..Len(s) /\ ~(m <= m - 1)
      BY <2>3, <2>5
    <2> QED
      BY <2>2, <2>4, <2>5, <2>6 DEF Sized
  <1>6. Sums(s, g)
    <2>1. g[0] = 0
      BY <1>4 DEF Sized
    <2>2. \A n \in 1..Len(s) : n \in 0..Len(s) /\ n # 0
      BY DEF Sized
    <2> QED
      BY <1>4, <1>5, <2>1, <2>2 DEF Sums
  <1>7. Len(s) \in 0..Len(s)
    BY DEF Sized
  <1> QED
    BY <1>1, <1>3, <1>6, <1>7, SumsAlike

LEMMA Difference == \A a, b \in Int : a - b \in Int
  OBVIOUS

LEMMA Shift == \A a, b, c, d \in Int : a = b + d => a - c = (b - c) + d
  OBVIOUS

\* One more entry adds its bytes.
LEMMA BytesAppend ==
    ASSUME NEW s, NEW t, NEW e, Sized(s), e.bytes \in Int,
           Len(t) = Len(s) + 1, t[Len(s) + 1] = e, \A n \in 1..Len(s) : t[n] = s[n]
    PROVE  Sized(t) /\ Cache!Bytes(t) = Cache!Bytes(s) + e.bytes
  <1>1. PICK f : Sums(s, f)
    BY SumsExist
  <1>2. PICK l \in Nat : l = Len(s)
    BY DEF Sized
  <1>3. Sized(t)
    BY <1>2 DEF Sized
  <1> DEFINE g == [n \in 0..(l + 1) |-> IF n = l + 1 THEN f[l] + e.bytes ELSE f[n]]
  <1>4. f \in [0..l -> Int] /\ f[0] = 0 /\ \A n \in 1..l : f[n] = f[n - 1] + s[n].bytes
    BY <1>1, <1>2 DEF Sums
  <1>5. g \in [0..(l + 1) -> Int] /\ g[0] = 0 /\ g[l + 1] = f[l] + e.bytes
    BY <1>2, <1>4
  <1>6. ASSUME NEW n \in 1..(l + 1) PROVE g[n] = g[n - 1] + t[n].bytes
    <2>1. CASE n = l + 1
      BY <1>2, <2>1
    <2>2. CASE n # l + 1
      <3>1. n \in 1..l /\ n - 1 \in 0..l /\ n - 1 # l + 1 /\ n \in 0..(l + 1)
        BY <2>2
      <3>2. g[n] = f[n] /\ g[n - 1] = f[n - 1] /\ t[n] = s[n]
        BY <1>2, <2>2, <3>1
      <3> QED
        BY <1>4, <3>1, <3>2
    <2> QED
      BY <2>1, <2>2
  <1>7. Sums(t, g)
    BY <1>2, <1>5, <1>6 DEF Sums
  <1>8. Cache!Bytes(t) = g[l + 1] /\ Cache!Bytes(s) = f[l]
    BY <1>1, <1>2, <1>3, <1>7, BytesAre DEF Sized
  <1> QED
    BY <1>3, <1>5, <1>8

LEMMA BytesWithout ==
    ASSUME NEW s, NEW t, Sized(s), NEW i \in 1..Len(s), IsWithout(t, s, i)
    PROVE  Sized(t) /\ Cache!Bytes(t) = Cache!Bytes(s) - s[i].bytes
  <1>1. PICK f : Sums(s, f)
    BY SumsExist
  <1>2. PICK l \in Nat : l = Len(s)
    BY DEF Sized
  <1>3. /\ i \in 1..l /\ l \in Nat /\ Len(t) = l - 1 /\ l - 1 \in Nat /\ s[i].bytes \in Int
        /\ \A n \in 1..(l - 1) : t[n] = IF n < i THEN s[n] ELSE s[n + 1]
        /\ \A n \in 1..l : s[n].bytes \in Int
    BY <1>2 DEF Sized, IsWithout
  <1>4. Sized(t)
    BY <1>3 DEF Sized
  <1>5. f \in [0..l -> Int] /\ f[0] = 0 /\ \A n \in 1..l : f[n] = f[n - 1] + s[n].bytes
    BY <1>1, <1>2 DEF Sums
  <1>a. \A n \in 0..l : f[n] \in Int
    BY <1>5
  <1>6. PICK g \in [0..(l - 1) -> Int] :
            \A n \in 0..(l - 1) : g[n] = IF n < i THEN f[n] ELSE f[n + 1] - s[i].bytes
    <2> DEFINE d == [n \in 0..(l - 1) |-> IF n < i THEN f[n] ELSE f[n + 1] - s[i].bytes]
    <2>1. ASSUME NEW n \in 0..(l - 1) PROVE (IF n < i THEN f[n] ELSE f[n + 1] - s[i].bytes) \in Int
      <3>1. n \in 0..l /\ n + 1 \in 0..l
        BY <1>3
      <3>2. f[n] \in Int /\ f[n + 1] \in Int
        BY <1>a, <3>1
      <3> QED
        BY <1>3, <3>2
    <2>2. d \in [0..(l - 1) -> Int]
      BY <2>1
    <2> QED
      BY <2>2
  <1>b. g[0] = 0
    <2>1. 0 \in 0..(l - 1) /\ 0 < i
      BY <1>3
    <2> QED
      BY <1>5, <1>6, <2>1
  <1>7. ASSUME NEW n \in 1..(l - 1) PROVE g[n] = g[n - 1] + t[n].bytes
    <2>1. /\ n \in 1..l /\ n - 1 \in 0..(l - 1) /\ n \in 0..(l - 1) /\ n + 1 \in 1..l
          /\ n - 1 \in 0..l /\ n \in 0..l /\ n + 1 \in 0..l /\ (n + 1) - 1 = n /\ (n - 1) + 1 = n
      BY <1>3
    <2>2. f[n] = f[n - 1] + s[n].bytes /\ f[n + 1] = f[n] + s[n + 1].bytes
      <3>1. f[n + 1] = f[(n + 1) - 1] + s[n + 1].bytes
        BY <1>5, <2>1
      <3> QED
        BY <1>5, <2>1, <3>1
    <2>3. f[n - 1] \in Int /\ f[n] \in Int /\ f[n + 1] \in Int /\ s[n].bytes \in Int /\ s[n + 1].bytes \in Int
      BY <1>3, <1>a, <2>1
    <2>a. PICK f0 \in Int, f1 \in Int, f2 \in Int : f0 = f[n - 1] /\ f1 = f[n] /\ f2 = f[n + 1]
      BY ONLY <2>3, Zenon
    <2>b. PICK b1 \in Int, b2 \in Int : b1 = s[n].bytes /\ b2 = s[n + 1].bytes
      BY ONLY <2>3, Zenon
    <2>c. f1 = f0 + b1 /\ f2 = f1 + b2
      BY ONLY <2>2, <2>a, <2>b, Zenon
    <2>4. CASE n < i
      <3>1. g[n] = f[n] /\ g[n - 1] = f[n - 1] /\ t[n] = s[n]
        BY <1>3, <1>6, <2>1, <2>4
      <3> QED
        BY <2>2, <3>1
    <2>5. CASE n = i
      <3>1. g[n] = f[n + 1] - s[i].bytes /\ g[n - 1] = f[n - 1] /\ t[n] = s[n + 1]
        BY <1>3, <1>6, <2>1, <2>5
      <3>2. f2 - b1 = f0 + b2
        BY ONLY <2>c, f0 \in Int, b1 \in Int, b2 \in Int
      <3> QED
        BY ONLY <2>5, <2>a, <2>b, <3>1, <3>2, Zenon
    <2>6. CASE n > i
      <3>1. g[n] = f[n + 1] - s[i].bytes /\ g[n - 1] = f[n] - s[i].bytes /\ t[n] = s[n + 1]
        <4>1. ~(n < i) /\ ~(n - 1 < i) /\ (n - 1) + 1 = n
          BY <1>3, <2>6
        <4>2. g[n - 1] = f[(n - 1) + 1] - s[i].bytes
          BY <1>6, <2>1, <4>1
        <4> QED
          BY <1>3, <1>6, <2>1, <4>1, <4>2
      <3>2. PICK c \in Int : c = s[i].bytes
        BY <1>3
      <3>3. f2 - c = (f1 - c) + b2
        BY ONLY <2>c, f1 \in Int, b2 \in Int, c \in Int
      <3> QED
        BY ONLY <2>a, <2>b, <3>1, <3>2, <3>3, Zenon
    <2> QED
      BY <1>3, <2>4, <2>5, <2>6
  <1>8. Sums(t, g)
    BY <1>3, <1>6, <1>b, <1>7 DEF Sums
  <1>9. Cache!Bytes(t) = g[l - 1] /\ Cache!Bytes(s) = f[l]
    BY <1>1, <1>2, <1>3, <1>4, <1>8, BytesAre
  <1>10. g[l - 1] = f[l] - s[i].bytes
    <2>1. l - 1 \in 0..(l - 1) /\ (l - 1) + 1 = l
      BY <1>3
    <2>2. CASE l - 1 < i
      <3>1. i = l
        BY <1>3, <2>2
      <3>2. g[l - 1] = f[l - 1] /\ f[l] = f[l - 1] + s[l].bytes
        BY <1>3, <1>5, <1>6, <2>1, <2>2
      <3>3. f[l - 1] \in Int
        BY <1>3, <1>a
      <3> QED
        BY <1>3, <3>1, <3>2, <3>3
    <2>3. CASE ~(l - 1 < i)
      BY <1>6, <2>1, <2>3
    <2> QED
      BY <2>2, <2>3
  <1> QED
    BY <1>4, <1>9, <1>10

\* A sequence cut in two: the bytes of its parts add up.
IsCut(s, k, t, u) ==
    /\ k \in 0..Len(s)
    /\ Len(t) = k /\ \A n \in 1..k : t[n] = s[n]
    /\ Len(u) = Len(s) - k /\ \A n \in 1..(Len(s) - k) : u[n] = s[k + n]

LEMMA BytesCut ==
    ASSUME NEW s, NEW k, NEW t, NEW u, Sized(s), IsCut(s, k, t, u)
    PROVE  /\ Cache!Bytes(s) = Cache!Bytes(t) + Cache!Bytes(u)
           /\ {Cache!Bytes(t), Cache!Bytes(u)} \subseteq Int
  <1>1. PICK f : Sums(s, f)
    BY SumsExist
  <1>2. PICK l \in Nat : l = Len(s)
    BY DEF Sized
  <1>3. /\ k \in 0..l /\ k \in Nat /\ l - k \in Nat
        /\ Len(t) = k /\ Len(u) = l - k
        /\ \A n \in 1..l : s[n].bytes \in Int
        /\ \A n \in 1..k : t[n] = s[n]
        /\ \A n \in 1..(l - k) : u[n] = s[k + n]
    BY <1>2 DEF Sized, IsCut
  <1>4. f \in [0..l -> Int] /\ f[0] = 0 /\ \A n \in 1..l : f[n] = f[n - 1] + s[n].bytes
    BY <1>1, <1>2 DEF Sums
  <1>a. f[k] \in Int /\ \A n \in 0..(l - k) : f[k + n] \in Int
    BY <1>3, <1>4
  <1> DEFINE g == [n \in 0..k |-> f[n]]
  <1>b. PICK h \in [0..(l - k) -> Int] : \A n \in 0..(l - k) : h[n] = f[k + n] - f[k]
    <2> DEFINE d == [n \in 0..(l - k) |-> f[k + n] - f[k]]
    <2>1. ASSUME NEW n \in 0..(l - k) PROVE f[k + n] - f[k] \in Int
      <3>1. f[k + n] \in Int /\ f[k] \in Int
        BY <1>a
      <3> QED
        BY ONLY <3>1, Difference, Zenon
    <2>2. d \in [0..(l - k) -> Int]
      BY <2>1
    <2> QED
      BY <2>2
  <1>5. Sized(t) /\ Sums(t, g)
    <2>1. \A n \in 1..k : n \in 1..l /\ n - 1 \in 0..k /\ n \in 0..k
      BY <1>3
    <2>2. Sized(t)
      BY <1>3, <2>1 DEF Sized
    <2>3. g \in [0..k -> Int] /\ g[0] = 0
      BY <1>3, <1>4
    <2>4. \A n \in 1..k : g[n] = g[n - 1] + t[n].bytes
      BY <1>3, <1>4, <2>1
    <2> QED
      BY <1>3, <2>2, <2>3, <2>4 DEF Sums
  <1>6. Sized(u) /\ Sums(u, h)
    <2>1. \A n \in 1..(l - k) : k + n \in 1..l /\ n - 1 \in 0..(l - k) /\ n \in 0..(l - k)
                                /\ k + (n - 1) = (k + n) - 1 /\ (k + n) - 1 \in 0..l /\ k + n \in 0..l
      BY <1>3
    <2>2. Sized(u)
      BY <1>3, <2>1 DEF Sized
    <2>4. h[0] = 0
      <3>1. 0 \in 0..(l - k) /\ k + 0 = k
        BY <1>3
      <3> QED
        BY <1>a, <1>b, <3>1
    <2>5. ASSUME NEW n \in 1..(l - k) PROVE h[n] = h[n - 1] + u[n].bytes
      <3>1. h[n] = f[k + n] - f[k] /\ h[n - 1] = f[(k + n) - 1] - f[k]
        <4>1. h[n - 1] = f[k + (n - 1)] - f[k]
          BY <1>b, <2>1
        <4> QED
          BY <1>b, <2>1, <4>1
      <3>2. f[k + n] = f[(k + n) - 1] + s[k + n].bytes
        BY <1>4, <2>1
      <3>3. f[(k + n) - 1] \in Int /\ s[k + n].bytes \in Int /\ u[n] = s[k + n]
        BY <1>3, <1>4, <2>1
      <3>4. f[k + n] - f[k] = (f[(k + n) - 1] - f[k]) + s[k + n].bytes
        <4>1. PICK a \in Int, c \in Int : a = f[k + n] /\ c = f[k]
          BY <1>a, <2>1
        <4>2. PICK b \in Int, d \in Int : b = f[(k + n) - 1] /\ d = s[k + n].bytes
          BY ONLY <3>3, Zenon
        <4>3. a = b + d
          BY ONLY <3>2, <4>1, <4>2, Zenon
        <4>4. a - c = (b - c) + d
          BY ONLY <4>3, Shift, a \in Int, b \in Int, c \in Int, d \in Int
        <4> QED
          BY ONLY <4>1, <4>2, <4>4, Zenon
      <3> QED
        BY ONLY <3>1, <3>2, <3>3, <3>4, Zenon
    <2> QED
      BY <1>3, <1>b, <2>2, <2>4, <2>5 DEF Sums
  <1>7. Cache!Bytes(s) = f[l] /\ Cache!Bytes(t) = g[k] /\ Cache!Bytes(u) = h[l - k]
    <2>1. Cache!Bytes(s) = f[l]
      BY <1>1, <1>2, BytesAre
    <2>2. Cache!Bytes(t) = g[k]
      BY <1>3, <1>5, BytesAre
    <2> QED
      BY <1>3, <1>6, <2>1, <2>2, BytesAre
  <1>8. g[k] = f[k] /\ h[l - k] = f[l] - f[k] /\ f[l] \in Int /\ f[k] \in Int
    <2>1. k + (l - k) = l /\ l - k \in 0..(l - k) /\ k \in 0..k /\ l \in 0..l
      BY <1>3
    <2> QED
      BY <1>3, <1>4, <1>b, <2>1
  <1> QED
    BY <1>7, <1>8

\* Only the bytes of the entries count.
LEMMA BytesSame ==
    ASSUME NEW s, NEW t, Sized(s), Len(t) = Len(s), \A n \in 1..Len(s) : t[n].bytes = s[n].bytes
    PROVE  Cache!Bytes(t) = Cache!Bytes(s)
  <1>1. PICK f : Sums(s, f)
    BY SumsExist
  <1>2. Sized(t) /\ Sums(t, f)
    BY <1>1 DEF Sums, Sized
  <1> QED
    BY <1>1, <1>2, BytesAre

LEMMA BytesOfNone == Cache!Bytes(<<>>) = 0
  <1>1. Sums(<<>>, [n \in 0..0 |-> 0]) /\ Sized(<<>>)
    BY DEF Sums, Sized
  <1> QED
    BY <1>1, BytesAre

-----------------------------------------------------------------------------
(* The cache counts the bytes of its entries.                              *)

Distinct(s) == \A i, j \in DOMAIN s : s[i].key = s[j].key => i = j

LEMMA EntriesSized ==
    ASSUME NEW s \in Seq(Cache!Entry)
    PROVE  Sized(s) /\ Cache!Bytes(s) \in Int
  <1>1. \A e \in Cache!Entry : e.bytes \in Int
    BY DEF Cache!Entry
  <1>2. Sized(s)
    BY <1>1 DEF Sized
  <1>3. PICK f : Sums(s, f)
    BY <1>2, SumsExist
  <1> QED
    BY <1>2, <1>3, BytesAre DEF Sums, Sized

CacheInv == Cached /\ used \in Int /\ CacheSound

\* What is left of the entries without a key.
LEMMA WithoutSound ==
    ASSUME CacheInv, NEW k
    PROVE  /\ Cache!Without(k) \in Seq(Cache!Entry)
           /\ Distinct(Cache!Without(k))
           /\ \A n \in DOMAIN Cache!Without(k) : Cache!Without(k)[n].key # k
           /\ Cache!BytesOf(k) \in Nat
           /\ Cache!Bytes(Cache!Without(k)) = used - Cache!BytesOf(k)
           /\ used - Cache!BytesOf(k) \in Int /\ used - Cache!BytesOf(k) <= MaxBytes
  <1>1. CASE ~Cache!Has(k)
    <2>1. Cache!Without(k) = entries /\ Cache!BytesOf(k) = 0
      BY <1>1 DEF Cache!Without, Cache!BytesOf
    <2>2. \A n \in DOMAIN entries : entries[n].key # k
      BY <1>1 DEF Cache!Has
    <2>3. Distinct(entries) /\ used = Cache!Bytes(entries) /\ used <= MaxBytes /\ used - 0 = used
      BY DEF CacheInv, CacheSound, Cache!WithinBudget, Cache!OneEntryPerKey, Distinct
    <2> QED
      BY <2>1, <2>2, <2>3 DEF CacheInv, Cached
  <1>2. CASE Cache!Has(k)
    <2>1. PICK i \in DOMAIN entries : i = Cache!PlaceOf(k) /\ entries[i].key = k
      BY <1>2 DEF Cache!Has, Cache!PlaceOf
    <2>2. entries \in Seq(Cache!Entry) /\ i \in 1..Len(entries)
      BY <2>1 DEF CacheInv, Cached
    <2>3. PICK t : t = Cache!RemoveAt(entries, i)
      OBVIOUS
    <2>4. Cache!Without(k) = t /\ Cache!BytesOf(k) = entries[i].bytes
      BY <1>2, <2>1, <2>3 DEF Cache!Without, Cache!BytesOf, Cache!EntryOf
    <2>5. t \in Seq(Cache!Entry) /\ IsWithout(t, entries, i)
      BY <2>2, <2>3, RemovedAt DEF RemoveAt, Cache!RemoveAt
    <2>6. Cache!Bytes(t) = Cache!Bytes(entries) - entries[i].bytes
      BY <2>2, <2>5, EntriesSized, BytesWithout
    <2>7. entries[i].bytes \in Nat
      <3>1. entries[i] \in Cache!Entry
        BY <2>2
      <3> QED
        BY <3>1 DEF Cache!Entry
    <2>8. used = Cache!Bytes(entries) /\ used <= MaxBytes /\ used \in Int
      BY DEF CacheInv, CacheSound, Cache!WithinBudget
    <2>9. used - entries[i].bytes \in Int /\ used - entries[i].bytes <= MaxBytes
      <3>1. PICK b \in Nat : b = entries[i].bytes
        BY <2>7
      <3>2. used - b \in Int /\ used - b <= MaxBytes
        BY <2>8
      <3> QED
        BY <3>1, <3>2
    <2>10. ASSUME NEW n \in DOMAIN t
           PROVE  /\ At(n, i) \in DOMAIN entries /\ At(n, i) # i /\ t[n] = entries[At(n, i)]
                  /\ n \in Nat
      <3>1. n \in 1..(Len(entries) - 1) /\ DOMAIN entries = 1..Len(entries) /\ Len(entries) \in Nat
        BY <2>2, <2>5 DEF IsWithout
      <3>2. t[n] = IF n < i THEN entries[n] ELSE entries[n + 1]
        BY <2>5, <3>1 DEF IsWithout
      <3> QED
        BY <2>2, <3>1, <3>2 DEF At
    <2>11. \A m, n \in DOMAIN entries : entries[m].key = entries[n].key => m = n
      BY DEF CacheInv, CacheSound, Cache!OneEntryPerKey
    <2>12. \A n \in DOMAIN t : t[n].key # k
      BY <2>1, <2>10, <2>11
    <2>13. Distinct(t)
      <3> SUFFICES ASSUME NEW m \in DOMAIN t, NEW n \in DOMAIN t, t[m].key = t[n].key PROVE m = n
        BY DEF Distinct
      <3>1. At(m, i) = At(n, i)
        BY <2>10, <2>11
      <3>2. m \in Nat /\ n \in Nat /\ i \in Nat
        BY <2>2, <2>10
      <3> QED
        BY ONLY <3>1, <3>2 DEF At
    <2> QED
      BY <2>4, <2>5, <2>6, <2>7, <2>8, <2>9, <2>12, <2>13
  <1> QED
    BY <1>1, <1>2

\* An entry put at the end of entries of other keys.
LEMMA AppendSound ==
    ASSUME NEW s \in Seq(Cache!Entry), NEW e \in Cache!Entry,
           Distinct(s), \A n \in DOMAIN s : s[n].key # e.key
    PROVE  /\ Append(s, e) \in Seq(Cache!Entry)
           /\ Distinct(Append(s, e))
           /\ Cache!Bytes(Append(s, e)) = Cache!Bytes(s) + e.bytes
  <1>1. PICK t : t = Append(s, e)
    OBVIOUS
  <1>2. /\ t \in Seq(Cache!Entry) /\ Len(t) = Len(s) + 1 /\ t[Len(s) + 1] = e
        /\ \A n \in 1..Len(s) : t[n] = s[n]
        /\ DOMAIN s = 1..Len(s) /\ DOMAIN t = 1..(Len(s) + 1) /\ Len(s) \in Nat
    BY <1>1
  <1>3. e.bytes \in Int /\ Sized(s)
    <2>1. e.bytes \in Nat
      BY DEF Cache!Entry
    <2> QED
      BY <2>1, EntriesSized
  <1>4. Cache!Bytes(t) = Cache!Bytes(s) + e.bytes
    BY <1>2, <1>3, BytesAppend
  <1>5. \A n \in DOMAIN t : n = Len(s) + 1 \/ n \in DOMAIN s
    BY <1>2
  <1>6. Distinct(t)
    BY <1>2, <1>5 DEF Distinct
  <1> QED
    BY <1>1, <1>2, <1>4, <1>6

LEMMA GetSound == ASSUME CacheInv, NEW k, Cache!Get(k) PROVE CacheInv'
  <1>1. CASE UNCHANGED Cache!vars
    BY <1>1 DEF CacheInv, Cached, CacheSound, Cache!WithinBudget, Cache!OneEntryPerKey, Cache!vars
  <1>2. CASE entries' = Cache!Without(k) /\ used' = used - Cache!BytesOf(k)
    BY <1>2, WithoutSound
       DEF CacheInv, Cached, CacheSound, Cache!WithinBudget, Cache!OneEntryPerKey, Distinct
  <1>3. CASE Cache!Has(k) /\ entries' = Append(Cache!Without(k), Cache!EntryOf(k)) /\ used' = used
    <2>1. PICK p \in DOMAIN entries : p = Cache!PlaceOf(k) /\ entries[p].key = k
      BY <1>3 DEF Cache!Has, Cache!PlaceOf
    <2>2. PICK e \in Cache!Entry : e = entries[p]
      BY <2>1 DEF CacheInv, Cached
    <2>3. Cache!EntryOf(k) = e /\ e.key = k /\ Cache!BytesOf(k) = e.bytes
      BY <1>3, <2>1, <2>2 DEF Cache!EntryOf, Cache!BytesOf
    <2>4. PICK r : r = Cache!Without(k)
      OBVIOUS
    <2>5. /\ r \in Seq(Cache!Entry) /\ Distinct(r) /\ \A n \in DOMAIN r : r[n].key # e.key
          /\ Cache!Bytes(r) = used - e.bytes /\ e.bytes \in Nat
      BY <2>3, <2>4, WithoutSound
    <2>6. /\ entries' = Append(r, e) /\ entries' \in Seq(Cache!Entry) /\ Distinct(entries')
          /\ Cache!Bytes(entries') = Cache!Bytes(r) + e.bytes
      BY <1>3, <2>3, <2>4, <2>5, AppendSound
    <2>7. used \in Int /\ used <= MaxBytes
      BY DEF CacheInv, CacheSound, Cache!WithinBudget
    <2>8. Cache!Bytes(entries') = used
      BY <2>5, <2>6, <2>7
    <2>9. Cache!WithinBudget' /\ Cache!OneEntryPerKey'
      BY <1>3, <2>6, <2>7, <2>8 DEF Cache!WithinBudget, Cache!OneEntryPerKey, Distinct
    <2> QED
      BY <1>3, <2>6, <2>7, <2>9 DEF CacheInv, Cached, CacheSound
  <1> QED
    BY <1>1, <1>2, <1>3 DEF Cache!Get

LEMMA SetSound ==
    ASSUME CacheInv, NEW k \in Keys, NEW value \in Timelines, NEW bytes \in Nat, Cache!Set(k, value, bytes)
    PROVE  CacheInv'
  <1>1. CASE entries' = Cache!Without(k) /\ used' = used - Cache!BytesOf(k)
    BY <1>1, WithoutSound
       DEF CacheInv, Cached, CacheSound, Cache!WithinBudget, Cache!OneEntryPerKey, Distinct
  <1>2. CASE Cache!Store(k, value, bytes)
    <2>1. PICK r : r = Cache!Without(k)
      OBVIOUS
    <2>2. PICK e : e = [key |-> k, value |-> value, bytes |-> bytes, life |-> "fresh"]
      OBVIOUS
    <2>3. e \in Cache!Entry /\ e.key = k /\ e.bytes = bytes
      BY <2>2 DEF Cache!Entry, Cache!Lives
    <2>4. PICK old \in Int : old = used - Cache!BytesOf(k)
      BY WithoutSound
    <2>5. /\ r \in Seq(Cache!Entry) /\ Distinct(r) /\ \A n \in DOMAIN r : r[n].key # e.key
          /\ Cache!Bytes(r) = old
      BY <2>1, <2>3, <2>4, WithoutSound
    <2>6. PICK all : all = Append(r, e)
      OBVIOUS
    <2>7. all \in Seq(Cache!Entry) /\ Distinct(all) /\ Cache!Bytes(all) = old + bytes
      BY <2>3, <2>5, <2>6, AppendSound
    <2> DEFINE Left(n) == used - Cache!BytesOf(k) + bytes - Cache!Bytes(SubSeq(all, 1, n))
    <2>8. PICK evicted \in 0..Len(all) :
            /\ ~Cache!OverBudget(Left(evicted)) \/ evicted = Len(all)
            /\ entries' = SubSeq(all, evicted + 1, Len(all))
            /\ used' = Left(evicted)
      BY <1>2, <2>1, <2>2, <2>6 DEF Cache!Store
    <2>9. PICK t : t = SubSeq(all, 1, evicted)
      OBVIOUS
    <2>10. /\ Len(all) \in Nat /\ DOMAIN all = 1..Len(all) /\ Sized(all)
           /\ Len(t) = evicted /\ \A n \in 1..evicted : t[n] = all[n]
      BY <2>7, <2>8, <2>9, EntriesSized
    <2>11. /\ entries' \in Seq(Cache!Entry) /\ Len(entries') = Len(all) - evicted
           /\ DOMAIN entries' = 1..(Len(all) - evicted)
           /\ \A n \in 1..(Len(all) - evicted) : entries'[n] = all[evicted + n]
      BY <2>7, <2>8
    <2>12. /\ Cache!Bytes(all) = Cache!Bytes(t) + Cache!Bytes(entries')
           /\ {Cache!Bytes(t), Cache!Bytes(entries')} \subseteq Int
      <3>1. IsCut(all, evicted, t, entries')
        BY <2>8, <2>10, <2>11 DEF IsCut
      <3> QED
        BY <2>10, <3>1, BytesCut
    <2>13. PICK a \in Int, b \in Int : a = Cache!Bytes(t) /\ b = Cache!Bytes(entries')
      BY <2>12
    <2>14. used' = old + bytes - a /\ old + bytes = a + b
      BY <2>4, <2>7, <2>8, <2>9, <2>12, <2>13
    <2>15. used' = b
      BY <2>14
    <2>16. used' <= MaxBytes
      <3>1. CASE ~Cache!OverBudget(Left(evicted))
        <4>1. ~Cache!OverBudget(used')
          BY <2>8, <3>1
        <4>2. ~(b > MaxBytes)
          BY <2>15, <4>1 DEF Cache!OverBudget
        <4> QED
          BY <2>15, <4>2
      <3>2. CASE evicted = Len(all)
        <4>1. entries' = <<>>
          BY <2>10, <2>11, <3>2
        <4>2. b = 0
          BY <2>13, <4>1, BytesOfNone
        <4>3. 0 <= MaxBytes
          OBVIOUS
        <4> QED
          BY ONLY <2>15, <4>2, <4>3, Zenon
      <3> QED
        BY <2>8, <3>1, <3>2
    <2>17. Distinct(entries')
      <3> SUFFICES ASSUME NEW m \in DOMAIN entries', NEW n \in DOMAIN entries',
                          entries'[m].key = entries'[n].key
                   PROVE m = n
        BY DEF Distinct
      <3>0. PICK l \in Nat : l = Len(all)
        BY <2>10
      <3>a. m \in 1..(l - evicted) /\ n \in 1..(l - evicted) /\ evicted \in 0..l
        BY <2>11, <3>0
      <3>b. evicted + m \in 1..l /\ evicted + n \in 1..l /\ m \in Nat /\ n \in Nat
        BY ONLY <3>a, l \in Nat
      <3>1. evicted + m \in DOMAIN all /\ evicted + n \in DOMAIN all /\ m \in Nat /\ n \in Nat
        BY <2>10, <3>0, <3>b
      <3>2. evicted + m = evicted + n
        BY <2>7, <2>11, <3>1 DEF Distinct
      <3> QED
        BY <2>8, <3>1, <3>2
    <2>18. Cache!WithinBudget' /\ Cache!OneEntryPerKey'
      BY <2>13, <2>15, <2>16, <2>17 DEF Cache!WithinBudget, Cache!OneEntryPerKey, Distinct
    <2> QED
      BY <2>11, <2>13, <2>15, <2>18 DEF CacheInv, Cached, CacheSound
  <1> QED
    BY <1>1, <1>2 DEF Cache!Set

LEMMA AgeSound == ASSUME CacheInv, Cache!Age PROVE CacheInv'
  <1>1. /\ Cached' /\ DOMAIN entries' = DOMAIN entries
        /\ \A i \in DOMAIN entries' : entries'[i].key = entries[i].key
    BY AgeKeeps DEF CacheInv
  <1>2. PICK i \in DOMAIN entries : \E life \in Cache!NextLives(entries[i].life) :
            entries' = [entries EXCEPT ![i].life = life]
    BY DEF Cache!Age
  <1>3. \A n \in DOMAIN entries : entries'[n].bytes = entries[n].bytes
    <2>1. PICK life : entries' = [entries EXCEPT ![i] = [entries[i] EXCEPT !.life = life]]
      BY <1>2
    <2>2. [entries[i] EXCEPT !.life = life].bytes = entries[i].bytes
      <3>1. entries[i] \in Cache!Entry
        BY DEF CacheInv, Cached
      <3> QED
        BY <3>1 DEF Cache!Entry
    <2> QED
      BY <2>1, <2>2
  <1>4. /\ entries \in Seq(Cache!Entry) /\ entries' \in Seq(Cache!Entry)
        /\ DOMAIN entries = 1..Len(entries) /\ Len(entries') = Len(entries)
    <2>1. entries \in Seq(Cache!Entry) /\ entries' \in Seq(Cache!Entry)
      BY <1>1 DEF CacheInv, Cached
    <2> QED
      BY <1>1, <2>1
  <1>5. Cache!Bytes(entries') = Cache!Bytes(entries)
    BY <1>3, <1>4, EntriesSized, BytesSame
  <1>6. used' = used
    BY DEF Cache!Age
  <1>7. Cache!WithinBudget' /\ Cache!OneEntryPerKey'
    BY <1>1, <1>5, <1>6 DEF CacheInv, CacheSound, Cache!WithinBudget, Cache!OneEntryPerKey
  <1> QED
    BY <1>1, <1>6, <1>7 DEF CacheInv, CacheSound

-----------------------------------------------------------------------------
(* The limiter of the builds' queries, as GuardsProofs has it: a waiter is *)
(* in the queue once and not inside, so a place that is passed on is       *)
(* counted once.                                                           *)

\* The limiter's count is the one the library's theorems are about.
LEMMA CountsAgree == \A S : Limiter!Cardinality(S) = Cardinality(S)
  BY DEF Limiter!Cardinality, Cardinality

LimiterInv ==
    /\ Limiter!TypeOK /\ IsFiniteSet(inside)
    /\ Limiter!Bounded /\ Limiter!NoIdlePlace /\ Limiter!WaitsOnce

LEMMA LimiterInit == Limiter!Init => LimiterInv
  <1> SUFFICES ASSUME Limiter!Init PROVE LimiterInv
    OBVIOUS
  <1>1. IsFiniteSet({}) /\ Cardinality({}) = 0
    BY FS_EmptySet
  <1>2. Limiter!TypeOK
    BY DEF Limiter!Init, Limiter!TypeOK
  <1>3. Limiter!Bounded
    BY <1>1, LimiterAssumption, CountsAgree DEF Limiter!Init, Limiter!Bounded, LimiterAssumption
  <1>4. Limiter!NoIdlePlace /\ Limiter!WaitsOnce
    BY DEF Limiter!Init, Limiter!NoIdlePlace, Limiter!WaitsOnce, Limiter!Queued, Limiter!Range
  <1> QED
    BY <1>1, <1>2, <1>3, <1>4 DEF Limiter!Init, LimiterInv

LEMMA EnterStep == ASSUME LimiterInv, NEW c \in Builds, Limiter!Enter(c) PROVE LimiterInv'
  <1> USE LimiterAssumption DEF LimiterAssumption
  <1>1. Limiter!TypeOK'
    BY DEF LimiterInv, Limiter!TypeOK, Limiter!Enter, Limiter!Free
  <1>2. IsFiniteSet(inside)' /\ Cardinality(inside') = Cardinality(inside) + 1
    BY FS_AddElement DEF LimiterInv, Limiter!Enter, Limiter!Outside
  <1>3. Limiter!Bounded'
    BY <1>2, CountsAgree DEF LimiterInv, Limiter!TypeOK, Limiter!Bounded, Limiter!Enter, Limiter!Free
  <1>4. Limiter!NoIdlePlace'
    BY DEF LimiterInv, Limiter!TypeOK, Limiter!NoIdlePlace, Limiter!Enter, Limiter!Free
  <1>5. Limiter!WaitsOnce'
    BY DEF LimiterInv, Limiter!WaitsOnce, Limiter!Enter, Limiter!Outside, Limiter!Queued, Limiter!Range
  <1> QED
    BY <1>1, <1>2, <1>3, <1>4, <1>5 DEF LimiterInv

LEMMA WaitStep == ASSUME LimiterInv, NEW c \in Builds, Limiter!Wait(c) PROVE LimiterInv'
  <1> USE LimiterAssumption DEF LimiterAssumption
  <1>1. Limiter!TypeOK'
    BY DEF LimiterInv, Limiter!TypeOK, Limiter!Wait
  <1>2. Limiter!Bounded'
    BY CountsAgree DEF LimiterInv, Limiter!TypeOK, Limiter!Bounded, Limiter!Wait
  <1>3. Limiter!NoIdlePlace'
    BY CountsAgree DEF LimiterInv, Limiter!TypeOK, Limiter!Bounded, Limiter!NoIdlePlace, Limiter!Wait, Limiter!Free
  <1>4. /\ DOMAIN waiting = 1..Len(waiting)
        /\ DOMAIN waiting' = 1..(Len(waiting) + 1)
        /\ \A i \in DOMAIN waiting' :
            waiting'[i] = IF i = Len(waiting) + 1 THEN c ELSE waiting[i]
    BY DEF LimiterInv, Limiter!TypeOK, Limiter!Wait
  <1>5. \A i \in DOMAIN waiting : waiting[i] # c /\ waiting[i] \notin inside
    BY DEF LimiterInv, Limiter!WaitsOnce, Limiter!Wait, Limiter!Outside, Limiter!Queued, Limiter!Range
  <1>6. c \notin inside /\ inside' = inside /\ Len(waiting) \in Nat
    BY DEF LimiterInv, Limiter!TypeOK, Limiter!Wait, Limiter!Outside
  <1>7. Limiter!WaitsOnce'
    BY <1>4, <1>5, <1>6 DEF LimiterInv, Limiter!WaitsOnce, Limiter!Queued, Limiter!Range
  <1> QED
    BY <1>1, <1>2, <1>3, <1>6, <1>7 DEF LimiterInv

LEMMA TimeOutStep == ASSUME LimiterInv, NEW c \in Builds, Limiter!TimeOut(c) PROVE LimiterInv'
  <1> USE LimiterAssumption DEF LimiterAssumption
  <1>1. PICK i \in DOMAIN waiting : waiting' = Limiter!RemoveAt(waiting, i)
    BY DEF Limiter!TimeOut
  <1>2. waiting \in Seq(Builds) /\ Len(waiting) \in Nat /\ i \in 1..Len(waiting) /\ inside' = inside
    BY DEF LimiterInv, Limiter!TypeOK, Limiter!TimeOut
  <1>3. /\ waiting' \in Seq(Builds)
        /\ Len(waiting') = Len(waiting) - 1
        /\ DOMAIN waiting' = 1..(Len(waiting) - 1)
        /\ \A n \in DOMAIN waiting' : waiting'[n] = IF n < i THEN waiting[n] ELSE waiting[n + 1]
    <2>1. i \in 1..Len(waiting) /\ waiting \in Seq(Builds) /\ waiting' = RemoveAt(waiting, i)
      BY <1>1, <1>2 DEF Limiter!RemoveAt, RemoveAt
    <2>2. waiting' \in Seq(Builds) /\ IsWithout(waiting', waiting, i)
      BY ONLY <2>1, RemovedAt
    <2> QED
      BY <1>2, <2>2 DEF IsWithout
  <1>5. Limiter!TypeOK'
    BY <1>3 DEF LimiterInv, Limiter!TypeOK, Limiter!TimeOut
  <1>6. Limiter!Bounded'
    BY <1>2, <1>3, CountsAgree DEF LimiterInv, Limiter!Bounded, Limiter!TimeOut
  <1>7. Limiter!NoIdlePlace'
    BY <1>2 DEF LimiterInv, Limiter!NoIdlePlace, Limiter!TimeOut
  <1>8. \A n \in DOMAIN waiting' :
          /\ At(n, i) \in DOMAIN waiting
          /\ waiting'[n] = waiting[At(n, i)]
    <2> SUFFICES ASSUME NEW n \in DOMAIN waiting'
                 PROVE At(n, i) \in DOMAIN waiting /\ waiting'[n] = waiting[At(n, i)]
      OBVIOUS
    <2>1. n \in 1..(Len(waiting) - 1) /\ DOMAIN waiting = 1..Len(waiting)
      BY <1>2, <1>3
    <2>2. CASE n < i
      <3>1. At(n, i) = n
        BY <2>2 DEF At
      <3> QED
        BY <1>2, <1>3, <2>1, <2>2, <3>1
    <2>3. CASE ~(n < i)
      <3>1. At(n, i) = n + 1
        BY <2>3 DEF At
      <3>2. n + 1 \in 1..Len(waiting)
        BY <1>2, <2>1
      <3> QED
        BY <1>3, <2>1, <2>3, <3>1, <3>2
    <2> QED
      BY <2>2, <2>3
  <1>9. \A m, n \in DOMAIN waiting' : At(m, i) = At(n, i) => m = n
    BY <1>2, <1>3 DEF At
  <1>10. \A m, n \in DOMAIN waiting' : waiting'[m] = waiting'[n] => m = n
    <2> SUFFICES ASSUME NEW m \in DOMAIN waiting', NEW n \in DOMAIN waiting',
                        waiting'[m] = waiting'[n]
                 PROVE m = n
      OBVIOUS
    <2>1. waiting[At(m, i)] = waiting[At(n, i)]
      BY <1>8
    <2>2. At(m, i) = At(n, i)
      BY <1>8, <2>1 DEF LimiterInv, Limiter!WaitsOnce
    <2> QED
      BY <1>9, <2>2
  <1>11. Limiter!Range(waiting') \subseteq Limiter!Range(waiting)
    BY <1>8 DEF Limiter!Range
  <1>12. Limiter!WaitsOnce'
    <2>1. Limiter!Range(waiting) \cap inside = {}
      BY DEF LimiterInv, Limiter!WaitsOnce, Limiter!Queued
    <2>2. Limiter!Range(waiting') \cap inside' = {}
      BY <1>2, <1>11, <2>1
    <2> QED
      BY <1>10, <2>2 DEF Limiter!WaitsOnce, Limiter!Queued
  <1> QED
    BY <1>2, <1>5, <1>6, <1>7, <1>12 DEF LimiterInv

LEMMA LeaveStep == ASSUME LimiterInv, NEW c \in Builds, Limiter!Leave(c) PROVE LimiterInv'
  <1> USE LimiterAssumption DEF LimiterAssumption
  <1>1. /\ IsFiniteSet(inside \ {c})
        /\ Cardinality(inside \ {c}) = Cardinality(inside) - 1
        /\ c \in inside
    BY FS_RemoveElement DEF LimiterInv, Limiter!Leave
  <1>2. active \in Nat /\ active - 1 \in Nat /\ active = Cardinality(inside)
    BY <1>1, FS_CardinalityType, CountsAgree DEF LimiterInv, Limiter!TypeOK, Limiter!Bounded
  <1>3. CASE waiting = <<>>
    <2>1. active' = active - 1 /\ inside' = inside \ {c} /\ waiting' = <<>>
      BY <1>3 DEF Limiter!Leave, Limiter!PassOn
    <2>2. Limiter!TypeOK' /\ Limiter!NoIdlePlace' /\ Limiter!WaitsOnce'
      BY <1>2, <2>1 DEF LimiterInv, Limiter!TypeOK, Limiter!NoIdlePlace, Limiter!WaitsOnce, Limiter!Queued, Limiter!Range
    <2>3. Limiter!Bounded' /\ IsFiniteSet(inside)'
      BY <1>1, <1>2, <2>1, CountsAgree DEF LimiterInv, Limiter!Bounded
    <2> QED
      BY <2>2, <2>3 DEF LimiterInv
  <1>4. CASE waiting # <<>>
    <2>1. /\ active' = active
          /\ inside' = (inside \ {c}) \cup {Head(waiting)}
          /\ waiting' = Tail(waiting)
      BY <1>2, <1>4 DEF Limiter!Leave, Limiter!PassOn
    <2>2. waiting \in Seq(Builds) /\ Len(waiting) \in Nat \ {0}
      BY <1>4 DEF LimiterInv, Limiter!TypeOK
    <2>3. /\ waiting' \in Seq(Builds)
          /\ Len(waiting') = Len(waiting) - 1
          /\ DOMAIN waiting' = 1..(Len(waiting) - 1)
          /\ \A n \in DOMAIN waiting' : waiting'[n] = waiting[n + 1]
      BY <2>1, <2>2
    <2>4. 1 \in DOMAIN waiting /\ Head(waiting) = waiting[1] /\ Head(waiting) \in Builds
      BY <2>2
    <2>5. Head(waiting) \notin inside
      BY <2>4 DEF LimiterInv, Limiter!WaitsOnce, Limiter!Queued, Limiter!Range
    <2>6. /\ IsFiniteSet(inside')
          /\ Cardinality(inside') = Cardinality(inside \ {c}) + 1
      BY <1>1, <2>1, <2>5, FS_AddElement
    <2>7. Limiter!TypeOK'
      BY <1>2, <2>1, <2>3, <2>4 DEF LimiterInv, Limiter!TypeOK
    <2>8. Limiter!Bounded'
      BY <1>1, <1>2, <2>1, <2>2, <2>3, <2>6, CountsAgree DEF LimiterInv, Limiter!Bounded
    <2>9. Limiter!NoIdlePlace'
      BY <1>4, <2>1 DEF LimiterInv, Limiter!NoIdlePlace
    <2>10. \A n \in DOMAIN waiting' : waiting'[n] \notin inside' /\ n + 1 \in DOMAIN waiting
      BY <2>1, <2>2, <2>3, <2>4 DEF LimiterInv, Limiter!WaitsOnce, Limiter!Queued, Limiter!Range
    <2>11. Limiter!WaitsOnce'
      BY <2>2, <2>3, <2>10 DEF LimiterInv, Limiter!WaitsOnce, Limiter!Queued, Limiter!Range
    <2> QED
      BY <2>6, <2>7, <2>8, <2>9, <2>11 DEF LimiterInv
  <1> QED
    BY <1>3, <1>4

\* The queue after a call was added to it, left it, or was let in from its head.
LEMMA QueuedAfter ==
    ASSUME LimiterInv, NEW c \in Builds
    PROVE  /\ Limiter!Wait(c) => Limiter!Queued' = Limiter!Queued \cup {c}
           /\ Limiter!TimeOut(c) => Limiter!Queued' = Limiter!Queued \ {c} /\ c \in Limiter!Queued
           /\ Limiter!Leave(c) => /\ c \in inside /\ c \notin inside' /\ c \notin Limiter!Queued
                            /\ inside' \cup Limiter!Queued' = (inside \cup Limiter!Queued) \ {c}
                            /\ inside \ {c} \subseteq inside'
                            /\ inside' \ inside \subseteq Limiter!Queued
<1>1. waiting \in Seq(Builds) /\ DOMAIN waiting = 1..Len(waiting) /\ Len(waiting) \in Nat
  BY DEF LimiterInv, Limiter!TypeOK
<1>2. \A s : Limiter!Range(s) = {s[i] : i \in DOMAIN s}
  BY DEF Limiter!Range
<1>3. ASSUME Limiter!Wait(c)  PROVE Limiter!Queued' = Limiter!Queued \cup {c}
  <2>1. waiting' = Append(waiting, c) /\ DOMAIN waiting' = 1..(Len(waiting) + 1)
    BY <1>1, <1>3 DEF Limiter!Wait
  <2>2. \A i \in 1..(Len(waiting) + 1) :
            waiting'[i] = IF i = Len(waiting) + 1 THEN c ELSE waiting[i]
    BY <1>1, <2>1
  <2>3. \A x : x \in {waiting'[i] : i \in DOMAIN waiting'} <=> x \in {waiting[i] : i \in DOMAIN waiting} \cup {c}
    BY <1>1, <2>1, <2>2
  <2> QED  BY <1>2, <2>3 DEF Limiter!Queued
<1>4. ASSUME Limiter!TimeOut(c)  PROVE Limiter!Queued' = Limiter!Queued \ {c} /\ c \in Limiter!Queued
  <2>1. PICK i \in DOMAIN waiting : waiting[i] = c /\ waiting' = Limiter!RemoveAt(waiting, i)
    BY <1>4 DEF Limiter!TimeOut
  <2>2. /\ DOMAIN waiting' = 1..(Len(waiting) - 1)
        /\ \A n \in DOMAIN waiting' : waiting'[n] = IF n < i THEN waiting[n] ELSE waiting[n + 1]
    <3>1. i \in 1..Len(waiting) /\ waiting \in Seq(Builds) /\ waiting' = RemoveAt(waiting, i)
      BY <1>1, <2>1 DEF Limiter!RemoveAt, RemoveAt
    <3>2. waiting' \in Seq(Builds) /\ IsWithout(waiting', waiting, i)
      BY ONLY <3>1, RemovedAt
    <3> QED  BY <1>1, <3>2 DEF IsWithout
  <2>3. \A m, n \in DOMAIN waiting : waiting[m] = waiting[n] => m = n
    BY DEF LimiterInv, Limiter!WaitsOnce
  <2>4. ASSUME NEW n \in DOMAIN waiting'
        PROVE  \E m \in DOMAIN waiting \ {i} : waiting'[n] = waiting[m]
    <3>1. CASE n < i
      BY <1>1, <2>1, <2>2, <2>4, <3>1
    <3>2. CASE ~(n < i)
      <4>1. n + 1 \in DOMAIN waiting \ {i} /\ waiting'[n] = waiting[n + 1]
        BY <1>1, <2>1, <2>2, <2>4, <3>2
      <4> QED  BY <4>1
    <3> QED  BY <3>1, <3>2
  <2>5. ASSUME NEW m \in DOMAIN waiting \ {i}
        PROVE  \E n \in DOMAIN waiting' : waiting'[n] = waiting[m]
    <3>1. CASE m < i
      BY <1>1, <2>1, <2>2, <2>5, <3>1
    <3>2. CASE ~(m < i)
      <4>1. m - 1 \in DOMAIN waiting' /\ waiting'[m - 1] = waiting[m]
        BY <1>1, <2>1, <2>2, <2>5, <3>2
      <4> QED  BY <4>1
    <3> QED  BY <3>1, <3>2
  <2>6. \A x : x \in {waiting'[n] : n \in DOMAIN waiting'} <=> x \in {waiting[m] : m \in DOMAIN waiting} \ {c}
    BY <2>1, <2>3, <2>4, <2>5
  <2> QED  BY <1>2, <2>1, <2>6 DEF Limiter!Queued
<1>5. ASSUME Limiter!Leave(c)
      PROVE  /\ c \in inside /\ c \notin inside' /\ c \notin Limiter!Queued
             /\ inside' \cup Limiter!Queued' = (inside \cup Limiter!Queued) \ {c}
             /\ inside \ {c} \subseteq inside'
             /\ inside' \ inside \subseteq Limiter!Queued
  <2>1. c \in inside /\ c \notin Limiter!Queued
    BY <1>5 DEF Limiter!Leave, LimiterInv, Limiter!WaitsOnce
  <2>2. CASE waiting = <<>>
    <3>1. inside' = inside \ {c} /\ waiting' = waiting
      BY <1>5, <2>2 DEF Limiter!Leave, Limiter!PassOn
    <3> QED  BY <2>1, <3>1 DEF Limiter!Queued
  <2>3. CASE waiting # <<>>
    <3>1. inside' = (inside \ {c}) \cup {Head(waiting)} /\ waiting' = Tail(waiting)
      BY <1>5, <2>3 DEF Limiter!Leave, Limiter!PassOn
    <3>2. /\ DOMAIN waiting' = 1..(Len(waiting) - 1)
          /\ \A n \in DOMAIN waiting' : waiting'[n] = waiting[n + 1]
          /\ 1 \in DOMAIN waiting /\ Head(waiting) = waiting[1]
      BY <1>1, <2>3, <3>1
    <3>3. \A x : x \in {waiting[n] : n \in DOMAIN waiting}
                    <=> x = Head(waiting) \/ x \in {waiting'[n] : n \in DOMAIN waiting'}
      <4>1. \A n \in DOMAIN waiting : n = 1 \/ (n - 1 \in DOMAIN waiting' /\ waiting'[n - 1] = waiting[n])
        BY <1>1, <3>2
      <4>2. \A n \in DOMAIN waiting' : n + 1 \in DOMAIN waiting
        BY <1>1, <3>2
      <4> QED  BY <3>2, <4>1, <4>2
    <3>4. Limiter!Queued = {Head(waiting)} \cup Limiter!Queued'
      BY <1>2, <3>3 DEF Limiter!Queued
    <3> QED  BY <2>1, <3>1, <3>4
  <2> QED  BY <2>2, <2>3
<1> QED  BY <1>3, <1>4, <1>5

-----------------------------------------------------------------------------
(* Both counters, as the lookups and the builds use them.                  *)

\* What a build has read is a timeline, so what it stores is an entry.
RowsTyped == \A b \in Builds : build[b].at = "gzip" => build[b].rows \in Timelines

\* The builds at their query are those the limiter has let in or has waiting.
Querying == inside \cup Limiter!Queued = {b \in Builds : build[b].at = "query"}

CountedInv ==
    /\ Types /\ EventsBounded /\ RowsTyped
    /\ CacheInv
    /\ LimiterInv /\ Querying

LEMMA CountedInit == Init => CountedInv
  <1> SUFFICES ASSUME Init PROVE CountedInv
    OBVIOUS
  <1>1. Types /\ EventsBounded
    BY TypesInit DEF Init, EventsBounded
  <1>2. \A b \in Builds : build[b].at = "none"
    BY DEF Init, NoBuild
  <1>3. RowsTyped
    BY <1>2 DEF RowsTyped
  <1>4. CacheInv
    BY BytesOfNone
       DEF Init, Cache!Init, CacheInv, Cached, CacheSound, Cache!WithinBudget, Cache!OneEntryPerKey
  <1>5. LimiterInv
    BY LimiterInit DEF Init
  <1>6. Querying
    BY <1>2 DEF Init, Limiter!Init, Querying, Limiter!Queued, Limiter!Range
  <1> QED
    BY <1>1, <1>3, <1>4, <1>5, <1>6 DEF CountedInv

\* Each part of the invariant, when a step leaves alone what it speaks of.
LEMMA CountedRest ==
    ASSUME CountedInv
    PROVE  /\ UNCHANGED events => EventsBounded'
           /\ UNCHANGED build => RowsTyped'
           /\ UNCHANGED cache => CacheInv'
           /\ UNCHANGED queries => LimiterInv'
           /\ UNCHANGED queries /\ UNCHANGED build => Querying'
  <1>1. UNCHANGED events => EventsBounded'
    BY DEF CountedInv, EventsBounded
  <1>2. UNCHANGED build => RowsTyped'
    BY DEF CountedInv, RowsTyped
  <1>3. UNCHANGED cache => CacheInv'
    BY DEF CountedInv, CacheInv, Cached, CacheSound, Cache!WithinBudget, Cache!OneEntryPerKey, cache
  <1>4. UNCHANGED queries => LimiterInv'
    BY CountsAgree
       DEF CountedInv, LimiterInv, Limiter!TypeOK, Limiter!Bounded, Limiter!NoIdlePlace, Limiter!WaitsOnce,
           Limiter!Queued, queries
  <1>5. UNCHANGED queries /\ UNCHANGED build => Querying'
    BY DEF CountedInv, Querying, Limiter!Queued, queries
  <1> QED
    BY <1>1, <1>2, <1>3, <1>4, <1>5

LEMMA LookCounted ==
    ASSUME CountedInv, NEW a \in Addresses, Look(a)
    PROVE  CacheInv' /\ UNCHANGED events
  BY GetSound DEF CountedInv, Look, clickhouse

LEMMA BuildCounted ==
    ASSUME CountedInv, NEW a \in Addresses, NEW b \in Builds, Build(a, b)
    PROVE  RowsTyped' /\ LimiterInv' /\ Querying'
  <1>1. /\ build[b] = NoBuild /\ build' = [build EXCEPT ![b] = [at |-> "query", key |-> KeyOf(a), rows |-> NoRows]]
        /\ Limiter!Enter(b) \/ Limiter!Wait(b)
    BY DEF Build, StartBuild
  <1>2. /\ build'[b].at = "query" /\ build[b].at = "none"
        /\ \A c \in Builds : c # b => build'[c] = build[c]
    BY <1>1 DEF CountedInv, Types, NoBuild
  <1>3. RowsTyped'
    BY <1>2 DEF CountedInv, RowsTyped
  <1>4. inside' \cup Limiter!Queued' = (inside \cup Limiter!Queued) \cup {b}
    <2>1. CASE Limiter!Enter(b)
      BY <2>1 DEF Limiter!Enter, Limiter!Queued
    <2>2. CASE Limiter!Wait(b)
      <3>1. Limiter!Queued' = Limiter!Queued \cup {b}
        BY <2>2, QueuedAfter DEF CountedInv
      <3> QED
        BY <2>2, <3>1 DEF Limiter!Wait
    <2> QED
      BY <1>1, <2>1, <2>2
  <1>5. Querying'
    BY <1>2, <1>4 DEF CountedInv, Querying
  <1> QED
    BY <1>1, <1>3, <1>5, EnterStep, WaitStep DEF CountedInv

\* A query that settles, or that gives up its wait, is the limiter's no more.
LEMMA QueryEndCounted ==
    ASSUME CountedInv, NEW b \in Builds, build[b].at = "query", build'[b].at # "query",
           \A c \in Builds : c # b => build'[c] = build[c],
           Limiter!Leave(b) \/ Limiter!TimeOut(b)
    PROVE  LimiterInv' /\ Querying'
  <1>1. inside' \cup Limiter!Queued' = (inside \cup Limiter!Queued) \ {b}
    <2>1. CASE Limiter!Leave(b)
      BY <2>1, QueuedAfter DEF CountedInv
    <2>2. CASE Limiter!TimeOut(b)
      <3>1. Limiter!Queued' = Limiter!Queued \ {b} /\ b \in Limiter!Queued
        BY <2>2, QueuedAfter DEF CountedInv
      <3>2. inside' = inside /\ b \notin inside
        BY <2>2, <3>1 DEF Limiter!TimeOut, CountedInv, LimiterInv, Limiter!WaitsOnce
      <3> QED
        BY <3>1, <3>2
    <2> QED
      BY <2>1, <2>2
  <1>2. Querying'
    BY <1>1 DEF CountedInv, Querying
  <1> QED
    BY <1>2, LeaveStep, TimeOutStep DEF CountedInv

LEMMA SettleBuild ==
    ASSUME CountedInv, NEW b \in Builds, Settle(b)
    PROVE  /\ build'[b].at = "none" /\ RowsTyped'
           /\ \A c \in Builds : c # b => build'[c] = build[c]
  <1>1. build' = [build EXCEPT ![b] = NoBuild]
    BY DEF Settle
  <1>2. build'[b] = NoBuild /\ \A c \in Builds : c # b => build'[c] = build[c]
    BY <1>1 DEF CountedInv, Types
  <1> QED
    BY <1>2, NoBuildIsNone DEF CountedInv, RowsTyped

LEMMA AnswerCounted ==
    ASSUME CountedInv, NEW b \in Builds, QueryAnswers(b)
    PROVE  RowsTyped' /\ LimiterInv' /\ Querying'
  <1> DEFINE rows == [from |-> view["user_timeline_api"], events |-> events[AddressOf(build[b].key)]]
  <1>1. PICK r : r = [at |-> "gzip", key |-> build[b].key, rows |-> rows]
    OBVIOUS
  <1>2. build' = [build EXCEPT ![b] = r] /\ build[b].at = "query" /\ Limiter!Leave(b)
    BY <1>1 DEF QueryAnswers
  <1>3. r.at = "gzip" /\ r.rows = rows
    BY <1>1
  <1>4. build'[b] = r /\ \A c \in Builds : c # b => build'[c] = build[c]
    BY <1>2 DEF CountedInv, Types
  <1>5. rows \in Timelines
    <2>1. AddressOf(build[b].key) \in Addresses
      BY <1>2, KeyNumbers DEF AddressOf, CountedInv, Types
    <2> QED
      BY <2>1 DEF Timelines, CountedInv, Types, EventsBounded
  <1>6. RowsTyped'
    BY <1>3, <1>4, <1>5 DEF CountedInv, RowsTyped
  <1> QED
    BY <1>2, <1>3, <1>4, <1>6, QueryEndCounted

LEMMA FailureCounted ==
    ASSUME CountedInv, NEW b \in Builds, QueryFails(b) \/ QueryTooLarge(b) \/ WaitTooLong(b)
    PROVE  RowsTyped' /\ LimiterInv' /\ Querying'
  <1>1. build[b].at = "query" /\ Settle(b) /\ (Limiter!Leave(b) \/ Limiter!TimeOut(b))
    BY DEF QueryFails, QueryTooLarge, WaitTooLong
  <1> QED
    BY <1>1, SettleBuild, QueryEndCounted

LEMMA CompressedCounted ==
    ASSUME CountedInv, NEW b \in Builds, Compressed(b)
    PROVE  CacheInv' /\ RowsTyped' /\ LimiterInv' /\ Querying'
  <1>1. build[b].at = "gzip" /\ Settle(b) /\ UNCHANGED queries
    BY DEF Compressed
  <1>2. PICK bytes \in Sizes : Cache!Set(build[b].key, build[b].rows, bytes)
    BY DEF Compressed
  <1>3. build[b].key \in Keys /\ build[b].rows \in Timelines /\ bytes \in Nat
    BY <1>1, <1>2 DEF CountedInv, Types, RowsTyped
  <1>4. CacheInv'
    BY <1>2, <1>3, SetSound DEF CountedInv
  <1>5. /\ build'[b].at = "none" /\ RowsTyped'
        /\ \A c \in Builds : c # b => build'[c] = build[c]
    BY <1>1, SettleBuild
  <1>6. Querying'
    BY <1>1, <1>5 DEF CountedInv, Querying, Limiter!Queued, queries
  <1> QED
    BY <1>1, <1>4, <1>5, <1>6, CountedRest

LEMMA ResponseFailsCounted ==
    ASSUME CountedInv, NEW b \in Builds, ResponseFails(b)
    PROVE  RowsTyped' /\ LimiterInv' /\ Querying'
  <1>1. build[b].at = "gzip" /\ Settle(b) /\ UNCHANGED queries
    BY DEF ResponseFails
  <1>2. /\ build'[b].at = "none" /\ RowsTyped'
        /\ \A c \in Builds : c # b => build'[c] = build[c]
    BY <1>1, SettleBuild
  <1>3. Querying'
    BY <1>1, <1>2 DEF CountedInv, Querying, Limiter!Queued, queries
  <1> QED
    BY <1>1, <1>2, <1>3, CountedRest

LEMMA CountedStep == CountedInv /\ [Next]_vars => CountedInv'
  <1> SUFFICES ASSUME CountedInv, [Next]_vars PROVE CountedInv'
    OBVIOUS
  <1>t. Types'
    BY TypesStep DEF CountedInv
  <1>1. ASSUME NEW a \in Addresses, NewEvent(a) PROVE CountedInv'
    <2>1. events' = [events EXCEPT ![a] = events[a] + 1] /\ events[a] < MaxEvents
      BY <1>1 DEF NewEvent
    <2>2. EventsBounded'
      <3>1. events \in [Addresses -> 0..MaxEvents]
        BY DEF CountedInv, EventsBounded
      <3>2. events[a] + 1 \in 0..MaxEvents
        BY <2>1, <3>1
      <3> QED
        BY <2>1, <3>1, <3>2 DEF EventsBounded
    <2>3. UNCHANGED <<cache, build, queries>>
      BY <1>1 DEF NewEvent
    <2> QED
      BY <1>t, <2>2, <2>3, CountedRest DEF CountedInv
  <1>2. ASSUME NEW a \in Addresses, Answer(a) \/ Refuse(a) PROVE CountedInv'
    <2>1. Look(a) /\ UNCHANGED <<build, queries>>
      BY <1>2 DEF Answer, Refuse
    <2> QED
      BY <1>t, <2>1, LookCounted, CountedRest DEF CountedInv
  <1>3. ASSUME NEW a \in Addresses, NEW b \in Builds, Build(a, b) PROVE CountedInv'
    <2>1. Look(a)
      BY <1>3 DEF Build
    <2> QED
      BY <1>3, <1>t, <2>1, LookCounted, BuildCounted, CountedRest DEF CountedInv
  <1>4. ASSUME NEW b \in Builds, QueryAnswers(b) PROVE CountedInv'
    <2>1. UNCHANGED <<events, cache>>
      BY <1>4 DEF QueryAnswers, clickhouse
    <2> QED
      BY <1>4, <1>t, <2>1, AnswerCounted, CountedRest DEF CountedInv
  <1>5. ASSUME NEW b \in Builds, QueryFails(b) \/ QueryTooLarge(b) \/ WaitTooLong(b) PROVE CountedInv'
    <2>1. UNCHANGED <<events, cache>>
      BY <1>5 DEF QueryFails, QueryTooLarge, WaitTooLong, clickhouse
    <2> QED
      BY <1>5, <1>t, <2>1, FailureCounted, CountedRest DEF CountedInv
  <1>6. ASSUME NEW b \in Builds, Compressed(b) PROVE CountedInv'
    <2>1. UNCHANGED events
      BY <1>6 DEF Compressed, clickhouse
    <2> QED
      BY <1>6, <1>t, <2>1, CompressedCounted, CountedRest DEF CountedInv
  <1>11. ASSUME NEW b \in Builds, ResponseFails(b) PROVE CountedInv'
    <2>1. UNCHANGED <<events, cache>>
      BY <1>11 DEF ResponseFails, clickhouse
    <2> QED
      BY <1>11, <1>t, <2>1, ResponseFailsCounted, CountedRest DEF CountedInv
  <1>7. CASE Age
    <2>1. UNCHANGED <<events, build, queries>> /\ Cache!Age
      BY <1>7 DEF Age, clickhouse
    <2> QED
      BY <1>t, <2>1, AgeSound, CountedRest DEF CountedInv
  <1>8. ASSUME UNCHANGED <<events, cache, build, queries>> PROVE CountedInv'
    BY <1>8, <1>t, CountedRest DEF CountedInv
  <1>9. ASSUME NEW v \in Versions, StartSwitch(v) PROVE CountedInv'
    BY <1>8, <1>9 DEF StartSwitch
  <1>10. CASE Retarget \/ ReadStatus \/ LearnStatus \/ MissStatus \/ ForgetTooLarge \/ UNCHANGED vars
    BY <1>8, <1>10 DEF Retarget, ReadStatus, LearnStatus, MissStatus, ForgetTooLarge, vars, clickhouse
  <1> QED
    BY <1>1, <1>2, <1>3, <1>4, <1>5, <1>6, <1>7, <1>9, <1>10, <1>11 DEF Next

\* What is counted is what there is, whatever is looked up, built, evicted or too late: the
\* cache's counter is the bytes of its entries, within the budget, with one entry per key;
\* and the limiter's places and queue are exactly the builds that query.
THEOREM CountersTrue == Spec => []Counted
  <1>1. CountedInv => Counted
    BY DEF CountedInv, CacheInv, Counted, PlacesAreQueries, LimiterInv, Querying, Limiter!Queued,
           Limiter!Range, Range
  <1> QED
    BY CountedInit, CountedStep, <1>1, PTL DEF Spec
=============================================================================
