---------------------------- MODULE IndexerProofs ----------------------------
(***************************************************************************)
(* What runs beside the database: the worker, the head prices, the pacing  *)
(* proxy and the multicall batcher, each for every value of its constants, *)
(* and then each as the part of Indexer that runs.                         *)
(*                                                                         *)
(* The worker's argument: a job is passed from its run to its timer.  The  *)
(* prices': wherever a price is on its way, it is as old as its last       *)
(* listing at least.  The proxy's: the counters are the holders of places, *)
(* whoever gives a place back wakes everybody, and what is learnt of an    *)
(* upstream never hides what it serves.  The batcher's: a group's calls    *)
(* are together in its request, so its slice of the results is its own.    *)
(***************************************************************************)
EXTENDS Indexer, FiniteSetTheorems, SequenceTheorems, NaturalsInduction, WellFoundedInduction, TLAPS

-----------------------------------------------------------------------------
(* The worker.  A job is with its timer or in its run; `Schedule` passes   *)
(* it from the run to the timer, or to nothing once the signal came.       *)

WorkerInv ==
    /\ running \in [Process!Jobs -> Nat] /\ timers \subseteq Process!Jobs
    /\ aborted \in BOOLEAN
    /\ process \in {"up", "closed", "exited"}
    /\ process # "up" => aborted
    /\ Process!NeverOverlaps

LEMMA WorkerStarts == Process!Init \/ WorkerEnded => WorkerInv
<1>1. ASSUME Process!Init  PROVE WorkerInv
  <2>1. \A j \in Process!Jobs : running[j] = 1 /\ j \notin timers
    BY <1>1 DEF Process!Init
  <2>2. aborted = FALSE /\ process = "up" /\ running \in [Process!Jobs -> Nat] /\ timers = {}
    BY <1>1 DEF Process!Init
  <2>3. Process!NeverOverlaps
    BY <2>1, <2>2 DEF Process!NeverOverlaps
  <2> QED  BY <2>2, <2>3 DEF WorkerInv
<1>2. ASSUME WorkerEnded  PROVE WorkerInv
  <2>1. \A j \in Process!Jobs : running[j] = 0 /\ j \notin timers
    BY <1>2 DEF WorkerEnded
  <2> QED  BY <1>2, <2>1 DEF WorkerEnded, WorkerInv, Process!NeverOverlaps
<1> QED  BY <1>1, <1>2

LEMMA WorkerSteps == WorkerInv /\ [Process!Next]_(Process!vars) => WorkerInv'
<1> SUFFICES ASSUME WorkerInv, [Process!Next]_(Process!vars)  PROVE WorkerInv'
  OBVIOUS
<1> USE DEF WorkerInv, Process!NeverOverlaps, Process!Idle
\* A run of job j ends.
<1>1. ASSUME NEW j \in Process!Jobs, running[j] > 0, Process!Schedule(j), UNCHANGED <<aborted, process>>
      PROVE  WorkerInv'
  <2>1. running[j] = 1 /\ j \notin timers
    BY <1>1
  <2>2. running' = [running EXCEPT ![j] = 0]
    BY <1>1, <2>1 DEF Process!Schedule
  <2> QED  BY <1>1, <2>1, <2>2 DEF Process!Schedule
<1>2. ASSUME NEW j \in Process!Jobs, Process!Fail(j)  PROVE WorkerInv'
  BY <1>1, <1>2 DEF Process!Fail
<1>3. ASSUME NEW j \in Process!Jobs, Process!Loop(j)  PROVE WorkerInv'
  <2>1. running[j] = 0 /\ ~aborted
    BY <1>3 DEF Process!Loop
  <2>2. running' = [running EXCEPT ![j] = 1]
    BY <1>3, <2>1 DEF Process!Loop
  <2> QED  BY <1>3, <2>1, <2>2 DEF Process!Loop
<1>4. CASE Process!Advance
  BY <1>1, <1>4 DEF Process!Advance, Process!Jobs
<1>5. CASE Process!Report
  BY <1>1, <1>5 DEF Process!Report, Process!Jobs
<1>6. CASE Process!Stop
  BY <1>6 DEF Process!Stop
<1>7. CASE Process!Close
  BY <1>7 DEF Process!Close
<1>8. CASE Process!Exit
  BY <1>8 DEF Process!Exit
<1>9. CASE UNCHANGED Process!scheduler
  BY <1>9 DEF Process!scheduler
<1>10. CASE Process!Move \/ Process!Pass \/ \E s \in Process!States : Process!Turn(s)
  BY <1>9, <1>10 DEF Process!Move, Process!Pass, Process!Turn
<1> QED
  BY <1>2, <1>3, <1>4, <1>5, <1>6, <1>7, <1>8, <1>9, <1>10 DEF Process!Next, Process!vars

LEMMA LongestIs ==
    /\ Process!Longest \in Nat
    /\ 2 * StallAlert <= Process!Longest
<1>1. Process!Alerts \subseteq Nat /\ 2 * StallAlert \in Process!Alerts
  BY PartsAssumption DEF Process!WorkerAssumption, Process!Alerts
<1>2. \E n \in Process!Alerts : \A m \in Process!Alerts : m <= n
  BY <1>1 DEF Process!Alerts
<1> QED  BY <1>1, <1>2 DEF Process!Longest

\* What the job saw last is what the chain has: it has not moved for at least as long as the
\* job has known.
ClockInv ==
    /\ movedAt \in 0..Process!Never /\ still \in 0..(Process!Longest + 1)
    /\ moved \in BOOLEAN
    /\ Process!Seen => movedAt <= still

LEMMA ClockStarts == Process!Init => ClockInv
  BY LongestIs DEF Process!Init, ClockInv, Process!Seen, Process!Never

LEMMA ClockSteps == ClockInv /\ [Process!Next]_(Process!vars) => ClockInv'
<1> SUFFICES ASSUME ClockInv, [Process!Next]_(Process!vars)  PROVE ClockInv'
  OBVIOUS
<1> USE LongestIs DEF ClockInv, Process!Seen, Process!Never
<1>1. CASE UNCHANGED <<movedAt, moved, still>>
  BY <1>1
<1>2. CASE Process!Report
  <2>1. Process!StalledChains /\ UNCHANGED still
    BY <1>2 DEF Process!Report
  <2>2. CASE state = "retired"
    BY <1>1, <2>1, <2>2 DEF Process!StalledChains
  <2>3. CASE state # "retired"
    <3>1. movedAt' = (IF Process!Seen THEN movedAt ELSE 0) /\ moved' = FALSE
      BY <2>1, <2>3 DEF Process!StalledChains
    <3>2. movedAt' \in 0..Process!Never /\ (movedAt' <= still \/ movedAt' = movedAt)
      BY <3>1
    <3>3. Process!Seen' => movedAt' <= still'
      BY <2>1, <3>1
    <3> QED  BY <2>1, <3>1, <3>2, <3>3
  <2> QED  BY <2>2, <2>3
<1>3. CASE Process!Move
  BY <1>3 DEF Process!Move
<1>4. CASE Process!Pass
  BY <1>4 DEF Process!Pass, Process!Older
<1>5. ASSUME NEW j \in Process!Jobs, Process!Fail(j) \/ Process!Loop(j)  PROVE ClockInv'
  BY <1>1, <1>5 DEF Process!Fail, Process!Loop, Process!version
<1>6. ASSUME NEW s, Process!Turn(s)  PROVE ClockInv'
  BY <1>1, <1>6 DEF Process!Turn
<1>7. CASE Process!Advance \/ Process!Stop \/ Process!Close \/ Process!Exit
  BY <1>1, <1>7 DEF Process!Advance, Process!Stop, Process!Close, Process!Exit, Process!version
<1>8. CASE UNCHANGED Process!vars
  BY <1>1, <1>8 DEF Process!vars, Process!version
<1> QED
  BY <1>2, <1>3, <1>4, <1>5, <1>6, <1>7, <1>8 DEF Process!Next

\* However often the clock starts again, reports fail or the version is retired and taken back,
\* a chain is reported stalled only when it has not moved for the alert's time less half a minute.
THEOREM NoChainFalselyStalled == Process!Spec => Process!NoFalseAlarm
<1>1. ClockInv /\ [Process!Next]_(Process!vars)
        => [Process!Report /\ "chain-stalled" \in warned' => still + 1 >= 2 * StallAlert]_(Process!vars)
  <2> SUFFICES ASSUME ClockInv, Process!Report, "chain-stalled" \in warned'
               PROVE  still + 1 >= 2 * StallAlert
    OBVIOUS
  <2>1. "chain-stalled" \notin Process!VersionReport
    BY DEF Process!VersionReport, Process!Line
  <2>2. Process!Seen /\ Process!Minutes(movedAt) >= StallAlert
    BY <2>1 DEF Process!Report, Process!StalledChains, Process!Line
  <2>3. movedAt \in Nat /\ StallAlert \in Nat /\ (movedAt + 1) \div 2 >= StallAlert
    BY <2>2, LongestIs, PartsAssumption
       DEF ClockInv, Process!Never, Process!WorkerAssumption, Process!Minutes
  <2> QED
    BY <2>2, <2>3, LongestIs, PartsAssumption DEF ClockInv, Process!Never, Process!WorkerAssumption
<1> QED
  BY <1>1, ClockStarts, ClockSteps, PTL DEF Process!Spec, Process!NoFalseAlarm
-----------------------------------------------------------------------------
(* The head prices.  A price that is kept is as old as its last listing at *)
(* least, wherever it is on its way: in a refresh's answers, in the data   *)
(* of its endpoint, with its contract.                                     *)

Entry == [items : SUBSET Heads!Contracts, age : Nat]
AnswerType == [state : {"none", "pending", "answered", "failed"}, data : Entry]
SlotType ==
    [part : {"idle", "prices", "mappings", "both"}, age : {0, 1}, answers : [Heads!Endpoints -> AnswerType]]

\* A price in data young enough to be given was listed when the data were read.
Fresh(data, u) == \A v \in data.items \cap Vaults : data.age <= MaxAge => u[v] <= data.age + 1

PriceOf(c) ==
    LET kept == fetched[ListedIn[Heads!VaultOf(c)]]
    IN  IF c \in Heads!ContractMappings /\ Heads!VaultOf(c) \in kept.items
        THEN Heads!Data({Heads!VaultOf(c)}, kept.age) ELSE Heads!Nothing

HeadsTyped ==
    /\ unlisted \in [Vaults -> Nat]
    /\ vaults \subseteq Vaults /\ boosts \subseteq Boosts
    /\ fetched \in [PriceEndpoints -> Entry]
    /\ slots \in [Slots -> SlotType]
DataFresh == \A e \in PriceEndpoints : Fresh(fetched[e], unlisted)
AnswersFresh ==
    \A s \in Slots :
        /\ \A e \in PriceEndpoints : /\ Fresh(slots[s].answers[e].data, unlisted)
                                    /\ slots[s].answers[e].data.age <= slots[s].age
        /\ slots[s].answers["vaults/all"].state = "answered" =>
              slots[s].answers["vaults/all"].data.items = Vaults
        /\ slots[s].answers["boosts"].state = "answered" => slots[s].answers["boosts"].data.items = Boosts
Rebuilt == byChain = [c \in Heads!Contracts |-> PriceOf(c)]
HeadsInv == HeadsTyped /\ DataFresh /\ AnswersFresh /\ Rebuilt

LEMMA VaultOfTyped ==
    \A c \in Heads!Contracts : Heads!VaultOf(c) \in Vaults /\ ListedIn[Heads!VaultOf(c)] \in PriceEndpoints
  BY PartsAssumption DEF Heads!HeadPricesAssumption, Heads!Contracts, Heads!VaultOf

LEMMA ListingIs ==
    /\ \A e \in PriceEndpoints : Heads!Listing(e) = {v \in Vaults : ListedIn[v] = e /\ unlisted[v] = 0}
    /\ Heads!Listing("vaults/all") = Vaults
    /\ Heads!Listing("boosts") = Boosts
<1>1. \A e \in PriceEndpoints : e # "vaults/all" /\ e # "boosts"
  BY PartsAssumption DEF Heads!HeadPricesAssumption
<1> QED  BY <1>1 DEF Heads!Listing

LEMMA FreeTyped ==
    ASSUME NEW E
    PROVE  /\ Heads!Free \in SlotType
           /\ \A p \in {"prices", "mappings", "both"} : Heads!Begin(p, E) \in SlotType
           /\ Heads!Nothing \in Entry
  BY DEF Heads!Free, Heads!Slot, Heads!NotAsked, Heads!Answer, Heads!Nothing, Heads!Data, Heads!Begin,
         SlotType, AnswerType, Entry

\* A refresh that has no answer yet, or none in progress.
Unanswered(slot) ==
    /\ slot \in SlotType
    /\ \A e \in Heads!Endpoints : slot.answers[e].state # "answered" /\ slot.answers[e].data = Heads!Nothing

LEMMA NothingIsFresh == Heads!Nothing.items = {} /\ Heads!Nothing.age = 0 /\ \A u : Fresh(Heads!Nothing, u)
  BY DEF Heads!Nothing, Heads!Data, Fresh

LEMMA UnansweredAre ==
    /\ Unanswered(Heads!Free)
    /\ \A E : \A p \in {"prices", "mappings", "both"} : Unanswered(Heads!Begin(p, E))
  BY FreeTyped DEF Unanswered, Heads!Free, Heads!NotAsked, Heads!Begin, Heads!Slot, Heads!Answer

LEMMA HeadsStart == Heads!Init => HeadsInv
<1> SUFFICES ASSUME Heads!Init  PROVE HeadsInv
  OBVIOUS
<1>1. HeadsTyped
  BY FreeTyped DEF Heads!Init, HeadsTyped
<1>2. DataFresh
  BY NothingIsFresh DEF Heads!Init, DataFresh
<1>3. \A s \in Slots : Unanswered(slots[s])
  BY UnansweredAre DEF Heads!Init
<1>4. AnswersFresh
  BY <1>3, NothingIsFresh DEF AnswersFresh, Unanswered, SlotType, Heads!Endpoints, Heads!MappingEndpoints
<1>5. Heads!ContractMappings = {}
  BY DEF Heads!Init, Heads!ContractMappings
<1> QED  BY <1>1, <1>2, <1>4, <1>5 DEF Heads!Init, HeadsInv, Rebuilt, PriceOf

\* A refresh begins: its slot has no answer.
LEMMA RefreshBegins ==
    ASSUME HeadsInv, NEW slot, Unanswered(slot),
           \E s \in Slots : slots' = [slots EXCEPT ![s] = slot], UNCHANGED <<unlisted, Heads!cache>>
    PROVE  HeadsInv'
<1> PICK s \in Slots : slots' = [slots EXCEPT ![s] = slot]
  OBVIOUS
<1>1. UNCHANGED <<unlisted, vaults, boosts, fetched, byChain>>
  BY DEF Heads!cache
<1>2. HeadsTyped'
  BY <1>1 DEF HeadsInv, HeadsTyped, Unanswered
<1>3. DataFresh'
  BY <1>1 DEF HeadsInv, DataFresh
<1>4. \A t \in Slots : slots'[t] = slots[t] \/ Unanswered(slots'[t])
  BY DEF HeadsInv, HeadsTyped
<1>5. AnswersFresh'
  <2> SUFFICES ASSUME NEW t \in Slots
      PROVE /\ \A e \in PriceEndpoints : /\ Fresh(slots'[t].answers[e].data, unlisted)
                                         /\ slots'[t].answers[e].data.age <= slots'[t].age
            /\ slots'[t].answers["vaults/all"].state = "answered" =>
                  slots'[t].answers["vaults/all"].data.items = Vaults
            /\ slots'[t].answers["boosts"].state = "answered" =>
                  slots'[t].answers["boosts"].data.items = Boosts
    BY <1>1 DEF AnswersFresh
  <2>1. CASE slots'[t] = slots[t]
    BY <2>1 DEF HeadsInv, AnswersFresh
  <2>2. CASE Unanswered(slots'[t])
    BY <2>2, NothingIsFresh DEF Unanswered, SlotType, Heads!Endpoints, Heads!MappingEndpoints
  <2> QED  BY <1>4, <2>1, <2>2
<1>6. Rebuilt'
  BY <1>1 DEF HeadsInv, Rebuilt, PriceOf, Heads!ContractMappings
<1> QED  BY <1>2, <1>3, <1>5, <1>6 DEF HeadsInv

\* The vault's price may be listed or not from now on: what was read stays fresh.
LEMMA RelistKeepsFresh ==
    ASSUME HeadsInv, NEW v \in Vaults, Heads!Relist(v)  PROVE HeadsInv'
<1>1. UNCHANGED <<vaults, boosts, fetched, byChain, slots>>
  BY DEF Heads!Relist, Heads!cache
<1>2. unlisted' \in [Vaults -> Nat] /\ \A w \in Vaults : unlisted'[w] <= unlisted[w] \/ unlisted'[w] = 1
  BY DEF HeadsInv, HeadsTyped, Heads!Relist
<1>3. ASSUME NEW d \in Entry, Fresh(d, unlisted)  PROVE Fresh(d, unlisted')
  BY <1>2, <1>3 DEF Fresh, Entry, HeadsInv, HeadsTyped
<1>4. HeadsTyped'
  BY <1>1, <1>2 DEF HeadsInv, HeadsTyped
<1>5. DataFresh'
  BY <1>1, <1>3 DEF HeadsInv, HeadsTyped, DataFresh
<1>6. AnswersFresh'
  <2>1. \A s \in Slots, e \in PriceEndpoints : slots[s].answers[e].data \in Entry
    BY DEF HeadsInv, HeadsTyped, SlotType, AnswerType, Heads!Endpoints
  <2> QED  BY <1>1, <1>3, <2>1 DEF HeadsInv, AnswersFresh
<1>7. Rebuilt'
  BY <1>1 DEF HeadsInv, Rebuilt, PriceOf, Heads!ContractMappings
<1> QED  BY <1>4, <1>5, <1>6, <1>7 DEF HeadsInv

LEMMA AgedIs ==
    ASSUME NEW d \in Entry
    PROVE  /\ Heads!Aged(d) \in Entry
           /\ Heads!Aged(d).items = d.items
           /\ Heads!Aged(d).age = IF d.items = {} \/ d.age > MaxAge THEN d.age ELSE d.age + 1
  BY DEF Heads!Aged, Entry

\* A unit of time makes data, and what is not listed any more, a unit older.
LEMMA TickKeepsFresh == ASSUME HeadsInv, Heads!Tick  PROVE HeadsInv'
<1>1. UNCHANGED <<vaults, boosts>> /\ \A s \in Slots : slots[s].age = 0
  BY DEF Heads!Tick
<1>2. unlisted' \in [Vaults -> Nat] /\ \A w \in Vaults : unlisted'[w] <= unlisted[w] + 1
  BY PartsAssumption DEF HeadsInv, HeadsTyped, Heads!Tick, Heads!Older, Heads!Old, Heads!HeadPricesAssumption
<1>3. ASSUME NEW d \in Entry, Fresh(d, unlisted)  PROVE Fresh(Heads!Aged(d), unlisted')
  <2> SUFFICES ASSUME NEW v \in d.items \cap Vaults, Heads!Aged(d).age <= MaxAge
               PROVE  unlisted'[v] <= Heads!Aged(d).age + 1
    BY AgedIs DEF Fresh
  <2>1. d.age \in Nat /\ MaxAge \in Nat /\ unlisted[v] \in Nat /\ unlisted'[v] \in Nat
    BY <1>2, PartsAssumption DEF Entry, Heads!HeadPricesAssumption, HeadsInv, HeadsTyped
  <2>2. d.age <= MaxAge /\ Heads!Aged(d).age = d.age + 1
    BY <2>1, AgedIs
  <2>3. unlisted[v] <= d.age + 1
    BY <1>3, <2>2 DEF Fresh
  <2> QED  BY <1>2, <2>1, <2>2, <2>3
<1>4. ASSUME NEW e \in PriceEndpoints
      PROVE  fetched[e] \in Entry /\ fetched'[e] = Heads!Aged(fetched[e]) /\ Fresh(fetched[e], unlisted)
  BY DEF HeadsInv, HeadsTyped, DataFresh, Heads!Tick
<1>5. DataFresh'
  BY <1>3, <1>4 DEF DataFresh
<1>6. fetched' \in [PriceEndpoints -> Entry]
  <2>1. fetched' = [e \in PriceEndpoints |-> Heads!Aged(fetched[e])]
    BY DEF Heads!Tick
  <2> QED  BY <1>4, <2>1, AgedIs
<1>7. ASSUME NEW s \in Slots, slots[s].part # "idle"
      PROVE  /\ slots'[s] \in SlotType /\ slots'[s].age = 1
             /\ \A e \in PriceEndpoints :
                    slots'[s].answers[e].data = Heads!Aged(slots[s].answers[e].data)
             /\ \A e \in Heads!Endpoints \ PriceEndpoints : slots'[s].answers[e] = slots[s].answers[e]
  <2> DEFINE after == [e \in Heads!Endpoints |->
                        IF e \in PriceEndpoints THEN [slots[s].answers[e] EXCEPT !.data = Heads!Aged(@)]
                        ELSE slots[s].answers[e]]
  <2>1. slots'[s] = [part |-> slots[s].part, age |-> 1, answers |-> after]
    BY <1>7 DEF Heads!Tick, Heads!Slot
  <2>2. \A e \in Heads!Endpoints : slots[s].answers[e] \in AnswerType
    BY DEF HeadsInv, HeadsTyped, SlotType
  <2>3. \A e \in Heads!Endpoints : after[e] \in AnswerType
    BY <2>2, AgedIs DEF AnswerType
  <2>4. after \in [Heads!Endpoints -> AnswerType]
    BY <2>3
  <2>5. \A e \in PriceEndpoints : after[e].data = Heads!Aged(slots[s].answers[e].data)
    BY <2>2 DEF Heads!Endpoints, AnswerType
  <2>6. \A e \in Heads!Endpoints \ PriceEndpoints : after[e] = slots[s].answers[e]
    OBVIOUS
  <2>7. slots[s].part \in {"idle", "prices", "mappings", "both"}
    BY DEF HeadsInv, HeadsTyped, SlotType
  <2> HIDE DEF after
  <2>8. slots'[s] \in SlotType
    BY <2>1, <2>4, <2>7 DEF SlotType
  <2> QED  BY <2>1, <2>5, <2>6, <2>8
<1>8. ASSUME NEW s \in Slots, slots[s].part = "idle"  PROVE slots'[s] = Heads!Free
  BY <1>8 DEF Heads!Tick
<1>9. HeadsTyped'
  <2>1. \A s \in Slots : slots'[s] \in SlotType
    BY <1>7, <1>8, FreeTyped
  <2>2. slots' \in [Slots -> SlotType]
    BY <2>1 DEF Heads!Tick
  <2> QED  BY <1>1, <1>2, <1>6, <2>2 DEF HeadsInv, HeadsTyped
<1>10. AnswersFresh'
  <2> SUFFICES ASSUME NEW s \in Slots
      PROVE /\ \A e \in PriceEndpoints : /\ Fresh(slots'[s].answers[e].data, unlisted')
                                         /\ slots'[s].answers[e].data.age <= slots'[s].age
            /\ slots'[s].answers["vaults/all"].state = "answered" =>
                  slots'[s].answers["vaults/all"].data.items = Vaults
            /\ slots'[s].answers["boosts"].state = "answered" =>
                  slots'[s].answers["boosts"].data.items = Boosts
    BY DEF AnswersFresh
  <2>1. CASE slots[s].part = "idle"
    BY <1>8, <2>1, UnansweredAre, NothingIsFresh
       DEF Unanswered, SlotType, Heads!Endpoints, Heads!MappingEndpoints
  <2>2. CASE slots[s].part # "idle"
    <3>1. ASSUME NEW e \in PriceEndpoints
          PROVE  /\ Fresh(slots'[s].answers[e].data, unlisted')
                 /\ slots'[s].answers[e].data.age <= slots'[s].age
      <4>1. slots[s].answers[e] \in AnswerType /\ slots[s].answers[e].data \in Entry
        BY DEF HeadsInv, HeadsTyped, SlotType, AnswerType, Heads!Endpoints
      <4>2. slots'[s].answers[e].data = Heads!Aged(slots[s].answers[e].data)
        BY <1>7, <2>2
      <4>3. Fresh(slots[s].answers[e].data, unlisted) /\ slots[s].answers[e].data.age <= 0
        BY <1>1 DEF HeadsInv, AnswersFresh
      <4>4. slots'[s].age = 1
        BY <1>7, <2>2
      <4> QED  BY <1>3, <4>1, <4>2, <4>3, <4>4, AgedIs DEF Entry
    <3>2. \A e \in {"vaults/all", "boosts"} : e \in Heads!Endpoints \ PriceEndpoints
      BY PartsAssumption DEF Heads!HeadPricesAssumption, Heads!Endpoints, Heads!MappingEndpoints
    <3>3. \A e \in {"vaults/all", "boosts"} : slots'[s].answers[e] = slots[s].answers[e]
      BY <1>7, <2>2, <3>2
    <3> QED  BY <3>1, <3>3 DEF HeadsInv, AnswersFresh
  <2> QED  BY <2>1, <2>2
<1>11. Rebuilt'
  <2>1. byChain' = [c \in Heads!Contracts |-> Heads!Aged(byChain[c])]
    BY DEF Heads!Tick
  <2>2. ASSUME NEW c \in Heads!Contracts  PROVE Heads!Aged(byChain[c]) = PriceOf(c)'
    <3> DEFINE e == ListedIn[Heads!VaultOf(c)]
    <3>1. byChain[c] = PriceOf(c)
      BY DEF HeadsInv, Rebuilt
    <3>2. fetched[e] \in Entry /\ fetched'[e] = Heads!Aged(fetched[e])
      BY <1>4, VaultOfTyped
    <3>3. fetched'[e].items = fetched[e].items
      BY <3>2, AgedIs
    <3>4. Heads!ContractMappings' = Heads!ContractMappings
      BY <1>1 DEF Heads!ContractMappings
    <3>5. CASE c \in Heads!ContractMappings /\ Heads!VaultOf(c) \in fetched[e].items
      <4>1. PriceOf(c) = Heads!Data({Heads!VaultOf(c)}, fetched[e].age)
        BY <3>5 DEF PriceOf
      <4>2. PriceOf(c)' = Heads!Data({Heads!VaultOf(c)}, fetched'[e].age)
        BY <3>3, <3>4, <3>5 DEF PriceOf
      <4>3. fetched'[e].age = IF fetched[e].age > MaxAge THEN fetched[e].age ELSE fetched[e].age + 1
        BY <3>2, <3>5, AgedIs
      <4>4. fetched[e].age \in Nat
        BY <3>2 DEF Entry
      <4>5. PICK v, n, m : v = Heads!VaultOf(c) /\ n = fetched[e].age /\ m = fetched'[e].age
        OBVIOUS
      <4>6. Heads!Aged(Heads!Data({v}, n)) = Heads!Data({v}, m)
        BY <4>3, <4>4, <4>5 DEF Heads!Aged, Heads!Data
      <4> QED  BY ONLY <3>1, <4>1, <4>2, <4>5, <4>6
    <3>6. CASE ~(c \in Heads!ContractMappings /\ Heads!VaultOf(c) \in fetched[e].items)
      <4>1. PriceOf(c) = Heads!Nothing /\ PriceOf(c)' = Heads!Nothing
        BY <3>3, <3>4, <3>6 DEF PriceOf
      <4> QED  BY <3>1, <4>1 DEF Heads!Aged, Heads!Nothing, Heads!Data
    <3> QED  BY <3>5, <3>6
  <2> QED  BY <2>1, <2>2 DEF Rebuilt
<1> QED  BY <1>5, <1>9, <1>10, <1>11 DEF HeadsInv

\* The answers of a refresh, as fresh as AnswersFresh wants them of a slot this old.
FreshAnswers(answers, age) ==
    /\ answers \in [Heads!Endpoints -> AnswerType]
    /\ \A e \in PriceEndpoints : Fresh(answers[e].data, unlisted) /\ answers[e].data.age <= age
    /\ answers["vaults/all"].state = "answered" => answers["vaults/all"].data.items = Vaults
    /\ answers["boosts"].state = "answered" => answers["boosts"].data.items = Boosts

\* A fetch settles: its answer, when there is one, is what the API lists now.
LEMMA FetchSettles ==
    ASSUME HeadsInv, NEW s \in Slots, NEW e \in Heads!Endpoints, Heads!Fetched(s, e)
    PROVE  \E answers :
             /\ FreshAnswers(answers, slots[s].age)
             /\ \A p \in Heads!Endpoints :
                   \/ answers[p] = slots[s].answers[p]
                   \/ answers[p].state # "answered"
                   \/ healthy /\ answers[p].data.items = Heads!Listing(p)
             /\ \/ slots' = [slots EXCEPT ![s].answers = answers] /\ UNCHANGED Heads!cache
                \/ Heads!RefreshedPrices(s, answers)
                \/ Heads!RefreshedMappings(s, answers)
<1>1. PICK got : got = IF healthy THEN Heads!Answer("answered", Heads!Data(Heads!Listing(e), 0))
                             ELSE Heads!Answer("failed", Heads!Nothing)
  OBVIOUS
<1>2. PICK answers : answers = [slots[s].answers EXCEPT ![e] = got]
  OBVIOUS
<1>3. \/ slots' = [slots EXCEPT ![s].answers = answers] /\ UNCHANGED Heads!cache
      \/ Heads!RefreshedPrices(s, answers)
      \/ Heads!RefreshedMappings(s, answers)
  BY <1>1, <1>2 DEF Heads!Fetched
<1>4. Heads!Listing(e) \subseteq Heads!Contracts
  BY ListingIs DEF Heads!Endpoints, Heads!MappingEndpoints, Heads!Contracts
<1>5. got \in AnswerType /\ got.data.age = 0
  BY <1>1, <1>4, FreeTyped, NothingIsFresh DEF AnswerType, Entry, Heads!Answer, Heads!Data
<1>6. got.state = "answered" => healthy /\ got.data.items = Heads!Listing(e)
  BY <1>1 DEF Heads!Answer, Heads!Data
<1>7. got.state # "answered" => got.data = Heads!Nothing
  BY <1>1 DEF Heads!Answer
<1>8. /\ slots[s].answers \in [Heads!Endpoints -> AnswerType]
      /\ slots[s].age \in {0, 1}
  BY DEF HeadsInv, HeadsTyped, SlotType
<1>9. /\ answers \in [Heads!Endpoints -> AnswerType]
      /\ answers[e] = got
      /\ \A p \in Heads!Endpoints : p # e => answers[p] = slots[s].answers[p]
  BY <1>2, <1>5, <1>8
<1>10. ASSUME NEW p \in PriceEndpoints
       PROVE  Fresh(answers[p].data, unlisted) /\ answers[p].data.age <= slots[s].age
  <2>1. p \in Heads!Endpoints
    BY DEF Heads!Endpoints
  <2>2. CASE p # e
    BY <1>9, <2>1, <2>2 DEF HeadsInv, AnswersFresh
  <2>3. CASE p = e /\ got.state # "answered"
    BY <1>7, <1>8, <1>9, <2>3, NothingIsFresh
  <2>4. CASE p = e /\ got.state = "answered"
    <3>1. \A v \in got.data.items : unlisted[v] = 0
      BY <1>6, <2>4, ListingIs
    <3>2. Fresh(got.data, unlisted)
      BY <1>5, <3>1 DEF Fresh
    <3> QED  BY <1>5, <1>8, <1>9, <2>4, <3>2
  <2> QED  BY <2>2, <2>3, <2>4
<1>11. /\ answers["vaults/all"].state = "answered" => answers["vaults/all"].data.items = Vaults
       /\ answers["boosts"].state = "answered" => answers["boosts"].data.items = Boosts
  <2>1. {"vaults/all", "boosts"} \subseteq Heads!Endpoints
    BY DEF Heads!Endpoints, Heads!MappingEndpoints
  <2> QED  BY <1>6, <1>9, <2>1, ListingIs DEF HeadsInv, AnswersFresh
<1>12. FreshAnswers(answers, slots[s].age)
  BY <1>9, <1>10, <1>11 DEF FreshAnswers
<1>13. \A p \in Heads!Endpoints :
          \/ answers[p] = slots[s].answers[p]
          \/ answers[p].state # "answered"
          \/ healthy /\ answers[p].data.items = Heads!Listing(p)
  BY <1>6, <1>9
<1> QED  BY <1>3, <1>12, <1>13

\* What a part of a refresh does to the cache, once its answers are there.
LEMMA CacheAfter ==
    ASSUME HeadsInv, NEW s \in Slots, NEW answers, FreshAnswers(answers, slots[s].age),
           Heads!RefreshedPrices(s, answers) \/ Heads!RefreshedMappings(s, answers)
    PROVE  /\ fetched' \in [PriceEndpoints -> Entry]
           /\ \A e \in PriceEndpoints : fetched'[e] \in {fetched[e], answers[e].data}
           /\ vaults \subseteq vaults' /\ vaults' \subseteq Vaults
           /\ boosts \subseteq boosts' /\ boosts' \subseteq Boosts
           /\ Rebuilt'
           /\ \E slot : Unanswered(slot) /\ slots' = [slots EXCEPT ![s] = slot]
<1>1. CASE Heads!RefreshedPrices(s, answers)
  <2>1. \A e \in PriceEndpoints : answers[e].data \in Entry
    BY DEF FreshAnswers, AnswerType, Heads!Endpoints
  <2>2. fetched' = [e \in PriceEndpoints |-> Heads!Refreshed(answers[e], e)]
    BY <1>1 DEF Heads!RefreshedPrices
  <2>3. \A e \in PriceEndpoints : Heads!Refreshed(answers[e], e) \in {fetched[e], answers[e].data}
    BY DEF Heads!Refreshed
  <2>4. fetched' \in [PriceEndpoints -> Entry]
    BY <2>1, <2>2, <2>3 DEF HeadsInv, HeadsTyped
  <2>5. UNCHANGED <<vaults, boosts>> /\ slots' = [slots EXCEPT ![s] = Heads!Free]
    BY <1>1 DEF Heads!RefreshedPrices
  <2>6. Rebuilt'
    BY <1>1 DEF Heads!RefreshedPrices, Heads!Rebuild, Rebuilt, PriceOf
  <2> QED  BY <2>2, <2>3, <2>4, <2>5, <2>6, UnansweredAre DEF HeadsInv, HeadsTyped
<1>2. CASE Heads!RefreshedMappings(s, answers)
  <2>1. UNCHANGED fetched
    BY <1>2 DEF Heads!RefreshedMappings
  <2>2. vaults' \in {vaults, Vaults} /\ boosts' \in {boosts, Boosts}
    BY <1>2 DEF Heads!RefreshedMappings, Heads!RefreshedList, FreshAnswers
  <2>3. Rebuilt'
    BY <1>2 DEF Heads!RefreshedMappings, Heads!Rebuild, Rebuilt, PriceOf
  <2>4. Unanswered(Heads!Free) /\ Unanswered(Heads!Prices)
    BY UnansweredAre DEF Heads!Prices
  <2>5. \E slot \in {Heads!Free, Heads!Prices} : slots' = [slots EXCEPT ![s] = slot]
    BY <1>2 DEF Heads!RefreshedMappings
  <2> QED  BY <2>1, <2>2, <2>3, <2>4, <2>5 DEF HeadsInv, HeadsTyped
<1> QED  BY <1>1, <1>2

LEMMA FetchKeepsFresh ==
    ASSUME HeadsInv, NEW s \in Slots, NEW e \in Heads!Endpoints, Heads!Fetched(s, e)
    PROVE  HeadsInv'
<1>1. PICK answers :
        /\ FreshAnswers(answers, slots[s].age)
        /\ \/ slots' = [slots EXCEPT ![s].answers = answers] /\ UNCHANGED Heads!cache
           \/ Heads!RefreshedPrices(s, answers)
           \/ Heads!RefreshedMappings(s, answers)
  BY FetchSettles
<1>2. UNCHANGED unlisted
  BY DEF Heads!Fetched, Heads!api
<1>3. CASE slots' = [slots EXCEPT ![s].answers = answers] /\ UNCHANGED Heads!cache
  <2>1. UNCHANGED <<vaults, boosts, fetched, byChain>>
    BY <1>3 DEF Heads!cache
  <2>2. slots[s] \in SlotType /\ answers \in [Heads!Endpoints -> AnswerType]
    BY <1>1 DEF HeadsInv, HeadsTyped, FreshAnswers
  <2>3. /\ slots' \in [Slots -> SlotType]
        /\ slots'[s].answers = answers /\ slots'[s].age = slots[s].age
        /\ \A t \in Slots : t # s => slots'[t] = slots[t]
    <3>1. [slots[s] EXCEPT !.answers = answers] \in SlotType
      BY <2>2 DEF SlotType
    <3>2. slots' = [slots EXCEPT ![s] = [slots[s] EXCEPT !.answers = answers]]
      BY <1>3
    <3>3. slots'[s] = [slots[s] EXCEPT !.answers = answers]
      BY <3>2 DEF HeadsInv, HeadsTyped
    <3> QED  BY <2>2, <3>1, <3>2, <3>3 DEF HeadsInv, HeadsTyped, SlotType
  <2>4. AnswersFresh'
    <3> SUFFICES ASSUME NEW t \in Slots
        PROVE /\ \A p \in PriceEndpoints : /\ Fresh(slots'[t].answers[p].data, unlisted)
                                           /\ slots'[t].answers[p].data.age <= slots'[t].age
              /\ slots'[t].answers["vaults/all"].state = "answered" =>
                    slots'[t].answers["vaults/all"].data.items = Vaults
              /\ slots'[t].answers["boosts"].state = "answered" =>
                    slots'[t].answers["boosts"].data.items = Boosts
      BY <1>2 DEF AnswersFresh
    <3>1. CASE t = s
      BY <1>1, <2>3, <3>1 DEF FreshAnswers
    <3>2. CASE t # s
      BY <2>3, <3>2 DEF HeadsInv, AnswersFresh
    <3> QED  BY <3>1, <3>2
  <2>5. Rebuilt'
    BY <2>1 DEF HeadsInv, Rebuilt, PriceOf, Heads!ContractMappings
  <2> QED  BY <1>2, <2>1, <2>3, <2>4, <2>5 DEF HeadsInv, HeadsTyped, DataFresh
<1>4. CASE Heads!RefreshedPrices(s, answers) \/ Heads!RefreshedMappings(s, answers)
  <2>1. /\ fetched' \in [PriceEndpoints -> Entry]
        /\ \A p \in PriceEndpoints : fetched'[p] \in {fetched[p], answers[p].data}
        /\ vaults' \subseteq Vaults /\ boosts' \subseteq Boosts
        /\ Rebuilt'
    BY <1>1, <1>4, CacheAfter
  <2>2. PICK slot : Unanswered(slot) /\ slots' = [slots EXCEPT ![s] = slot]
    BY <1>1, <1>4, CacheAfter
  <2>3. HeadsTyped'
    BY <1>2, <2>1, <2>2 DEF HeadsInv, HeadsTyped, Unanswered
  <2>4. DataFresh'
    BY <1>1, <1>2, <2>1 DEF HeadsInv, DataFresh, FreshAnswers
  <2>5. AnswersFresh'
    <3> SUFFICES ASSUME NEW t \in Slots
        PROVE /\ \A p \in PriceEndpoints : /\ Fresh(slots'[t].answers[p].data, unlisted)
                                           /\ slots'[t].answers[p].data.age <= slots'[t].age
              /\ slots'[t].answers["vaults/all"].state = "answered" =>
                    slots'[t].answers["vaults/all"].data.items = Vaults
              /\ slots'[t].answers["boosts"].state = "answered" =>
                    slots'[t].answers["boosts"].data.items = Boosts
      BY <1>2 DEF AnswersFresh
    <3>1. CASE t = s
      <4>1. slots'[t] = slot
        BY <2>2, <3>1 DEF HeadsInv, HeadsTyped
      <4> QED
        BY <2>2, <4>1, NothingIsFresh
           DEF Unanswered, SlotType, Heads!Endpoints, Heads!MappingEndpoints
    <3>2. CASE t # s
      BY <2>2, <3>2 DEF HeadsInv, HeadsTyped, AnswersFresh
    <3> QED  BY <3>1, <3>2
  <2> QED  BY <2>1, <2>3, <2>4, <2>5 DEF HeadsInv
<1> QED  BY <1>1, <1>3, <1>4

LEMMA HeadsSteps == HeadsInv /\ [Heads!Next]_(Heads!vars) => HeadsInv'
<1> SUFFICES ASSUME HeadsInv, [Heads!Next]_(Heads!vars)  PROVE HeadsInv'
  OBVIOUS
<1>1. CASE Heads!Tick
  BY <1>1, TickKeepsFresh
<1>2. CASE Heads!Refresh
  <2>1. Unanswered(Heads!FirstPart)
    BY UnansweredAre DEF Heads!FirstPart, Heads!Mappings, Heads!Prices
  <2>2. \E s \in Slots : slots' = [slots EXCEPT ![s] = Heads!FirstPart]
    BY <1>2 DEF Heads!Refresh, Heads!Started, Heads!IdleSlots
  <2>3. UNCHANGED <<unlisted, Heads!cache>>
    BY <1>2 DEF Heads!Refresh, Heads!api
  <2> QED  BY <2>1, <2>2, <2>3, RefreshBegins
<1>3. CASE Heads!RefreshMappings
  <2>1. Unanswered(Heads!Mappings("mappings"))
    BY UnansweredAre DEF Heads!Mappings
  <2>2. \E s \in Slots : slots' = [slots EXCEPT ![s] = Heads!Mappings("mappings")]
    BY <1>3 DEF Heads!RefreshMappings, Heads!Started, Heads!IdleSlots
  <2>3. UNCHANGED <<unlisted, Heads!cache>>
    BY <1>3 DEF Heads!RefreshMappings, Heads!api
  <2> QED  BY <2>1, <2>2, <2>3, RefreshBegins
<1>4. ASSUME NEW s \in Slots, NEW e \in Heads!Endpoints, Heads!Fetched(s, e)  PROVE HeadsInv'
  BY <1>4, FetchKeepsFresh
<1>5. ASSUME NEW v \in Vaults, Heads!Relist(v)  PROVE HeadsInv'
  BY <1>5, RelistKeepsFresh
<1>6. ASSUME UNCHANGED <<unlisted, vaults, boosts, fetched, byChain, slots>>  PROVE HeadsInv'
  BY <1>6 DEF HeadsInv, HeadsTyped, DataFresh, AnswersFresh, Rebuilt, PriceOf, Heads!ContractMappings
<1>7. CASE Heads!Turn
  BY <1>6, <1>7 DEF Heads!Turn, Heads!cache
<1>8. CASE UNCHANGED Heads!vars
  BY <1>6, <1>8 DEF Heads!vars, Heads!api, Heads!cache
<1> QED
  BY <1>1, <1>2, <1>3, <1>4, <1>5, <1>7, <1>8 DEF Heads!Next, Heads!Progress

LEMMA PricesWithinAge == HeadsInv => Heads!WithinItsAge
<1> SUFFICES ASSUME HeadsInv, NEW c \in Heads!Contracts, Heads!Served(c)
             PROVE  unlisted[Heads!VaultOf(c)] <= MaxAge + 1
  BY DEF Heads!WithinItsAge
<1> DEFINE v == Heads!VaultOf(c)
           kept == fetched[ListedIn[v]]
<1>1. v \in Vaults /\ ListedIn[v] \in PriceEndpoints
  BY VaultOfTyped
<1>2. kept \in Entry /\ Fresh(kept, unlisted) /\ unlisted[v] \in Nat
  BY <1>1 DEF HeadsInv, HeadsTyped, DataFresh
<1>3. byChain[c] = PriceOf(c)
  BY DEF HeadsInv, Rebuilt
<1>4. PriceOf(c).items # {} /\ PriceOf(c).age <= MaxAge
  BY <1>3 DEF Heads!Served
<1>5. v \in kept.items /\ PriceOf(c).age = kept.age
  BY <1>4 DEF PriceOf, Heads!Nothing, Heads!Data
<1>6. unlisted[v] <= kept.age + 1
  BY <1>1, <1>2, <1>4, <1>5 DEF Fresh
<1>7. kept.age \in Nat /\ MaxAge \in Nat
  BY <1>2, PartsAssumption DEF Entry, Heads!HeadPricesAssumption
<1> QED  BY <1>2, <1>4, <1>5, <1>6, <1>7

\* Data of some prices that are not past their age grow older by a unit.
LEMMA AgedData ==
    ASSUME NEW items, items # {}, NEW age \in Nat, MaxAge \in Nat, age <= MaxAge
    PROVE  Heads!Aged(Heads!Data(items, age)) = Heads!Data(items, age + 1)
<1>1. ~(Heads!Data(items, age).items = {} \/ Heads!Data(items, age).age > MaxAge)
  BY DEF Heads!Data
<1>2. [Heads!Data(items, age) EXCEPT !.age = @ + 1] = Heads!Data(items, age + 1)
  BY DEF Heads!Data
<1>. QED  BY <1>1, <1>2 DEF Heads!Aged

LEMMA KeptByStep ==
    ASSUME HeadsInv, [Heads!Next]_(Heads!vars), NEW c \in Heads!Contracts,
           Heads!Served(c), ~Heads!Served(c)'
    PROVE  \/ byChain[c].age = MaxAge
           \/ healthy /\ Heads!VaultOf(c) \notin Heads!Listing(ListedIn[Heads!VaultOf(c)])
           \/ \E s \in Slots, e \in PriceEndpoints :
                 /\ slots[s].answers[e].state = "answered"
                 /\ Heads!VaultOf(c) \notin slots[s].answers[e].data.items
<1>1. byChain[c] # byChain'[c]
  BY DEF Heads!Served
<1>2. PICK v, e : v = Heads!VaultOf(c) /\ e = ListedIn[v]
  OBVIOUS
<1>3. v \in Vaults /\ e \in PriceEndpoints /\ e \in Heads!Endpoints
  BY <1>2, VaultOfTyped DEF Heads!Endpoints
<1>4. MaxAge \in Nat /\ MaxAge > 1
  BY PartsAssumption DEF Heads!HeadPricesAssumption
<1>5. byChain[c] = PriceOf(c) /\ PriceOf(c).items # {} /\ PriceOf(c).age <= MaxAge
  BY DEF HeadsInv, Rebuilt, Heads!Served
<1>6. c \in Heads!ContractMappings /\ v \in fetched[e].items /\ byChain[c] = Heads!Data({v}, fetched[e].age)
  BY <1>2, <1>5 DEF PriceOf, Heads!Nothing, Heads!Data
<1>7. fetched[e] \in Entry /\ byChain[c].age = fetched[e].age
  BY <1>3, <1>6 DEF HeadsInv, HeadsTyped, Heads!Data
<1>8. CASE Heads!Tick
  <2>1. byChain'[c] = Heads!Aged(byChain[c])
    BY <1>8 DEF Heads!Tick
  <2>2. byChain[c].age \in Nat /\ byChain[c].age <= MaxAge /\ byChain[c].items = {v}
    BY <1>5, <1>6, <1>7 DEF Entry, Heads!Data
  <2>3. byChain'[c] = Heads!Data({v}, fetched[e].age + 1)
    <3>1. PICK n \in Nat : n = fetched[e].age /\ n <= MaxAge
      BY <1>7, <2>2
    <3>2. Heads!Aged(Heads!Data({v}, n)) = Heads!Data({v}, n + 1)
      BY <1>4, <3>1, AgedData
    <3> QED  BY ONLY <1>6, <2>1, <3>1, <3>2
  <2>4. byChain'[c].items # {} /\ byChain'[c].age = byChain[c].age + 1
    BY <1>7, <2>3 DEF Heads!Data
  <2>5. ~(byChain'[c].items # {} /\ byChain'[c].age <= MaxAge)
    BY DEF Heads!Served
  <2> QED  BY <1>4, <2>2, <2>4, <2>5
<1>9. ASSUME NEW s \in Slots, NEW p \in Heads!Endpoints, Heads!Fetched(s, p)
      PROVE  \/ healthy /\ v \notin Heads!Listing(e)
             \/ slots[s].answers[e].state = "answered" /\ v \notin slots[s].answers[e].data.items
  <2>1. PICK answers :
          /\ FreshAnswers(answers, slots[s].age)
          /\ \A q \in Heads!Endpoints :
                \/ answers[q] = slots[s].answers[q]
                \/ answers[q].state # "answered"
                \/ healthy /\ answers[q].data.items = Heads!Listing(q)
          /\ \/ slots' = [slots EXCEPT ![s].answers = answers] /\ UNCHANGED Heads!cache
             \/ Heads!RefreshedPrices(s, answers)
             \/ Heads!RefreshedMappings(s, answers)
    BY <1>9, FetchSettles
  <2>2. Heads!RefreshedPrices(s, answers) \/ Heads!RefreshedMappings(s, answers)
    BY <1>1, <2>1 DEF Heads!cache
  <2>3. Rebuilt' /\ c \in Heads!ContractMappings'
    <3>1. vaults \subseteq vaults' /\ boosts \subseteq boosts' /\ Rebuilt'
      BY <2>1, <2>2, CacheAfter
    <3> QED  BY <1>6, <3>1 DEF Heads!ContractMappings
  <2>4. byChain'[c] = PriceOf(c)'
    BY <2>3 DEF Rebuilt
  <2>5. fetched'[e] # fetched[e]
    BY <1>1, <1>2, <1>6, <2>3, <2>4 DEF PriceOf
  <2>6. fetched'[e] = answers[e].data /\ answers[e].state = "answered"
    <3>1. CASE Heads!RefreshedPrices(s, answers)
      BY <1>3, <2>5, <3>1 DEF Heads!RefreshedPrices, Heads!Refreshed
    <3>2. CASE Heads!RefreshedMappings(s, answers)
      BY <2>5, <3>2 DEF Heads!RefreshedMappings
    <3> QED  BY <2>2, <3>1, <3>2
  <2>7. answers[e].data.age \in Nat /\ answers[e].data.age <= 1
    <3>1. slots[s].age \in {0, 1}
      BY DEF HeadsInv, HeadsTyped, SlotType
    <3>2. answers[e] \in AnswerType /\ answers[e].data.age <= slots[s].age
      BY <1>3, <2>1 DEF FreshAnswers
    <3>3. answers[e].data.age \in Nat
      BY <3>2 DEF AnswerType, Entry
    <3> QED  BY <3>1, <3>2, <3>3
  <2>8. v \notin answers[e].data.items
    <3> SUFFICES ASSUME v \in answers[e].data.items  PROVE FALSE
      OBVIOUS
    <3>1. byChain'[c] = Heads!Data({v}, answers[e].data.age)
      BY <1>2, <2>3, <2>4, <2>6 DEF PriceOf
    <3>2. byChain'[c].items # {} /\ byChain'[c].age <= MaxAge
      BY <1>4, <2>7, <3>1 DEF Heads!Data
    <3> QED  BY <3>2 DEF Heads!Served
  <2> QED  BY <1>3, <2>1, <2>6, <2>8
<1>10. CASE UNCHANGED byChain
  BY <1>1, <1>10
<1>11. UNCHANGED byChain \/ Heads!Tick \/ \E s \in Slots, p \in Heads!Endpoints : Heads!Fetched(s, p)
  BY DEF Heads!Next, Heads!Progress, Heads!Refresh, Heads!RefreshMappings, Heads!Relist, Heads!Turn,
         Heads!vars, Heads!cache
<1> QED  BY <1>2, <1>3, <1>8, <1>9, <1>10, <1>11

\* A contract loses its price by its age or by an answer that does not list it, never by a
\* failed fetch, for any products, endpoints and overlaps of refreshes.
THEOREM FailuresTakeNoPrice == Heads!Spec => Heads!KeptThroughFailures
<1>1. HeadsInv /\ [Heads!Next]_(Heads!vars) =>
        [\A c \in Heads!Contracts : Heads!Served(c) /\ ~Heads!Served(c)' =>
          \/ byChain[c].age = MaxAge
          \/ healthy /\ Heads!VaultOf(c) \notin Heads!Listing(ListedIn[Heads!VaultOf(c)])
          \/ \E s \in Slots, e \in PriceEndpoints :
                /\ slots[s].answers[e].state = "answered"
                /\ Heads!VaultOf(c) \notin slots[s].answers[e].data.items]_(Heads!vars)
  BY KeptByStep
<1> QED
  BY <1>1, HeadsStart, HeadsSteps, PTL DEF Heads!Spec, Heads!KeptThroughFailures

-----------------------------------------------------------------------------
(* The pacing proxy.  A place is taken and given back once, so the counter *)
(* is the holders; who waits saw every place taken, and whoever gives one  *)
(* back wakes all; what is learnt of an upstream comes from a range that   *)
(* it refused.                                                             *)

LEMMA PacerCounts == \A S : /\ Pacer!IsFiniteSet(S) <=> IsFiniteSet(S)
                            /\ Pacer!Cardinality(S) = Cardinality(S)
  BY DEF Pacer!IsFiniteSet, IsFiniteSet, Pacer!Cardinality, Cardinality

Stages ==
    {"new", "round", "waiting", "woken", "paced", "sent", "answer", "backoff"} \cup Pacer!Ended
Placed == {"paced", "sent"}

PacerTyped ==
    /\ pc \in [Requests -> Stages]
    /\ at \in [Requests -> Upstreams \cup {NoUpstream}]
    /\ tried \in [Requests -> SUBSET Upstreams] /\ refused \in [Requests -> SUBSET Upstreams]
    /\ lastRefusal \in [Requests -> BOOLEAN]
    /\ inFlight \in [Upstreams -> Nat] /\ maxLogRange \in [Upstreams -> Nat \cup {Pacer!NoLimit}]
AtHeld == \A r \in Requests : pc[r] \in Placed \cup {"answer"} => at[r] \in Upstreams

Learnt ==
    \A u \in Upstreams : maxLogRange[u] # Pacer!NoLimit =>
        \E q \in Requests : Pacer!Came(q) /\ Pacer!Refused(u, q) /\ RangeOf[q] = maxLogRange[u] + 1

\* Why an upstream counts as refusing a request: it does, or it has refused a range no wider.
Grounds(u, r) ==
    Pacer!TruthAt(u, r) # "ok" \/ \E q \in Requests : /\ Pacer!Came(q) /\ Pacer!Refused(u, q)
                                                    /\ RangeOf[q] <= RangeOf[r]
RefusedBySome(r) == \E u \in Upstreams : Pacer!TruthAt(u, r) # "ok"
RefusedTruly == \A r \in Requests : \A u \in refused[r] : Grounds(u, r)
LastTruly == \A r \in Requests : lastRefusal[r] => RefusedBySome(r)
AllRefused == \A r \in Requests : refused[r] = Upstreams => lastRefusal[r]
StillAllowed == \A r \in Requests : pc[r] \in {"waiting", "woken"} => refused[r] # Upstreams
RefusalsTrue ==
    \A r \in Requests \ ForBlock : pc[r] = "refused" =>
        RefusedBySome(r) /\ \A u \in Upstreams : Grounds(u, r)
Truthful == Learnt /\ RefusedTruly /\ LastTruly /\ AllRefused /\ StillAllowed /\ RefusalsTrue

PacerInv == PacerTyped /\ AtHeld /\ Truthful /\ Pacer!PlacesCounted /\ Pacer!WaitsForAPlace

LEMMA PacerConstants ==
    /\ IsFiniteSet(Requests) /\ Upstreams # {} /\ NoUpstream \notin Upstreams
    /\ Concurrency \in Nat \ {0}
    /\ RangeOf \in [Requests -> Nat] /\ LimitOf \in [Upstreams -> Nat \ {0}]
    /\ \A u \in Upstreams : \A r \in Crowded[u] : RangeOf[r] # 0
    /\ Lacks \in [Upstreams -> SUBSET Requests]
  BY PartsAssumption, PacerCounts DEF Pacer!PacerAssumption

LEMMA PacerStarts == Pacer!Init => PacerInv
<1> SUFFICES ASSUME Pacer!Init  PROVE PacerInv
  OBVIOUS
<1>1. PacerTyped /\ AtHeld
  BY DEF Pacer!Init, PacerTyped, AtHeld, Stages, Placed, Pacer!NoLimit
<1>2. Truthful
  BY PacerConstants
     DEF Pacer!Init, Truthful, Learnt, RefusedTruly, LastTruly, AllRefused, StillAllowed, RefusalsTrue
<1>3. ASSUME NEW u \in Upstreams  PROVE inFlight[u] = Pacer!Cardinality(Pacer!Holding(u))
  <2>1. Pacer!Holding(u) = {}
    BY DEF Pacer!Init, Pacer!Holding
  <2> QED  BY <2>1, FS_EmptySet, PacerCounts DEF Pacer!Init
<1>4. Pacer!PlacesCounted
  BY <1>3, PacerConstants DEF Pacer!Init, Pacer!PlacesCounted
<1>5. Pacer!WaitsForAPlace
  BY DEF Pacer!Init, Pacer!WaitsForAPlace
<1> QED  BY <1>1, <1>2, <1>4, <1>5 DEF PacerInv

\* A step after which the same requests hold the same places.
LEMMA PlacesKept ==
    ASSUME Pacer!PlacesCounted, UNCHANGED inFlight,
           \A q \in Requests : /\ pc[q] \in Placed <=> pc'[q] \in Placed
                               /\ pc[q] \in Placed => at'[q] = at[q]
    PROVE  Pacer!PlacesCounted'
<1>1. \A u \in Upstreams : Pacer!Holding(u)' = Pacer!Holding(u)
  BY DEF Pacer!Holding, Placed
<1> QED  BY <1>1 DEF Pacer!PlacesCounted

\* A step that wakes nobody wrongly: what the waiters wait for has not changed.
LEMMA WaitsKept ==
    ASSUME Pacer!WaitsForAPlace, UNCHANGED inFlight,
           \A q \in Requests : pc'[q] = "waiting" =>
               pc[q] = "waiting" /\ tried'[q] = tried[q] /\ refused'[q] = refused[q]
    PROVE  Pacer!WaitsForAPlace'
  BY DEF Pacer!WaitsForAPlace, Pacer!Pool, Pacer!Allowed

\* The requests that came stay so, and with them the grounds of every refusal.
LEMMA GroundsKept ==
    ASSUME Truthful, \A q \in Requests : pc[q] # "new" => pc'[q] # "new"
    PROVE  /\ \A r \in Requests, u \in Upstreams : Grounds(u, r) => Grounds(u, r)'
           /\ UNCHANGED maxLogRange => Learnt'
<1>1. ASSUME NEW r \in Requests, NEW u \in Upstreams, Grounds(u, r)  PROVE Grounds(u, r)'
  BY <1>1 DEF Grounds, Pacer!Came, Pacer!Refused, Pacer!TruthAt
<1>2. UNCHANGED maxLogRange => Learnt'
  BY DEF Truthful, Learnt, Pacer!Came, Pacer!Refused, Pacer!TruthAt
<1> QED  BY <1>1, <1>2

\* What a request may not end as, with what it has been refused.
LEMMA TruthKept ==
    ASSUME Truthful, refused \in [Requests -> SUBSET Upstreams], UNCHANGED maxLogRange \/ Learnt',
           \A q \in Requests :
             /\ pc[q] # "new" => pc'[q] # "new"
             /\ \A u \in refused'[q] : u \in refused[q] \/ (u \in Upstreams /\ Grounds(u, q))
             /\ lastRefusal'[q] => lastRefusal[q] \/ RefusedBySome(q)
             /\ refused'[q] = Upstreams => lastRefusal'[q]
             /\ pc'[q] \in {"waiting", "woken"} => refused'[q] # Upstreams
             /\ pc'[q] = "refused" /\ pc[q] # "refused" /\ q \notin ForBlock => refused[q] = Upstreams
    PROVE  Truthful'
<1>1. Learnt'
  BY GroundsKept
<1>2. \A q \in Requests : RefusedBySome(q)' <=> RefusedBySome(q)
  BY DEF RefusedBySome, Pacer!TruthAt
<1>3. RefusedTruly'
  <2> SUFFICES ASSUME NEW q \in Requests, NEW u \in refused'[q]  PROVE Grounds(u, q)'
    BY DEF RefusedTruly
  <2>1. u \in Upstreams /\ Grounds(u, q)
    BY DEF Truthful, RefusedTruly
  <2> QED  BY <2>1, GroundsKept
<1>4. LastTruly' /\ AllRefused' /\ StillAllowed'
  BY <1>2 DEF Truthful, LastTruly, AllRefused, StillAllowed
<1>5. RefusalsTrue'
  <2> SUFFICES ASSUME NEW q \in Requests \ ForBlock, pc'[q] = "refused"
               PROVE  RefusedBySome(q)' /\ \A u \in Upstreams : Grounds(u, q)'
    BY DEF RefusalsTrue
  <2>1. RefusedBySome(q) /\ \A u \in Upstreams : Grounds(u, q)
    <3>1. CASE pc[q] = "refused"
      BY <3>1 DEF Truthful, RefusalsTrue
    <3>2. CASE pc[q] # "refused"
      BY <3>2 DEF Truthful, RefusedTruly, LastTruly, AllRefused
    <3> QED  BY <3>1, <3>2
  <2> QED  BY <1>2, <2>1, GroundsKept
<1> QED  BY <1>1, <1>3, <1>4, <1>5 DEF Truthful

\* forward returns while the request holds no place.
LEMMA Returns ==
    ASSUME PacerInv, NEW r \in Requests, pc[r] \notin Placed, NEW how \in Pacer!Ended, Pacer!End(r, how),
           at' \in {at, [at EXCEPT ![r] = NoUpstream]}, UNCHANGED <<inFlight, maxLogRange>>,
           how = "refused" /\ r \notin ForBlock => refused[r] = Upstreams
    PROVE  PacerInv'
<1> USE DEF PacerInv, PacerTyped
<1>1. how \notin Placed \cup {"answer", "waiting", "woken"} /\ how \in Stages
  BY DEF Pacer!Ended, Placed, Stages
<1>2. PacerTyped'
  BY <1>1 DEF Pacer!End
<1>3. /\ pc'[r] = how /\ refused'[r] = {}
      /\ \A q \in Requests \ {r} : /\ pc'[q] = pc[q] /\ at'[q] = at[q]
                                   /\ tried'[q] = tried[q] /\ refused'[q] = refused[q]
                                   /\ lastRefusal'[q] = lastRefusal[q]
  BY DEF Pacer!End
<1>4. AtHeld'
  BY <1>1, <1>3 DEF AtHeld
<1>5. Pacer!PlacesCounted'
  BY <1>1, <1>3, PlacesKept
<1>6. Pacer!WaitsForAPlace'
  BY <1>1, <1>3, WaitsKept
<1>7. Truthful'
  <2>2. ASSUME NEW q \in Requests
        PROVE  /\ pc[q] # "new" => pc'[q] # "new"
               /\ \A u \in refused'[q] : u \in refused[q]
               /\ lastRefusal'[q] => lastRefusal[q]
               /\ refused'[q] = Upstreams => lastRefusal'[q]
               /\ pc'[q] \in {"waiting", "woken"} => refused'[q] # Upstreams
               /\ pc'[q] = "refused" /\ pc[q] # "refused" /\ q \notin ForBlock => refused[q] = Upstreams
    BY <1>1, <1>3, PacerConstants DEF Truthful, AllRefused, StillAllowed, Pacer!End, Pacer!Ended
  <2> QED  BY <2>2, TruthKept
<1> QED  BY <1>2, <1>4, <1>5, <1>6, <1>7

\* The request goes on without a place, and nothing it knows has changed but what it had.
LEMMA GoesOn ==
    ASSUME PacerInv, NEW r \in Requests, NEW stage \in {"round", "backoff"}, pc' = [pc EXCEPT ![r] = stage],
           pc[r] \notin Placed, at' \in {at, [at EXCEPT ![r] = NoUpstream]},
           tried' \in [Requests -> SUBSET Upstreams], \A q \in Requests \ {r} : tried'[q] = tried[q],
           refused' \in [Requests -> SUBSET Upstreams], \A q \in Requests \ {r} : refused'[q] = refused[q],
           lastRefusal' \in [Requests -> BOOLEAN], \A q \in Requests \ {r} : lastRefusal'[q] = lastRefusal[q],
           \A u \in refused'[r] : u \in refused[r] \/ (u \in Upstreams /\ Grounds(u, r)),
           lastRefusal'[r] => lastRefusal[r] \/ RefusedBySome(r),
           refused'[r] = Upstreams => lastRefusal'[r],
           maxLogRange' \in [Upstreams -> Nat \cup {Pacer!NoLimit}], UNCHANGED maxLogRange \/ Learnt',
           UNCHANGED inFlight
    PROVE  PacerInv'
<1> USE DEF PacerInv, PacerTyped
<1>1. stage \notin Placed \cup {"answer", "waiting", "woken", "refused"} /\ stage \in Stages
  BY DEF Placed, Stages
<1>2. PacerTyped'
  BY <1>1
<1>3. /\ pc'[r] = stage
      /\ \A q \in Requests \ {r} : pc'[q] = pc[q] /\ at'[q] = at[q]
  OBVIOUS
<1>4. AtHeld'
  BY <1>1, <1>3 DEF AtHeld
<1>5. Pacer!PlacesCounted'
  BY <1>1, <1>3, PlacesKept
<1>6. Pacer!WaitsForAPlace'
  BY <1>1, <1>3, WaitsKept
<1>7. ASSUME NEW q \in Requests
      PROVE  /\ pc[q] # "new" => pc'[q] # "new"
             /\ \A u \in refused'[q] : u \in refused[q] \/ (u \in Upstreams /\ Grounds(u, q))
             /\ lastRefusal'[q] => lastRefusal[q] \/ RefusedBySome(q)
             /\ refused'[q] = Upstreams => lastRefusal'[q]
             /\ pc'[q] \in {"waiting", "woken"} => refused'[q] # Upstreams
             /\ pc'[q] = "refused" /\ pc[q] # "refused" /\ q \notin ForBlock => refused[q] = Upstreams
  BY <1>1, <1>3 DEF Truthful, AllRefused, StillAllowed
<1>8. Truthful'
  BY <1>7, TruthKept
<1> QED  BY <1>2, <1>4, <1>5, <1>6, <1>8

LEMMA StartTrue == ASSUME PacerInv, NEW r \in Requests, Pacer!Start(r)  PROVE PacerInv'
<1>1. ASSUME NEW u \in Pacer!TooNarrow(r)  PROVE u \in Upstreams /\ Grounds(u, r)
  <2>1. u \in Upstreams /\ maxLogRange[u] # Pacer!NoLimit /\ RangeOf[r] > maxLogRange[u]
    BY DEF Pacer!TooNarrow
  <2>2. PICK q \in Requests : Pacer!Came(q) /\ Pacer!Refused(u, q) /\ RangeOf[q] = maxLogRange[u] + 1
    BY <2>1 DEF PacerInv, Truthful, Learnt
  <2>3. RangeOf[q] <= RangeOf[r]
    BY <2>1, <2>2, PacerConstants DEF PacerInv, PacerTyped
  <2> QED  BY <2>1, <2>2, <2>3 DEF Grounds
<1>2. /\ Pacer!SkippedAtFirst(r) \subseteq Upstreams /\ Pacer!SkippedAtFirst(r) # Upstreams
      /\ \A u \in Pacer!SkippedAtFirst(r) : Grounds(u, r)
  BY <1>1, PacerConstants DEF Pacer!SkippedAtFirst
<1>3. pc[r] = "new" /\ refused' = [refused EXCEPT ![r] = Pacer!SkippedAtFirst(r)]
  BY DEF Pacer!Start
<1>4. refused' \in [Requests -> SUBSET Upstreams] /\ refused'[r] = Pacer!SkippedAtFirst(r)
      /\ \A q \in Requests \ {r} : refused'[q] = refused[q]
  BY <1>2, <1>3 DEF PacerInv, PacerTyped
<1>5. UNCHANGED <<at, tried, lastRefusal, inFlight, maxLogRange>> /\ pc' = [pc EXCEPT ![r] = "round"]
  BY DEF Pacer!Start
<1> QED  BY <1>2, <1>3, <1>4, <1>5, GoesOn DEF PacerInv, PacerTyped, Placed

\* acquire(): a place is taken, the request waits, or its client is gone.
LEMMA AcquireTrue ==
    ASSUME PacerInv, NEW r \in Requests, pc[r] \in {"round", "woken"}, refused[r] # Upstreams,
           Pacer!Acquire(r), UNCHANGED <<maxLogRange, paused>>
    PROVE  PacerInv'
<1> USE DEF PacerInv, PacerTyped
<1>0. pc[r] \notin Placed \cup {"answer", "waiting"}
  BY DEF Placed
<1>1. CASE Pacer!End(r, "abandoned") /\ UNCHANGED <<at, inFlight>>
  BY <1>0, <1>1, Returns DEF Pacer!Ended
<1>2. ASSUME NEW u \in Pacer!Free(r), pc' = [pc EXCEPT ![r] = "paced"], at' = [at EXCEPT ![r] = u],
             inFlight' = [inFlight EXCEPT ![u] = @ + 1], UNCHANGED <<tried, refused, lastRefusal>>
      PROVE  PacerInv'
  <2>1. u \in Upstreams /\ inFlight[u] \in Nat /\ inFlight[u] + 1 <= Concurrency
    BY PacerConstants DEF Pacer!Free, Pacer!Pool, Pacer!Allowed
  <2>2. /\ pc'[r] = "paced" /\ at'[r] = u
        /\ \A q \in Requests \ {r} : pc'[q] = pc[q] /\ at'[q] = at[q]
    BY <1>2
  <2>3. PacerTyped' /\ AtHeld'
    BY <1>2, <2>1, <2>2 DEF AtHeld, Stages
  <2>4. ASSUME NEW w \in Upstreams
        PROVE  inFlight'[w] = Pacer!Cardinality(Pacer!Holding(w)') /\ inFlight'[w] <= Concurrency
    <3>1. CASE w = u
      <4>1. Pacer!Holding(w)' = Pacer!Holding(w) \cup {r} /\ r \notin Pacer!Holding(w)
        BY <1>0, <2>2, <3>1 DEF Pacer!Holding, Placed
      <4>2. IsFiniteSet(Pacer!Holding(w))
        BY PacerConstants, FS_Subset DEF Pacer!Holding
      <4>3. Cardinality(Pacer!Holding(w)') = Cardinality(Pacer!Holding(w)) + 1
        BY <4>1, <4>2, FS_AddElement
      <4> QED  BY <1>2, <2>1, <3>1, <4>3, PacerCounts DEF Pacer!PlacesCounted
    <3>2. CASE w # u
      <4>1. Pacer!Holding(w)' = Pacer!Holding(w)
        BY <1>0, <2>2, <3>2 DEF Pacer!Holding, Placed
      <4> QED  BY <1>2, <3>2, <4>1 DEF Pacer!PlacesCounted
    <3> QED  BY <3>1, <3>2
  <2>5. Pacer!PlacesCounted'
    BY <2>4 DEF Pacer!PlacesCounted
  <2>6. ASSUME NEW q \in Requests, pc'[q] = "waiting"
        PROVE  /\ Pacer!Pool(q)' # {}
               /\ \A w \in Pacer!Pool(q)' : inFlight'[w] = Concurrency
    <3>1. pc[q] = "waiting" /\ Pacer!Pool(q)' = Pacer!Pool(q)
      BY <1>2, <2>2, <2>6 DEF Pacer!Pool, Pacer!Allowed
    <3>2. Pacer!Pool(q) # {} /\ \A w \in Pacer!Pool(q) : w \in Upstreams /\ inFlight[w] = Concurrency
      BY <3>1 DEF Pacer!WaitsForAPlace, Pacer!Pool, Pacer!Allowed
    <3>3. u \notin Pacer!Pool(q)
      BY <2>1, <3>2, PacerConstants
    <3> QED  BY <1>2, <3>1, <3>2, <3>3
  <2>7. Pacer!WaitsForAPlace'
    BY <2>6 DEF Pacer!WaitsForAPlace
  <2>9. Truthful'
    BY <1>2, <2>2, TruthKept DEF Truthful, AllRefused, StillAllowed
  <2> QED  BY <2>3, <2>5, <2>7, <2>9
<1>3. ASSUME Pacer!Free(r) = {}, pc' = [pc EXCEPT ![r] = "waiting"],
             UNCHANGED <<at, tried, refused, lastRefusal, inFlight>>
      PROVE  PacerInv'
  <2>1. pc'[r] = "waiting" /\ \A q \in Requests \ {r} : pc'[q] = pc[q]
    BY <1>3
  <2>2. PacerTyped' /\ AtHeld'
    BY <1>3, <2>1 DEF AtHeld, Stages, Placed
  <2>3. Pacer!PlacesCounted'
    BY <1>0, <1>3, <2>1, PlacesKept DEF Placed
  <2>4. Pacer!Pool(r) # {} /\ \A u \in Pacer!Pool(r) : inFlight[u] = Concurrency
    <3>1. Pacer!Pool(r) # {} /\ Pacer!Pool(r) \subseteq Upstreams
      BY DEF Pacer!Pool, Pacer!Allowed
    <3>2. \A u \in Pacer!Pool(r) : ~(inFlight[u] < Concurrency)
      BY <1>3 DEF Pacer!Free
    <3> QED  BY <3>1, <3>2, PacerConstants DEF Pacer!PlacesCounted
  <2>5. \A q \in Requests : Pacer!Pool(q)' = Pacer!Pool(q)
    BY <1>3 DEF Pacer!Pool, Pacer!Allowed
  <2>6. Pacer!WaitsForAPlace'
    BY <1>3, <2>1, <2>4, <2>5 DEF Pacer!WaitsForAPlace
  <2>8. Truthful'
    BY <1>3, <2>1, TruthKept DEF Truthful, AllRefused, StillAllowed
  <2> QED  BY <2>2, <2>3, <2>6, <2>8
<1> QED  BY <1>1, <1>2, <1>3 DEF Pacer!Acquire, Pacer!locals

LEMMA RoundTrue == ASSUME PacerInv, NEW r \in Requests, Pacer!Round(r)  PROVE PacerInv'
<1>1. pc[r] = "round" /\ UNCHANGED <<maxLogRange, paused>>
  BY DEF Pacer!Round
<1>2. CASE (Pacer!MustGiveUp(r) \/ Pacer!MayGiveUp(r)) /\ Pacer!End(r, "refused") /\ UNCHANGED <<at, inFlight>>
  BY <1>1, <1>2, Returns DEF Pacer!Ended, Placed, Pacer!MustGiveUp, Pacer!MayGiveUp
<1>3. CASE ~Pacer!MustGiveUp(r) /\ Pacer!Acquire(r)
  <2>1. refused[r] # Upstreams
    BY <1>3 DEF Pacer!MustGiveUp, PacerInv, Truthful, AllRefused
  <2> QED  BY <1>1, <1>3, <2>1, AcquireTrue
<1> QED  BY <1>2, <1>3 DEF Pacer!Round

\* send settles: the place is given back, and everyone who waits looks again.
LEMMA SettleTrue == ASSUME PacerInv, NEW r \in Requests, Pacer!Settle(r)  PROVE PacerInv'
<1> USE DEF PacerInv, PacerTyped
<1>1. PICK u \in Upstreams : u = at[r]
  BY DEF Pacer!Settle, AtHeld, Placed
<1>2. /\ pc[r] \in Placed
      /\ inFlight' = [inFlight EXCEPT ![u] = @ - 1]
      /\ UNCHANGED <<at, tried, refused, lastRefusal, maxLogRange>>
  BY <1>1 DEF Pacer!Settle, Pacer!locals, Placed
<1>3. pc' = [q \in Requests |-> IF q # r /\ pc[q] = "waiting" THEN "woken"
                                ELSE IF q = r THEN "answer" ELSE pc[q]]
  <2>1. pc' = Pacer!WakeAll([pc EXCEPT ![r] = "answer"])
    BY DEF Pacer!Settle
  <2> QED  BY <2>1 DEF Pacer!WakeAll
<1>4. \A q \in Requests : /\ pc'[q] # "waiting"
                          /\ pc'[q] \in Placed <=> q # r /\ pc[q] \in Placed
                          /\ q # r => pc'[q] = pc[q] \/ (pc[q] = "waiting" /\ pc'[q] = "woken")
  BY <1>3 DEF Placed
<1>5. Pacer!WaitsForAPlace'
  BY <1>4 DEF Pacer!WaitsForAPlace
<1>6. ASSUME NEW w \in Upstreams
      PROVE  inFlight'[w] \in Nat /\ inFlight'[w] = Pacer!Cardinality(Pacer!Holding(w)')
             /\ inFlight'[w] <= Concurrency
  <2>1. CASE w = u
    <3>1. Pacer!Holding(w)' = Pacer!Holding(w) \ {r} /\ r \in Pacer!Holding(w)
      BY <1>1, <1>2, <1>4, <2>1 DEF Pacer!Holding, Placed
    <3>2. IsFiniteSet(Pacer!Holding(w))
      BY PacerConstants, FS_Subset DEF Pacer!Holding
    <3>3. /\ Cardinality(Pacer!Holding(w)') = Cardinality(Pacer!Holding(w)) - 1
          /\ Cardinality(Pacer!Holding(w)') \in Nat
      BY <3>1, <3>2, FS_RemoveElement, FS_CardinalityType
    <3>4. inFlight[w] = Cardinality(Pacer!Holding(w)) /\ inFlight[w] <= Concurrency
      BY PacerCounts DEF Pacer!PlacesCounted
    <3>5. inFlight'[w] = inFlight[w] - 1
      BY <1>2, <2>1
    <3> QED  BY <3>3, <3>4, <3>5, PacerCounts, PacerConstants
  <2>2. CASE w # u
    <3>1. Pacer!Holding(w)' = Pacer!Holding(w)
      BY <1>1, <1>2, <1>4, <2>2 DEF Pacer!Holding, Placed
    <3> QED  BY <1>2, <2>2, <3>1 DEF Pacer!PlacesCounted
  <2> QED  BY <2>1, <2>2
<1>7. Pacer!PlacesCounted'
  BY <1>6 DEF Pacer!PlacesCounted
<1>8. PacerTyped'
  <2>1. \A q \in Requests : pc'[q] \in Stages
    BY <1>3 DEF Stages
  <2>2. pc' \in [Requests -> Stages]
    BY <1>3, <2>1
  <2>3. inFlight' \in [Upstreams -> Nat]
    BY <1>2, <1>6
  <2> QED  BY <1>2, <2>2, <2>3
<1>9. AtHeld'
  BY <1>1, <1>2, <1>3 DEF AtHeld, Placed
<1>10. Truthful'
  <2>1. ASSUME NEW q \in Requests
        PROVE  /\ pc[q] # "new" => pc'[q] # "new"
               /\ pc'[q] \in {"waiting", "woken"} => refused[q] # Upstreams
               /\ pc'[q] = "refused" => pc[q] = "refused"
    BY <1>2, <1>3 DEF Truthful, StillAllowed, Placed
  <2> QED  BY <1>2, <2>1, TruthKept DEF Truthful, AllRefused
<1> QED  BY <1>5, <1>7, <1>8, <1>9, <1>10

LEMMA NoteRefusalTrue == ASSUME PacerInv, NEW r \in Requests, Pacer!NoteRefusal(r)  PROVE PacerInv'
<1>1. PICK u \in Upstreams : u = at[r]
  BY DEF Pacer!NoteRefusal, Pacer!Reads, PacerInv, AtHeld
<1>2. pc[r] = "answer" /\ at' = [at EXCEPT ![r] = NoUpstream] /\ pc' = [pc EXCEPT ![r] = "round"]
  BY DEF Pacer!NoteRefusal, Pacer!Reads
<1>3. Pacer!TruthAt(u, r) # "ok"
  BY <1>1 DEF Pacer!NoteRefusal, Pacer!Refusals
<1>4. /\ tried' = [tried EXCEPT ![r] = @ \cup {u}]
      /\ refused' = [refused EXCEPT ![r] = @ \cup {u}]
      /\ lastRefusal' = [lastRefusal EXCEPT ![r] = TRUE]
      /\ UNCHANGED inFlight
      /\ maxLogRange' = IF Pacer!TruthAt(u, r) = "range-refused"
                        THEN [maxLogRange EXCEPT ![u] = Pacer!Narrowed(u, RangeOf[r])] ELSE maxLogRange
  BY <1>1 DEF Pacer!NoteRefusal
<1>5. maxLogRange' \in [Upstreams -> Nat \cup {Pacer!NoLimit}] /\ (UNCHANGED maxLogRange \/ Learnt')
  <2>1. CASE Pacer!TruthAt(u, r) = "range-refused"
    <3> DEFINE n == Pacer!Narrowed(u, RangeOf[r])
    <3>1. RangeOf[r] \in Nat /\ RangeOf[r] # 0
      BY <2>1, PacerConstants DEF Pacer!TruthAt
    <3>2. n \in Nat /\ (n = RangeOf[r] - 1 \/ n = maxLogRange[u])
      BY <3>1 DEF Pacer!Narrowed, PacerInv, PacerTyped
    <3>3. maxLogRange' = [maxLogRange EXCEPT ![u] = n]
      BY <1>4, <2>1
    <3> HIDE DEF n
    <3>4. \A q \in Requests : Pacer!Came(q) => Pacer!Came(q)'
      BY <1>2 DEF Pacer!Came, PacerInv, PacerTyped
    <3>5. ASSUME NEW v \in Upstreams, maxLogRange'[v] # Pacer!NoLimit
          PROVE  \E q \in Requests : Pacer!Came(q)' /\ Pacer!Refused(v, q) /\ RangeOf[q] = maxLogRange'[v] + 1
      <4>1. CASE maxLogRange'[v] = maxLogRange[v]
        BY <3>4, <3>5, <4>1 DEF PacerInv, Truthful, Learnt
      <4>2. CASE v = u /\ n = RangeOf[r] - 1
        <5>1. maxLogRange'[v] = RangeOf[r] - 1 /\ Pacer!Came(r) /\ Pacer!Refused(v, r)
          BY <1>2, <2>1, <3>3, <4>2 DEF Pacer!Came, Pacer!Refused, PacerInv, PacerTyped
        <5> QED  BY <3>1, <3>4, <5>1
      <4> QED  BY <3>2, <3>3, <4>1, <4>2 DEF PacerInv, PacerTyped
    <3>6. Learnt'
      BY <3>5 DEF Learnt, Pacer!Refused, Pacer!TruthAt
    <3>7. maxLogRange' \in [Upstreams -> Nat \cup {Pacer!NoLimit}]
      BY <3>2, <3>3 DEF PacerInv, PacerTyped
    <3> QED  BY <3>6, <3>7
  <2>2. CASE Pacer!TruthAt(u, r) # "range-refused"
    BY <1>4, <2>2 DEF PacerInv, PacerTyped
  <2> QED  BY <2>1, <2>2
<1>6. /\ tried' \in [Requests -> SUBSET Upstreams] /\ refused' \in [Requests -> SUBSET Upstreams]
      /\ lastRefusal' \in [Requests -> BOOLEAN]
      /\ \A q \in Requests \ {r} : /\ tried'[q] = tried[q] /\ refused'[q] = refused[q]
                                   /\ lastRefusal'[q] = lastRefusal[q]
      /\ refused'[r] = refused[r] \cup {u} /\ lastRefusal'[r]
  BY <1>4 DEF PacerInv, PacerTyped
<1>7. Grounds(u, r) /\ RefusedBySome(r)
  BY <1>3 DEF Grounds, RefusedBySome
<1>8. pc[r] \notin Placed /\ at' \in {at, [at EXCEPT ![r] = NoUpstream]} /\ UNCHANGED inFlight
  BY <1>2, <1>4 DEF Placed
<1>9. /\ \A v \in refused'[r] : v \in refused[r] \/ (v \in Upstreams /\ Grounds(v, r))
      /\ lastRefusal'[r] => lastRefusal[r] \/ RefusedBySome(r)
      /\ refused'[r] = Upstreams => lastRefusal'[r]
  BY <1>6, <1>7
<1> QED  BY <1>2, <1>5, <1>6, <1>8, <1>9, GoesOn

LEMMA TryAgainTrue ==
    ASSUME PacerInv, NEW r \in Requests, NEW kind, Pacer!TryAgain(r, kind)  PROVE PacerInv'
<1>1. pc[r] = "answer" /\ at' = [at EXCEPT ![r] = NoUpstream] /\ at[r] \in Upstreams
  BY DEF Pacer!TryAgain, Pacer!Failed, Pacer!Reads, PacerInv, AtHeld
<1>2. PICK had \in SUBSET Upstreams, stage \in {"round", "backoff"} :
        tried' = [tried EXCEPT ![r] = had] /\ pc' = [pc EXCEPT ![r] = stage]
  <2>1. tried[r] \cup {at[r]} \subseteq Upstreams
    BY <1>1 DEF PacerInv, PacerTyped
  <2>2. CASE kind # "rate-limited" /\ tried[r] \cup {at[r]} \cup refused[r] = Upstreams
    <3>1. tried' = [tried EXCEPT ![r] = {}] /\ pc' = [pc EXCEPT ![r] = "backoff"]
      BY <2>2 DEF Pacer!TryAgain
    <3> WITNESS {} \in SUBSET Upstreams, "backoff" \in {"round", "backoff"}
    <3> QED  BY <3>1
  <2>3. CASE ~(kind # "rate-limited" /\ tried[r] \cup {at[r]} \cup refused[r] = Upstreams)
    <3>1. tried' = [tried EXCEPT ![r] = tried[r] \cup {at[r]}] /\ pc' = [pc EXCEPT ![r] = "round"]
      BY <2>3 DEF Pacer!TryAgain
    <3>2. tried[r] \cup {at[r]} \in SUBSET Upstreams
      BY <2>1
    <3> WITNESS tried[r] \cup {at[r]} \in SUBSET Upstreams, "round" \in {"round", "backoff"}
    <3> QED  BY <3>1
  <2> QED  BY <2>2, <2>3
<1>3. UNCHANGED <<refused, lastRefusal, inFlight, maxLogRange>>
  BY DEF Pacer!TryAgain, Pacer!Failed
<1>4. tried' \in [Requests -> SUBSET Upstreams] /\ \A q \in Requests \ {r} : tried'[q] = tried[q]
  BY <1>2 DEF PacerInv, PacerTyped
<1>5. refused'[r] = Upstreams => lastRefusal'[r]
  BY <1>3 DEF PacerInv, Truthful, AllRefused
<1> QED  BY <1>1, <1>2, <1>3, <1>4, <1>5, GoesOn DEF PacerInv, PacerTyped, Placed

LEMMA PacerSteps == PacerInv /\ [Pacer!Next]_(Pacer!vars) => PacerInv'
<1> SUFFICES ASSUME PacerInv, [Pacer!Next]_(Pacer!vars)  PROVE PacerInv'
  OBVIOUS
<1>1. ASSUME UNCHANGED <<pc, at, tried, refused, lastRefusal, inFlight, maxLogRange>>  PROVE PacerInv'
  <2>1. Pacer!PlacesCounted'
    BY <1>1, PlacesKept DEF PacerInv
  <2>2. Pacer!WaitsForAPlace'
    BY <1>1, WaitsKept DEF PacerInv
  <2>3. Truthful'
    BY <1>1, TruthKept DEF PacerInv, PacerTyped, Truthful, AllRefused, StillAllowed
  <2> QED
    BY <1>1, <2>1, <2>2, <2>3 DEF PacerInv, PacerTyped, AtHeld
<1>2. ASSUME NEW r \in Requests, Pacer!Forward(r)  PROVE PacerInv'
  <2>1. CASE Pacer!Start(r)
    BY <2>1, StartTrue
  <2>2. CASE Pacer!Round(r)
    BY <2>2, RoundTrue
  <2>3. CASE Pacer!LookAgain(r)
    BY <2>3, AcquireTrue DEF Pacer!LookAgain, PacerInv, Truthful, StillAllowed
  <2>4. CASE Pacer!Send(r)
    <3>1. /\ pc[r] = "paced" /\ pc' = [pc EXCEPT ![r] = "sent"]
          /\ UNCHANGED <<at, tried, refused, lastRefusal, inFlight, maxLogRange>>
      BY <2>4 DEF Pacer!Send, Pacer!locals
    <3>2. pc'[r] = "sent" /\ \A q \in Requests \ {r} : pc'[q] = pc[q]
      BY <3>1 DEF PacerInv, PacerTyped
    <3>3. PacerTyped' /\ AtHeld'
      BY <3>1, <3>2 DEF PacerInv, PacerTyped, AtHeld, Stages, Placed
    <3>4. Pacer!PlacesCounted'
      BY <3>1, <3>2, PlacesKept DEF PacerInv, Placed
    <3>5. Pacer!WaitsForAPlace'
      BY <3>1, <3>2, WaitsKept DEF PacerInv
    <3>6. Truthful'
      BY <3>1, <3>2, TruthKept DEF PacerInv, PacerTyped, Truthful, AllRefused, StillAllowed
    <3> QED  BY <3>3, <3>4, <3>5, <3>6 DEF PacerInv
  <2>5. CASE Pacer!Settle(r)
    BY <2>5, SettleTrue
  <2>6. CASE Pacer!AbandonAnswer(r)
    BY <2>6, Returns DEF Pacer!AbandonAnswer, Pacer!Ended, Placed
  <2>7. CASE Pacer!Accept(r)
    BY <2>7, Returns DEF Pacer!Accept, Pacer!Reads, Pacer!Ended, Placed
  <2>8. CASE Pacer!NoteRefusal(r)
    BY <2>8, NoteRefusalTrue
  <2>9. CASE Pacer!BackedOff(r)
    <3>1. /\ pc[r] = "backoff" /\ pc' = [pc EXCEPT ![r] = "round"]
          /\ UNCHANGED <<at, tried, refused, lastRefusal, inFlight, maxLogRange>>
      BY <2>9 DEF Pacer!BackedOff, Pacer!locals
    <3>2. refused'[r] = Upstreams => lastRefusal'[r]
      BY <3>1 DEF PacerInv, Truthful, AllRefused
    <3> QED  BY <3>1, <3>2, GoesOn DEF PacerInv, PacerTyped, Placed
  <2>10. ASSUME NEW kind, Pacer!GiveUp(r, kind)  PROVE PacerInv'
    BY <2>10, Returns DEF Pacer!GiveUp, Pacer!Failed, Pacer!Reads, Pacer!Ended, Placed
  <2>11. ASSUME NEW kind, Pacer!TryAgain(r, kind)  PROVE PacerInv'
    BY <2>11, TryAgainTrue
  <2> QED
    BY <1>2, <2>1, <2>2, <2>3, <2>4, <2>5, <2>6, <2>7, <2>8, <2>9, <2>10, <2>11 DEF Pacer!Forward
<1>3. ASSUME NEW r \in Requests, Pacer!Close(r)  PROVE PacerInv'
  BY <1>1, <1>3 DEF Pacer!Close, Pacer!locals
<1>4. ASSUME NEW u \in Upstreams, Pacer!Unpause(u)  PROVE PacerInv'
  BY <1>1, <1>4 DEF Pacer!Unpause, Pacer!locals
<1>5. CASE UNCHANGED Pacer!vars
  BY <1>1, <1>5 DEF Pacer!vars, Pacer!locals
<1> QED  BY <1>2, <1>3, <1>4, <1>5 DEF Pacer!Next

-----------------------------------------------------------------------------
(* The batcher.  A recursive function is what its equation says, which is  *)
(* shown at the least number where it would not be.                        *)

LEMMA LeastNumber ==
    ASSUME NEW S \in SUBSET Nat, S # {}
    PROVE  \E x \in S : \A y \in S : x <= y
<1> DEFINE less == OpToRel(<, Nat)
<1>1. PICK x \in S : \A y \in S : ~(<<y, x>> \in less)
  BY NatLessThanWellFounded, WFMin
<1>2. less = {pair \in Nat \X Nat : pair[1] < pair[2]}
  BY DEF OpToRel
<1> HIDE DEF less
<1>3. \A m, n \in Nat : m < n => <<m, n>> \in less
  BY <1>2
<1>4. \A m, n \in Nat : ~(m < n) => n <= m
  OBVIOUS
<1> QED  BY <1>1, <1>3, <1>4

LEMMA StepsAlike ==
    ASSUME NEW N \in Nat, NEW f, NEW g, f[0] = g[0],
           \A n \in 1..N : f[n - 1] = g[n - 1] => f[n] = g[n]
    PROVE  \A n \in 0..N : f[n] = g[n]
<1> DEFINE Bad == {m \in 0..N : f[m] # g[m]}
<1>1. SUFFICES ASSUME Bad # {} PROVE FALSE
  OBVIOUS
<1>2. PICK m \in Bad : \A k \in Bad : m <= k
  <2>1. Bad \in SUBSET Nat
    OBVIOUS
  <2> QED  BY ONLY <1>1, <2>1, LeastNumber
<1>3. m \in 0..N /\ m # 0
  OBVIOUS
<1>4. m - 1 \in 0..N /\ m \in 1..N /\ ~(m <= m - 1)
  BY <1>3
<1>5. f[m - 1] = g[m - 1]
  BY <1>2, <1>4
<1> QED  BY <1>4, <1>5

\* From first, one step after the other.
Steps(f, N, D, first, step) ==
    f \in [0..N -> D] /\ f[0] = first /\ \A n \in 1..N : f[n] = step[<<f[n - 1], n>>]

LEMMA StepsExist ==
    ASSUME NEW N \in Nat, NEW D, NEW first \in D, NEW step \in [D \X (1..N) -> D]
    PROVE  \E f : Steps(f, N, D, first, step)
<1> DEFINE Bad == {m \in 0..N : ~\E f : Steps(f, m, D, first, step)}
<1>1. SUFFICES ASSUME Bad # {} PROVE FALSE
  <2>1. N \in 0..N
    OBVIOUS
  <2> QED  BY <2>1
<1>2. PICK m \in Bad : \A k \in Bad : m <= k
  <2>1. Bad \in SUBSET Nat
    OBVIOUS
  <2> QED  BY ONLY <1>1, <2>1, LeastNumber
<1>3. m \in 0..N
  OBVIOUS
<1>4. CASE m = 0
  <2>1. PICK f : f = [i \in 0..0 |-> first]
    OBVIOUS
  <2>2. f[0] = first /\ f \in [0..0 -> D] /\ 1..0 = {}
    BY <2>1
  <2>3. Steps(f, 0, D, first, step)
    BY <2>2 DEF Steps
  <2> QED  BY <1>4, <2>3
<1>5. CASE m # 0
  <2>1. m - 1 \in 0..N /\ m \in 1..N /\ ~(m <= m - 1) /\ m \in Nat
    BY <1>3, <1>5
  <2>2. PICK f : Steps(f, m - 1, D, first, step)
    BY <1>2, <2>1
  <2>3. PICK g : g = [i \in 0..m |-> IF i = m THEN step[<<f[m - 1], m>>] ELSE f[i]]
    OBVIOUS
  <2>4. f \in [0..(m - 1) -> D] /\ m - 1 \in 0..(m - 1)
    BY <2>1, <2>2 DEF Steps
  <2>5. f[m - 1] \in D /\ step[<<f[m - 1], m>>] \in D
    BY <2>1, <2>4
  <2>6. \A i \in 0..m : i = m \/ i \in 0..(m - 1)
    BY <2>1
  <2>7. g \in [0..m -> D]
    BY <2>3, <2>4, <2>5, <2>6
  <2>8. \A i \in 0..(m - 1) : g[i] = f[i]
    <3>1. \A i \in 0..(m - 1) : i \in 0..m /\ i # m
      BY <2>1
    <3> QED  BY <2>3, <3>1
  <2>9. g[m] = step[<<f[m - 1], m>>] /\ 0 \in 0..(m - 1)
    BY <2>1, <2>3
  <2>10. \A n \in 1..m : n = m \/ (n \in 1..(m - 1) /\ n \in 0..(m - 1) /\ n - 1 \in 0..(m - 1))
    BY <2>1
  <2>11. \A n \in 1..m : g[n] = step[<<g[n - 1], n>>]
    BY <2>2, <2>4, <2>8, <2>9, <2>10 DEF Steps
  <2>12. g[0] = first
    BY <2>2, <2>8, <2>9 DEF Steps
  <2>13. Steps(g, m, D, first, step)
    BY <2>7, <2>11, <2>12 DEF Steps
  <2> QED  BY <2>13
<1> QED  BY <1>4, <1>5

\* What the first n of the parts make.
Joins(f, parts, N, S) ==
    f \in [0..N -> Seq(S)] /\ f[0] = <<>> /\ \A n \in 1..N : f[n] = f[n - 1] \o parts[n]

LEMMA JoinsExist ==
    ASSUME NEW S, NEW N \in Nat, NEW parts, \A n \in 1..N : parts[n] \in Seq(S)
    PROVE  \E f : Joins(f, parts, N, S)
<1> DEFINE step == [x \in Seq(S) \X (1..N) |-> x[1] \o parts[x[2]]]
<1>1. \A s \in Seq(S), n \in 1..N : step[<<s, n>>] = s \o parts[n]
  OBVIOUS
<1>2. step \in [Seq(S) \X (1..N) -> Seq(S)]
  OBVIOUS
<1> HIDE DEF step
<1>6. <<>> \in Seq(S)
  OBVIOUS
<1>3. PICK f : Steps(f, N, Seq(S), <<>>, step)
  BY ONLY <1>2, <1>6, N \in Nat, StepsExist
<1>4. \A n \in 1..N : n - 1 \in 0..N
  OBVIOUS
<1>5. Joins(f, parts, N, S)
  BY <1>1, <1>3, <1>4 DEF Steps, Joins
<1> QED  BY <1>5

\* The first n of the parts.
Begins(first, parts, n) == Len(first) = n /\ \A k \in 1..n : first[k] = parts[k]

LEMMA JoinedIs ==
    ASSUME NEW S, NEW N \in Nat, NEW parts, NEW f, Joins(f, parts, N, S),
           NEW n \in 0..N, NEW first, Begins(first, parts, n)
    PROVE  Batcher!Joined(first) = f[n]
<1> DEFINE Defines(g) == g = [k \in 0..n |-> IF k = 0 THEN <<>> ELSE g[k - 1] \o first[k]]
<1>1. Batcher!Joined(first) = (CHOOSE g : Defines(g))[n]
  BY DEF Begins, Batcher!Joined
<1>2. PICK h : h = [k \in 0..n |-> f[k]]
  OBVIOUS
<1>3. \A k \in 0..n : k = 0 \/ (k \in 1..n /\ k \in 1..N /\ k - 1 \in 0..n)
  OBVIOUS
<1>4. \A k \in 0..n : h[k] = (IF k = 0 THEN <<>> ELSE h[k - 1] \o first[k])
  BY <1>2, <1>3 DEF Joins, Begins
<1>5. Defines(h)
  BY <1>2, <1>4
<1>6. PICK g : g = CHOOSE d : Defines(d)
  OBVIOUS
<1>7. Defines(g)
  BY <1>5, <1>6
<1>8. g[0] = <<>> /\ \A k \in 1..n : g[k] = g[k - 1] \o first[k]
  <2>1. 0 \in 0..n /\ \A k \in 1..n : k \in 0..n /\ k # 0
    OBVIOUS
  <2> QED  BY <1>7, <2>1
<1>9. h[0] = <<>> /\ \A k \in 1..n : h[k] = h[k - 1] \o first[k]
  <2>1. 0 \in 0..n /\ \A k \in 1..n : k \in 0..n /\ k # 0
    OBVIOUS
  <2> QED  BY <1>4, <2>1
<1> HIDE DEF Defines
<1>10. n \in Nat /\ n \in 0..n
  OBVIOUS
<1>11. \A k \in 0..n : g[k] = h[k]
  <2>1. \A k \in 1..n : g[k - 1] = h[k - 1] => g[k] = h[k]
    BY <1>8, <1>9
  <2>2. g[0] = h[0]
    BY <1>8, <1>9
  <2> QED  BY ONLY <2>1, <2>2, <1>10, StepsAlike
<1> QED  BY <1>1, <1>2, <1>6, <1>10, <1>11

LEMMA ConcatIs ==
    ASSUME NEW S, NEW a \in Seq(S), NEW b \in Seq(S), NEW k, NEW l, k = Len(a), l = Len(b)
    PROVE  /\ a \o b \in Seq(S) /\ Len(a \o b) = k + l
           /\ \A i \in 1..(k + l) : (a \o b)[i] = IF i <= k THEN a[i] ELSE b[i - k]
<1>1. /\ a \o b \in Seq(S) /\ Len(a \o b) = Len(a) + Len(b)
      /\ \A i \in 1..(Len(a) + Len(b)) : (a \o b)[i] = IF i <= Len(a) THEN a[i] ELSE b[i - Len(a)]
  BY ONLY a \in Seq(S), b \in Seq(S), ConcatProperties, Zenon
<1> QED  BY ONLY <1>1, k = Len(a), l = Len(b), Zenon

\* What was joined first stays first.
LEMMA JoinsGrow ==
    ASSUME NEW S, NEW N \in Nat, NEW parts, NEW f, Joins(f, parts, N, S),
           \A k \in 1..N : parts[k] \in Seq(S), NEW n \in 0..N
    PROVE  Len(f[n]) <= Len(f[N]) /\ \A j \in 1..Len(f[n]) : f[N][j] = f[n][j]
<1> DEFINE Grown(m) == Len(f[n]) <= Len(f[m]) /\ \A j \in 1..Len(f[n]) : f[m][j] = f[n][j]
<1> DEFINE Bad == {m \in n..N : ~Grown(m)}
<1>1. SUFFICES ASSUME Bad # {} PROVE FALSE
  <2>1. N \in n..N
    OBVIOUS
  <2> QED  BY <2>1
<1>2. PICK m \in Bad : \A k \in Bad : m <= k
  <2>1. Bad \in SUBSET Nat
    OBVIOUS
  <2> QED  BY ONLY <1>1, <2>1, LeastNumber
<1>3. m \in n..N /\ m \in 0..N /\ m # n
  OBVIOUS
<1>4. m - 1 \in n..N /\ m - 1 \in 0..N /\ m \in 1..N /\ ~(m <= m - 1)
  BY <1>3
<1>5. Grown(m - 1)
  BY <1>2, <1>4
<1>6. PICK a, b, c \in Seq(S) : a = f[m - 1] /\ b = parts[m] /\ c = f[n]
  BY <1>4 DEF Joins
<1>7. f[m] = a \o b
  BY <1>4, <1>6 DEF Joins
<1>8. Len(c) <= Len(a) /\ \A j \in 1..Len(c) : a[j] = c[j]
  BY <1>5, <1>6
<1>9. Len(c) <= Len(a \o b) /\ \A j \in 1..Len(c) : (a \o b)[j] = c[j]
  <2>1. PICK k, l, o \in Nat : k = Len(a) /\ l = Len(b) /\ o = Len(c)
    BY <1>6, LenProperties
  <2>2. Len(a \o b) = k + l /\ \A i \in 1..(k + l) : (a \o b)[i] = IF i <= k THEN a[i] ELSE b[i - k]
    BY ONLY a \in Seq(S), b \in Seq(S), <2>1, ConcatIs
  <2>3. o <= k /\ \A j \in 1..o : a[j] = c[j]
    BY <1>8, <2>1
  <2>4. o <= k + l /\ \A j \in 1..o : j <= k /\ j \in 1..(k + l)
    BY ONLY <2>3, k \in Nat, l \in Nat, o \in Nat
  <2> QED  BY ONLY <2>1, <2>2, <2>3, <2>4
<1>10. Grown(m)
  BY <1>6, <1>7, <1>9
<1> QED  BY <1>10

\* After k elements of s come those of piece.
Follows(s, k, piece) == SubSeq(s, k + 1, k + Len(piece)) = piece

\* Each part is where the ones before it end.
LEMMA PartAt ==
    ASSUME NEW S, NEW N \in Nat, NEW parts, NEW f, Joins(f, parts, N, S),
           \A k \in 1..N : parts[k] \in Seq(S), NEW n \in 1..N
    PROVE  Follows(f[N], Len(f[n - 1]), parts[n])
<1>1. n \in 0..N /\ n - 1 \in 0..N /\ N \in 0..N
  OBVIOUS
<1>2. PICK a, b, c \in Seq(S) : a = f[n - 1] /\ b = parts[n] /\ c = f[N]
  BY <1>1 DEF Joins
<1>3. f[n] = a \o b
  BY <1>2 DEF Joins
<1>4. Len(a \o b) <= Len(c) /\ \A j \in 1..Len(a \o b) : c[j] = (a \o b)[j]
  <2>1. Len(f[n]) <= Len(f[N]) /\ \A j \in 1..Len(f[n]) : f[N][j] = f[n][j]
    BY <1>1, JoinsGrow
  <2> QED  BY <1>2, <1>3, <2>1
<1>5. PICK l, k, o \in Nat : l = Len(a) /\ k = Len(b) /\ o = Len(c)
  BY <1>2, LenProperties
<1>6. Len(a \o b) = l + k /\ \A i \in 1..(l + k) : (a \o b)[i] = IF i <= l THEN a[i] ELSE b[i - l]
  BY ONLY a \in Seq(S), b \in Seq(S), <1>5, ConcatIs
<1>7. \A i \in 1..(l + k) : c[i] = IF i <= l THEN a[i] ELSE b[i - l]
  BY <1>4, <1>6
<1>8. l + k <= o
  BY <1>4, <1>5, <1>6
<1>9. \A i \in (l + 1)..(l + k) : c[i] \in S
  <2>1. \A i \in 1..o : c[i] \in S
    BY ONLY c \in Seq(S), <1>5, ElementOfSeq
  <2>2. \A i \in (l + 1)..(l + k) : i \in 1..o
    BY ONLY <1>8, l \in Nat, k \in Nat, o \in Nat
  <2> QED  BY <2>1, <2>2
<1>10. PICK s : s = SubSeq(c, l + 1, l + k)
  OBVIOUS
<1>11. s \in Seq(S) /\ Len(s) = (IF l + 1 <= l + k THEN (l + k) - (l + 1) + 1 ELSE 0)
         /\ \A i \in 1..((l + k) - (l + 1) + 1) : s[i] = c[(l + 1) + i - 1]
  BY ONLY <1>9, <1>10, l + 1 \in Int, l + k \in Int, SubSeqProperties
<1>12. Len(s) = k /\ (l + k) - (l + 1) + 1 = k
  BY ONLY <1>11, l \in Nat, k \in Nat
<1>13. \A i \in 1..k : s[i] = b[i]
  <2>1. SUFFICES ASSUME NEW i \in 1..k PROVE s[i] = b[i]
    OBVIOUS
  <2>2. (l + 1) + i - 1 = l + i /\ l + i \in 1..(l + k) /\ ~(l + i <= l) /\ (l + i) - l = i
    BY ONLY i \in 1..k, l \in Nat, k \in Nat
  <2>3. s[i] = c[l + i]
    BY <1>11, <1>12, <2>2
  <2>4. c[l + i] = b[i]
    BY <1>7, <2>2
  <2> QED  BY <2>3, <2>4
<1>14. s = b
  BY ONLY b \in Seq(S), <1>5, <1>11, <1>12, <1>13, SeqEqual
<1> QED  BY <1>2, <1>5, <1>10, <1>14 DEF Follows

Calls == {Batcher!Result(error, <<g, i>>) : error \in {"revert", "none"}, g \in Groups, i \in Nat}

LEMMA BatcherConstants ==
    /\ BlockOf \in [Groups -> Blocks] /\ SizeOf \in [Groups -> Nat]
    /\ MaxCalls \in Nat \ {0} /\ NodeCap \in Nat \ {0}
    /\ \A g \in Groups : Batcher!ChunkOf(g) \in Nat \ {0}
<1>1. ASSUME NEW n \in Nat \ {0}, NEW m \in Nat \ {0}  PROVE n \div m \in Int
  OBVIOUS
<1>2. ASSUME NEW g \in Groups  PROVE Batcher!ChunkOf(g) \in Nat \ {0}
  BY <1>1, PartsAssumption DEF Batcher!BatcherAssumption, Batcher!ChunkOf
<1> QED  BY <1>2, PartsAssumption DEF Batcher!BatcherAssumption

LEMMA OwnIs ==
    ASSUME NEW g \in Groups
    PROVE  /\ Batcher!Own(g) \in Seq(Calls) /\ Len(Batcher!Own(g)) = SizeOf[g]
           /\ \A i \in 1..SizeOf[g] : Batcher!Own(g)[i].of = <<g, i>> /\ Batcher!Own(g)[i].error \in {"revert", "none"}
<1>1. PICK n \in Nat : n = SizeOf[g]
  BY BatcherConstants
<1>2. \A i \in 1..n : Batcher!Result(IF <<g, i>> \in Reverting THEN "revert" ELSE "none", <<g, i>>) \in Calls
  BY DEF Calls
<1>3. Batcher!Own(g) = [i \in 1..n |-> Batcher!Result(IF <<g, i>> \in Reverting THEN "revert" ELSE "none", <<g, i>>)]
  BY <1>1 DEF Batcher!Own
<1>4. Batcher!Own(g) \in Seq(Calls) /\ Len(Batcher!Own(g)) = n
  BY <1>2, <1>3
<1>5. \A i \in 1..n : Batcher!Own(g)[i].of = <<g, i>> /\ Batcher!Own(g)[i].error \in {"revert", "none"}
  BY <1>3 DEF Batcher!Result
<1> QED  BY <1>1, <1>4, <1>5

\* The calls of each group, in the groups' order.
Owns(groups) == [i \in DOMAIN groups |-> Batcher!Own(groups[i])]

LEMMA OwnsAre ==
    ASSUME NEW groups \in Seq(Groups), NEW N \in Nat, N = Len(groups)
    PROVE  /\ Len(Owns(groups)) = N /\ DOMAIN groups = 1..N
           /\ \A i \in 1..N : Owns(groups)[i] = Batcher!Own(groups[i]) /\ Owns(groups)[i] \in Seq(Calls)
<1>1. DOMAIN groups = 1..N /\ \A i \in 1..N : groups[i] \in Groups
  OBVIOUS
<1>2. Owns(groups) = [i \in 1..N |-> Batcher!Own(groups[i])]
  BY <1>1 DEF Owns
<1>3. \A i \in 1..N : Owns(groups)[i] = Batcher!Own(groups[i]) /\ Owns(groups)[i] \in Seq(Calls)
  BY <1>1, <1>2, OwnIs
<1>4. Len(Owns(groups)) = N
  BY <1>2
<1> QED  BY <1>1, <1>3, <1>4

LEMMA CallsJoin ==
    ASSUME NEW groups \in Seq(Groups), NEW N \in Nat, N = Len(groups)
    PROVE  \E f : /\ Joins(f, Owns(groups), N, Calls)
                  /\ \A n \in 0..N, first \in Seq(Groups) :
                        Begins(first, groups, n) => Batcher!CallsOf(first) = f[n]
<1>1. \A n \in 1..N : Owns(groups)[n] \in Seq(Calls)
  BY OwnsAre
<1>2. PICK f : Joins(f, Owns(groups), N, Calls)
  BY <1>1, JoinsExist
<1>3. ASSUME NEW n \in 0..N, NEW first \in Seq(Groups), Begins(first, groups, n)
      PROVE  Batcher!CallsOf(first) = f[n]
  <2>1. n \in Nat /\ \A k \in 1..n : k \in 1..N
    OBVIOUS
  <2>2. Len(Owns(first)) = n /\ \A k \in 1..n : Owns(first)[k] = Batcher!Own(first[k])
    BY <1>3, <2>1, OwnsAre DEF Begins
  <2>3. \A k \in 1..n : Owns(first)[k] = Owns(groups)[k]
    BY <1>3, <2>1, <2>2, OwnsAre DEF Begins
  <2>4. PICK ps, qs : ps = Owns(groups) /\ qs = Owns(first)
    OBVIOUS
  <2>5. Joins(f, ps, N, Calls) /\ Begins(qs, ps, n)
    BY <1>2, <2>2, <2>3, <2>4 DEF Begins
  <2>6. Batcher!Joined(qs) = f[n]
    BY ONLY <2>5, N \in Nat, n \in 0..N, JoinedIs
  <2> QED  BY <2>4, <2>6 DEF Batcher!CallsOf, Owns
<1> QED  BY <1>2, <1>3

LEMMA CallsAre ==
    ASSUME NEW groups \in Seq(Groups)
    PROVE  Batcher!CallsOf(groups) \in Seq(Calls) /\ Batcher!CallCount(groups) \in Nat
<1>1. PICK N \in Nat : N = Len(groups)
  OBVIOUS
<1>2. PICK f : /\ Joins(f, Owns(groups), N, Calls)
               /\ \A n \in 0..N, first \in Seq(Groups) :
                     Begins(first, groups, n) => Batcher!CallsOf(first) = f[n]
  BY <1>1, CallsJoin
<1>3. N \in 0..N /\ f[N] \in Seq(Calls)
  BY <1>2 DEF Joins
<1>4. Batcher!CallsOf(groups) = f[N]
  BY <1>1, <1>2, <1>3 DEF Begins
<1> QED  BY <1>3, <1>4 DEF Batcher!CallCount

\* Each group's slice of the calls' own results is its own results.
LEMMA OwnSlice ==
    ASSUME NEW groups \in Seq(Groups), NEW n \in DOMAIN groups
    PROVE  Batcher!Slice(groups, Batcher!CallsOf(groups), n) = Batcher!Own(groups[n])
<1>1. PICK N \in Nat : N = Len(groups)
  OBVIOUS
<1>2. n \in 1..N /\ n - 1 \in 0..N /\ N \in 0..N /\ n - 1 \in Nat /\ groups[n] \in Groups
  BY <1>1
<1>3. PICK f : /\ Joins(f, Owns(groups), N, Calls)
               /\ \A m \in 0..N, first \in Seq(Groups) :
                     Begins(first, groups, m) => Batcher!CallsOf(first) = f[m]
  BY <1>1, CallsJoin
<1>4. PICK first : first = SubSeq(groups, 1, n - 1)
  OBVIOUS
<1>5. first \in Seq(Groups) /\ Len(first) = n - 1 /\ \A k \in 1..(n - 1) : first[k] = groups[k]
  BY <1>1, <1>2, <1>4
<1>6. Batcher!CallsOf(groups) = f[N]
  BY <1>1, <1>2, <1>3 DEF Begins
<1>7. Batcher!CallsOf(first) = f[n - 1]
  BY <1>2, <1>3, <1>5 DEF Begins
<1>8. \A k \in 1..N : Owns(groups)[k] \in Seq(Calls)
  BY <1>1, OwnsAre
<1>9. Owns(groups)[n] = Batcher!Own(groups[n]) /\ Len(Batcher!Own(groups[n])) = SizeOf[groups[n]]
  BY <1>1, <1>2, OwnsAre, OwnIs
<1>10. Follows(f[N], Len(f[n - 1]), Owns(groups)[n])
  <2>1. PICK ps : ps = Owns(groups)
    OBVIOUS
  <2>2. Joins(f, ps, N, Calls) /\ \A k \in 1..N : ps[k] \in Seq(Calls)
    BY <1>3, <1>8, <2>1
  <2>3. Follows(f[N], Len(f[n - 1]), ps[n])
    BY ONLY <1>2, <2>2, N \in Nat, n \in 1..N, PartAt, Zenon
  <2> QED  BY <2>1, <2>3
<1>11. Batcher!OffsetOf(groups, n) = Len(f[n - 1])
  BY <1>4, <1>7 DEF Batcher!OffsetOf, Batcher!CallCount
<1> QED  BY <1>6, <1>9, <1>10, <1>11, Zenon DEF Follows, Batcher!Slice

LEMMA AppendedCalls ==
    ASSUME NEW groups \in Seq(Groups), NEW g \in Groups
    PROVE  Batcher!CallsOf(Append(groups, g)) = Batcher!CallsOf(groups) \o Batcher!Own(g)
<1>1. PICK N \in Nat : N = Len(groups)
  OBVIOUS
<1>2. PICK more : more = Append(groups, g)
  OBVIOUS
<1>3. /\ more \in Seq(Groups) /\ Len(more) = N + 1 /\ N + 1 \in Nat /\ more[N + 1] = g
      /\ \A k \in 1..N : more[k] = groups[k]
  BY <1>1, <1>2
<1>4. PICK f : /\ Joins(f, Owns(more), N + 1, Calls)
               /\ \A m \in 0..(N + 1), first \in Seq(Groups) :
                     Begins(first, more, m) => Batcher!CallsOf(first) = f[m]
  BY <1>3, CallsJoin
<1>5. N \in 0..(N + 1) /\ N + 1 \in 0..(N + 1) /\ N + 1 \in 1..(N + 1) /\ (N + 1) - 1 = N
  OBVIOUS
<1>6. Batcher!CallsOf(more) = f[N + 1] /\ Batcher!CallsOf(groups) = f[N]
  BY <1>1, <1>3, <1>4, <1>5 DEF Begins
<1>7. f[N + 1] = f[(N + 1) - 1] \o Owns(more)[N + 1]
  BY <1>4, <1>5 DEF Joins
<1>8. Owns(more)[N + 1] = Batcher!Own(g)
  BY <1>3, <1>5, OwnsAre
<1> QED  BY <1>2, <1>5, <1>6, <1>7, <1>8

LEMMA LoneCalls ==
    ASSUME NEW g \in Groups
    PROVE  Batcher!CallsOf(<<g>>) = Batcher!Own(g)
<1>1. PICK f : /\ Joins(f, Owns(<<g>>), 1, Calls)
               /\ \A m \in 0..1, first \in Seq(Groups) :
                     Begins(first, <<g>>, m) => Batcher!CallsOf(first) = f[m]
  <2>1. <<g>> \in Seq(Groups) /\ 1 \in Nat /\ Len(<<g>>) = 1
    OBVIOUS
  <2> QED  BY ONLY <2>1, CallsJoin
<1>2. Batcher!CallsOf(<<g>>) = f[1]
  <2>1. <<g>> \in Seq(Groups) /\ 1 \in 0..1 /\ Len(<<g>>) = 1 /\ \A k \in 1..1 : <<g>>[k] = <<g>>[k]
    OBVIOUS
  <2> QED  BY <1>1, <2>1, Zenon DEF Begins
<1>3. f[1] = <<>> \o Owns(<<g>>)[1]
  <2>1. 1 \in 1..1 /\ 1 - 1 = 0
    OBVIOUS
  <2>2. f[0] = <<>> /\ f[1] = f[1 - 1] \o Owns(<<g>>)[1]
    BY <1>1, <2>1 DEF Joins
  <2> QED  BY <2>1, <2>2, Zenon
<1>4. Owns(<<g>>)[1] = Batcher!Own(g) /\ Batcher!Own(g) \in Seq(Calls)
  BY OwnIs DEF Owns
<1> QED  BY <1>2, <1>3, <1>4, ConcatEmptySeq

LEMMA JoinedNone == Batcher!Joined(<<>>) = <<>>
<1>1. \A n \in 1..0 : <<>>[n] \in Seq(Calls)
  OBVIOUS
<1>2. PICK f : Joins(f, <<>>, 0, Calls)
  BY ONLY <1>1, 0 \in Nat, JoinsExist
<1>3. 0 \in 0..0 /\ 0 \in Nat /\ Begins(<<>>, <<>>, 0)
  BY DEF Begins
<1>4. Batcher!Joined(<<>>) = f[0]
  BY ONLY <1>2, <1>3, JoinedIs
<1> QED  BY <1>2, <1>4 DEF Joins

LEMMA JoinedLone ==
    ASSUME NEW S, NEW piece \in Seq(S), NEW parts, Len(parts) = 1, parts[1] = piece
    PROVE  Batcher!Joined(parts) = piece
<1>1. 1 \in Nat /\ 1 \in 0..1 /\ Begins(parts, parts, 1)
  BY DEF Begins
<1>2. \A n \in 1..1 : parts[n] \in Seq(S)
  OBVIOUS
<1>3. PICK f : Joins(f, parts, 1, S)
  BY ONLY <1>1, <1>2, JoinsExist
<1>4. Batcher!Joined(parts) = f[1]
  BY ONLY <1>1, <1>3, JoinedIs
<1>5. f[0] = <<>> /\ f[1] = f[1 - 1] \o parts[1]
  <2>1. 1 \in 1..1
    OBVIOUS
  <2> QED  BY <1>3, <2>1 DEF Joins
<1>6. <<>> \o piece = piece
  BY ConcatEmptySeq
<1>7. 1 - 1 = 0
  OBVIOUS
<1> QED  BY <1>4, <1>5, <1>6, <1>7, Zenon

LEMMA OneChunk == ASSUME NEW n \in Nat, NEW m \in Nat, 1 <= n, n <= m PROVE (n + m - 1) \div m = 1
OBVIOUS

LEMMA NoChunk == ASSUME NEW m \in Nat, 1 <= m PROVE (0 + m - 1) \div m = 0
OBVIOUS

\* What fits into one call is sent in one, and nothing in none.
LEMMA ChunksAre ==
    ASSUME NEW S, NEW calls \in Seq(S), NEW n \in Nat, n = Len(calls),
           NEW size \in Nat, 1 <= size, n <= size
    PROVE  /\ n = 0 => DOMAIN Batcher!Chunks(calls, size) = {}
           /\ n # 0 => DOMAIN Batcher!Chunks(calls, size) = {1} /\ Batcher!Chunks(calls, size)[1] = calls
<1>1. Batcher!Chunks(calls, size) =
         [k \in 1..((n + size - 1) \div size) |->
             SubSeq(calls, (k - 1) * size + 1, IF k * size < n THEN k * size ELSE n)]
  BY DEF Batcher!Chunks
<1>2. ASSUME n = 0  PROVE DOMAIN Batcher!Chunks(calls, size) = {}
  <2>1. (n + size - 1) \div size = 0
    BY <1>2, NoChunk
  <2>2. 1..0 = {}
    OBVIOUS
  <2> QED  BY <1>1, <2>1, <2>2
<1>3. ASSUME n # 0
      PROVE  DOMAIN Batcher!Chunks(calls, size) = {1} /\ Batcher!Chunks(calls, size)[1] = calls
  <2>1. (n + size - 1) \div size = 1
    <3>1. 1 <= n
      BY <1>3
    <3> QED  BY ONLY <3>1, n \in Nat, size \in Nat, n <= size, OneChunk
  <2>2. 1..1 = {1}
    OBVIOUS
  <2>3. Batcher!Chunks(calls, size) =
           [k \in {1} |-> SubSeq(calls, (k - 1) * size + 1, IF k * size < n THEN k * size ELSE n)]
    BY <1>1, <2>1, <2>2
  <2>4. Batcher!Chunks(calls, size)[1] = SubSeq(calls, (1 - 1) * size + 1, IF 1 * size < n THEN 1 * size ELSE n)
    BY <2>3
  <2>5. (1 - 1) * size + 1 = 1 /\ (IF 1 * size < n THEN 1 * size ELSE n) = n
    OBVIOUS
  <2>6. SubSeq(calls, 1, n) = calls
    BY SubSeqFull
  <2> QED  BY <2>3, <2>4, <2>5, <2>6
<1> QED  BY <1>2, <1>3

\* What one call of all of calls may give.
Given(results, calls) ==
    \/ results = calls
    \/ /\ Len(calls) > NodeCap
       /\ results = [i \in DOMAIN calls |-> Batcher!TooBig(1)]
    \/ results = [i \in DOMAIN calls |-> Batcher!Outage(1)]
    \/ /\ rpc = "limits"
       /\ results = [i \in DOMAIN calls |-> Batcher!Limited(1)]

LEMMA MulticallGives ==
    ASSUME NEW groups \in Seq(Groups), NEW size \in Nat, 1 <= size, Batcher!CallCount(groups) <= size,
           NEW results \in Batcher!Multicall(groups, size)
    PROVE  Given(results, Batcher!CallsOf(groups))
<1>1. PICK calls \in Seq(Calls) : calls = Batcher!CallsOf(groups)
  BY CallsAre
<1>2. PICK n \in Nat : n = Len(calls)
  BY LenProperties
<1>3. n <= size
  BY <1>1, <1>2 DEF Batcher!CallCount
<1>4. PICK chunks : chunks = Batcher!Chunks(calls, size)
  OBVIOUS
<1>5. /\ n = 0 => DOMAIN chunks = {}
      /\ n # 0 => DOMAIN chunks = {1} /\ chunks[1] = calls
  BY <1>2, <1>3, <1>4, ChunksAre
<1>6. PICK f : /\ results = Batcher!Joined(f)
               /\ f \in [DOMAIN chunks -> UNION {Batcher!Aggregate(chunks[k], k) : k \in DOMAIN chunks}]
               /\ \A k \in DOMAIN chunks : f[k] \in Batcher!Aggregate(chunks[k], k)
  BY <1>1, <1>4, Zenon DEF Batcher!Multicall
<1>7. CASE n = 0
  <2>1. DOMAIN f = {} /\ f = [x \in {} |-> f[x]]
    BY <1>5, <1>6, <1>7
  <2>2. f = <<>>
    BY <2>1
  <2>3. calls = <<>>
    BY <1>2, <1>7, EmptySeq
  <2> QED  BY <1>1, <1>6, <2>2, <2>3, JoinedNone DEF Given
<1>8. CASE n # 0
  <2>1. f[1] \in Batcher!Aggregate(calls, 1) /\ DOMAIN f = {1} /\ f = [x \in {1} |-> f[x]]
    BY <1>5, <1>6, <1>8
  <2>2. Given(f[1], calls)
    BY <2>1 DEF Given, Batcher!Aggregate
  <2>3. 1..1 = {1} /\ DOMAIN calls = 1..n
    BY <1>2, LenProperties
  <2>4. Len(f) = 1
    BY <2>1, <2>3
  <2>5. \E S : f[1] \in Seq(S)
    <3>1. CASE f[1] = calls
      BY <3>1
    <3>2. CASE f[1] = [i \in DOMAIN calls |-> Batcher!TooBig(1)]
      <4>1. f[1] \in Seq({Batcher!TooBig(1)})
        BY <2>3, <3>2
      <4> QED  BY <4>1
    <3>3. CASE f[1] = [i \in DOMAIN calls |-> Batcher!Outage(1)]
      <4>1. f[1] \in Seq({Batcher!Outage(1)})
        BY <2>3, <3>3
      <4> QED  BY <4>1
    <3>4. CASE f[1] = [i \in DOMAIN calls |-> Batcher!Limited(1)]
      <4>1. f[1] \in Seq({Batcher!Limited(1)})
        BY <2>3, <3>4
      <4> QED  BY <4>1
    <3> QED  BY <2>2, <3>1, <3>2, <3>3, <3>4 DEF Given
  <2>6. Batcher!Joined(f) = f[1]
    BY <2>4, <2>5, JoinedLone
  <2> QED  BY <1>1, <1>6, <2>2, <2>6
<1> QED  BY <1>7, <1>8

\* Whatever fails but not as a whole is the calls' own results.
LEMMA WholeOrOwn ==
    ASSUME NEW calls \in Seq(Calls), NEW results, Given(results, calls), ~Batcher!IsWholeRequestFailure(results)
    PROVE  results = calls
<1>1. PICK n \in Nat : n = Len(calls) /\ DOMAIN calls = 1..n
  BY LenProperties
<1>2. ASSUME NEW one, results = [i \in 1..n |-> one], one.error \in {"gas cap", "outage", "limited"}, results # <<>>
      PROVE  FALSE
  <2>1. n # 0
    <3>1. n = 0 => [i \in 1..n |-> one] = <<>>
      OBVIOUS
    <3> QED  BY <1>2, <3>1
  <2>2. 1 \in 1..n
    BY <2>1
  <2>3. results[1] = one /\ DOMAIN results = 1..n /\ \A i \in 1..n : results[i] = one
    BY <1>2, <2>2
  <2>4. Batcher!Failing(one) /\ ~Batcher!IsContractAnswer(one)
    BY <1>2 DEF Batcher!Failing, Batcher!IsContractAnswer
  <2> QED  BY <1>2, <2>3, <2>4 DEF Batcher!IsWholeRequestFailure
<1>3. calls = <<>> \/ calls # <<>>
  OBVIOUS
<1>4. CASE results = <<>>
  <2>1. ASSUME NEW one, results = [i \in 1..n |-> one] PROVE calls = <<>>
    <3>1. DOMAIN results = 1..n /\ DOMAIN <<>> = {}
      BY <2>1
    <3>2. n = 0
      <4>1. n # 0 => 1 \in 1..n
        OBVIOUS
      <4> QED  BY <1>4, <3>1, <4>1
    <3> QED  BY <1>1, <3>2
  <2> QED  BY <1>1, <1>4, <2>1 DEF Given
<1>5. Batcher!TooBig(1).error = "gas cap" /\ Batcher!Outage(1).error = "outage"
      /\ Batcher!Limited(1).error = "limited"
  BY DEF Batcher!TooBig, Batcher!Outage, Batcher!Limited, Batcher!Result
<1> QED  BY <1>1, <1>2, <1>4, <1>5 DEF Given

\* A group on its own that fails as a whole meets an outage or a limit, or is too big for the node.
LEMMA LoneFails ==
    ASSUME NEW g \in Groups, NEW results, Given(results, Batcher!Own(g)), Batcher!IsWholeRequestFailure(results)
    PROVE  results[1].error = "outage" \/ rpc = "limits" \/ SizeOf[g] > NodeCap
<1>1. PICK n \in Nat : n = SizeOf[g]
  BY BatcherConstants
<1>2. PICK own \in Seq(Calls) : own = Batcher!Own(g)
  BY OwnIs
<1>3. Len(own) = n /\ DOMAIN own = 1..n
  BY <1>1, <1>2, OwnIs, LenProperties
<1>4. results # own
  <2>1. SUFFICES ASSUME results = own PROVE FALSE
    OBVIOUS
  <2>2. n # 0
    <3>1. own # <<>>
      BY <2>1 DEF Batcher!IsWholeRequestFailure
    <3> QED  BY <1>3, <3>1
  <2>3. 1 \in 1..n /\ own[1].of = <<g, 1>> /\ own[1].error \in {"revert", "none"}
    BY <1>1, <1>2, <2>2, OwnIs
  <2>4. own[1].error = "revert" /\ n > 1
    BY <1>3, <2>1, <2>3 DEF Batcher!IsWholeRequestFailure, Batcher!Failing, Batcher!IsContractAnswer
  <2>5. 2 \in 1..n /\ own[2].of = <<g, 2>>
    BY <1>1, <1>2, <2>4, OwnIs
  <2>6. own[2] = own[1]
    BY <1>3, <2>1, <2>5 DEF Batcher!IsWholeRequestFailure
  <2> QED  BY <2>3, <2>5, <2>6
<1>5. CASE results = [i \in DOMAIN own |-> Batcher!Outage(1)]
  <2>1. n # 0
    <3>1. results # <<>>
      BY DEF Batcher!IsWholeRequestFailure
    <3>2. n = 0 => results = <<>>
      BY <1>3, <1>5
    <3> QED  BY <3>1, <3>2
  <2>2. 1 \in DOMAIN own
    BY <1>3, <2>1
  <2>3. results[1] = Batcher!Outage(1)
    BY <1>5, <2>2
  <2> QED  BY <2>3 DEF Batcher!Outage, Batcher!Result
<1> QED  BY <1>1, <1>2, <1>3, <1>4, <1>5 DEF Given

-----------------------------------------------------------------------------
(* packGroups puts every group of a queue into one request, in which it is once. *)

In(g, groups) == g \in Batcher!Range(groups)

LEMMA InIs ==
    \A g, groups : In(g, groups) <=> \E i \in DOMAIN groups : groups[i] = g
BY DEF In, Batcher!Range

LEMMA InAppended ==
    ASSUME NEW groups \in Seq(Groups), NEW g \in Groups, NEW h
    PROVE  In(h, Append(groups, g)) <=> In(h, groups) \/ h = g
<1>1. PICK n \in Nat : n = Len(groups) /\ DOMAIN groups = 1..n
  BY LenProperties
<1>2. PICK more : more = Append(groups, g)
  OBVIOUS
<1>3. more \in Seq(Groups) /\ Len(more) = n + 1 /\ more[n + 1] = g /\ \A i \in 1..n : more[i] = groups[i]
  BY <1>1, <1>2, AppendProperties
<1>4. DOMAIN more = 1..(n + 1)
  BY <1>3
<1>5. \A i : i \in 1..(n + 1) <=> i \in 1..n \/ i = n + 1
  OBVIOUS
<1> QED  BY <1>1, <1>2, <1>3, <1>4, <1>5, InIs

LEMMA InjectiveAppended ==
    ASSUME NEW groups \in Seq(Groups), NEW g \in Groups, Batcher!IsInjective(groups), ~In(g, groups)
    PROVE  Batcher!IsInjective(Append(groups, g))
<1>1. PICK n \in Nat : n = Len(groups) /\ DOMAIN groups = 1..n
  BY LenProperties
<1>2. PICK more : more = Append(groups, g)
  OBVIOUS
<1>3. more \in Seq(Groups) /\ Len(more) = n + 1 /\ more[n + 1] = g /\ \A i \in 1..n : more[i] = groups[i]
  BY <1>1, <1>2, AppendProperties
<1>4. DOMAIN more = 1..(n + 1)
  BY <1>3
<1>5. \A i : i \in 1..(n + 1) <=> i \in 1..n \/ i = n + 1
  OBVIOUS
<1>6. \A i, j \in 1..n : groups[i] = groups[j] => i = j
  BY <1>1 DEF Batcher!IsInjective
<1>7. \A i \in 1..n : groups[i] # g
  BY <1>1, InIs
<1>8. \A i, j \in DOMAIN more : more[i] = more[j] => i = j
  BY <1>3, <1>4, <1>5, <1>6, <1>7
<1> QED  BY <1>2, <1>8 DEF Batcher!IsInjective

LEMMA LoneGroup ==
    ASSUME NEW g \in Groups
    PROVE  /\ <<g>> \in Seq(Groups) /\ Len(<<g>>) = 1 /\ Batcher!IsInjective(<<g>>)
           /\ \A h : In(h, <<g>>) <=> h = g
BY InIs DEF Batcher!IsInjective

Fits(request) == Len(request) = 1 \/ Batcher!CallCount(request) <= MaxCalls

\* The requests hold the first n groups, each once.
Packing(packed, groups, n) ==
    /\ packed \in Seq(Seq(Groups))
    /\ \A k \in DOMAIN packed : Fits(packed[k]) /\ Batcher!IsInjective(packed[k])
    /\ \A g \in Groups : (\E k \in DOMAIN packed : In(g, packed[k])) <=> (\E j \in 1..n : groups[j] = g)
    /\ \A g \in Groups : \A k, l \in DOMAIN packed : In(g, packed[k]) /\ In(g, packed[l]) => k = l

\* A group goes into the last request or into one of its own.
LEMMA PutIs ==
    ASSUME NEW packed \in Seq(Seq(Groups)), NEW g \in Groups, NEW m \in Nat, m = Len(packed)
    PROVE  \/ Batcher!PutGroup(packed, g) = Append(packed, <<g>>)
           \/ /\ m # 0 /\ Batcher!CallCount(packed[m]) + SizeOf[g] <= MaxCalls
              /\ Batcher!PutGroup(packed, g) = [packed EXCEPT ![m] = Append(packed[m], g)]
<1>1. m # 0 => packed[m] \in Seq(Groups)
  BY ElementOfSeq
<1>2. m # 0 => Batcher!CallCount(packed[m]) \in Nat
  BY <1>1, CallsAre
<1>3. SizeOf[g] \in Nat /\ MaxCalls \in Nat
  BY BatcherConstants
<1>4. m # 0 /\ ~(Batcher!CallCount(packed[m]) + SizeOf[g] > MaxCalls) =>
         Batcher!CallCount(packed[m]) + SizeOf[g] <= MaxCalls
  BY <1>2, <1>3
<1>5. Batcher!PutGroup(packed, g) =
         IF m = 0 \/ Batcher!CallCount(packed[m]) + SizeOf[g] > MaxCalls
         THEN Append(packed, <<g>>) ELSE [packed EXCEPT ![m] = Append(packed[m], g)]
  BY DEF Batcher!PutGroup
<1> QED  BY <1>4, <1>5

LEMMA PutTyped ==
    ASSUME NEW packed \in Seq(Seq(Groups)), NEW g \in Groups
    PROVE  Batcher!PutGroup(packed, g) \in Seq(Seq(Groups))
<1>1. PICK m \in Nat : m = Len(packed)
  BY LenProperties
<1>2. Append(packed, <<g>>) \in Seq(Seq(Groups))
  BY LoneGroup, AppendProperties
<1>3. ASSUME m # 0 PROVE [packed EXCEPT ![m] = Append(packed[m], g)] \in Seq(Seq(Groups))
  <2>1. m \in 1..Len(packed)
    BY <1>1, <1>3
  <2>2. Append(packed[m], g) \in Seq(Groups)
    BY <2>1, ElementOfSeq, AppendProperties
  <2> QED  BY <2>1, <2>2, ExceptSeq
<1> QED  BY <1>1, <1>2, <1>3, PutIs

LEMMA AppendedFits ==
    ASSUME NEW request \in Seq(Groups), NEW g \in Groups,
           Batcher!CallCount(request) + SizeOf[g] <= MaxCalls
    PROVE  Fits(Append(request, g))
<1>1. Batcher!CallsOf(Append(request, g)) = Batcher!CallsOf(request) \o Batcher!Own(g)
  BY AppendedCalls
<1>2. Len(Batcher!CallsOf(request) \o Batcher!Own(g)) = Batcher!CallCount(request) + SizeOf[g]
  <2>1. Batcher!CallsOf(request) \in Seq(Calls) /\ Batcher!Own(g) \in Seq(Calls)
    BY CallsAre, OwnIs
  <2>2. Len(Batcher!CallsOf(request) \o Batcher!Own(g)) = Len(Batcher!CallsOf(request)) + Len(Batcher!Own(g))
    BY <2>1, ConcatProperties
  <2> QED  BY <2>2, OwnIs DEF Batcher!CallCount
<1> QED  BY <1>1, <1>2 DEF Fits, Batcher!CallCount

LEMMA PutPacks ==
    ASSUME NEW packed, NEW groups \in Seq(Groups), Batcher!IsInjective(groups),
           NEW n \in 1..Len(groups), Packing(packed, groups, n - 1)
    PROVE  Packing(Batcher!PutGroup(packed, groups[n]), groups, n)
<1>1. PICK g \in Groups : g = groups[n]
  BY ElementOfSeq
<1>2. PICK put : put = Batcher!PutGroup(packed, g)
  OBVIOUS
<1>0. SUFFICES Packing(put, groups, n)
  BY <1>1, <1>2
<1>3. packed \in Seq(Seq(Groups)) /\ put \in Seq(Seq(Groups))
  BY <1>1, <1>2, PutTyped DEF Packing
<1>4. PICK m \in Nat : m = Len(packed) /\ DOMAIN packed = 1..m
  BY <1>3, LenProperties
<1>5. \A k \in 1..m : packed[k] \in Seq(Groups)
  BY <1>3, <1>4, ElementOfSeq
<1>6. DOMAIN groups = 1..Len(groups) /\ n - 1 \in Int /\ Len(groups) \in Nat
  BY LenProperties
<1>7. \A j \in 1..(n - 1) : groups[j] # g
  <2>1. \A j \in 1..(n - 1) : j \in DOMAIN groups /\ j # n /\ n \in DOMAIN groups
    BY <1>6
  <2> QED  BY <1>1, <2>1 DEF Batcher!IsInjective
<1>8. \A k \in 1..m : ~In(g, packed[k])
  BY <1>4, <1>7 DEF Packing
<1>9. \A j : j \in 1..n <=> j \in 1..(n - 1) \/ j = n
  BY <1>6
\* Where each group is now.
<1>10. ASSUME NEW last \in Nat, DOMAIN put = 1..last,
              \A k \in 1..last : Fits(put[k]) /\ Batcher!IsInjective(put[k]),
              last \in 1..(m + 1),
              \A k \in 1..last, h \in Groups :
                  In(h, put[k]) <=> (k \in 1..m /\ In(h, packed[k])) \/ (k = last /\ h = g),
              m <= last
       PROVE  Packing(put, groups, n)
  <2>1. \A k \in 1..m : k \in 1..last
    BY <1>10
  <2>2. last \in 1..last
    BY <1>10
  <2>3. \A h \in Groups : (\E k \in 1..last : In(h, put[k])) <=> (\E k \in 1..m : In(h, packed[k])) \/ h = g
    BY <1>10, <2>1, <2>2
  <2>4. \A h \in Groups : (\E k \in 1..m : In(h, packed[k])) <=> (\E j \in 1..(n - 1) : groups[j] = h)
    BY <1>4 DEF Packing
  <2>5. \A h \in Groups : (\E k \in 1..last : In(h, put[k])) <=> (\E j \in 1..n : groups[j] = h)
    BY <1>1, <1>9, <2>3, <2>4
  <2>6. \A h \in Groups : \A k, l \in 1..m : In(h, packed[k]) /\ In(h, packed[l]) => k = l
    BY <1>4 DEF Packing
  <2>7. \A h \in Groups : \A k, l \in 1..last : In(h, put[k]) /\ In(h, put[l]) => k = l
    BY <1>8, <1>10, <2>6
  <2> QED  BY ONLY <1>3, <1>10, <2>5, <2>7 DEF Packing
<1>11. CASE put = Append(packed, <<g>>)
  <2>1. <<g>> \in Seq(Groups)
    BY LoneGroup
  <2>2. Len(put) = m + 1 /\ put[m + 1] = <<g>> /\ \A k \in 1..m : put[k] = packed[k]
    BY <1>3, <1>4, <1>11, <2>1, AppendProperties
  <2>3. DOMAIN put = 1..(m + 1)
    BY <1>3, <2>2, LenProperties
  <2>4. \A k \in 1..(m + 1) : k = m + 1 \/ k \in 1..m
    OBVIOUS
  <2>5. m + 1 \notin 1..m /\ m + 1 \in Nat /\ m + 1 \in 1..(m + 1) /\ m <= m + 1
    OBVIOUS
  <2>6. \A k \in 1..m : Fits(packed[k]) /\ Batcher!IsInjective(packed[k]) /\ k # m + 1
    BY <1>4, <2>5 DEF Packing
  <2>7. Fits(<<g>>) /\ Batcher!IsInjective(<<g>>)
    BY LoneGroup DEF Fits
  <2>8. \A k \in 1..(m + 1) : Fits(put[k]) /\ Batcher!IsInjective(put[k])
    BY <2>2, <2>4, <2>6, <2>7
  <2>9. \A k \in 1..(m + 1), h \in Groups :
            In(h, put[k]) <=> (k \in 1..m /\ In(h, packed[k])) \/ (k = m + 1 /\ h = g)
    <3>1. \A h \in Groups : In(h, put[m + 1]) <=> h = g
      BY <2>2, LoneGroup
    <3>2. \A k \in 1..m, h \in Groups : In(h, put[k]) <=> In(h, packed[k])
      BY <2>2
    <3> QED  BY ONLY <2>4, <2>5, <3>1, <3>2
  <2> QED  BY <1>10, <2>3, <2>5, <2>8, <2>9
<1>12. CASE /\ m # 0 /\ Batcher!CallCount(packed[m]) + SizeOf[g] <= MaxCalls
            /\ put = [packed EXCEPT ![m] = Append(packed[m], g)]
  <2>1. m \in 1..m /\ m \in 1..(m + 1) /\ m <= m
    BY <1>12
  <2>2. packed[m] \in Seq(Groups) /\ Append(packed[m], g) \in Seq(Groups)
    BY <1>5, <2>1, AppendProperties
  <2>3. DOMAIN put = 1..m /\ put[m] = Append(packed[m], g) /\ \A k \in 1..m : k # m => put[k] = packed[k]
    BY <1>4, <1>12, <2>1
  <2>4. \A k \in 1..m : Fits(packed[k]) /\ Batcher!IsInjective(packed[k])
    BY <1>4 DEF Packing
  <2>5. Fits(put[m]) /\ Batcher!IsInjective(put[m])
    BY <1>8, <1>12, <2>1, <2>2, <2>3, <2>4, AppendedFits, InjectiveAppended
  <2>6. \A k \in 1..m : Fits(put[k]) /\ Batcher!IsInjective(put[k])
    BY <2>3, <2>4, <2>5
  <2>7. \A h \in Groups : In(h, put[m]) <=> In(h, packed[m]) \/ h = g
    BY <2>2, <2>3, InAppended
  <2>8. \A k \in 1..m, h \in Groups :
            In(h, put[k]) <=> (k \in 1..m /\ In(h, packed[k])) \/ (k = m /\ h = g)
    BY <2>3, <2>7
  <2> QED  BY <1>10, <2>1, <2>3, <2>6, <2>8
<1> QED
  <2>1. \/ put = Append(packed, <<g>>)
        \/ /\ m # 0 /\ Batcher!CallCount(packed[m]) + SizeOf[g] <= MaxCalls
           /\ put = [packed EXCEPT ![m] = Append(packed[m], g)]
    BY <1>2, <1>3, <1>4, PutIs
  <2> QED  BY <1>11, <1>12, <2>1

LEMMA PacksAre ==
    ASSUME NEW groups \in Seq(Groups), Batcher!IsInjective(groups)
    PROVE  Packing(Batcher!PackGroups(groups), groups, Len(groups))
<1>1. PICK N \in Nat : N = Len(groups)
  BY LenProperties
<1> DEFINE Defines(f) == f = [i \in 0..N |-> IF i = 0 THEN <<>> ELSE Batcher!PutGroup(f[i - 1], groups[i])]
<1>2. Batcher!PackGroups(groups) = (CHOOSE f : Defines(f))[N]
  BY <1>1 DEF Batcher!PackGroups
<1>3. \E f : Defines(f)
  <2> DEFINE D == Seq(Seq(Groups))
             step == [x \in D \X (1..N) |-> Batcher!PutGroup(x[1], groups[x[2]])]
  <2>1. \A p \in D, i \in 1..N : Batcher!PutGroup(p, groups[i]) \in D
    BY <1>1, ElementOfSeq, PutTyped
  <2>2. step \in [D \X (1..N) -> D]
    BY <2>1
  <2>3. \A p \in D, i \in 1..N : step[<<p, i>>] = Batcher!PutGroup(p, groups[i])
    OBVIOUS
  <2>4. <<>> \in D
    BY EmptySeq
  <2> HIDE DEF step, D
  <2>5. PICK f : Steps(f, N, D, <<>>, step)
    BY ONLY <2>2, <2>4, N \in Nat, StepsExist
  <2>6. \A i \in 0..N : i = 0 \/ (i \in 1..N /\ i - 1 \in 0..N /\ i # 0)
    OBVIOUS
  <2>7. \A i \in 0..N : f[i] = (IF i = 0 THEN <<>> ELSE Batcher!PutGroup(f[i - 1], groups[i]))
    BY <2>3, <2>5, <2>6 DEF Steps
  <2>8. f = [i \in 0..N |-> f[i]]
    BY <2>5 DEF Steps
  <2>9. Defines(f)
    BY <2>7, <2>8
  <2> QED  BY <2>9
<1>4. PICK f : f = CHOOSE g : Defines(g)
  OBVIOUS
<1>5. Defines(f)
  BY <1>3, <1>4
<1>6. f[0] = <<>> /\ \A i \in 1..N : f[i] = Batcher!PutGroup(f[i - 1], groups[i])
  <2>1. 0 \in 0..N /\ \A i \in 1..N : i \in 0..N /\ i # 0
    OBVIOUS
  <2> QED  BY <1>5, <2>1
<1> HIDE DEF Defines
<1>7. Packing(f[0], groups, 0)
  <2>1. <<>> \in Seq(Seq(Groups)) /\ DOMAIN <<>> = {} /\ 1..0 = {}
    BY EmptySeq
  <2> QED  BY <1>6, <2>1 DEF Packing
<1> DEFINE Bad == {i \in 0..N : ~Packing(f[i], groups, i)}
<1>8. Bad = {}
  <2>1. SUFFICES ASSUME Bad # {} PROVE FALSE
    OBVIOUS
  <2>2. PICK i \in Bad : \A k \in Bad : i <= k
    <3>1. Bad \in SUBSET Nat
      OBVIOUS
    <3> QED  BY ONLY <2>1, <3>1, LeastNumber
  <2>3. i \in 0..N /\ i # 0
    BY <1>7
  <2>4. i - 1 \in 0..N /\ i \in 1..N /\ ~(i <= i - 1)
    BY <2>3
  <2>5. Packing(f[i - 1], groups, i - 1)
    BY <2>2, <2>4
  <2>6. Packing(Batcher!PutGroup(f[i - 1], groups[i]), groups, i)
    BY <1>1, <2>4, <2>5, PutPacks
  <2> QED  BY <1>6, <2>4, <2>6
<1>9. N \in 0..N
  OBVIOUS
<1> QED  BY <1>1, <1>2, <1>4, <1>8, <1>9

-----------------------------------------------------------------------------
(* Where the groups are.                                                   *)

OfOneBlock(request) == \A i, j \in DOMAIN request : BlockOf[request[i]] = BlockOf[request[j]]

BatcherInv ==
    /\ queues \in [Blocks -> Seq(Groups)] /\ shared \subseteq Seq(Groups)
    /\ group \in [Groups -> {"new", "queued", "shared", "alone", "chunks", "outage", "settled"}]
    /\ answer = [g \in Groups |-> answer[g]]
    /\ \A b \in Blocks : Batcher!IsInjective(queues[b])
    /\ \A b \in Blocks, g \in Groups : In(g, queues[b]) <=> group[g] = "queued" /\ BlockOf[g] = b
    /\ \A g \in Groups : group[g] = "shared" <=> \E request \in shared : In(g, request)
    /\ \A g \in Groups, request1, request2 \in shared : In(g, request1) /\ In(g, request2) => request1 = request2
    /\ \A request \in shared : Batcher!IsInjective(request) /\ Fits(request) /\ OfOneBlock(request)
    /\ \A g \in Groups : group[g] # "settled" => answer[g] = Batcher!NoAnswer

LEMMA BatcherStarts == Batcher!Init => BatcherInv
<1> SUFFICES ASSUME Batcher!Init PROVE BatcherInv
  OBVIOUS
<1>1. /\ queues = [b \in Blocks |-> <<>>] /\ shared = {} /\ group = [g \in Groups |-> "new"]
      /\ answer = [g \in Groups |-> Batcher!NoAnswer]
  BY DEF Batcher!Init
<1>2. <<>> \in Seq(Groups) /\ Batcher!IsInjective(<<>>) /\ \A g : ~In(g, <<>>)
  BY EmptySeq, InIs DEF Batcher!IsInjective
<1> QED  BY <1>1, <1>2 DEF BatcherInv

\* Groups go on from where they are, none of them from a queue; a request that is over is all theirs.
LEMMA GoOn ==
    ASSUME BatcherInv, NEW going \in SUBSET Groups, NEW to \in {"alone", "chunks", "outage", "settled"},
           UNCHANGED queues, shared' \subseteq shared,
           group' = [g \in Groups |-> IF g \in going THEN to ELSE group[g]],
           \A g \in going : group[g] # "queued",
           \A g \in Groups, request \in shared : In(g, request) => (g \in going <=> request \notin shared'),
           answer' = [g \in Groups |-> answer'[g]],
           \A g \in Groups : g \notin going \/ to # "settled" => answer'[g] = answer[g],
           \A g \in going : to # "settled" => group[g] # "settled"
    PROVE  BatcherInv'
<1>1. /\ queues' \in [Blocks -> Seq(Groups)] /\ shared' \subseteq Seq(Groups)
      /\ group' \in [Groups -> {"new", "queued", "shared", "alone", "chunks", "outage", "settled"}]
  BY DEF BatcherInv
<1>2. \A b \in Blocks : Batcher!IsInjective(queues'[b])
  BY DEF BatcherInv
<1>3. \A g \in Groups : group'[g] = (IF g \in going THEN to ELSE group[g])
  OBVIOUS
<1>4. \A b \in Blocks, g \in Groups : In(g, queues'[b]) <=> group'[g] = "queued" /\ BlockOf[g] = b
  BY <1>3 DEF BatcherInv
<1>5. \A g \in Groups : group'[g] = "shared" <=> \E request \in shared' : In(g, request)
  <2>1. SUFFICES ASSUME NEW g \in Groups PROVE group'[g] = "shared" <=> \E request \in shared' : In(g, request)
    OBVIOUS
  <2>2. group[g] = "shared" <=> \E request \in shared : In(g, request)
    BY DEF BatcherInv
  <2>3. CASE g \in going
    BY <1>3, <2>1, <2>3
  <2>4. CASE g \notin going
    BY <1>3, <2>1, <2>2, <2>4
  <2> QED  BY <2>3, <2>4
<1>6. /\ \A g \in Groups, request1, request2 \in shared' : In(g, request1) /\ In(g, request2) => request1 = request2
      /\ \A request \in shared' : Batcher!IsInjective(request) /\ Fits(request) /\ OfOneBlock(request)
  BY DEF BatcherInv
<1>7. \A g \in Groups : group'[g] # "settled" => answer'[g] = Batcher!NoAnswer
  BY <1>3 DEF BatcherInv
<1> QED  BY <1>1, <1>2, <1>4, <1>5, <1>6, <1>7 DEF BatcherInv

LEMMA AskTrue == ASSUME BatcherInv, NEW g \in Groups, Batcher!Ask(g)  PROVE BatcherInv'
<1>1. group[g] = "new" /\ UNCHANGED answer
  BY DEF Batcher!Ask
<1>2. \A b \in Blocks : queues[b] \in Seq(Groups) /\ ~In(g, queues[b])
  BY <1>1 DEF BatcherInv
<1>3. \A request \in shared : ~In(g, request)
  BY <1>1 DEF BatcherInv
<1>4. CASE /\ queues' = [queues EXCEPT ![BlockOf[g]] = Append(queues[BlockOf[g]], g)]
           /\ group' = [group EXCEPT ![g] = "queued"] /\ UNCHANGED shared
  <2>1. PICK b \in Blocks : b = BlockOf[g]
    BY BatcherConstants
  <2>2. PICK queue \in Seq(Groups) : queue = Append(queues[b], g)
    BY <1>2, AppendProperties
  <2>3. queues' = [queues EXCEPT ![b] = queue]
    BY <1>4, <2>1, <2>2
  <2>4. queues' \in [Blocks -> Seq(Groups)] /\ queues'[b] = queue /\ \A c \in Blocks : c # b => queues'[c] = queues[c]
    BY <2>3 DEF BatcherInv
  <2>5. group' \in [Groups -> {"new", "queued", "shared", "alone", "chunks", "outage", "settled"}]
    BY <1>4 DEF BatcherInv
  <2>6. group'[g] = "queued" /\ \A h \in Groups : h # g => group'[h] = group[h]
    BY <1>4 DEF BatcherInv
  <2>7. Batcher!IsInjective(queue) /\ \A h : In(h, queue) <=> In(h, queues[b]) \/ h = g
    <3>1. Batcher!IsInjective(queues[b])
      BY DEF BatcherInv
    <3> QED  BY <1>2, <2>2, <3>1, InAppended, InjectiveAppended
  <2>8. \A c \in Blocks : Batcher!IsInjective(queues'[c])
    BY <2>4, <2>7 DEF BatcherInv
  <2>9. \A c \in Blocks, h \in Groups : In(h, queues'[c]) <=> group'[h] = "queued" /\ BlockOf[h] = c
    <3>1. SUFFICES ASSUME NEW c \in Blocks, NEW h \in Groups
                   PROVE  In(h, queues'[c]) <=> group'[h] = "queued" /\ BlockOf[h] = c
      OBVIOUS
    <3>2. In(h, queues[c]) <=> group[h] = "queued" /\ BlockOf[h] = c
      BY DEF BatcherInv
    <3>3. CASE c = b
      BY <2>1, <2>4, <2>6, <2>7, <3>2, <3>3, <1>2
    <3>4. CASE c # b
      BY <1>2, <2>1, <2>4, <2>6, <3>2, <3>4
    <3> QED  BY <3>3, <3>4
  <2>10. \A h \in Groups : group'[h] = "shared" <=> \E request \in shared' : In(h, request)
    BY <1>3, <1>4, <2>6 DEF BatcherInv
  <2>11. \A h \in Groups : group'[h] # "settled" => answer'[h] = Batcher!NoAnswer
    BY <1>1, <2>6 DEF BatcherInv
  <2> QED  BY <1>1, <1>4, <2>4, <2>5, <2>8, <2>9, <2>10, <2>11 DEF BatcherInv
<1>5. CASE shared' = shared \cup {<<g>>} /\ group' = [group EXCEPT ![g] = "shared"] /\ UNCHANGED queues
  <2>1. <<g>> \in Seq(Groups) /\ Batcher!IsInjective(<<g>>) /\ Fits(<<g>>) /\ OfOneBlock(<<g>>)
    BY LoneGroup DEF Fits, OfOneBlock
  <2>2. \A h : In(h, <<g>>) <=> h = g
    BY LoneGroup
  <2>3. group' \in [Groups -> {"new", "queued", "shared", "alone", "chunks", "outage", "settled"}]
    BY <1>5 DEF BatcherInv
  <2>4. group'[g] = "shared" /\ \A h \in Groups : h # g => group'[h] = group[h]
    BY <1>5 DEF BatcherInv
  <2>5. shared' \subseteq Seq(Groups) /\ \A request \in shared' : request \in shared \/ request = <<g>>
    BY <1>5, <2>1 DEF BatcherInv
  <2>6. \A b \in Blocks, h \in Groups : In(h, queues'[b]) <=> group'[h] = "queued" /\ BlockOf[h] = b
    BY <1>2, <1>5, <2>4 DEF BatcherInv
  <2>7. \A h \in Groups : group'[h] = "shared" <=> \E request \in shared' : In(h, request)
    <3>1. SUFFICES ASSUME NEW h \in Groups PROVE group'[h] = "shared" <=> \E request \in shared' : In(h, request)
      OBVIOUS
    <3>2. CASE h = g
      BY <1>5, <2>2, <2>4, <3>2
    <3>3. CASE h # g
      <4>1. group[h] = "shared" <=> \E request \in shared : In(h, request)
        BY DEF BatcherInv
      <4>2. (\E request \in shared' : In(h, request)) <=> \E request \in shared : In(h, request)
        BY <1>5, <2>2, <2>5, <3>3
      <4> QED  BY <2>4, <3>3, <4>1, <4>2
    <3> QED  BY <3>2, <3>3
  <2>8. \A h \in Groups, request1, request2 \in shared' : In(h, request1) /\ In(h, request2) => request1 = request2
    <3>1. \A h \in Groups, request1, request2 \in shared : In(h, request1) /\ In(h, request2) => request1 = request2
      BY DEF BatcherInv
    <3> QED  BY ONLY <1>3, <2>2, <2>5, <3>1, g \in Groups
  <2>9. \A request \in shared' : Batcher!IsInjective(request) /\ Fits(request) /\ OfOneBlock(request)
    BY <2>1, <2>5 DEF BatcherInv
  <2>10. \A h \in Groups : group'[h] # "settled" => answer'[h] = Batcher!NoAnswer
    BY <1>1, <2>4 DEF BatcherInv
  <2> QED  BY <1>1, <1>5, <2>3, <2>5, <2>6, <2>7, <2>8, <2>9, <2>10 DEF BatcherInv
<1> QED  BY <1>4, <1>5 DEF Batcher!Ask

LEMMA FlushTrue == ASSUME BatcherInv, NEW b \in Blocks, Batcher!Flush(b)  PROVE BatcherInv'
<1>1. PICK queue \in Seq(Groups) : queue = queues[b]
  BY DEF BatcherInv
<1>2. PICK packed : packed = Batcher!PackGroups(queue)
  OBVIOUS
<1>3. /\ shared' = shared \cup Batcher!Range(packed)
      /\ group' = [g \in Groups |-> IF g \in Batcher!Range(queue) THEN "shared" ELSE group[g]]
      /\ queues' = [queues EXCEPT ![b] = <<>>] /\ UNCHANGED answer
  BY <1>1, <1>2 DEF Batcher!Flush
<1>4. Batcher!IsInjective(queue) /\ \A g \in Groups : In(g, queue) <=> group[g] = "queued" /\ BlockOf[g] = b
  BY <1>1 DEF BatcherInv
<1>5. Packing(packed, queue, Len(queue))
  BY <1>2, <1>4, PacksAre
<1>6. PICK n \in Nat : n = Len(queue) /\ DOMAIN queue = 1..n
  BY LenProperties
<1>7. packed \in Seq(Seq(Groups)) /\ \A k \in DOMAIN packed : packed[k] \in Seq(Groups)
  BY <1>5, LenProperties, ElementOfSeq DEF Packing
<1>8. \A request : request \in Batcher!Range(packed) <=> \E k \in DOMAIN packed : packed[k] = request
  BY DEF Batcher!Range
<1>9. \A g \in Groups : (\E request \in Batcher!Range(packed) : In(g, request)) <=> In(g, queue)
  <2>1. \A g \in Groups : (\E k \in DOMAIN packed : In(g, packed[k])) <=> (\E j \in 1..n : queue[j] = g)
    BY <1>5, <1>6 DEF Packing
  <2>2. \A g \in Groups : In(g, queue) <=> \E j \in 1..n : queue[j] = g
    BY <1>6, InIs
  <2> QED  BY <1>8, <2>1, <2>2
<1>10. \A g \in Groups, request1, request2 \in Batcher!Range(packed) :
          In(g, request1) /\ In(g, request2) => request1 = request2
  <2>1. \A g \in Groups : \A k, l \in DOMAIN packed : In(g, packed[k]) /\ In(g, packed[l]) => k = l
    BY <1>5 DEF Packing
  <2> QED  BY <1>8, <2>1
<1>11. \A request \in Batcher!Range(packed) :
          request \in Seq(Groups) /\ Batcher!IsInjective(request) /\ Fits(request) /\ OfOneBlock(request)
  <2>1. SUFFICES ASSUME NEW k \in DOMAIN packed
                 PROVE  packed[k] \in Seq(Groups) /\ Batcher!IsInjective(packed[k]) /\ Fits(packed[k]) /\ OfOneBlock(packed[k])
    BY <1>8
  <2>2. \A i \in DOMAIN packed[k] : packed[k][i] \in Groups /\ In(packed[k][i], packed[k])
    BY <1>7, LenProperties, ElementOfSeq, InIs
  <2>3. packed[k] \in Batcher!Range(packed)
    BY <1>8
  <2>4. \A i \in DOMAIN packed[k] : BlockOf[packed[k][i]] = b
    BY <1>4, <1>9, <2>2, <2>3
  <2> QED  BY <1>5, <1>7, <2>4 DEF Packing, OfOneBlock
<1>12. \A g \in Groups : group'[g] = (IF In(g, queue) THEN "shared" ELSE group[g])
  BY <1>3 DEF In
<1>13. group' \in [Groups -> {"new", "queued", "shared", "alone", "chunks", "outage", "settled"}]
  BY <1>3 DEF BatcherInv
<1>14. /\ queues' \in [Blocks -> Seq(Groups)] /\ queues'[b] = <<>>
       /\ \A c \in Blocks : c # b => queues'[c] = queues[c]
  BY <1>3, EmptySeq DEF BatcherInv
<1>15. \A c \in Blocks : Batcher!IsInjective(queues'[c])
  <2>1. Batcher!IsInjective(<<>>)
    BY DEF Batcher!IsInjective
  <2> QED  BY <1>14, <2>1 DEF BatcherInv
<1>16. \A c \in Blocks, g \in Groups : In(g, queues'[c]) <=> group'[g] = "queued" /\ BlockOf[g] = c
  <2>1. \A g : ~In(g, <<>>)
    BY InIs
  <2>2. SUFFICES ASSUME NEW c \in Blocks, NEW g \in Groups
                 PROVE  In(g, queues'[c]) <=> group'[g] = "queued" /\ BlockOf[g] = c
    OBVIOUS
  <2>3. In(g, queues[c]) <=> group[g] = "queued" /\ BlockOf[g] = c
    BY DEF BatcherInv
  <2>4. CASE c = b
    BY <1>4, <1>12, <1>14, <2>1, <2>4
  <2>5. CASE c # b
    BY <1>4, <1>12, <1>14, <2>3, <2>5
  <2> QED  BY <2>4, <2>5
<1>17. \A g \in Groups : group'[g] = "shared" <=> \E request \in shared' : In(g, request)
  <2>1. SUFFICES ASSUME NEW g \in Groups PROVE group'[g] = "shared" <=> \E request \in shared' : In(g, request)
    OBVIOUS
  <2>2. group[g] = "shared" <=> \E request \in shared : In(g, request)
    BY DEF BatcherInv
  <2>3. (\E request \in shared' : In(g, request)) <=> (\E request \in shared : In(g, request)) \/ In(g, queue)
    BY <1>3, <1>9
  <2> QED  BY <1>12, <2>2, <2>3
<1>18. shared' \subseteq Seq(Groups)
  BY <1>3, <1>11 DEF BatcherInv
<1>19. \A g \in Groups, request1, request2 \in shared' : In(g, request1) /\ In(g, request2) => request1 = request2
  <2>1. \A g \in Groups, request \in shared : In(g, request) => ~In(g, queue)
    BY <1>4 DEF BatcherInv
  <2>2. \A g \in Groups, request \in Batcher!Range(packed) : In(g, request) => In(g, queue)
    BY <1>9
  <2>3. \A g \in Groups, request1, request2 \in shared : In(g, request1) /\ In(g, request2) => request1 = request2
    BY DEF BatcherInv
  <2> QED  BY <1>3, <1>10, <2>1, <2>2, <2>3
<1>20. \A request \in shared' : Batcher!IsInjective(request) /\ Fits(request) /\ OfOneBlock(request)
  BY <1>3, <1>11 DEF BatcherInv
<1>21. \A g \in Groups : group'[g] # "settled" => answer'[g] = Batcher!NoAnswer
  <2>1. \A g \in Groups : group'[g] # "settled" => group[g] # "settled"
    BY <1>4, <1>12
  <2> QED  BY <1>3, <2>1 DEF BatcherInv
<1>22. answer' = [g \in Groups |-> answer'[g]]
  BY <1>3 DEF BatcherInv
<1> QED  BY <1>13, <1>14, <1>15, <1>16, <1>17, <1>18, <1>19, <1>20, <1>21, <1>22 DEF BatcherInv

Asked == {g \in Groups : group[g] # "new"}

\* The step of what the batcher promises.
Promise == Batcher!Answers!Next \/ UNCHANGED <<Asked, answer>>

LEMMA AskedStays ==
    ASSUME BatcherInv, NEW going \in SUBSET Groups, NEW to, to # "new",
           group' = [g \in Groups |-> IF g \in going THEN to ELSE group[g]],
           \A g \in going : group[g] # "new"
    PROVE  Asked' = Asked
BY DEF BatcherInv, Asked

\* Groups that are answered with their own results are given them.
LEMMA Giving ==
    ASSUME BatcherInv, NEW groups \in Seq(Groups), \A g \in Groups : In(g, groups) => group[g] \notin {"new", "settled"},
           Batcher!Resolve(groups, Batcher!CallsOf(groups))
    PROVE  /\ Promise
           /\ group' = [g \in Groups |-> IF g \in {h \in Groups : In(h, groups)} THEN "settled" ELSE group[g]]
           /\ answer' = [g \in Groups |-> answer'[g]]
           /\ \A g \in Groups : ~In(g, groups) => answer'[g] = answer[g]
<1> DEFINE S == {h \in Groups : In(h, groups)}
<1>1. group' = [g \in Groups |-> IF g \in S THEN "settled" ELSE group[g]]
  BY DEF Batcher!Resolve, In
<1>2. answer' = [g \in Groups |-> IF g \in S THEN Batcher!Own(g) ELSE answer[g]]
  <2>1. ASSUME NEW g \in Groups, In(g, groups)
        PROVE  Batcher!Slice(groups, Batcher!CallsOf(groups), CHOOSE i \in DOMAIN groups : groups[i] = g) = Batcher!Own(g)
    <3>1. PICK n : n = CHOOSE i \in DOMAIN groups : groups[i] = g
      OBVIOUS
    <3>2. n \in DOMAIN groups /\ groups[n] = g
      BY <2>1, <3>1, InIs
    <3>3. Batcher!Slice(groups, Batcher!CallsOf(groups), n) = Batcher!Own(groups[n])
      BY <3>2, OwnSlice
    <3> QED  BY <3>1, <3>2, <3>3
  <2>2. answer' = [g \in Groups |->
                      IF In(g, groups)
                      THEN Batcher!Slice(groups, Batcher!CallsOf(groups), CHOOSE i \in DOMAIN groups : groups[i] = g)
                      ELSE answer[g]]
    BY DEF Batcher!Resolve, In
  <2>3. \A g \in Groups : answer'[g] = IF g \in S THEN Batcher!Own(g) ELSE answer[g]
    BY <2>1, <2>2
  <2>4. answer' = [g \in Groups |-> answer'[g]]
    BY <2>2
  <2> QED  BY <2>3, <2>4
<1>3. S \in SUBSET Groups /\ S \subseteq Asked /\ \A g \in S : answer[g] = Batcher!NoAnswer
  BY DEF BatcherInv, Asked
<1>4. Asked' = Asked
  <2>1. \A g \in S : group[g] # "new"
    OBVIOUS
  <2> QED  BY <1>1, <1>3, <2>1, AskedStays
<1>5. Batcher!Answers!Give(S)
  BY <1>2, <1>3, <1>4 DEF Batcher!Answers!Give, Asked
<1>6. Promise
  BY <1>3, <1>5 DEF Promise, Batcher!Answers!Next
<1> QED  BY <1>1, <1>2, <1>6

LEMMA AskPromised == ASSUME BatcherInv, NEW g \in Groups, Batcher!Ask(g)  PROVE Promise
<1>1. group[g] = "new" /\ UNCHANGED answer /\ \E to \in {"queued", "shared"} : group' = [group EXCEPT ![g] = to]
  BY DEF Batcher!Ask
<1>2. Asked' = Asked \cup {g} /\ g \notin Asked
  BY <1>1 DEF BatcherInv, Asked
<1>3. Batcher!Answers!Ask(g)
  BY <1>1, <1>2 DEF Batcher!Answers!Ask, Asked
<1> QED  BY <1>3 DEF Promise, Batcher!Answers!Next

LEMMA FlushPromised == ASSUME BatcherInv, NEW b \in Blocks, Batcher!Flush(b)  PROVE Promise
<1>1. \A g \in Groups : In(g, queues[b]) => group[g] = "queued"
  BY DEF BatcherInv
<1>2. UNCHANGED answer /\ group' = [g \in Groups |-> IF g \in {h \in Groups : In(h, queues[b])} THEN "shared" ELSE group[g]]
  BY DEF Batcher!Flush, In
<1>3. Asked' = Asked
  <2>1. \A g \in {h \in Groups : In(h, queues[b])} : group[g] # "new"
    BY <1>1
  <2> QED  BY <1>2, <2>1, AskedStays
<1> QED  BY <1>2, <1>3 DEF Promise

\* The groups of a request read in one call: what does not fail as a whole is theirs.
LEMMA ReadInOne ==
    ASSUME NEW groups \in Seq(Groups), NEW size \in Nat, 1 <= size, Batcher!CallCount(groups) <= size,
           NEW results \in Batcher!Multicall(groups, size), ~Batcher!IsWholeRequestFailure(results)
    PROVE  results = Batcher!CallsOf(groups)
BY MulticallGives, WholeOrOwn, CallsAre

LEMMA Unsplits ==
    ASSUME NEW groups \in Seq(Groups)
    PROVE  \E size \in Nat : /\ 1 <= size /\ Batcher!CallCount(groups) <= size
                             /\ Batcher!Unsplit(groups) = Batcher!Multicall(groups, size)
<1>1. Batcher!CallCount(groups) \in Nat
  BY CallsAre
<1> QED  BY <1>1 DEF Batcher!Unsplit

LEMMA SettleSharedTrue ==
    ASSUME BatcherInv, NEW groups \in shared, Batcher!SettleShared(groups)
    PROVE  BatcherInv' /\ Promise
<1> DEFINE going == {h \in Groups : In(h, groups)}
<1>1. groups \in Seq(Groups) /\ shared' = shared \ {groups} /\ UNCHANGED queues /\ shared' \subseteq shared
  BY DEF BatcherInv, Batcher!SettleShared
<1>2. \A g \in going : group[g] = "shared"
  BY DEF BatcherInv
<1>3. \A g \in Groups, request \in shared : In(g, request) => (g \in going <=> request \notin shared')
  BY <1>1 DEF BatcherInv
<1>4. PICK results \in Batcher!Unsplit(groups) :
          IF Batcher!IsWholeRequestFailure(results)
          THEN /\ group' = [g \in Groups |-> IF g \in Batcher!Range(groups) THEN "alone" ELSE group[g]]
               /\ UNCHANGED answer
          ELSE Batcher!Resolve(groups, results)
  BY DEF Batcher!SettleShared
<1>5. CASE Batcher!IsWholeRequestFailure(results)
  <2>1. group' = [g \in Groups |-> IF g \in going THEN "alone" ELSE group[g]] /\ UNCHANGED answer
    BY <1>4, <1>5 DEF In
  <2>2. BatcherInv'
    <3>1. answer' = [g \in Groups |-> answer'[g]]
      BY <2>1 DEF BatcherInv
    <3> QED  BY <1>1, <1>2, <1>3, <2>1, <3>1, GoOn
  <2>3. Asked' = Asked
    BY <1>2, <2>1, AskedStays
  <2> QED  BY <2>1, <2>2, <2>3 DEF Promise
<1>6. CASE ~Batcher!IsWholeRequestFailure(results)
  <2>1. results = Batcher!CallsOf(groups)
    BY <1>1, <1>6, Unsplits, ReadInOne
  <2>2. Batcher!Resolve(groups, Batcher!CallsOf(groups))
    BY <1>4, <1>6, <2>1
  <2>3. \A g \in Groups : In(g, groups) => group[g] \notin {"new", "settled"}
    BY <1>2
  <2>4. /\ Promise
        /\ group' = [g \in Groups |-> IF g \in going THEN "settled" ELSE group[g]]
        /\ answer' = [g \in Groups |-> answer'[g]]
        /\ \A g \in Groups : ~In(g, groups) => answer'[g] = answer[g]
    BY <1>1, <2>2, <2>3, Giving
  <2>5. BatcherInv'
    BY <1>1, <1>2, <1>3, <2>4, GoOn
  <2> QED  BY <2>4, <2>5
<1> QED  BY <1>5, <1>6

\* A group on its own goes on in one of these ways.
LEMMA LoneGoesOn ==
    ASSUME BatcherInv, NEW g \in Groups, group[g] \in {"alone", "chunks", "outage"}, UNCHANGED <<queues, shared>>,
           \/ Batcher!Resolve(<<g>>, Batcher!CallsOf(<<g>>))
           \/ (\E to \in {"alone", "chunks", "outage"} : group' = [group EXCEPT ![g] = to]) /\ UNCHANGED answer
           \/ /\ rpc = "limits" \/ (SizeOf[g] > NodeCap /\ SizeOf[g] <= Batcher!ChunkOf(g))
              /\ group' = [group EXCEPT ![g] = "settled"] /\ answer' = [answer EXCEPT ![g] = Batcher!Rejected]
    PROVE  BatcherInv' /\ Promise
<1>1. /\ {g} \in SUBSET Groups /\ shared' \subseteq shared /\ UNCHANGED queues /\ UNCHANGED shared
      /\ \A h \in {g} : group[h] \notin {"new", "queued", "settled"}
  OBVIOUS
<1>2. \A h \in Groups, request \in shared : In(h, request) => (h \in {g} <=> request \notin shared')
  BY <1>1 DEF BatcherInv
<1>3. \A to : [group EXCEPT ![g] = to] = [h \in Groups |-> IF h \in {g} THEN to ELSE group[h]]
  BY DEF BatcherInv
<1>4. CASE Batcher!Resolve(<<g>>, Batcher!CallsOf(<<g>>))
  <2>1. <<g>> \in Seq(Groups) /\ {h \in Groups : In(h, <<g>>)} = {g}
        /\ \A h \in Groups : In(h, <<g>>) => group[h] \notin {"new", "settled"}
    BY LoneGroup
  <2>2. /\ Promise
        /\ group' = [h \in Groups |-> IF h \in {k \in Groups : In(k, <<g>>)} THEN "settled" ELSE group[h]]
        /\ answer' = [h \in Groups |-> answer'[h]]
        /\ \A h \in Groups : ~In(h, <<g>>) => answer'[h] = answer[h]
    BY <1>4, <2>1, Giving
  <2>3. \A h \in Groups : h \notin {g} => answer'[h] = answer[h]
    BY <2>1, <2>2
  <2>4. group' = [h \in Groups |-> IF h \in {g} THEN "settled" ELSE group[h]]
    BY <2>1, <2>2
  <2>5. BatcherInv'
    BY <1>1, <1>2, <2>2, <2>3, <2>4, GoOn
  <2> QED  BY <2>2, <2>5
<1>5. ASSUME NEW to \in {"alone", "chunks", "outage"}, group' = [group EXCEPT ![g] = to], UNCHANGED answer
      PROVE  BatcherInv' /\ Promise
  <2>1. group' = [h \in Groups |-> IF h \in {g} THEN to ELSE group[h]]
    BY <1>3, <1>5
  <2>2. answer' = [h \in Groups |-> answer'[h]]
    BY <1>5 DEF BatcherInv
  <2>3. /\ \A h \in {g} : group[h] # "queued" /\ group[h] # "settled"
        /\ \A h \in Groups : answer'[h] = answer[h]
    BY <1>1, <1>5
  <2>5. BatcherInv'
    BY <1>1, <1>2, <2>1, <2>2, <2>3, GoOn
  <2>4. Asked' = Asked
    BY <1>1, <2>1, AskedStays
  <2> QED  BY <1>5, <2>4, <2>5 DEF Promise
<1>6. CASE /\ rpc = "limits" \/ (SizeOf[g] > NodeCap /\ SizeOf[g] <= Batcher!ChunkOf(g))
           /\ group' = [group EXCEPT ![g] = "settled"] /\ answer' = [answer EXCEPT ![g] = Batcher!Rejected]
  <2>1. group' = [h \in Groups |-> IF h \in {g} THEN "settled" ELSE group[h]]
    BY <1>3, <1>6
  <2>2. answer' = [h \in Groups |-> IF h = g THEN Batcher!Rejected ELSE answer[h]]
    BY <1>6 DEF BatcherInv
  <2>3. answer' = [h \in Groups |-> answer'[h]] /\ \A h \in Groups : h \notin {g} => answer'[h] = answer[h]
    BY <2>2
  <2>4. BatcherInv'
    BY <1>1, <1>2, <2>1, <2>3, GoOn
  <2>5. Asked' = Asked
    BY <1>1, <2>1, AskedStays
  <2>6. g \in Asked /\ answer[g] = Batcher!NoAnswer
    BY <1>1 DEF BatcherInv, Asked
  <2>7. Batcher!Answers!Reject(g)
    BY <1>6, <2>5, <2>6 DEF Batcher!Answers!Reject, Asked
  <2>8. Promise
    BY <2>7 DEF Promise, Batcher!Answers!Next
  <2> QED  BY <2>4, <2>8
<1> QED  BY <1>4, <1>5, <1>6

LEMMA SettleAloneTrue ==
    ASSUME BatcherInv, NEW g \in Groups, Batcher!SettleAlone(g)
    PROVE  BatcherInv' /\ Promise
<1>1. group[g] \in {"alone", "chunks", "outage"} /\ UNCHANGED <<queues, shared>>
  BY DEF Batcher!SettleAlone
<1>2. PICK results \in Batcher!Unsplit(<<g>>) :
          IF Batcher!IsWholeRequestFailure(results)
          THEN group' = [group EXCEPT ![g] = "chunks"] /\ UNCHANGED answer
          ELSE Batcher!Resolve(<<g>>, results)
  BY DEF Batcher!SettleAlone
<1>3. ~Batcher!IsWholeRequestFailure(results) => results = Batcher!CallsOf(<<g>>)
  <2>1. <<g>> \in Seq(Groups)
    BY LoneGroup
  <2>2. PICK size \in Nat : /\ 1 <= size /\ Batcher!CallCount(<<g>>) <= size
                            /\ Batcher!Unsplit(<<g>>) = Batcher!Multicall(<<g>>, size)
    BY <2>1, Unsplits
  <2> QED  BY <2>1, <2>2, ReadInOne
<1> QED  BY <1>1, <1>2, <1>3, LoneGoesOn

LEMMA SettleChunksTrue ==
    ASSUME BatcherInv, NEW g \in Groups, SizeOf[g] <= Batcher!ChunkOf(g), Batcher!SettleChunks(g)
    PROVE  BatcherInv' /\ Promise
<1>1. group[g] \in {"alone", "chunks", "outage"} /\ UNCHANGED <<queues, shared>>
  BY DEF Batcher!SettleChunks
<1>2. PICK results \in Batcher!Multicall(<<g>>, Batcher!ChunkOf(g)) :
          IF ~Batcher!IsWholeRequestFailure(results)
          THEN Batcher!Resolve(<<g>>, results)
          ELSE IF results[1].error = "outage"
          THEN group' = [group EXCEPT ![g] = "outage"] /\ UNCHANGED answer
          ELSE /\ group' = [group EXCEPT ![g] = "settled"]
               /\ answer' = [answer EXCEPT ![g] = Batcher!Rejected]
  BY DEF Batcher!SettleChunks
<1>3. Batcher!CallsOf(<<g>>) = Batcher!Own(g) /\ Batcher!CallCount(<<g>>) = SizeOf[g]
  BY LoneCalls, OwnIs DEF Batcher!CallCount
<1>4. Batcher!ChunkOf(g) \in Nat /\ 1 <= Batcher!ChunkOf(g) /\ <<g>> \in Seq(Groups)
  BY BatcherConstants, LoneGroup
<1>5. ~Batcher!IsWholeRequestFailure(results) => results = Batcher!CallsOf(<<g>>)
  BY <1>3, <1>4, ReadInOne
<1>6. Batcher!IsWholeRequestFailure(results) => results[1].error = "outage" \/ rpc = "limits" \/ SizeOf[g] > NodeCap
  <2>1. Given(results, Batcher!Own(g))
    BY <1>3, <1>4, MulticallGives
  <2> QED  BY <2>1, LoneFails
<1> QED  BY <1>1, <1>2, <1>5, <1>6, LoneGoesOn

LEMMA BatcherSteps ==
    ASSUME \A g \in Groups : SizeOf[g] <= Batcher!ChunkOf(g)
    PROVE  BatcherInv /\ [Batcher!Next]_(Batcher!vars) => BatcherInv' /\ Promise
<1> SUFFICES ASSUME BatcherInv, [Batcher!Next]_(Batcher!vars) PROVE BatcherInv' /\ Promise
  OBVIOUS
<1>1. ASSUME NEW b \in Blocks, Batcher!Flush(b) PROVE BatcherInv' /\ Promise
  BY <1>1, FlushTrue, FlushPromised
<1>2. ASSUME NEW groups \in shared, Batcher!SettleShared(groups) PROVE BatcherInv' /\ Promise
  BY <1>2, SettleSharedTrue
<1>3. ASSUME NEW g \in Groups, Batcher!SettleAlone(g) PROVE BatcherInv' /\ Promise
  BY <1>3, SettleAloneTrue
<1>4. ASSUME NEW g \in Groups, Batcher!SettleChunks(g) PROVE BatcherInv' /\ Promise
  BY <1>4, SettleChunksTrue
<1>5. ASSUME NEW g \in Groups, Batcher!Retry(g) PROVE BatcherInv' /\ Promise
  BY <1>5, LoneGoesOn DEF Batcher!Retry
<1>6. ASSUME NEW g \in Groups, Batcher!Ask(g) PROVE BatcherInv' /\ Promise
  BY <1>6, AskTrue, AskPromised
<1>7. CASE Batcher!Turn \/ UNCHANGED Batcher!vars
  <2>1. UNCHANGED <<queues, shared, group, answer>>
    BY <1>7 DEF Batcher!Turn, Batcher!vars
  <2> QED  BY <2>1 DEF BatcherInv, Promise, Asked
<1> QED  BY <1>1, <1>2, <1>3, <1>4, <1>5, <1>6, <1>7 DEF Batcher!Next, Batcher!Batcher

LEMMA PlacesPacked == BatcherInv => Batcher!InOnePlace /\ Batcher!Packed
<1> SUFFICES ASSUME BatcherInv PROVE Batcher!InOnePlace /\ Batcher!Packed
  OBVIOUS
<1>1. \A g \in Groups :
         /\ (group[g] = "queued") <=> In(g, queues[BlockOf[g]])
         /\ (group[g] = "shared") <=> (\E groups \in shared : In(g, groups))
         /\ \A groups1, groups2 \in shared : In(g, groups1) /\ In(g, groups2) => groups1 = groups2
         /\ \A groups \in shared : Batcher!IsInjective(groups)
  BY BatcherConstants DEF BatcherInv
<1>2. Batcher!InOnePlace
  BY <1>1, InIs DEF Batcher!InOnePlace, In
<1>3. Batcher!Packed
  BY DEF BatcherInv, Batcher!Packed, Fits, OfOneBlock
<1> QED  BY <1>2, <1>3

-----------------------------------------------------------------------------
(* All of them, each in the behaviours where it is the part that runs.     *)

IndexerInv == PacerInv /\ HeadsInv /\ WorkerInv

LEMMA IndexerStarts == Init => IndexerInv
  BY PacerStarts, HeadsStart, WorkerStarts DEF Init, IndexerInv

LEMMA IndexerSteps == IndexerInv /\ [Next]_all => IndexerInv'
<1> SUFFICES ASSUME IndexerInv, [Next]_all  PROVE IndexerInv'
  OBVIOUS
<1>1. [Pacer!Next]_(Pacer!vars)
  BY DEF Next, PacerOn, BatcherOn, HeadsOn, WorkerOn, all, pacer, Pacer!vars, Pacer!locals
<1>2. [Heads!Next]_(Heads!vars)
  BY DEF Next, PacerOn, BatcherOn, HeadsOn, WorkerOn, all, heads, Heads!vars, Heads!api, Heads!cache
<1>3. [Process!Next]_(Process!vars)
  BY DEF Next, PacerOn, BatcherOn, HeadsOn, WorkerOn, all, worker,
         Process!vars, Process!scheduler, Process!version
<1> QED  BY <1>1, <1>2, <1>3, PacerSteps, HeadsSteps, WorkerSteps DEF IndexerInv

\* For any upstreams, ranges, blocks and requests, whatever an upstream refuses a range for,
\* whoever leaves and whatever fails or is paused: the proxy gives a client the refusal of a range
\* only when an upstream refuses that very range and each other one does or has refused a range no
\* wider; each upstream's counter is the requests that hold a place and stays within the cap, and
\* a request waits only while every upstream it may use is at its cap.
THEOREM RefusalsAndPlaces == Spec => []RefusedByAll
<1>1. PacerInv => RefusedByAll
  <2> SUFFICES ASSUME PacerInv  PROVE Pacer!RefusedByAll
    BY DEF PacerInv, RefusedByAll
  <2> QED
    BY DEF PacerInv, Truthful, Learnt, RefusalsTrue, RefusedBySome, Grounds, Pacer!RefusedByAll
<1> QED  BY <1>1, IndexerStarts, IndexerSteps, PTL DEF Spec, IndexerInv

\* Where the upstreams refuse ranges for their width alone, as they refuse what they lack, the
\* promise holds as it is made: a refusal reaches the client only when no upstream serves it.
THEOREM RefusedForWidthOnly ==
    ASSUME \A u \in Upstreams : Crowded[u] = {}
    PROVE  Spec => []RefusedOnlyByAll
<1>1. PacerInv => RefusedOnlyByAll
  <2> SUFFICES ASSUME PacerInv, NEW r \in Requests \ ForBlock, pc[r] = "refused", NEW u \in Upstreams
               PROVE  Pacer!TruthAt(u, r) # "ok"
    BY DEF RefusedOnlyByAll, Pacer!RefusedOnlyByAll
  <2>1. Grounds(u, r)
    BY DEF PacerInv, Truthful, RefusalsTrue
  <2>2. ASSUME NEW q \in Requests, Pacer!Refused(u, q), RangeOf[q] <= RangeOf[r]
        PROVE  Pacer!TruthAt(u, r) # "ok"
    <3>1. RangeOf[q] > LimitOf[u]
      BY <2>2 DEF Pacer!Refused, Pacer!TruthAt
    <3>2. RangeOf[r] > LimitOf[u]
      BY <2>2, <3>1, PacerConstants
    <3> QED  BY <3>2 DEF Pacer!TruthAt
  <2> QED  BY <2>1, <2>2 DEF Grounds
<1> QED  BY <1>1, IndexerStarts, IndexerSteps, PTL DEF Spec, IndexerInv

\* For any products and endpoints, and any number of refreshes that overlap and whose fetches
\* fail: a price the writers are given was listed within MaxAge, and the unit a part takes.
THEOREM PricesAreOfTheirAge == Spec => []WithinItsAge
<1>1. HeadsInv => WithinItsAge
  BY PricesWithinAge DEF WithinItsAge
<1> QED  BY <1>1, IndexerStarts, IndexerSteps, PTL DEF Spec, IndexerInv

\* For any alert times: a job is in its run or with its timer, never twice, and when the client
\* is closed no run is left that would use it.
THEOREM JobsNeverOverlap == Spec => []NeverOverlaps
<1>1. WorkerInv => NeverOverlaps
  BY DEF WorkerInv, NeverOverlaps
<1> QED  BY <1>1, IndexerStarts, IndexerSteps, PTL DEF Spec, IndexerInv

LEMMA BatcherRuns == Spec => Batcher!Spec
<1>1. Init => Batcher!Init
  BY DEF Init
<1>2. [Next]_all => [Batcher!Next]_(Batcher!vars)
  BY DEF Next, all, batcher, PacerOn, BatcherOn, HeadsOn, WorkerOn, Batcher!vars
<1> QED  BY <1>1, <1>2, PTL DEF Spec, Batcher!Spec

\* Where viem sends each group in one chunk, every group is answered once, with the results of
\* its own calls, or rejected while the node refuses it even alone or limits its answers, and never
\* with an outage; and
\* on its way it is in one place, in requests that keep to a block and to maxCalls
\* (viem.ts:208-211, 240-255).
THEOREM GroupsGetTheirOwn ==
    ASSUME \A g \in Groups : SizeOf[g] <= Batcher!ChunkOf(g)
    PROVE  Spec => AnswersItsOwn
<1>1. Batcher!Init => BatcherInv
  BY BatcherStarts
<1>2. Batcher!Init => Batcher!Answers!Init
  BY DEF Batcher!Init, Batcher!Answers!Init
<1>3. BatcherInv /\ [Batcher!Next]_(Batcher!vars) => BatcherInv'
  BY BatcherSteps
<1>4. BatcherInv /\ [Batcher!Next]_(Batcher!vars) =>
         [Batcher!Answers!Next]_<<{g \in Groups : group[g] # "new"}, answer>>
  BY BatcherSteps DEF Promise, Asked
<1>5. BatcherInv => Batcher!InOnePlace /\ Batcher!Packed
  BY PlacesPacked
<1> QED
  BY <1>1, <1>2, <1>3, <1>4, <1>5, BatcherRuns, PTL
  DEF Batcher!Spec, AnswersItsOwn, Batcher!AnswersItsOwn, Batcher!Answers!Spec
=============================================================================
