------------------------------ MODULE HeadPrices ------------------------------
(***************************************************************************)
(* The indexer's cache of Beefy API prices (apps/indexer/src/lib/          *)
(* headPrices.ts, over fetch.ts): timers refresh the prices and the        *)
(* address mappings in the background; refreshes fail, take their time and *)
(* overlap, and each one that ends rebuilds what the timeline writers read *)
(* under the age rule.                                                     *)
(*                                                                         *)
(* A unit of time is a period of the prices timer.  Data carry their ages, *)
(* which stop mattering past MaxAge.  Prices and factors are not counted:  *)
(* a vault is priced or not, which is all the guards look at.              *)
(***************************************************************************)
EXTENDS Naturals, FiniteSets

CONSTANTS
    Vaults, Boosts,     \* the contracts of /vaults/all, and of /boosts
    PoolOf,             \* [Boosts -> Vaults], the entry a boost is priced as
    PriceEndpoints,     \* "lps", "prices"
    ListedIn,           \* [Vaults -> PriceEndpoints], where its oracle id is priced
    Slots,              \* bound: the refreshes in progress at once
    MaxAge              \* HEAD_PRICE_MAX_AGE_MS

\* A price lives longer than the mappings, then the prices, take to come.
HeadPricesAssumption ==
    /\ PoolOf \in [Boosts -> Vaults]
    /\ ListedIn \in [Vaults -> PriceEndpoints]
    /\ PriceEndpoints \cap {"vaults/all", "boosts"} = {}
    /\ MaxAge \in Nat /\ MaxAge > 1

MappingEndpoints == {"vaults/all", "boosts"}
Endpoints == PriceEndpoints \cup MappingEndpoints
Contracts == Vaults \cup Boosts
VaultOf(c) == IF c \in Vaults THEN c ELSE PoolOf[c]

VARIABLES
    healthy,    \* the API answers
    unlisted,   \* per vault, how long ago its price was last listed
    vaults, boosts,     \* the lists fetched last
    fetched,    \* per price endpoint, the data kept
    byChain,    \* per contract, the price it is given
    due,        \* the timers that are due
    slots       \* per slot, the refresh in progress: its part, its age and its answers

api == <<healthy, unlisted>>
cache == <<vaults, boosts, fetched, byChain>>
vars == <<api, cache, due, slots>>

Data(items, age) == [items |-> items, age |-> age]
Nothing == Data({}, 0)
Answer(state, data) == [state |-> state, data |-> data]
NotAsked == [e \in Endpoints |-> Answer("none", Nothing)]
Slot(part, age, answers) == [part |-> part, age |-> age, answers |-> answers]
Free == Slot("idle", 0, NotAsked)

Init ==
    /\ healthy \in BOOLEAN
    /\ unlisted = [v \in Vaults |-> 0]
    /\ vaults = {} /\ boosts = {}
    /\ fetched = [e \in PriceEndpoints |-> Nothing]
    /\ byChain = [c \in Contracts |-> Nothing]
    /\ due = {"prices"}
    /\ slots = [s \in Slots |-> Free]

-----------------------------------------------------------------------------
\* The fetches of a part begin together.
Begin(part, endpoints) ==
    Slot(part, 0, [e \in Endpoints |-> Answer(IF e \in endpoints THEN "pending" ELSE "none", Nothing)])
Prices == Begin("prices", PriceEndpoints)
Mappings(part) == Begin(part, MappingEndpoints)

\* refresh, on the prices timer: the mappings first when there are none yet.
PricesOnly == Prices
FirstPart == IF vaults = {} \/ boosts = {} THEN Mappings("both") ELSE Prices
IdleSlots == {s \in Slots : slots[s].part = "idle"}
Started(refresh) == [slots EXCEPT ![CHOOSE s \in IdleSlots : TRUE] = refresh]
Refresh ==
    /\ "prices" \in due /\ IdleSlots # {}
    /\ due' = due \ {"prices"}
    /\ slots' = Started(FirstPart)
    /\ UNCHANGED <<api, cache>>
\* The mappings timer.
RefreshMappings ==
    /\ "mappings" \in due /\ IdleSlots # {}
    /\ due' = due \ {"mappings"}
    /\ slots' = Started(Mappings("mappings"))
    /\ UNCHANGED <<api, cache>>

\* What the API lists at an endpoint.
Listing(e) ==
    CASE e = "vaults/all" -> Vaults
      [] e = "boosts" -> Boosts
      [] OTHER -> {v \in Vaults : ListedIn[v] = e /\ unlisted[v] = 0}

\* refreshed: an answer replaces the previous data, a failure keeps it.
RefreshedNow(answer, e) == IF answer.state = "answered" THEN answer.data ELSE [fetched[e] EXCEPT !.age = 0]
Refreshed(answer, e) == IF answer.state = "answered" THEN answer.data ELSE fetched[e]

\* contractMappings: every vault, and each boost whose pool is one of them.
ContractMappings == vaults \cup {b \in boosts : PoolOf[b] \in vaults}

\* rebuild: each contract with the price its oracle id has where it is listed, and its age.
Rebuild ==
    byChain' = [c \in Contracts |->
        LET kept == fetched'[ListedIn[VaultOf(c)]]
        IN  IF c \in ContractMappings' /\ VaultOf(c) \in kept.items THEN Data({VaultOf(c)}, kept.age) ELSE Nothing]

\* refreshPrices, once its fetches have settled.
RefreshedPrices(s, answers) ==
    /\ fetched' = [e \in PriceEndpoints |-> Refreshed(answers[e], e)]
    /\ UNCHANGED <<vaults, boosts>>
    /\ Rebuild
    /\ slots' = [slots EXCEPT ![s] = Free]

\* refreshMappings, the same; then the prices, when it was refresh that asked.
RefreshedList(answer, kept) == IF answer.state = "answered" THEN answer.data.items ELSE kept
RefreshedMappings(s, answers) ==
    /\ vaults' = RefreshedList(answers["vaults/all"], vaults)
    /\ boosts' = RefreshedList(answers["boosts"], boosts)
    /\ UNCHANGED fetched
    /\ Rebuild
    /\ slots' = [slots EXCEPT ![s] = IF slots[s].part = "both" THEN Prices ELSE Free]

Pending(answers) == {e \in Endpoints : answers[e].state = "pending"}
\* fetchJson: the body is read and stamped, or every attempt of fetchWithRetry failed, or the
\* answer is not of the expected shape.  The last fetch of a part to settle ends it.
Fetched(s, e) ==
    /\ e \in Pending(slots[s].answers)
    /\ LET answer == IF healthy THEN Answer("answered", Data(Listing(e), 0)) ELSE Answer("failed", Nothing)
           answers == [slots[s].answers EXCEPT ![e] = answer]
       IN  IF Pending(answers) # {}
           THEN slots' = [slots EXCEPT ![s].answers = answers] /\ UNCHANGED cache
           ELSE IF slots[s].part = "prices" THEN RefreshedPrices(s, answers)
           ELSE RefreshedMappings(s, answers)
    /\ UNCHANGED <<api, due>>

-----------------------------------------------------------------------------
\* The API fails or is back; it stops listing a vault's price, or lists it again.
Turn == healthy' = ~healthy /\ UNCHANGED <<unlisted, cache, due, slots>>
Relist(v) ==
    /\ unlisted' = [unlisted EXCEPT ![v] = IF @ = 0 THEN 1 ELSE 0]
    /\ UNCHANGED <<healthy, cache, due, slots>>

Old == MaxAge + 2
Older(n) == IF n < Old THEN n + 1 ELSE n
Aged(data) == IF data.items = {} \/ data.age > MaxAge THEN data ELSE [data EXCEPT !.age = @ + 1]
\* Timers fire on time, the mappings one now and then, and a part is settled within a unit (3
\* attempts of 15 s and two pauses).
Tick ==
    /\ due = {} /\ \A s \in Slots : slots[s].age = 0
    /\ due' \in {{"prices"}, {"prices", "mappings"}}
    /\ unlisted' = [v \in Vaults |-> IF unlisted[v] = 0 THEN 0 ELSE Older(unlisted[v])]
    /\ fetched' = [e \in PriceEndpoints |-> Aged(fetched[e])]
    /\ byChain' = [c \in Contracts |-> Aged(byChain[c])]
    /\ slots' = [s \in Slots |-> IF slots[s].part = "idle" THEN Free
                                 ELSE Slot(slots[s].part, 1, [e \in Endpoints |->
                                         IF e \in PriceEndpoints THEN [slots[s].answers[e] EXCEPT !.data = Aged(@)]
                                         ELSE slots[s].answers[e]])]
    /\ UNCHANGED <<healthy, vaults, boosts>>

Progress ==
    \/ Tick \/ Refresh \/ RefreshMappings
    \/ \E s \in Slots, e \in Endpoints : Fetched(s, e)
Next == Progress \/ Turn \/ \E v \in Vaults : Relist(v)

Spec == Init /\ [][Next]_vars
FairSpec == Spec /\ WF_vars(Progress)

-----------------------------------------------------------------------------
\* headPriceAt, of an event of now: what the timeline writers are given.
Served(c) == byChain[c].items # {} /\ byChain[c].age <= MaxAge

\* A price is given only while the API listed it within the age rule, whatever failed and whichever
\* refresh ended last (headPrices.ts:220-225, 304-311: data kept through failures keep their age).
WithinItsAge == \A c \in Contracts : Served(c) => unlisted[VaultOf(c)] <= MaxAge + 1

\* A contract loses its price only by its age, or by an answer that no longer lists it; failed
\* fetches of any endpoint take none away (headPrices.ts:12, 210-218: "a failed fetch keeps the
\* previous data").
KeptThroughFailures ==
    [][\A c \in Contracts : Served(c) /\ ~Served(c)' =>
          \/ byChain[c].age = MaxAge
          \/ healthy /\ VaultOf(c) \notin Listing(ListedIn[VaultOf(c)])
          \/ \E s \in Slots, e \in PriceEndpoints :
                /\ slots[s].answers[e].state = "answered"
                /\ VaultOf(c) \notin slots[s].answers[e].data.items]_vars

\* Once the API answers and lists a price for good, its contracts are given it for good, without
\* waiting for the mappings timer (headPrices.ts:235-239), even when the first fetches failed.
ServedAgain ==
    \A v \in Vaults : <>[](healthy /\ unlisted[v] = 0) => <>[](\A c \in Contracts : VaultOf(c) = v => Served(c))
=============================================================================
