----------------------------- MODULE KnownContracts -----------------------------
(***************************************************************************)
(* pnpm known-contracts (apps/indexer/scripts/knownContracts.ts and        *)
(* knownConfig.ts): the products the Beefy API claims are verified on      *)
(* chain, in two rounds of multicalls per chain, and the confirmed ones    *)
(* replace the generated lists of config.yaml.                             *)
(*                                                                         *)
(* An answer is a set of at most one value: a failed call has none.        *)
(***************************************************************************)
EXTENDS Integers, Sequences, FiniteSets, SequencesExt

CONSTANTS
    Chains,
    Addresses,
    Order,              \* the addresses, in the order they sort
    Zero,               \* zeroAddress
    Kind,               \* what each address is
    World,              \* its answers to the detection calls, before and after an upgrade
    Lists,              \* what the API may list of a chain: sets of products
    Blacklist,          \* src/lib/blacklist.ts
    Harvest1,           \* classicStratHarvest1Addresses
    Hands,              \* what may be listed by hand
    CallsPerMulticall,  \* CALLS_PER_MULTICALL
    MaxRuns             \* bound: runs of the command

ReadFunctions == <<"vault", "strategy", "rewardToken", "stakedToken", "wants">>

KnownAssumption ==
    /\ Range(Order) = Addresses
    /\ CallsPerMulticall > 0 /\ CallsPerMulticall % Len(ReadFunctions) = 0
    /\ World \in [BOOLEAN -> [Addresses -> [Range(ReadFunctions) -> SUBSET (Addresses \cup {Zero})]]]

VARIABLES
    hand,       \* the addresses listed by hand, by chain, each under its contract name
    generated,  \* ... and those of the generated blocks
    upgraded,   \* whether the vaults have got their next strategies
    api,        \* the candidates of the run, by chain
    phase,      \* where the verification of each chain is
    reads,      \* the answers it has
    lost,       \* whether a request of it got no answer
    known,      \* what it keeps
    runs

vars == <<hand, generated, upgraded, api, phase, reads, lost, known, runs>>

\* candidatesFromApi: what a list claims its products are.  (A list has an address once.)
Expected(list) ==
    CASE list = "vaults" -> "VAULT"
      [] list = "cow-vaults" -> "CLM_MANAGER"
      [] list = "gov-vaults 2" -> "REWARD_POOL"
      [] list \in {"gov-vaults 1", "boosts"} -> "BOOST"
candidatesFromApi(products) ==
    {[address |-> x.address, expected |-> Expected(x.list), apiStrategy |-> x.strategy] : x \in products}
NonZero(answer) == answer \ {Zero}

-----------------------------------------------------------------------------
(* The routes of knownConfig.ts.                                           *)

contractsForKind(kind, address) ==
    CASE kind = "VAULT" -> {"ClassicVault"}
      [] kind = "STRATEGY" ->
            {"ClassicStrategy",
             IF address \in Harvest1 THEN "ClassicStrategyStratHarvest1" ELSE "ClassicStrategyStratHarvest0"}
      [] kind = "BOOST" -> {"ClassicBoost"}
      [] kind = "REWARD_POOL" -> {"RewardPool"}
      [] kind = "CLM_MANAGER" -> {"ClmManager"}
      [] kind = "CLM_STRATEGY" -> {"ClmStrategy"}
      [] OTHER -> {}
Routed(kind, address) == contractsForKind(kind, address) \X {address}
knownAddresses(kept) == UNION {Routed(contract[1], contract[2]) : contract \in kept}

\* mergeKnownContracts: the known ones not listed by hand.
Merged(c, addresses) == addresses \ hand[c]

-----------------------------------------------------------------------------
(* The reads.                                                              *)

PositionOf(x, seq) == CHOOSE i \in DOMAIN seq : seq[i] = x
FirstOfEach(seq) ==
    FoldLeft(LAMBDA distinct, x : IF x \in Range(distinct) THEN distinct ELSE Append(distinct, x), <<>>, seq)
Sorted(S) == SetToSortSeq(S, LAMBDA x, y : PositionOf(x.address, Order) < PositionOf(y.address, Order))

\* The multicall that makes a call: all calls of an address, then those of the next.
MulticallOfByFunction(addresses, a, f) ==
    ((PositionOf(f, ReadFunctions) - 1) * Len(addresses) + PositionOf(a, addresses) - 1) \div CallsPerMulticall
MulticallOf(addresses, a, f) ==
    ((PositionOf(a, addresses) - 1) * Len(ReadFunctions) + PositionOf(f, ReadFunctions) - 1)
        \div CallsPerMulticall
Multicalls(addresses) == {MulticallOf(addresses, a, f) : a \in Range(addresses), f \in Range(ReadFunctions)}

\* readDetection: a multicall that got no answer is one whose calls all failed.
readDetection(addresses, unanswered) ==
    [a \in Range(addresses) |-> [f \in Range(ReadFunctions) |->
        IF MulticallOf(addresses, a, f) \in unanswered THEN {} ELSE World[upgraded][a][f]]]

\* verifyChain: the candidates and the strategies the API names ...
FirstRead(c) ==
    FirstOfEach(FoldLeft(LAMBDA all, x : all \o <<x.address>> \o SetToSeq(x.apiStrategy), <<>>, Sorted(api[c])))
\* ... then the strategies on chain.
StrategiesOfVaults(c) ==
    FirstOfEach(FoldLeft(
        LAMBDA all, x :
            all \o (IF x.expected = "VAULT" THEN SetToSeq(NonZero(reads[c][x.address].strategy) \ DOMAIN reads[c])
                    ELSE <<>>),
        <<>>, Sorted(api[c])))
strategiesToRead(c) ==
    FirstOfEach(FoldLeft(
        LAMBDA all, x :
            all \o (IF x.expected \in {"VAULT", "CLM_MANAGER"}
                    THEN SetToSeq(NonZero(reads[c][x.address].strategy) \ DOMAIN reads[c])
                    ELSE <<>>),
        <<>>, Sorted(api[c])))

-----------------------------------------------------------------------------
(* verifyCandidates.                                                       *)

classifyClassicProxyReads(r) ==
    LET matches == {m \in {<<"vault", "STRATEGY">>, <<"strategy", "VAULT">>, <<"rewardToken", "BOOST">>} :
                        r[m[1]] # {}}
    IN  IF Cardinality(matches) = 1 THEN (CHOOSE m \in matches : TRUE)[2] ELSE "UNKNOWN"

PointsBackAnyKind(all, s, product, classic) == s \in DOMAIN all /\ NonZero(all[s].vault) = {product}
pointsBack(all, s, product, classic) ==
    /\ s \in DOMAIN all /\ NonZero(all[s].vault) = {product}
    /\ classic => classifyClassicProxyReads(all[s]) = "STRATEGY"

stakingKind(r) ==
    CASE NonZero(r.stakedToken) = {} -> "UNKNOWN"
      [] r.vault = {} /\ r.strategy = {} /\ r.rewardToken = {} -> "REWARD_POOL"
      [] OTHER -> IF classifyClassicProxyReads(r) = "BOOST" THEN "BOOST" ELSE "UNKNOWN"

\* The strategies that point back, on chain and of the API.
Strategies(x, all, classic) ==
    {s \in (NonZero(all[x.address].strategy) \cup x.apiStrategy) \ Blacklist :
        pointsBack(all, s, x.address, classic)}
Kept(x, all) ==
    LET own == all[x.address]
        classic == x.expected = "VAULT"
        tied == \E s \in NonZero(own.strategy) : pointsBack(all, s, x.address, classic)
    IN  CASE x.address \in Blacklist -> {}
          [] x.expected \in {"REWARD_POOL", "BOOST"} ->
                IF stakingKind(own) = "UNKNOWN" THEN {} ELSE {<<stakingKind(own), x.address>>}
          [] x.expected = "VAULT" ->
                IF classifyClassicProxyReads(own) = "VAULT" /\ tied
                THEN {<<"VAULT", x.address>>} \cup {<<"STRATEGY", s>> : s \in Strategies(x, all, classic)}
                ELSE {}
          [] x.expected = "CLM_MANAGER" ->
                IF NonZero(own.wants) # {} /\ tied
                THEN {<<"CLM_MANAGER", x.address>>} \cup {<<"CLM_STRATEGY", s>> : s \in Strategies(x, all, classic)}
                ELSE {}
verifyCandidates(c, all) == UNION {Kept(x, all) : x \in api[c]}

-----------------------------------------------------------------------------
Idle(c) == phase[c] \in {"idle", "written"}

Init ==
    /\ hand \in [Chains -> Hands]
    /\ generated = [c \in Chains |-> {}]
    /\ upgraded = FALSE
    /\ api = [c \in Chains |-> {}]
    /\ phase = [c \in Chains |-> "idle"]
    /\ reads = [c \in Chains |-> <<>>]
    /\ lost = [c \in Chains |-> FALSE]
    /\ known = [c \in Chains |-> {}]
    /\ runs = 0

\* main reads config.yaml and the API's lists (candidatesFromApi); a chain starts with the
\* list it has (extractKnownContracts).
Start ==
    /\ \A c \in Chains : Idle(c)
    /\ runs < MaxRuns
    /\ runs' = runs + 1
    /\ api' \in [Chains -> {candidatesFromApi(products) : products \in Lists}]
    /\ phase' = [c \in Chains |-> "first"]
    /\ known' = generated
    /\ UNCHANGED <<hand, generated, upgraded, reads, lost>>

\* A chain whose RPC is not set keeps its list.
Unreachable(c) ==
    /\ phase[c] = "first"
    /\ phase' = [phase EXCEPT ![c] = "kept"]
    /\ UNCHANGED <<hand, generated, upgraded, api, reads, lost, known, runs>>

\* viem answers for a multicall the RPC refused: each of its calls failed (viem.ts:102-107).
FirstRound(c) ==
    /\ phase[c] = "first"
    /\ LET addresses == FirstRead(c)
       IN  \E unanswered \in SUBSET Multicalls(addresses) :
              /\ reads' = [reads EXCEPT ![c] = readDetection(addresses, unanswered)]
              /\ lost' = [lost EXCEPT ![c] = unanswered # {}]
    /\ phase' = [phase EXCEPT ![c] = "second"]
    /\ UNCHANGED <<hand, generated, upgraded, api, known, runs>>

SecondRound(c) ==
    /\ phase[c] = "second"
    /\ LET addresses == strategiesToRead(c)
       IN  \E unanswered \in SUBSET Multicalls(addresses) :
              /\ known' = [known EXCEPT ![c] =
                    knownAddresses(verifyCandidates(c, reads[c] @@ readDetection(addresses, unanswered)))]
              /\ lost' = [lost EXCEPT ![c] = @ \/ unanswered # {}]
    /\ phase' = [phase EXCEPT ![c] = "verified"]
    /\ reads' = [reads EXCEPT ![c] = <<>>]
    /\ UNCHANGED <<hand, generated, upgraded, api, runs>>

Ended(outcome) ==
    /\ phase' = [c \in Chains |-> outcome]
    /\ api' = [c \in Chains |-> {}]
    /\ reads' = [c \in Chains |-> <<>>]
    /\ lost' = [c \in Chains |-> FALSE]
    /\ known' = [c \in Chains |-> {}]
    /\ UNCHANGED <<hand, upgraded, runs>>

\* config.yaml is written once, when every chain is done.
Write ==
    /\ \A c \in Chains : phase[c] \in {"verified", "kept"}
    /\ generated' = [c \in Chains |-> Merged(c, known[c])]
    /\ Ended("written")

\* The command is stopped.
Stop ==
    /\ \E c \in Chains : ~Idle(c)
    /\ UNCHANGED generated
    /\ Ended("idle")

\* upgradeStrat(), at any time.
Upgrade ==
    /\ ~upgraded
    /\ upgraded' = TRUE
    /\ UNCHANGED <<hand, generated, api, phase, reads, lost, known, runs>>

Next ==
    \/ Start \/ Write \/ Stop \/ Upgrade
    \/ \E c \in Chains : Unreachable(c) \/ FirstRound(c) \/ SecondRound(c)

Spec == Init /\ [][Next]_vars

-----------------------------------------------------------------------------
OfItsKind(entry) == entry[2] \notin Blacklist /\ entry \in Routed(Kind[entry[2]], entry[2])

\* "every candidate's kind is verified on chain ... Only confirmed contracts are kept"
\* (knownContracts.ts:6-8): whatever the API claims, whichever requests fail and whenever a
\* strategy is replaced, the one contract that gets listed as another kind than it is is a CLM
\* manager that the API of this very run lists under /vaults: it is listed as a vault, and its
\* strategy as a vault's, since nothing that is asked of a vault tells the two apart
\* (knownContracts.ts:190-197).
TakenForAVault(c, entry) ==
    \E x \in api[c], m \in Addresses :
        /\ x.expected = "VAULT" /\ x.address = m /\ Kind[m] = "CLM_MANAGER"
        /\ entry \in Routed("VAULT", m)
                \cup UNION {Routed("STRATEGY", s) : s \in {t \in Addresses : World[upgraded][t].vault = {m}}}
OnlyAManagerIsMistaken ==
    [][\A c \in Chains : \A entry \in generated'[c] \ generated[c] :
            entry[2] \notin Blacklist /\ (OfItsKind(entry) \/ TakenForAVault(c, entry))]_vars

\* A product the API claims for what it is, all of whose reads were answered, is listed when
\* the file is written, with the strategy it has or had during the run (knownContracts.ts:174-184).
Confirmed(x) ==
    /\ x.address \notin Blacklist
    /\ \/ x.expected = Kind[x.address]
       \/ {x.expected, Kind[x.address]} \subseteq {"BOOST", "REWARD_POOL"}
StrategyAt(x, after) == World[after][x.address].strategy
ConfirmedAreListed ==
    [][\A c \in Chains : phase[c] = "verified" /\ phase'[c] = "written" /\ ~lost[c] =>
        \A x \in api[c] : Confirmed(x) =>
            /\ Routed(Kind[x.address], x.address) \subseteq hand[c] \cup generated'[c]
            /\ \E after \in {FALSE, upgraded} : \A s \in StrategyAt(x, after) \ ({Zero} \cup Blacklist) :
                  Routed(Kind[s], s) \subseteq hand[c] \cup generated'[c]]_vars

\* "Chains whose reads fail keep their current list" (knownContracts.ts:13): a failed request
\* takes no contract out of it.
UnreadKeepTheirList ==
    [][\A c \in Chains : lost[c] => generated[c] \subseteq generated'[c]]_vars
=============================================================================
