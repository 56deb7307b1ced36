------------------------------ MODULE MCComponents ------------------------------
(***************************************************************************)
(* The components that are small on their own, each a part of one run: of  *)
(* the API what guards its queries, its limit on each client, the way of   *)
(* an answer to the user and the items of a timeline; the statements of a  *)
(* reprice; of the scripts the known contracts, the two audits and the     *)
(* copies of the pacing proxy.                                             *)
(*                                                                         *)
(* The guards are four misses for one place and one in the queue.          *)
(*                                                                         *)
(* The part that runs is chosen at the start, and the variables of the     *)
(* others stay as they are.                                                *)
(***************************************************************************)
EXTENDS Guards, Components, KnownWorld, Integers, TLC

CONSTANT tx1 \* BlockCopies

VARIABLES
    part,
    second, block, log, trx, rows, shares, heldAfter, done,                 \* TimelineBuild
    hand, generated, upgraded, api, phase, reads, lost, known, runs,        \* KnownContracts
    logs, fault, progress, at, kinds, tokensKnown, held, queries, failed, unanswered, \* LedgerAudit
    damage, statuses, blacklist, contracts, links, tokens, steps,           \* IntegrityAudit
    balances, supplies, pools, place, catalog, indexed, probed, findings

-----------------------------------------------------------------------------
(* ClientLimits: three clients and buckets for two, with a short clock;    *)
(* two clients with one that lasts until a bucket overflows and that may   *)
(* be set back.                                                            *)

ClaimedAddresses ==
    {[net |-> "none", host |-> "none"], [net |-> "cloudflare", host |-> "edge"]}
        \cup {[net |-> client, host |-> "one"] : client \in Clients}

Crowd == Limits!Next /\ clock' < LimitTime /\ setBacks' = 0
Pair == Limits!Next /\ "c" \notin since'["a"]

-----------------------------------------------------------------------------
(* UserView: short lifetimes in the order of the code's; an active         *)
(* account's are the shortest, the edge keeps longer than the browser.     *)

PerHeader(busy, idle, empty, degraded, tooLarge, notAUser) ==
    [active |-> busy, idle |-> idle, empty |-> empty, degraded |-> degraded,
     unavailable |-> 0] @@ ("too-large" :> tooLarge @@ "not-a-user" :> notAUser)

OriginFreshValue == [active |-> {1}, idle |-> {1, 2}, empty |-> {1}]
OriginStaleValue == [active |-> 0, idle |-> 1, empty |-> 1]
MaxAgeValue == PerHeader(1, 1, 0, 1, 0, 1)
SMaxAgeValue == PerHeader(1, 2, 1, 1, 1, 1)
StaleWhileRevalidateValue == PerHeader(1, 2, 3, 0, 0, 0)

-----------------------------------------------------------------------------
(* TimelineBuild: up to five rows of two products, with a second a block.  *)

Items == INSTANCE TimelineBuild
    WITH Products <- {"p1", "p2"}, MaxRows <- 5, MaxSecond <- 2, SameSecond <- FALSE
items == <<second, block, log, trx, rows, shares, heldAfter, done>>

-----------------------------------------------------------------------------
(* Reprice: two events and two prices of one asset, over three days.       *)

PriceTimesValue == 0..5

-----------------------------------------------------------------------------
(* KnownContracts: two runs of the command.                                *)

Command == INSTANCE KnownContracts
    WITH Chains <- {1}, Zero <- "zero", Addresses <- KnownAddresses, Order <- KnownOrder,
         Kind <- KnownKind, World <- KnownAnswers, Lists <- KnownLists, Blacklist <- {},
         Harvest1 <- {"s2"}, Hands <- KnownHands, CallsPerMulticall <- 10, MaxRuns <- 2
command == <<hand, generated, upgraded, api, phase, reads, lost, known, runs>>

-----------------------------------------------------------------------------
(* BlockCopies: one copy kept, of two blocks with two transactions, one of *)
(* which no upstream finds by its hash.                                    *)

UnindexedValue == {tx1}

-----------------------------------------------------------------------------
(* LedgerAudit: chains of three blocks.                                     *)

Log(c, from, to) == [contract |-> c, from |-> from, to |-> to]
Logs == {Log("vault", "zero", "alice"), Log("vault", "alice", "bob"), Log("vault", "bob", "zero"),
         Log("boost", "zero", "alice"), Log("boost", "alice", "zero"), Log("strategy", "zero", "zero")}
\* Nobody gives what it does not hold.
Holds(chained) ==
    \A c \in {"vault", "boost"}, a \in {"alice", "bob"}, n \in DOMAIN chained :
        Cardinality({b \in 1..n : chained[b].contract = c /\ chained[b].from = a})
            <= Cardinality({b \in 1..n : chained[b].contract = c /\ chained[b].to = a})
AuditedChains == {chained \in [1..3 -> Logs] : Holds(chained)}

Correctness == INSTANCE LedgerAudit
    WITH Accounts <- {"alice", "bob"}, Zero <- "zero", Shares <- {"vault"}, Boosts <- {"boost"},
         Strategies <- {"strategy"}, Static <- {"vault"}, Chains <- AuditedChains,
         LogRange <- 2, NodeRange <- 1, Sample <- 2, MaxUnanswered <- 1,
         chain <- logs, indexed <- progress, block <- at, known <- tokensKnown, asked <- queries
correctness == <<logs, fault, progress, at, kinds, tokensKnown, held, queries, failed, unanswered>>
CorrectnessIdle ==
    /\ logs = 0 /\ fault = 0 /\ progress = 0 /\ at = 0 /\ kinds = 0 /\ tokensKnown = 0
    /\ held = 0 /\ queries = 0 /\ failed = 0 /\ unanswered = 0

-----------------------------------------------------------------------------
(* IntegrityAudit: a contract of each kind the audit tells apart on a      *)
(* chain that is audited, and a vault of one that is not.                  *)

AuditedKinds ==
    <<1, "v">> :> "VAULT" @@ <<1, "m">> :> "CLM_MANAGER" @@ <<1, "g">> :> "REWARD_POOL"
    @@ <<1, "b">> :> "BOOST" @@ <<1, "l">> :> "LST_VAULT" @@ <<1, "s">> :> "SWAPPER"
    @@ <<1, "t">> :> "STRATEGY" @@ <<1, "u">> :> "UNKNOWN" @@ <<2, "v">> :> "VAULT"
AuditedLists ==
    [id \in DOMAIN AuditedKinds |->
        CASE id[2] = "v" -> "vaults" [] id[2] = "m" -> "cows" [] id[2] = "g" -> "govs"
          [] id[2] = "b" -> "boosts" [] id[2] = "l" -> "LstVault" [] id[2] = "s" -> "BeefySwapper"
          [] OTHER -> "none"]
AuditedDeltas == (<<1, "v">> :> [a |-> <<2, -1>>, z |-> <<1>>]) @@ (<<1, "t">> :> [a |-> <<1, -1>>])

Integrity == INSTANCE IntegrityAudit
    WITH KindOf <- AuditedKinds, Selected <- {1}, ListOf <- AuditedLists, Deltas <- AuditedDeltas,
         pc <- place
integrity == <<damage, statuses, blacklist, contracts, links, tokens, steps, balances, supplies,
               pools, place, catalog, indexed, probed, findings>>
IntegrityIdle ==
    /\ damage = 0 /\ statuses = 0 /\ blacklist = 0 /\ contracts = 0 /\ links = 0 /\ tokens = 0
    /\ steps = 0 /\ balances = 0 /\ supplies = 0 /\ pools = 0 /\ place = 0 /\ catalog = 0
    /\ indexed = 0 /\ probed = 0 /\ findings = 0

-----------------------------------------------------------------------------
ASSUME PartsAssumption ==
    Items!BuildAssumption /\ Command!KnownAssumption /\ Correctness!AuditAssumption

Api == <<vars, limits, view, items, pricing>>
Scripts == <<command, copies, correctness, integrity>>

Parts == {"guards", "limits", "crowd", "view", "items", "pricing",
          "command", "copies", "correctness", "integrity"}
CommandIdle == hand = [chainId \in {1} |-> {}] /\ Command!Init

MCInit ==
    /\ part \in Parts
    /\ Init /\ View!Init /\ Items!Init /\ Copies!Init /\ Limits!Init
    /\ Pricing!Init /\ (part # "pricing" => range = [from |-> 0, to |-> 1])
    /\ IF part = "command" THEN Command!Init ELSE CommandIdle
    /\ IF part = "correctness" THEN Correctness!Init ELSE CorrectnessIdle
    /\ IF part = "integrity" THEN Integrity!Init ELSE IntegrityIdle

ApiNext ==
    \/ part = "guards" /\ Next /\ UNCHANGED <<limits, view, items, pricing>>
    \/ part = "limits" /\ Pair /\ UNCHANGED <<vars, view, items, pricing>>
    \/ part = "crowd" /\ Crowd /\ UNCHANGED <<vars, view, items, pricing>>
    \/ part = "view" /\ View!Next /\ UNCHANGED <<vars, limits, items, pricing>>
    \/ part = "items" /\ Items!Next /\ UNCHANGED <<vars, limits, view, pricing>>
    \/ part = "pricing" /\ Pricing!Next /\ UNCHANGED <<vars, limits, view, items>>
ScriptsNext ==
    \/ part = "command" /\ Command!Next /\ UNCHANGED <<copies, correctness, integrity>>
    \/ part = "copies" /\ Copies!Next /\ UNCHANGED <<command, correctness, integrity>>
    \/ part = "correctness" /\ Correctness!Next /\ UNCHANGED <<command, copies, integrity>>
    \/ part = "integrity" /\ Integrity!Next /\ UNCHANGED <<command, copies, correctness>>

MCNext ==
    \/ ApiNext /\ UNCHANGED <<part, Scripts>>
    \/ ScriptsNext /\ UNCHANGED <<part, Api>>
MCSpec == MCInit /\ [][MCNext]_<<part, Api, Scripts>>

-----------------------------------------------------------------------------
(* What holds of each part, next to what does of the guards.               *)

\* "Shares held across the product after this transaction" (routes/timeline.ts:30), newest
\* first and with all that was done.
ItemsTrue == part = "items" => Items!BalancesAfter /\ Items!NewestFirst /\ Items!ActionsTold

\* No contract is listed as another kind than it is (knownContracts.ts:6-8), but a CLM manager
\* that the API lists under /vaults, with its strategy.
OnlyAManagerIsMistaken == Command!OnlyAManagerIsMistaken

\* A product the API claims for what it is, and whose reads were answered, is listed with its
\* strategy when the file is written (knownContracts.ts:174-184).
ConfirmedAreListed == Command!ConfirmedAreListed


\* The integrity audit exits 1 on "Hard failures" (integrity/cli.ts:8), and of the rest only on
\* a request that failed.
AuditTells == part = "integrity" => Integrity!AuditTells
=============================================================================
