-------------------------------- MODULE Indexer --------------------------------
(***************************************************************************)
(* What runs beside the database for as long as the processes do, each a   *)
(* part of one run with its liveness: the pacing proxy and the multicall   *)
(* batcher between the indexer and its RPCs, the indexer's cache of        *)
(* prices, and the worker.                                                 *)
(*                                                                         *)
(* The part that runs is chosen at the start, and the variables of the     *)
(* others stay as they are.                                                *)
(***************************************************************************)
EXTENDS Integers, Sequences

CONSTANTS
    Requests, Upstreams, NoUpstream, RangeOf, ForBlock, LimitOf, Crowded, Lacks, Leaving, \* RpcPacer
    Concurrency, MaxAttempts, InternalErrorAttempts,
    Together,   \* the sets of requests that may come together, each in behaviours of its own
    Groups, Blocks, BlockOf, SizeOf, Reverting, MergeGroups, MaxCalls, NodeCap,
    ChunkBytes, BytesOf,        \* MulticallBatcher
    Vaults, Boosts, PoolOf, PriceEndpoints, ListedIn, Slots, MaxAge,                    \* HeadPrices
    StallAlert, WatermarkAlert, BuildingAlert                                           \* Worker

VARIABLES
    part,
    coming,     \* the requests that come to the pacer
    pc, at, tried, refused, attempt, lastRefusal, gone, inFlight, maxLogRange, paused,
    queues, shared, group, answer, rpc,
    healthy, unlisted, vaults, boosts, fetched, byChain, due, slots,
    running, timers, aborted, process, state, created, watermark, moved, movedAt, still, warned

-----------------------------------------------------------------------------
Pacer == INSTANCE RpcPacer
Batcher == INSTANCE MulticallBatcher WITH state <- group
Heads == INSTANCE HeadPrices
Process == INSTANCE Worker

pacer == <<pc, at, tried, refused, attempt, lastRefusal, gone, inFlight, maxLogRange, paused>>
batcher == <<queues, shared, group, answer, rpc>>
heads == <<healthy, unlisted, vaults, boosts, fetched, byChain, due, slots>>
worker == <<running, timers, aborted, process, state, created, watermark, moved, movedAt, still, warned>>

ASSUME PartsAssumption ==
    /\ Pacer!PacerAssumption /\ Batcher!BatcherAssumption
    /\ Heads!HeadPricesAssumption /\ Process!WorkerAssumption

all == <<part, coming, pacer, batcher, heads, worker>>
Chosen == <<part, coming>>
PacerOn ==
    /\ part = "pacer" /\ Pacer!Next
    /\ \A r \in Requests \ coming : pc'[r] = "new"
    /\ UNCHANGED <<Chosen, batcher, heads, worker>>
BatcherOn == part = "batcher" /\ Batcher!Next /\ UNCHANGED <<Chosen, pacer, heads, worker>>
HeadsOn == part = "heads" /\ Heads!Next /\ UNCHANGED <<Chosen, pacer, batcher, worker>>
WorkerOn == part = "worker" /\ Process!Next /\ UNCHANGED <<Chosen, pacer, batcher, heads>>

\* The parts that do not run promise nothing: the API is out, the process has ended.
WorkerEnded ==
    /\ running = [j \in Process!Jobs |-> 0] /\ timers = {} /\ aborted = TRUE /\ process = "exited"
    /\ state = "building" /\ created = 0 /\ watermark = 0 /\ moved = TRUE /\ movedAt = 0
    /\ still = 0 /\ warned = {}

Init ==
    /\ part \in {"pacer", "batcher", "heads", "worker"}
    /\ IF part = "pacer" THEN coming \in Together ELSE coming = {}
    /\ Pacer!Init /\ Batcher!Init
    /\ Heads!Init /\ (part # "heads" => ~healthy)
    /\ IF part = "worker" THEN Process!Init ELSE WorkerEnded

Next == PacerOn \/ BatcherOn \/ HeadsOn \/ WorkerOn

(* The fairness of each part, while it is the one that runs.               *)
Forward == \E r \in coming : Pacer!Forward(r)
InPart(name, A) == part = name /\ A
Fairness ==
    /\ WF_pacer(InPart("pacer", Forward))
    /\ WF_batcher(InPart("batcher", Batcher!Batcher))
    /\ WF_heads(InPart("heads", Heads!Progress))
    /\ WF_worker(InPart("worker", Process!Fail("advance") \/ Process!Advance))
    /\ WF_worker(InPart("worker", Process!Fail("version-status") \/ Process!Report))
    /\ WF_worker(InPart("worker", Process!Loop("advance")))
    /\ WF_worker(InPart("worker", Process!Loop("version-status")))
    /\ WF_worker(InPart("worker", Process!Exit)) /\ WF_worker(InPart("worker", Process!Pass))
    /\ SF_worker(InPart("worker", Process!Report))

Spec == Init /\ [][Next]_all /\ Fairness

-----------------------------------------------------------------------------
(* What holds of each part.                                                *)

\* A refusal is given to the client only when each upstream refuses the request, or has refused
\* a range no wider (rpcPacer.ts:14-16), and no upstream has more requests than its cap, or one waiting for it beside a free place.
RefusedByAll == Pacer!RefusedByAll /\ Pacer!PlacesCounted /\ Pacer!WaitsForAPlace

\* "Returns the refusal only when all of them refuse it" (rpcPacer.ts:15).
RefusedOnlyByAll == Pacer!RefusedOnlyByAll

\* Every request that came ends, with an answer, a refusal or a failure (rpcPacer.ts:346-354).
EveryoneAnswered == Pacer!EveryoneAnswered

\* Each group is answered once with its own results, and never with an outage, or rejected
\* while the RPC refuses it
\* (viem.ts:208-211); none is in two places on the way.
AnswersItsOwn == Batcher!AnswersItsOwn /\ [](Batcher!InOnePlace /\ Batcher!Packed)

\* Once the RPC is no longer out, every group asked for settles (viem.ts:213).
SettlesOnceUp == Batcher!SettlesOnceUp

\* A price is given only while the API listed it within the age rule (headPrices.ts:220-225).
WithinItsAge == Heads!WithinItsAge

\* Once the API answers and lists a price for good, its contracts are given it for good
\* (headPrices.ts:235-239); no failed fetch takes one away (headPrices.ts:12).
ServedAgain == Heads!ServedAgain /\ Heads!KeptThroughFailures

\* A job never overlaps itself, and none is left when the worker stops (scheduler.ts:11-13).
NeverOverlaps == part = "worker" => Process!NeverOverlaps

\* A job is run again and again until the worker is told to stop, and then the process ends
\* (scheduler.ts:34-42, main.ts:41-49).
RunsUntilStopped == Process!RunsUntilStopped

\* A stalled chain and a watermark that stopped are warned of (versionStatus.ts:27-62), and no
\* chain is that has not kept still for the alert's time, less half a minute.
StoppedIsWarned == Process!StoppedIsWarned /\ Process!NoFalseAlarm
=============================================================================
