--------------------------- MODULE MulticallBatcher ---------------------------
(***************************************************************************)
(* The indexer's multicall batcher (apps/indexer/src/lib/viem.ts): groups  *)
(* of reads asked for at the same block within a moment share an eth_call. *)
(* A shared request that fails as a whole is taken apart; a group on its   *)
(* own is tried in one call, then in viem's chunks, again and again while  *)
(* the RPC is out.  The calls of a group are taken to be of one length.    *)
(***************************************************************************)
EXTENDS Naturals, Sequences, Functions

CONSTANTS
    Groups, Blocks,
    BlockOf,    \* [Groups -> Blocks]
    SizeOf,     \* [Groups -> Nat], the calls of a group
    Reverting,  \* the calls <<g, i>> that revert
    MergeGroups, MaxCalls,
    NodeCap,    \* the calls the node runs in one eth_call
    ChunkBytes, \* the calldata of a chunk when viem splits a group, its batchSize
    BytesOf     \* [Groups -> Nat], the calldata of one call of a group

BatcherAssumption ==
    /\ BlockOf \in [Groups -> Blocks]
    /\ SizeOf \in [Groups -> Nat]
    /\ MergeGroups \in BOOLEAN
    /\ MaxCalls \in Nat \ {0} /\ NodeCap \in Nat \ {0}
    /\ ChunkBytes \in Nat \ {0} /\ BytesOf \in [Groups -> Nat \ {0}]

VARIABLES
    queues,     \* per block, the groups that wait for its timer, in the order they came
    shared,     \* the shared requests in progress, each the groups it reads
    state,      \* where each group is
    answer,     \* what its promise settled with
    rpc         \* whether the RPC answers

vars == <<queues, shared, state, answer, rpc>>

RpcStates == {"up", "out", "limits"}

\* A call's result: no error, an error object of its own, or the one its request failed with.
Result(error, of) == [error |-> error, of |-> of]
Outage(k) == Result("outage", <<k>>)    \* of the k-th chunk: a timeout, a 5xx, no connection
TooBig(k) == Result("gas cap", <<k>>)   \* refused by the node
Limited(k) == Result("limited", <<k>>)  \* any other failure of a request: a 429 or another 4xx
NoAnswer == <<Result("unsettled", <<>>)>>
Rejected == <<Result("rejected", <<>>)>>

TypeOK ==
    /\ queues \in [Blocks -> Seq(Groups)]
    /\ shared \subseteq Seq(Groups)
    /\ state \in [Groups -> {"new", "queued", "shared", "alone", "chunks", "outage", "settled"}]
    /\ rpc \in RpcStates

Init ==
    /\ queues = [b \in Blocks |-> <<>>]
    /\ shared = {}
    /\ state = [g \in Groups |-> "new"]
    /\ answer = [g \in Groups |-> NoAnswer]
    /\ rpc = "up"

-----------------------------------------------------------------------------
Own(g) ==
    [i \in 1..SizeOf[g] |-> Result(IF <<g, i>> \in Reverting THEN "revert" ELSE "none", <<g, i>>)]

\* The parts, one after the other.
Joined(parts) ==
    LET joined[n \in 0..Len(parts)] == IF n = 0 THEN <<>> ELSE joined[n - 1] \o parts[n]
    IN  joined[Len(parts)]

CallsOf(groups) == Joined([i \in DOMAIN groups |-> Own(groups[i])])
CallCount(groups) == Len(CallsOf(groups))

\* The aggregate3 call of the k-th chunk: the calls' own results, or one error object for all of
\* them.  While the RPC is out, or limits, it may still answer.
Aggregate(calls, k) ==
    {IF Len(calls) > NodeCap THEN [i \in DOMAIN calls |-> TooBig(k)] ELSE calls}
        \cup (IF rpc = "out" THEN {[i \in DOMAIN calls |-> Outage(k)]} ELSE {})
        \cup (IF rpc = "limits" THEN {[i \in DOMAIN calls |-> Limited(k)]} ELSE {})

\* client.multicall in calls of at most size; the chunks are sent together and fail apart.
Chunks(calls, size) ==
    [k \in 1..((Len(calls) + size - 1) \div size) |->
        SubSeq(calls, (k - 1) * size + 1, IF k * size < Len(calls) THEN k * size ELSE Len(calls))]
Multicall(groups, size) ==
    LET chunks == Chunks(CallsOf(groups), size)
    IN  {Joined(outcome) : outcome \in
            {f \in [DOMAIN chunks -> UNION {Aggregate(chunks[k], k) : k \in DOMAIN chunks}] :
                \A k \in DOMAIN chunks : f[k] \in Aggregate(chunks[k], k)}}
Unsplit(groups) == Multicall(groups, CallCount(groups) + 1)
\* The calls of a group that make a chunk, at least one.
ChunkOf(g) ==
    LET fit == ChunkBytes \div BytesOf[g]
    IN  IF fit < 1 THEN 1 ELSE fit

Failing(result) == result.error # "none"
IsContractAnswer(result) == result.error = "revert"
FailsWithAnyFailure(results) == results # <<>> /\ \A i \in DOMAIN results : Failing(results[i])
\* One error object for every call; the error of a lone call tells whether it is the contract's.
IsWholeRequestFailure(results) ==
    /\ results # <<>>
    /\ Failing(results[1])
    /\ \A i \in DOMAIN results : results[i] = results[1]
    /\ Len(results) > 1 \/ ~IsContractAnswer(results[1])

SameOffset(groups, i) == 0
\* Each group takes its slice of the results.
OffsetOf(groups, i) == CallCount(SubSeq(groups, 1, i - 1))
Slice(groups, results, i) ==
    SubSeq(results, OffsetOf(groups, i) + 1, OffsetOf(groups, i) + SizeOf[groups[i]])
Resolve(groups, results) ==
    /\ state' = [g \in Groups |-> IF g \in Range(groups) THEN "settled" ELSE state[g]]
    /\ answer' = [g \in Groups |->
                    IF g \in Range(groups)
                    THEN Slice(groups, results, CHOOSE i \in DOMAIN groups : groups[i] = g)
                    ELSE answer[g]]

\* packGroups: groups in the order they came, as many to a request as MaxCalls lets in.
PutGroup(packed, g) ==
    LET n == Len(packed)
    IN  IF n = 0 \/ CallCount(packed[n]) + SizeOf[g] > MaxCalls
        THEN Append(packed, <<g>>)
        ELSE [packed EXCEPT ![n] = Append(@, g)]
PackGroups(groups) ==
    LET packed[i \in 0..Len(groups)] == IF i = 0 THEN <<>> ELSE PutGroup(packed[i - 1], groups[i])
    IN  packed[Len(groups)]

-----------------------------------------------------------------------------
\* multicall(): the group waits for its block's timer, which the first one starts.
Ask(g) ==
    /\ state[g] = "new"
    /\ IF MergeGroups
       THEN /\ queues' = [queues EXCEPT ![BlockOf[g]] = Append(@, g)]
            /\ state' = [state EXCEPT ![g] = "queued"]
            /\ UNCHANGED shared
       ELSE /\ shared' = shared \cup {<<g>>}
            /\ state' = [state EXCEPT ![g] = "shared"]
            /\ UNCHANGED queues
    /\ UNCHANGED <<answer, rpc>>

FlushKeepsQueue(b) ==
    /\ queues[b] # <<>>
    /\ shared' = shared \cup Range(PackGroups(queues[b]))
    /\ state' = [g \in Groups |-> IF g \in Range(queues[b]) THEN "shared" ELSE state[g]]
    /\ UNCHANGED <<queues, answer, rpc>>
\* The timer of a block: its queue is taken as a whole.
Flush(b) ==
    /\ queues[b] # <<>>
    /\ shared' = shared \cup Range(PackGroups(queues[b]))
    /\ state' = [g \in Groups |-> IF g \in Range(queues[b]) THEN "shared" ELSE state[g]]
    /\ queues' = [queues EXCEPT ![b] = <<>>]
    /\ UNCHANGED <<answer, rpc>>

\* executeWithFallback: a shared request settles.
SettleShared(groups) ==
    /\ groups \in shared
    /\ shared' = shared \ {groups}
    /\ \E results \in Unsplit(groups) :
          IF IsWholeRequestFailure(results)
          THEN /\ state' = [g \in Groups |-> IF g \in Range(groups) THEN "alone" ELSE state[g]]
               /\ UNCHANGED answer
          ELSE Resolve(groups, results)
    /\ UNCHANGED <<queues, rpc>>

\* executeGroup: the group on its own, in one call.
SettleAlone(g) ==
    /\ state[g] = "alone"
    /\ \E results \in Unsplit(<<g>>) :
          IF IsWholeRequestFailure(results)
          THEN state' = [state EXCEPT ![g] = "chunks"] /\ UNCHANGED answer
          ELSE Resolve(<<g>>, results)
    /\ UNCHANGED <<queues, shared, rpc>>

\* ... then in chunks; an outage is waited out, any other failure rejects the group.
SettleChunks(g) ==
    /\ state[g] = "chunks"
    /\ \E results \in Multicall(<<g>>, ChunkOf(g)) :
          IF ~IsWholeRequestFailure(results)
          THEN Resolve(<<g>>, results)
          ELSE IF results[1].error = "outage"
          THEN state' = [state EXCEPT ![g] = "outage"] /\ UNCHANGED answer
          ELSE /\ state' = [state EXCEPT ![g] = "settled"]
               /\ answer' = [answer EXCEPT ![g] = Rejected]
    /\ UNCHANGED <<queues, shared, rpc>>

\* The delay of an outage is over.
Retry(g) ==
    /\ state[g] = "outage"
    /\ state' = [state EXCEPT ![g] = "alone"]
    /\ UNCHANGED <<queues, shared, answer, rpc>>

\* The RPC goes away, limits its answers, comes back.
Turn == rpc' \in RpcStates \ {rpc} /\ UNCHANGED <<queues, shared, state, answer>>

Batcher ==
    \/ \E b \in Blocks : Flush(b)
    \/ \E groups \in shared : SettleShared(groups)
    \/ \E g \in Groups : SettleAlone(g) \/ SettleChunks(g) \/ Retry(g)
Next == Batcher \/ Turn \/ \E g \in Groups : Ask(g)

Spec == Init /\ [][Next]_vars

(* Timers come, and viem cuts every request after its timeout, so that     *)
(* what was sent settles.  That the batcher as a whole goes on is enough.  *)
FairSpec == Spec /\ WF_vars(Batcher)

-----------------------------------------------------------------------------
\* A group asked for is in one place until its promise settles: in its block's queue once, in
\* one shared request, or on its own.  None is lost or read twice (viem.ts:240-255).
InOnePlace ==
    \A g \in Groups :
        /\ (state[g] = "queued") <=> (\E i \in DOMAIN queues[BlockOf[g]] : queues[BlockOf[g]][i] = g)
        /\ (state[g] = "shared") <=> (\E groups \in shared : g \in Range(groups))
        /\ \A groups1, groups2 \in shared :
              g \in Range(groups1) /\ g \in Range(groups2) => groups1 = groups2
        /\ \A groups \in shared : IsInjective(groups)

\* A shared request reads groups of one block, with at most MaxCalls calls unless one group
\* alone has more (viem.ts:144-159, 165-171).
Packed ==
    \A groups \in shared :
        /\ Len(groups) = 1 \/ CallCount(groups) <= MaxCalls
        /\ \A i, j \in DOMAIN groups : BlockOf[groups[i]] = BlockOf[groups[j]]

\* The batcher implements what multicall promises: each group is answered once, with its own
\* results, and an outage is no answer ("waited out here, for as long as it lasts",
\* viem.ts:208-211), as long as viem sends it in one chunk: chunks fail with an error each, and
\* a group of several would be answered with them.  A group is rejected only when the node
\* refuses it however it is sent, or while the RPC limits.
Answers == INSTANCE MulticallAnswers
    WITH asked <- {g \in Groups : state[g] # "new"}, OwnResults <- Own,
         refused <- {g \in Groups : rpc = "limits" \/ (SizeOf[g] > NodeCap /\ SizeOf[g] <= ChunkOf(g))}
AnswersItsOwn == Answers!Spec

\* Once the RPC is no longer out, every group asked for settles.
SettlesOnceUp == <>[](rpc # "out") => <>[](\A g \in Groups : state[g] \in {"new", "settled"})
=============================================================================
