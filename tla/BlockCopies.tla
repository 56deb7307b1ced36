----------------------------- MODULE BlockCopies -----------------------------
(***************************************************************************)
(* What the pacing proxy (apps/indexer/scripts/rpcPacer.ts) answers by     *)
(* itself: blocks it takes for settled, from the copies of blocks it       *)
(* fetched, and transactions an upstream does not find by their hash.      *)
(* RpcPacer has the way of a request to the upstreams; here an upstream    *)
(* answers with its chain as it is then, or not at all.                    *)
(***************************************************************************)
EXTENDS Integers, Sequences, SequencesExt

CONSTANTS
    Requests, Txs,
    SettledDepth,       \* SETTLED_DEPTH
    MaxCopies,          \* MAX_CACHED_BLOCKS
    MaxKnown,           \* MAX_KNOWN_TRANSACTIONS
    Unindexed,          \* the transactions upstreams do not find by their hash
    MaxHeight, MaxForks, MaxFetches     \* bounds: blocks, reorgs, full blocks fetched

CopiesAssumption ==
    /\ SettledDepth \in Nat \ {0} /\ MaxCopies \in Nat \ {0} /\ MaxKnown \in Nat /\ MaxHeight \in Nat
    /\ Unindexed \subseteq Txs

VARIABLES
    chain,      \* the blocks, by number: which fork's, and their transactions
    forks,      \* reorgs so far
    head,       \* the highest block seen; 0 until known
    fetches,    \* the calls for full blocks: [number, block, early, by]
    fullBlocks, \* the ones kept, oldest first
    known,      \* transactionBlocks, oldest first
    pc, asks, fetch, got    \* per request: where it is, what it asks for, the fetch it awaits, its answer

chainVars == <<chain, forks>>
copyVars == <<fetches, fullBlocks>>
vars == <<chainVars, head, copyVars, known, pc, asks, fetch, got>>

Pending == [fork |-> -1, txs |-> {}]
Nothing == [fork |-> -2, txs |-> {}]    \* null, a failure, or no answer of this shape

ForBlock(n) == [method |-> "eth_getBlockByNumber", of |-> n]
ForTx(t) == [method |-> "eth_getTransactionByHash", of |-> t]
Questions == {ForBlock(n) : n \in 1..MaxHeight} \cup {ForTx(t) : t \in Txs}

Init ==
    /\ chain = <<>> /\ forks = 0
    /\ head = 0
    /\ fetches = <<>> /\ fullBlocks = <<>>
    /\ known = <<>>
    /\ pc = [r \in Requests |-> "idle"]
    /\ asks = [r \in Requests |-> ForBlock(1)]
    /\ fetch = [r \in Requests |-> 0]
    /\ got = [r \in Requests |-> Nothing]

-----------------------------------------------------------------------------
(* The chain.  A transaction is in one block at most; no reorg replaces a  *)
(* block that is SettledDepth behind the tip.                              *)

BlockOf(t) == {n \in DOMAIN chain : t \in chain[n].txs}
Mined(blocks) == UNION {blocks[n].txs : n \in DOMAIN blocks}

Mine ==
    /\ Len(chain) < MaxHeight
    /\ \E txs \in SUBSET (Txs \ Mined(chain)) : chain' = Append(chain, [fork |-> forks, txs |-> txs])
    /\ UNCHANGED <<forks, head, copyVars, known, pc, asks, fetch, got>>

Reorg ==
    /\ forks < MaxForks
    /\ \E n \in DOMAIN chain : \E txs \in SUBSET (Txs \ Mined(SubSeq(chain, 1, n - 1))) :
        /\ n > Len(chain) - SettledDepth
        /\ chain' = [m \in DOMAIN chain |->
                        IF m < n THEN chain[m]
                        ELSE [fork |-> forks + 1, txs |-> IF m = n THEN txs ELSE {}]]
    /\ forks' = forks + 1
    /\ UNCHANGED <<head, copyVars, known, pc, asks, fetch, got>>

-----------------------------------------------------------------------------
(* What the proxy learns from the answers that go through it.              *)

SettledAlways(n) == TRUE
isSettled(n) == head > 0 /\ n <= head - SettledDepth

\* noteHead: of refreshHead or of a client's eth_blockNumber; a node may lag behind.
NoteHead ==
    /\ \E height \in DOMAIN chain : height > head /\ head' = height
    /\ UNCHANGED <<chainVars, copyVars, known, pc, asks, fetch, got>>

\* rememberLogs, of the logs of a block: `set` keeps the place of a hash it has.
Remembered(n, t) ==
    IF \E i \in DOMAIN known : known[i].hash = t
    THEN [i \in DOMAIN known |-> IF known[i].hash = t THEN [known[i] EXCEPT !.block = n] ELSE known[i]]
    ELSE LET more == Append(known, [hash |-> t, block |-> n])
         IN  IF Len(more) > MaxKnown THEN Tail(more) ELSE more
RememberLogs ==
    /\ \E n \in DOMAIN chain : \E t \in chain[n].txs : known' = Remembered(n, t)
    /\ UNCHANGED <<chainVars, head, copyVars, pc, asks, fetch, got>>

-----------------------------------------------------------------------------
(* Full blocks: one call for a number, whose promise is kept.              *)

CopiesOf(n) == {f \in Range(fullBlocks) : fetches[f].number = n}

\* fullBlock(number), awaited by r.  What is found is kept, whatever the depth of the block.
\* (early and by are history: a call before the block is settled, and who called.)
FullBlock(r, n, by) ==
    IF CopiesOf(n) # {}
    THEN /\ fetch' = [fetch EXCEPT ![r] = CHOOSE f \in CopiesOf(n) : TRUE]
         /\ UNCHANGED copyVars
    ELSE LET f == Len(fetches) + 1
             kept == Append(fullBlocks, f)
         IN  /\ f <= MaxFetches
             /\ fetches' = Append(fetches, [number |-> n, block |-> Pending, early |-> ~isSettled(n), by |-> by])
             /\ fullBlocks' = IF Len(kept) > MaxCopies THEN Tail(kept) ELSE kept
             /\ fetch' = [fetch EXCEPT ![r] = f]

\* A fetch is answered; one that failed drops what is kept of its number, its own or a later's.
DroppedNot(n) == fullBlocks
Dropped(n) ==
    IF CopiesOf(n) = {} THEN fullBlocks
    ELSE RemoveAt(fullBlocks, CHOOSE i \in DOMAIN fullBlocks : fetches[fullBlocks[i]].number = n)
Fetched(f) ==
    /\ fetches[f].block = Pending
    /\ LET n == fetches[f].number IN
        \/ /\ n \in DOMAIN chain
           /\ fetches' = [fetches EXCEPT ![f].block = chain[n]]
           /\ UNCHANGED fullBlocks
        \/ /\ fetches' = [fetches EXCEPT ![f].block = Nothing]
           /\ fullBlocks' = Dropped(n)
    /\ UNCHANGED <<chainVars, head, known, pc, asks, fetch, got>>

-----------------------------------------------------------------------------
(* A request: fromSettledBlock, else forward and, for a transaction that   *)
(* is not found, recoverTransaction.                                       *)

\* The block a copy of which may answer: the one asked for, or that of the transaction, if
\* settled.
Source(q) ==
    {n \in 1..MaxHeight :
        /\ isSettled(n)
        /\ \/ q = ForBlock(n)
           \/ \E i \in DOMAIN known : q = ForTx(known[i].hash) /\ known[i].block = n}

\* Whether a block answers a request.
Answers(block, q) ==
    /\ block \notin {Pending, Nothing}
    /\ \A t \in Txs : q = ForTx(t) => t \in block.txs

Goes(r, to, block) ==
    /\ pc' = [pc EXCEPT ![r] = to]
    /\ got' = [got EXCEPT ![r] = block]

Ask(r) ==
    /\ pc[r] = "idle"
    /\ \E q \in Questions :
        /\ asks' = [asks EXCEPT ![r] = q]
        /\ \/ \E n \in Source(q) : Goes(r, "copy", Nothing) /\ FullBlock(r, n, "settled")
           \/ Source(q) = {} /\ Goes(r, "forwarded", Nothing) /\ UNCHANGED <<copyVars, fetch>>
    /\ UNCHANGED <<chainVars, head, known>>

FromCopy(r) ==
    /\ pc[r] = "copy"
    /\ fetches[fetch[r]].block # Pending
    /\ LET block == fetches[fetch[r]].block
       IN  IF Answers(block, asks[r]) THEN Goes(r, "copied", block) ELSE Goes(r, "forwarded", Nothing)
    /\ UNCHANGED <<chainVars, head, copyVars, known, asks, fetch>>

\* An upstream answers, or none does.
Forwarded(r) ==
    /\ pc[r] = "forwarded"
    /\ \/ Goes(r, "answered", Nothing)
       \/ \E t \in Txs :
            /\ asks[r] = ForTx(t)
            /\ t \in Unindexed \/ BlockOf(t) = {}
            /\ Goes(r, "receipt", Nothing)
    /\ UNCHANGED <<chainVars, head, copyVars, known, asks, fetch>>

\* recoverTransaction: by the block of the receipt, if there is one.
Receipt(r) ==
    /\ pc[r] = "receipt"
    /\ \E t \in Txs :
        /\ asks[r] = ForTx(t)
        /\ \/ Goes(r, "answered", Nothing) /\ UNCHANGED <<copyVars, fetch>>
           \/ \E n \in BlockOf(t) : Goes(r, "recover", Nothing) /\ FullBlock(r, n, "recovery")
    /\ UNCHANGED <<chainVars, head, known, asks>>

Recovered(r) ==
    /\ pc[r] = "recover"
    /\ fetches[fetch[r]].block # Pending
    /\ Goes(r, "answered", Nothing)
    /\ UNCHANGED <<chainVars, head, copyVars, known, asks, fetch>>

Next ==
    \/ Mine \/ Reorg \/ NoteHead \/ RememberLogs
    \/ \E f \in DOMAIN fetches : Fetched(f)
    \/ \E r \in Requests : Ask(r) \/ FromCopy(r) \/ Forwarded(r) \/ Receipt(r) \/ Recovered(r)

Spec == Init /\ [][Next]_vars

-----------------------------------------------------------------------------
Copied == {r \in Requests : pc[r] = "copied"}
IsTheChains(r) ==
    \E n \in DOMAIN chain :
        /\ got[r] = chain[n]
        /\ \A m \in 1..MaxHeight : asks[r] = ForBlock(m) => m = n

\* "Blocks this far behind the head are settled: no reorg reaches them, a copy of one stays
\* valid" (rpcPacer.ts:60).  An answer from a copy that is not the chain's comes from one fetched
\* before its block was settled, and only recoverTransaction fetches those, which fullBlock keeps
\* as it does any other (rpcPacer.ts:491-504, 554), whatever was reorganised while a copy was
\* kept, fetched or awaited.
StaleOnlyByRecovery ==
    \A r \in Copied : IsTheChains(r) \/ (fetches[fetch[r]].early /\ fetches[fetch[r]].by = "recovery")

\* "a failed fetch is dropped so the next request tries again" (rpcPacer.ts:489), also when the
\* copies are full and a number is fetched twice.
FailuresNotKept == \A f \in Range(fullBlocks) : fetches[f].block # Nothing
=============================================================================
