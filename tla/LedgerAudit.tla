------------------------------ MODULE LedgerAudit ------------------------------
(***************************************************************************)
(* The correctness checker (apps/indexer/scripts/correctness.ts): what the *)
(* indexer stored of a chain is compared with the chain, at a block, one   *)
(* query after the other, while the indexer may go on.                     *)
(*                                                                         *)
(* A block has one log.  The tables are what the handlers make of the logs *)
(* up to the last block indexed, but for one write that may be lost or     *)
(* wrong (the fault): the audit is there to tell of it.                    *)
(***************************************************************************)
EXTENDS Integers, Sequences, FiniteSets, FiniteSetsExt

CONSTANTS
    Accounts, Zero,
    Shares, Boosts,     \* share tokens; boosts, whose stakes are mints and burns
    Strategies,         \* CLM strategies, which emit TVL
    Static,             \* the contracts the config lists
    Chains,             \* the chains: sequences of logs [contract, from, to]
    LogRange,           \* LOG_RANGE, the blocks of a log query
    NodeRange,          \* the blocks the node answers a log query for
    Sample,             \* --sample
    MaxUnanswered       \* bound on the requests that get no answer

AuditAssumption ==
    /\ LogRange \in Nat \ {0} /\ NodeRange \in Nat \ {0} /\ Sample \in Nat /\ MaxUnanswered \in Nat
    /\ Static \subseteq Shares \cup Boosts

VARIABLES
    chain,      \* the logs, by block
    fault,      \* what the indexer got wrong
    indexed,    \* progress_block
    block,      \* the block the audit compares at
    kinds,      \* ctx.kindOf: the contracts with a row, loaded first ...
    known,      \* ... and ctx.shareTokens
    held,       \* progress_block when the Balance rows were read
    asked,      \* the queries made
    failed,     \* ... those for which their check FAILs
    unanswered  \* ... and those that got no answer

vars == <<chain, fault, indexed, block, kinds, known, held, asked, failed, unanswered>>

Tokens == Shares \cup Boosts
Fault(table, at, account) == [table |-> table, at |-> at, account |-> account]
NoFault == Fault("none", 0, Zero)

\* The audit's queries, in their order, and the checks they belong to.
Queries == <<"supply", "sums", "balances", "historical", "latest", "steps", "events", "fields",
             "clm-pool-state", "coverage">>
Checks == {{"supply", "sums"}, {"balances", "historical", "latest", "steps"}, {"events"}, {"fields"},
           {"clm-pool-state"}, {"coverage"}}
CheckOf(query) == CHOOSE check \in Checks : query \in check

-----------------------------------------------------------------------------
(* The chain.                                                              *)

Change(b, a) == (IF chain[b].to = a THEN 1 ELSE 0) - (IF chain[b].from = a THEN 1 ELSE 0)
LogsOf(c, n) == {b \in 1..n : chain[b].contract = c}
Total(S, a) == FoldSet(LAMBDA b, sum : sum + Change(b, a), 0, S)
Deployed(c, n) == LogsOf(c, n) # {}
BalanceOf(c, a, n) == Total(LogsOf(c, n), a)
TotalSupply(c, n) == -Total(LogsOf(c, n), Zero)

\* The writes of the handlers that may go wrong, and how much later the contract may be gone:
\* an unregistered contract has no row anywhere.
Faults(logs) ==
    LET Moves == {b \in DOMAIN logs : logs[b].contract \in Tokens}
        Supply == {b \in Moves : Zero \in {logs[b].from, logs[b].to}}
        Sides == {<<b, a>> \in Moves \X Accounts : a \in {logs[b].from, logs[b].to}}
    IN  {NoFault}
        \cup {Fault(table, b, Zero) : table \in {"row", "field", "trx_from", "extra"}, b \in Moves}
        \cup {Fault("supply", b, Zero) : b \in Supply}
        \cup {Fault(table, s[1], s[2]) : table \in {"balance", "step"}, s \in Sides}
        \cup {Fault("clm-pool-state", b, Zero) : b \in {d \in DOMAIN logs : logs[d].contract \in Strategies}}
        \cup {Fault("contract", b, Zero) : b \in {d \in Moves :
                /\ logs[d].contract \in Static
                /\ \A e \in Moves : logs[e].contract = logs[d].contract => d <= e}}

-----------------------------------------------------------------------------
(* What the handlers stored up to block n (ShareLedger has them whole).    *)

Is(table, b, a) == fault = Fault(table, b, a)
Handled(c, n) == {b \in LogsOf(c, n) : ~(fault.table = "contract" /\ chain[fault.at].contract = c)}
Applied(c, a, n) == {b \in Handled(c, n) : Change(b, a) # 0 /\ ~Is("balance", b, a)}
\* The rows of Balance, each with its last_change_block.
Balances(n) ==
    {[token |-> c, account |-> a, balance |-> Total(Applied(c, a, n), a), last |-> Max(Applied(c, a, n))] :
        <<c, a>> \in {p \in Tokens \X Accounts : Applied(p[1], p[2], n) # {}}}
\* balance_steps: the BALANCE rows of TimelineEvent.
StepsOf(c, a, n) ==
    {[at |-> b, delta |-> Change(b, a), after |-> Total(Applied(c, a, b), a)] :
        b \in {d \in Applied(c, a, n) : ~Is("step", d, a)}}
SupplyChanges(c, n) == {b \in Handled(c, n) : Change(b, Zero) # 0 /\ ~Is("supply", b, Zero)}
Supplies(n) ==
    {[token |-> c, total |-> -Total(SupplyChanges(c, n), Zero), last |-> Max(SupplyChanges(c, n))] :
        c \in {d \in Tokens : SupplyChanges(d, n) # {}}}
\* ShareTransfer and BoostStake; a log has one row, and an extra one is of no log.
Rows(n) ==
    {[key |-> <<b, "log">>, emitter |-> chain[b].contract, value |-> IF Is("field", b, Zero) THEN 0 ELSE 1,
      truthful |-> ~Is("trx_from", b, Zero)] :
        b \in {d \in UNION {Handled(c, n) : c \in Tokens} : ~Is("row", d, Zero)}}
    \cup {[key |-> <<b, "no log">>, emitter |-> chain[b].contract, value |-> 1, truthful |-> FALSE] :
            b \in {d \in 1..n : Is("extra", d, Zero)}}
RowsUpTo(c, n) == {row \in Rows(n) : row.emitter = c /\ row.key[1] <= block}
\* ClmTvl has every TVL; ClmPoolState a row for each.
PoolStates(n) == {b \in UNION {LogsOf(s, n) : s \in Strategies} : ~Is("clm-pool-state", b, Zero)}
Contracts(n) == {c \in Tokens : Handled(c, n) # {}}

-----------------------------------------------------------------------------
(* The log queries.                                                        *)

\* blockRanges.
RangesWithoutLast(from, to, size) ==
    [i \in 1..((to - from + 1) \div size) |-> <<from + (i - 1) * size, from + i * size - 1>>]
BlockRanges(from, to, size) ==
    [i \in 1..((to - from + size) \div size) |->
        <<from + (i - 1) * size, Min({from + i * size - 1, to})>>]

Halved(range) ==
    LET middle == (range[1] + range[2]) \div 2
    IN  <<<<range[1], middle>>, <<middle + 1, range[2]>>>>
GetLogs ==
    LET reads[range \in (1..Len(chain)) \X (0..Len(chain))] ==
            IF range[2] - range[1] < NodeRange
            THEN [b \in 1..Len(chain) |-> IF range[1] <= b /\ b <= range[2] THEN 1 ELSE 0]
            ELSE LET halves == Halved(range)
                 IN  [b \in 1..Len(chain) |-> reads[halves[1]][b] + reads[halves[2]][b]]
    IN  reads
\* fetchLogs over [start_block, block].
FetchLogs ==
    LET ranges == BlockRanges(1, block, LogRange)
    IN  [b \in 1..Len(chain) |->
            FoldSet(LAMBDA i, sum : sum + GetLogs[ranges[i]][b], 0, DOMAIN ranges)]
ChainLogs(c) == {b \in LogsOf(c, Len(chain)) : FetchLogs[b] > 0}
LogCount(c) == FoldSet(LAMBDA b, sum : sum + FetchLogs[b], 0, LogsOf(c, Len(chain)))

-----------------------------------------------------------------------------
(* The checks: whether one FAILs, from the answers of its queries.         *)

\* checkSupply: TokenSupply vs totalSupply().
SupplyFails(n) ==
    \/ \E row \in Supplies(n) : row.token \notin known
    \/ \E row \in Supplies(n) : row.last <= block /\ row.total # TotalSupply(row.token, block)
    \/ \E c \in known : (\A row \in Supplies(n) : row.token # c) /\ TotalSupply(c, block) # 0
SumsNotCompared(n) == FALSE
\* sum(Balance) = TokenSupply, of all rows as they are now.
SumsFail(n) ==
    \E c \in Tokens :
        FoldSet(LAMBDA row, sum : sum + row.balance, 0, {row \in Balances(n) : row.token = c})
            # -Total(SupplyChanges(c, n), Zero)

\* checkBalances: Balance vs balanceOf(); a row changed later has the balance of its last step
\* at or before the block.
Historical(row, n) ==
    LET steps == {s \in StepsOf(row.token, row.account, n) : s.at <= block}
    IN  IF steps = {} THEN 0 ELSE (CHOOSE s \in steps : \A r \in steps : r.at <= s.at).after
CurrentBalance(row, n) == row.balance
ExpectedBalance(row, n) == IF row.last <= block THEN row.balance ELSE Historical(row, n)
BalancesFail(n) ==
    \E row \in Balances(held) :
        \/ ~Deployed(row.token, block)     \* balanceOf() reverts
        \/ ExpectedBalance(row, n) # BalanceOf(row.token, row.account, block)

\* Balance = latest BALANCE row; each BALANCE row = previous + delta.
LatestFails(n) ==
    \E row \in Balances(n) :
        \A s \in StepsOf(row.token, row.account, n) : s.at # row.last \/ s.after # row.balance
StepsFail(n) ==
    \E c \in Tokens, a \in Accounts : \E s \in StepsOf(c, a, n) :
        LET before == {r \in StepsOf(c, a, n) : r.at < s.at}
            prev == IF before = {} THEN 0 ELSE (CHOOSE r \in before : \A q \in before : q.at <= r.at).after
        IN  s.delta = 0 \/ s.after # prev + s.delta

\* checkEvents: missing, extra, field mismatches, and counts per emitter.
EventsFail(n) ==
    \E c \in known :
        LET rows == RowsUpTo(c, n)
        IN  \/ {row.key : row \in rows} # {<<b, "log">> : b \in ChainLogs(c)}
            \/ \E row \in rows : row.value # 1
            \/ Cardinality(rows) # LogCount(c)

\* checkFields: a sample of the rows, evenly split over the tables that have some.
Tables == {Shares, Boosts}
CountOf(table, n) == Cardinality(UNION {RowsUpTo(c, n) : c \in table})
SampleSize(table, n) ==
    LET nonEmpty == Cardinality({t \in Tables : CountOf(t, n) > 0})
    IN  IF CountOf(table, n) = 0 THEN 0
        ELSE Min({CountOf(table, n), (Sample + nonEmpty - 1) \div nonEmpty})
\* Whether a sample of these sizes can be all truthful, or not.
FieldsMayPass(n) ==
    \A t \in Tables :
        Cardinality({row \in UNION {RowsUpTo(c, n) : c \in t} : row.truthful}) >= SampleSize(t, n)
FieldsMayFail(n) ==
    \E t \in Tables : SampleSize(t, n) > 0 /\ \E c \in t : \E row \in RowsUpTo(c, n) : ~row.truthful

\* checkClmPoolState: a row for each TVL at or before the block, and no other.
PoolStateFails(n) ==
    {b \in PoolStates(n) : b <= block}
        # {b \in UNION {LogsOf(s, n) : s \in Strategies} : b <= block}

\* checkCoverage: a listed contract without its row, although it emitted by the block.
CoverageFails == \E c \in Static \ kinds : ChainLogs(c) # {}

Outcomes(query) ==
    CASE query = "supply" -> {SupplyFails(indexed)}
      [] query = "sums" -> {SumsFail(indexed)}
      [] query = "balances" -> {FALSE}
      [] query = "historical" -> {BalancesFail(indexed)}
      [] query = "latest" -> {LatestFails(indexed)}
      [] query = "steps" -> {StepsFail(indexed)}
      [] query = "events" -> {EventsFail(indexed)}
      [] query = "fields" -> (IF FieldsMayPass(indexed) THEN {FALSE} ELSE {})
                                \cup (IF FieldsMayFail(indexed) THEN {TRUE} ELSE {})
      [] query = "clm-pool-state" -> {PoolStateFails(indexed)}
      [] query = "coverage" -> {CoverageFails}

-----------------------------------------------------------------------------
Init ==
    /\ chain \in Chains
    /\ fault \in Faults(chain)
    /\ indexed = 0 /\ block = 0 /\ held = 0
    /\ kinds = {} /\ known = {}
    /\ asked = 0
    /\ failed = {} /\ unanswered = {}

\* The indexer stores another block.
Index ==
    /\ indexed < Len(chain)
    /\ indexed' = indexed + 1
    /\ UNCHANGED <<chain, fault, block, kinds, known, held, asked, failed, unanswered>>

\* main: progress_block, or --block ...
Start ==
    /\ block = 0 /\ asked = 0
    /\ block' \in 1..indexed
    /\ UNCHANGED <<chain, fault, indexed, kinds, known, held, asked, failed, unanswered>>

\* ... then the contracts and tokens.
LoadContext ==
    /\ block # 0 /\ asked = 0 /\ known = {}
    /\ kinds' = Contracts(indexed)
    /\ known' = Static \cup kinds'
    /\ UNCHANGED <<chain, fault, indexed, block, held, asked, failed, unanswered>>

\* The next query sees what is stored by then.
Ask ==
    /\ known # {}
    /\ asked < Len(Queries)
    /\ asked' = asked + 1
    /\ LET query == Queries[asked + 1]
       IN  /\ held' = IF query = "balances" THEN indexed ELSE held
           /\ \E fails \in Outcomes(query) : failed' = IF fails THEN failed \cup {query} ELSE failed
    /\ UNCHANGED <<chain, fault, indexed, block, kinds, known, unanswered>>

\* A request gets no answer: the rest of its check is not made, and of what the check found only
\* 'check crashed' is kept, which is a FAIL; so is a receipt that was not read.
Unanswered ==
    /\ known # {}
    /\ asked < Len(Queries) /\ Cardinality(unanswered) < MaxUnanswered
    /\ LET query == Queries[asked + 1]
           check == CheckOf(query)
       IN  /\ asked' = Max({i \in DOMAIN Queries : Queries[i] \in check})
           /\ failed' = (failed \ check) \cup {query}
           /\ unanswered' = unanswered \cup {query}
    /\ UNCHANGED <<chain, fault, indexed, block, kinds, known, held>>

\* The same of the progress or of the context: main exits 1 and checks nothing.
NotStarted ==
    /\ known = {} /\ asked = 0 /\ MaxUnanswered > 0
    /\ asked' = Len(Queries)
    /\ failed' = {"main"}
    /\ unanswered' = {"main"}
    /\ UNCHANGED <<chain, fault, indexed, block, kinds, known, held>>

Next == Index \/ Start \/ LoadContext \/ Ask \/ Unanswered \/ NotStarted

Spec == Init /\ [][Next]_vars

-----------------------------------------------------------------------------
\* When the indexer got nothing wrong, a check FAILs only because a request got no answer, or,
\* against "a run during indexing only compares fully indexed data" (correctness.ts:22-23), in
\* one of two ways because of a token deployed after the block: its TokenSupply row is of no
\* token the context has, or the balanceOf() of its Balance rows reverts at the block.
TokenSince == \E c \in Tokens : Deployed(c, indexed) /\ ~Deployed(c, block)
NoFalseFail ==
    fault = NoFault =>
        failed \subseteq unanswered \cup (IF TokenSince THEN {"supply", "historical"} ELSE {})

\* A write lost, wrong or too many at or before the block is told, whichever it is and whatever
\* was stored after it (correctness.ts:5-20); a wrong trx_from only when its row is sampled.
FaultTold ==
    /\ asked = Len(Queries) /\ fault # NoFault /\ fault.at <= block
    /\ fault.table = "trx_from" =>
        \A t \in Tables : chain[fault.at].contract \in t => SampleSize(t, indexed) = CountOf(t, indexed)
    => failed # {}
=============================================================================
