------------------------------- MODULE Advance -------------------------------
(***************************************************************************)
(* The reprice job of one version (advanceVersion, rewind, reprice and     *)
(* pendingEvents of packages/clickhouse/src/deployments.ts): advances that *)
(* store the price of every event the watermark passes, next to Envio      *)
(* (which commits rows late, and rolls some back), operators who rewind    *)
(* the watermark, and other advances (the worker's and the CLI's).  Each   *)
(* ClickHouse statement is one step; between two awaits anything else may  *)
(* happen.                                                                 *)
(*                                                                         *)
(* An event is a row [chain, cp, at]: its chain, its checkpoint there and  *)
(* its block time.  Prices are left out, a stored row is its key; events   *)
(* the indexer priced are never PENDING and are left out too.              *)
(***************************************************************************)
EXTENDS Naturals, FiniteSets

CONSTANTS
    Chains,
    Advancers,      \* processes that run advance: the worker, the CLI
    Rewinders,      \* operators that run rewind
    MinAge,         \* WATERMARK_MIN_AGE_HOURS
    Retry,          \* REPRICE_RETRY_DAYS
    Day,            \* the first advance starts at a multiple of this
    Reach,          \* a rollback stays within Reach of the clock; 0: there is none
    MaxTime,        \* bound on the clock
    MaxCp,          \* bound on the checkpoints of a chain
    MaxMoves        \* bound on the watermark rows written

ASSUME AdvanceAssumption ==
    /\ MinAge \in Nat
    /\ Retry \in Nat
    /\ Day \in Nat \ {0}
    /\ Reach \in Nat
    /\ MaxTime \in Nat
    /\ MaxCp \in Nat
    /\ MaxMoves \in Nat

VARIABLES
    clock,          \* the time of day
    history,        \* envio_history_TimelineEvent of the version
    top,            \* the last checkpoint Envio wrote, per chain
    head,           \* the block time Envio has reached, per chain
    committed,      \* envio_chains: the committed checkpoint, per chain
    stored,         \* event_price_<N>: the keys that have a row
    wm,             \* price_watermark_<N> FINAL: the row with the latest moved_at
    moves,          \* the server's microseconds: the last moved_at handed out
    pc,             \* where each advance is
    seen,           \* its movedAt
    front,          \* its checkpoints: the frontier it reads Envio at
    base,           \* its current: the watermark it starts from
    target,         \* where it may move the watermark to
    pos,            \* the start of its next sub-range
    found,          \* whether the plan of the step it is at counted an event
    reached,        \* where it has moved the watermark to
    next,           \* the moved_at its compare-and-set got from the server
    read            \* the watermark each rewind has read, none when it is idle

envio == <<history, top, head, committed>>
locals == <<pc, seen, front, base, target, pos, found, reached, next>>
vars == <<clock, envio, stored, wm, moves, locals, read>>

Time == 0..MaxTime
Cps == 1..MaxCp
Rows == [chain : Chains, cp : Cps, at : Time]
Frontiers == [Chains -> 0..MaxCp]
NoFrontier == [c \in Chains |-> 0]

\* A watermark row.  kind and since are history: who wrote it, and the moved_at of the
\* watermark its writer started from.  moved = 0: there is no row.
Watermarks == [at : Time, cps : Frontiers, moved : Nat,
               kind : {"none", "advance", "rewind"}, since : Nat]
NoWatermark == [at |-> 0, cps |-> NoFrontier, moved |-> 0, kind |-> "none", since |-> 0]

Steps == {"idle", "frontier", "watermark", "target", "first", "planLate", "late",
          "planRetry", "retry", "planWindow", "window", "check", "insert",
          "planProvisional", "provisional", "planRescue", "rescue"}

\* The variables keep their types: one row per key, one watermark in range.
TypeOK ==
    /\ clock \in Time
    /\ history \subseteq Rows
    /\ top \in Frontiers
    /\ head \in [Chains -> Time]
    /\ committed \in Frontiers
    /\ stored \subseteq Rows
    /\ wm \in Watermarks
    /\ moves \in Nat
    /\ pc \in [Advancers -> Steps]
    /\ seen \in [Advancers -> Nat]
    /\ front \in [Advancers -> Frontiers]
    /\ base \in [Advancers -> Watermarks]
    /\ target \in [Advancers -> Time]
    /\ pos \in [Advancers -> Nat]
    /\ found \in [Advancers -> BOOLEAN]
    /\ reached \in [Advancers -> Time]
    /\ next \in [Advancers -> Nat]
    /\ read \in [Rewinders -> Watermarks]

Init ==
    /\ clock = 0
    /\ history = {}
    /\ top = NoFrontier
    /\ head = [c \in Chains |-> 0]
    /\ committed = NoFrontier
    /\ stored = {}
    /\ wm = NoWatermark
    /\ moves = 0
    /\ pc = [p \in Advancers |-> "idle"]
    /\ seen = [p \in Advancers |-> 0]
    /\ front = [p \in Advancers |-> NoFrontier]
    /\ base = [p \in Advancers |-> NoWatermark]
    /\ target = [p \in Advancers |-> 0]
    /\ pos = [p \in Advancers |-> 0]
    /\ found = [p \in Advancers |-> FALSE]
    /\ reached = [p \in Advancers |-> 0]
    /\ next = [p \in Advancers |-> 0]
    /\ read = [r \in Rewinders |-> NoWatermark]

-----------------------------------------------------------------------------
(* Envio and the clock.                                                    *)

\* The opening reads of an advance take seconds: the clock, in hours, stands still
\* between its frontier and the start it finds.
Tick ==
    /\ clock < MaxTime
    /\ \A p \in Advancers : pc[p] \notin {"watermark", "target", "first"}
    /\ clock' = clock + 1
    /\ UNCHANGED <<envio, stored, wm, moves, locals, read>>

\* Envio writes the row of the next checkpoint; a chain it is still catching up on
\* writes rows far behind the clock.
WriteRow(c) ==
    /\ top[c] < MaxCp
    /\ \E t \in head[c]..clock :
        /\ history' = history \cup {[chain |-> c, cp |-> top[c] + 1, at |-> t]}
        /\ head' = [head EXCEPT ![c] = t]
    /\ top' = [top EXCEPT ![c] = @ + 1]
    /\ UNCHANGED <<clock, committed, stored, wm, moves, locals, read>>

\* Envio commits the batch: readers now see its rows.
Commit(c) ==
    /\ committed[c] < top[c]
    /\ committed' = [committed EXCEPT ![c] = top[c]]
    /\ UNCHANGED <<clock, history, top, head, stored, wm, moves, locals, read>>

\* A reorg: Envio deletes the rows from block time t on, physically, lowers the
\* frontier, and replays the chain from t, reusing the checkpoint ids.
Rollback(c) ==
    /\ \E t \in 0..head[c], k \in 0..top[c] :
        /\ clock < t + Reach
        /\ k < top[c]
        /\ \A r \in history : r.chain = c => (r.cp > k <=> r.at >= t)
        /\ history' = {r \in history : r.chain # c \/ r.cp <= k}
        /\ top' = [top EXCEPT ![c] = k]
        /\ head' = [head EXCEPT ![c] = t]
        /\ committed' = [committed EXCEPT ![c] = IF k < @ THEN k ELSE @]
    /\ UNCHANGED <<clock, stored, wm, moves, locals, read>>

-----------------------------------------------------------------------------
(* The advance: its opening reads, in this order.                          *)

Goto(p, step) == pc' = [pc EXCEPT ![p] = step]

\* The advance returns, or its process dies; the next one starts over.
Stop(p) ==
    /\ Goto(p, "idle")
    /\ seen' = [seen EXCEPT ![p] = 0]
    /\ front' = [front EXCEPT ![p] = NoFrontier]
    /\ base' = [base EXCEPT ![p] = NoWatermark]
    /\ target' = [target EXCEPT ![p] = 0]
    /\ pos' = [pos EXCEPT ![p] = 0]
    /\ found' = [found EXCEPT ![p] = FALSE]
    /\ reached' = [reached EXCEPT ![p] = 0]
    /\ next' = [next EXCEPT ![p] = 0]

\* watermarkMovedAt
ReadMovedAt(p) ==
    /\ pc[p] = "idle"
    /\ Goto(p, "frontier")
    /\ seen' = [seen EXCEPT ![p] = wm.moved]
    /\ UNCHANGED <<clock, envio, stored, wm, moves, front, base, target, pos, found,
                   reached, next, read>>

\* readFrontier
ReadFrontier(p) ==
    /\ pc[p] = "frontier"
    /\ Goto(p, "watermark")
    /\ front' = [front EXCEPT ![p] = committed]
    /\ UNCHANGED <<clock, envio, stored, wm, moves, seen, base, target, pos, found,
                   reached, next, read>>

\* readWatermark
ReadWatermark(p) ==
    /\ pc[p] = "watermark"
    /\ Goto(p, "target")
    /\ base' = [base EXCEPT ![p] = wm]
    /\ reached' = [reached EXCEPT ![p] = wm.at]
    /\ UNCHANGED <<clock, envio, stored, wm, moves, seen, front, target, pos, found,
                   next, read>>

Started(p) == base[p].moved > 0

\* Mutant: the late step is left out even when the frontier has moved.
AfterTargetNoLate(p) == IF ~Started(p) THEN "first" ELSE "planRetry"

\* The late step follows only when the frontier moved since the recorded one.
AfterTarget(p) ==
    IF ~Started(p) THEN "first"
    ELSE IF base[p].cps = front[p] THEN "planRetry" ELSE "planLate"

\* watermarkTarget: some time at least MinAge ago, held back by the freshest price.
ReadTarget(p) ==
    /\ pc[p] = "target"
    /\ \E t \in Time :
        /\ t + MinAge <= clock \/ t = 0
        /\ target' = [target EXCEPT ![p] = t]
    /\ Goto(p, AfterTarget(p))
    /\ UNCHANGED <<clock, envio, stored, wm, moves, seen, front, base, pos, found,
                   reached, next, read>>

-----------------------------------------------------------------------------
(* repriceRanges: a plan that counts the events of the range, then one     *)
(* statement per sub-range, none when the plan counted nothing.            *)

\* Mutant: the statements read Envio without the frontier.
VisibleUncommitted(p) == history

\* timelineEventsCtes: what a statement of p reads, the rows at or below its frontier.
Visible(p) == {r \in history : r.cp <= front[p][r.chain]}

\* The rows the step p is at prices, and its range [RangeStart, RangeEnd).
RetryStart(p) == IF base[p].at >= Retry THEN base[p].at - Retry ELSE 0
LateRows(p) == {r \in Visible(p) : r.cp > base[p].cps[r.chain]}
Selected(p) == IF pc[p] \in {"planLate", "late"} THEN LateRows(p) ELSE Visible(p)
RangeEnd(p) ==
    IF pc[p] \in {"planLate", "late", "planRetry", "retry"} THEN base[p].at
    ELSE IF pc[p] \in {"planWindow", "window"} THEN target[p]
    ELSE MaxTime + 1
\* Mutant: a range leaves out its own start.
BetweenAfterStart(p, from, to) == {r \in Selected(p) : from < r.at /\ r.at < to}

Between(p, from, to) == {r \in Selected(p) : from <= r.at /\ r.at < to}

Plan(p, from, step) ==
    /\ pos' = [pos EXCEPT ![p] = from]
    /\ found' = [found EXCEPT ![p] = Between(p, from, RangeEnd(p)) # {}]
    /\ Goto(p, step)
    /\ UNCHANGED <<clock, envio, stored, wm, moves, seen, front, base, target, reached,
                   next, read>>

PlanLate(p) == pc[p] = "planLate" /\ Plan(p, 0, "late")
PlanRetry(p) == pc[p] = "planRetry" /\ Plan(p, RetryStart(p), "retry")
PlanWindow(p) == pc[p] = "planWindow" /\ Plan(p, reached[p], "window")
PlanProvisional(p) == pc[p] = "planProvisional" /\ Plan(p, reached[p], "provisional")
PlanRescue(p) == pc[p] = "planRescue" /\ Plan(p, reached[p], "rescue")

\* repriceStatement over [pos, hi).
StoreUpTo(p, hi) ==
    /\ pos[p] < hi
    /\ hi <= RangeEnd(p)
    /\ \/ found[p] /\ stored' = stored \cup Between(p, pos[p], hi)
       \/ ~found[p] /\ hi = RangeEnd(p) /\ stored' = stored
    /\ pos' = [pos EXCEPT ![p] = hi]

StoreChunk(p) ==
    /\ pc[p] \in {"late", "retry", "provisional", "rescue"}
    /\ \E hi \in 0..(MaxTime + 1) : StoreUpTo(p, hi)
    /\ UNCHANGED <<clock, envio, wm, moves, pc, seen, front, base, target, found,
                   reached, next, read>>

EndLate(p) ==
    /\ pc[p] = "late"
    /\ pos[p] >= RangeEnd(p)
    /\ found' = [found EXCEPT ![p] = FALSE]
    /\ Goto(p, "planRetry")
    /\ UNCHANGED <<clock, envio, stored, wm, moves, seen, front, base, target, pos,
                   reached, next, read>>

\* Mutant: with no range to pass, the watermark is still written at the target.
MoveAloneToTarget(p) == target[p]

\* With no range to pass, the watermark stays: only the frontier is recorded.
MoveAloneTo(p) == reached[p]

\* The advance goes on from the watermark: a range to pass, or just a row to write.
EndRetry(p) ==
    /\ pc[p] = "retry"
    /\ pos[p] >= RangeEnd(p)
    /\ pos' = [pos EXCEPT ![p] = MoveAloneTo(p)]
    /\ found' = [found EXCEPT ![p] = FALSE]
    /\ Goto(p, IF reached[p] < target[p] THEN "planWindow" ELSE "check")
    /\ UNCHANGED <<clock, envio, stored, wm, moves, seen, front, base, target, reached,
                   next, read>>

\* firstEventStatement: the first advance starts at the day of the oldest event.
First(p) ==
    /\ pc[p] = "first"
    /\ \E r \in Visible(p), start \in Time :
        /\ \A s \in Visible(p) : r.at <= s.at
        /\ start % Day = 0
        /\ start <= r.at
        /\ r.at < start + Day
        /\ pos' = [pos EXCEPT ![p] = start]
        /\ reached' = [reached EXCEPT ![p] = start]
        /\ Goto(p, IF start < target[p] THEN "planWindow" ELSE "check")
    /\ UNCHANGED <<clock, envio, stored, wm, moves, seen, front, base, target, found,
                   next, read>>

\* waiting: no-events
NoEvents(p) ==
    /\ pc[p] = "first"
    /\ Visible(p) = {}
    /\ Stop(p)
    /\ UNCHANGED <<clock, envio, stored, wm, moves, read>>

\* One sub-range of the watermark step is stored; the watermark is to follow.
StoreWindow(p) ==
    /\ pc[p] = "window"
    /\ \E hi \in Time : StoreUpTo(p, hi)
    /\ Goto(p, "check")
    /\ UNCHANGED <<clock, envio, wm, moves, seen, front, base, target, found, reached,
                   next, read>>

-----------------------------------------------------------------------------
(* writeWatermarkIfUnchanged, in its two statements.                       *)

\* Mutant: the row is written whoever wrote the last one.
UnchangedAlways(p) == TRUE

Unchanged(p) == wm.moved = seen[p]

\* The check, and the server time it returns: after every row there is.
Check(p) ==
    /\ pc[p] = "check"
    /\ Unchanged(p)
    /\ moves < MaxMoves
    /\ moves' = moves + 1
    /\ next' = [next EXCEPT ![p] = moves + 1]
    /\ Goto(p, "insert")
    /\ UNCHANGED <<clock, envio, stored, wm, seen, front, base, target, pos, found,
                   reached, read>>

\* superseded: someone else wrote the watermark meanwhile.
Superseded(p) ==
    /\ pc[p] = "check"
    /\ ~Unchanged(p)
    /\ Stop(p)
    /\ UNCHANGED <<clock, envio, stored, wm, moves, read>>

\* Mutant: the row records the frontier of now.
NewRowAtFrontierOfNow(p) == [at |-> pos[p], cps |-> committed, moved |-> next[p],
                             kind |-> "advance", since |-> base[p].moved]

NewRow(p) == [at |-> pos[p], cps |-> front[p], moved |-> next[p], kind |-> "advance",
              since |-> base[p].moved]

\* The insert: readers take the row with the latest moved_at (FINAL).
WriteNewRow(p) == wm' = IF next[p] > wm.moved THEN NewRow(p) ELSE wm

Insert(p) ==
    /\ pc[p] = "insert"
    /\ WriteNewRow(p)
    /\ seen' = [seen EXCEPT ![p] = next[p]]
    /\ reached' = [reached EXCEPT ![p] = pos[p]]
    /\ Goto(p, IF pos[p] < target[p] THEN "window" ELSE "planProvisional")
    /\ UNCHANGED <<clock, envio, stored, moves, front, base, target, pos, found, next,
                   read>>

\* paused: the time budget of a version that is not active is spent.
InsertAndPause(p) ==
    /\ pc[p] = "insert"
    /\ pos[p] < target[p]
    /\ WriteNewRow(p)
    /\ Stop(p)
    /\ UNCHANGED <<clock, envio, stored, moves, read>>

\* The provisional step is done: the advance returns, or throws what made it fail.
Finish(p) ==
    /\ pc[p] \in {"provisional", "rescue"}
    /\ pos[p] >= RangeEnd(p)
    /\ Stop(p)
    /\ UNCHANGED <<clock, envio, stored, wm, moves, read>>

\* A statement of steps 1 to 3 throws; it may have done its work, or part of it.  The
\* recent events still get a price, unless there was no watermark to start from.
Fail(p) ==
    /\ pc[p] \in {"planLate", "late", "planRetry", "retry", "planWindow", "window",
                  "check", "insert"}
    /\ Started(p)
    /\ \/ /\ pc[p] \in {"late", "retry", "window"}
          /\ \E part \in SUBSET Between(p, pos[p], RangeEnd(p)) : stored' = stored \cup part
          /\ wm' = wm
       \/ pc[p] = "insert" /\ WriteNewRow(p) /\ stored' = stored
       \/ UNCHANGED <<stored, wm>>
    /\ pos' = [pos EXCEPT ![p] = reached[p]]
    /\ found' = [found EXCEPT ![p] = FALSE]
    /\ Goto(p, "planRescue")
    /\ UNCHANGED <<clock, envio, moves, seen, front, base, target, reached, next, read>>

\* The process dies, or a statement throws where nothing catches it.
Crash(p) ==
    /\ pc[p] # "idle"
    /\ Stop(p)
    /\ UNCHANGED <<clock, envio, stored, wm, moves, read>>

Step(p) ==
    \/ ReadMovedAt(p) \/ ReadFrontier(p) \/ ReadWatermark(p) \/ ReadTarget(p)
    \/ PlanLate(p) \/ PlanRetry(p) \/ PlanWindow(p) \/ PlanProvisional(p) \/ PlanRescue(p)
    \/ StoreChunk(p) \/ EndLate(p) \/ EndRetry(p) \/ First(p) \/ NoEvents(p)
    \/ StoreWindow(p) \/ Check(p) \/ Superseded(p) \/ Insert(p) \/ InsertAndPause(p)
    \/ Finish(p)

-----------------------------------------------------------------------------
(* rewind: reads the watermark, then writes one at or before it.           *)

ReadForRewind(r) ==
    /\ read[r].moved = 0
    /\ wm.moved > 0
    /\ read' = [read EXCEPT ![r] = wm]
    /\ UNCHANGED <<clock, envio, stored, wm, moves, locals>>

\* moved_at is the server's time at the insert: later than any handed out.
WriteRewind(r) ==
    /\ read[r].moved > 0
    /\ moves < MaxMoves
    /\ moves' = moves + 1
    /\ \E t \in 0..read[r].at :
        wm' = [at |-> t, cps |-> read[r].cps, moved |-> moves + 1, kind |-> "rewind",
               since |-> read[r].moved]
    /\ read' = [read EXCEPT ![r] = NoWatermark]
    /\ UNCHANGED <<clock, envio, stored, locals>>

-----------------------------------------------------------------------------
Next ==
    \/ Tick
    \/ \E c \in Chains : WriteRow(c) \/ Commit(c) \/ Rollback(c)
    \/ \E p \in Advancers : Step(p) \/ Fail(p) \/ Crash(p)
    \/ \E r \in Rewinders : ReadForRewind(r) \/ WriteRewind(r)

Spec == Init /\ [][Next]_vars

-----------------------------------------------------------------------------
(* pendingEvents, the gate of ready and switch: it never reads the whole   *)
(* history, only what the watermark does not vouch for.                    *)

Recent(r) == r.at + Retry >= wm.at
CommittedAfterWatermark(r) == r.cp > wm.cps[r.chain]

\* The events with no price: the indexer priced none of the rows modelled.
Pending == {r \in history : r.cp <= committed[r.chain] /\ r \notin stored}

PendingEvents ==
    IF wm.moved = 0 THEN Pending
    ELSE {r \in Pending : Recent(r) \/ CommittedAfterWatermark(r)}

\* The two parts pendingEvents counts are all there is: no committed event without a
\* price hides below the retry window under the recorded frontier, whatever late
\* rows, rollbacks, rewinds, failures and concurrent advances did (deployments.ts:335).
GateSeesEveryPending == PendingEvents = Pending

\* An advance that goes to its end leaves no event of its frontier without a price
\* (advanceVersion): the late, retry, watermark and provisional steps leave no gap.
EndedAdvanceLeavesNothing ==
    \A p \in Advancers :
        pc[p] = "provisional" /\ pos[p] >= RangeEnd(p) => Visible(p) \subseteq stored

\* A rewind is never overwritten by an advance that started before it: the one that
\* moves the watermark on has started from the rewound row (deployments.ts:593).
RewindNotLost ==
    [][wm.kind = "rewind" /\ wm'.moved # wm.moved /\ wm'.kind = "advance"
       => wm'.since = wm.moved]_wm

\* Only a rewind moves the watermark back: the one advance there is never does
\* (advanceVersion; with two, one that wrote under the other's check may).
OnlyRewindMovesBack == [][wm'.at < wm.at => wm'.kind = "rewind"]_wm

\* No price is stored for an event Envio has not committed (repriceStatement reads at
\* the frontier); rollbacks aside, which lower the frontier under a running advance.
OnlyCommittedStored == \A r \in stored : r.cp <= committed[r.chain]

\* An advance that ends has stored its frontier, and nothing that was not committed.
StoresItsFrontier == EndedAdvanceLeavesNothing /\ OnlyCommittedStored
=============================================================================
