---------------------------- MODULE AdvanceProofs ----------------------------
(***************************************************************************)
(* Theorems about Advance, for every value of its constants: no rewind of  *)
(* the watermark is lost, the switch gate misses no event without a price, *)
(* an advance that ends has stored its frontier, and only a rewind takes   *)
(* the watermark back.                                                     *)
(***************************************************************************)
EXTENDS Advance, TLAPS

LEMMA InitTypeOK == Init => TypeOK
  BY AdvanceAssumption DEF AdvanceAssumption, Init, TypeOK, Time, Cps, Rows, Frontiers,
     NoFrontier, Watermarks, NoWatermark, Steps

USE AdvanceAssumption DEF AdvanceAssumption

\* What every step of an advance does to the types: it moves it to a step.
LEMMA StopTypes ==
    ASSUME TypeOK, NEW p \in Advancers, Stop(p)
    PROVE  /\ pc' \in [Advancers -> Steps]
           /\ seen' \in [Advancers -> Nat]
           /\ front' \in [Advancers -> Frontiers]
           /\ base' \in [Advancers -> Watermarks]
           /\ target' \in [Advancers -> Time]
           /\ pos' \in [Advancers -> Nat]
           /\ found' \in [Advancers -> BOOLEAN]
           /\ reached' \in [Advancers -> Time]
           /\ next' \in [Advancers -> Nat]
<1>1. NoFrontier \in Frontiers /\ NoWatermark \in Watermarks /\ 0 \in Time
  BY DEF NoFrontier, Frontiers, NoWatermark, Watermarks, Time
<1>2. "idle" \in Steps
  BY DEF Steps
<1>3. /\ pc' \in [Advancers -> Steps]
      /\ seen' \in [Advancers -> Nat]
      /\ front' \in [Advancers -> Frontiers]
  BY <1>1, <1>2 DEF Stop, Goto, TypeOK
<1>4. /\ base' \in [Advancers -> Watermarks]
      /\ target' \in [Advancers -> Time]
      /\ pos' \in [Advancers -> Nat]
  BY <1>1 DEF Stop, TypeOK
<1>5. found' \in [Advancers -> BOOLEAN]
  BY Zenon DEF Stop, TypeOK
<1>6. /\ reached' \in [Advancers -> Time]
      /\ next' \in [Advancers -> Nat]
  BY <1>1 DEF Stop, TypeOK
<1>. QED  BY <1>3, <1>4, <1>5, <1>6

\* A row of the watermark table that an advance writes.
LEMMA NewRowTypes ==
    ASSUME TypeOK, NEW p \in Advancers, WriteNewRow(p), pos[p] \in Time
    PROVE  wm' \in Watermarks
  BY DEF TypeOK, WriteNewRow, NewRow, Watermarks

-----------------------------------------------------------------------------
(* Type correctness.  A row of the watermark takes its time from pos, which *)
(* runs past MaxTime only in the provisional steps.                        *)

PosInTime == \A p \in Advancers : pc[p] \in {"check", "insert"} => pos[p] \in Time

TypeInv == TypeOK /\ PosInTime

LEMMA InitTypeInv == Init => TypeInv
<1>. SUFFICES ASSUME Init PROVE TypeInv
  OBVIOUS
<1>1. TypeOK
  BY InitTypeOK
<1>2. PosInTime
  BY DEF Init, PosInTime
<1>. QED  BY <1>1, <1>2 DEF TypeInv

\* The steps of Envio, the clock and the operators.
LEMMA EnvTypeInv ==
    ASSUME TypeInv,
           \/ Tick
           \/ \E c \in Chains : WriteRow(c) \/ Commit(c) \/ Rollback(c)
           \/ \E r \in Rewinders : ReadForRewind(r) \/ WriteRewind(r)
    PROVE  TypeInv'
<1>. USE DEF TypeInv, envio, locals
<1>1. CASE Tick
  BY <1>1 DEF Tick, TypeOK, PosInTime, Time
<1>2. ASSUME NEW c \in Chains, WriteRow(c)
      PROVE  TypeInv'
  <2>1. PICK t \in head[c]..clock :
            /\ history' = history \cup {[chain |-> c, cp |-> top[c] + 1, at |-> t]}
            /\ head' = [head EXCEPT ![c] = t]
    BY <1>2 DEF WriteRow
  <2>2. t \in Time /\ top[c] + 1 \in Cps
    BY <1>2, <2>1 DEF WriteRow, TypeOK, Time, Cps, Frontiers
  <2>3. history' \subseteq Rows /\ head' \in [Chains -> Time] /\ top' \in Frontiers
    BY <1>2, <2>1, <2>2 DEF WriteRow, TypeOK, Rows, Frontiers, Cps
  <2>. QED  BY <1>2, <2>3 DEF WriteRow, TypeOK, PosInTime
<1>3. ASSUME NEW c \in Chains, Commit(c)
      PROVE  TypeInv'
  <2>1. committed' \in Frontiers
    BY <1>3 DEF Commit, TypeOK, Frontiers
  <2>. QED  BY <1>3, <2>1 DEF Commit, TypeOK, PosInTime
<1>4. ASSUME NEW c \in Chains, Rollback(c)
      PROVE  TypeInv'
  <2>1. PICK t \in 0..head[c], k \in 0..top[c] :
            /\ history' = {r \in history : r.chain # c \/ r.cp <= k}
            /\ top' = [top EXCEPT ![c] = k]
            /\ head' = [head EXCEPT ![c] = t]
            /\ committed' = [committed EXCEPT ![c] = IF k < @ THEN k ELSE @]
    BY <1>4 DEF Rollback
  <2>2. t \in Time /\ k \in 0..MaxCp
    BY <2>1 DEF TypeOK, Time, Frontiers
  <2>3. /\ history' \subseteq Rows /\ head' \in [Chains -> Time]
        /\ top' \in Frontiers /\ committed' \in Frontiers
    BY <2>1, <2>2 DEF TypeOK, Frontiers
  <2>. QED  BY <1>4, <2>3 DEF Rollback, TypeOK, PosInTime
<1>5. ASSUME NEW r \in Rewinders, ReadForRewind(r)
      PROVE  TypeInv'
  <2>1. read' \in [Rewinders -> Watermarks]
    BY <1>5 DEF ReadForRewind, TypeOK
  <2>. QED  BY <1>5, <2>1 DEF ReadForRewind, TypeOK, PosInTime
<1>6. ASSUME NEW r \in Rewinders, WriteRewind(r)
      PROVE  TypeInv'
  <2>1. read[r] \in Watermarks /\ NoWatermark \in Watermarks
    BY DEF TypeOK, NoWatermark, NoFrontier, Watermarks, Frontiers, Time
  <2>2. moves' \in Nat
    BY <1>6 DEF WriteRewind, TypeOK
  <2>3. wm' \in Watermarks
    <3>1. PICK t \in 0..read[r].at :
              wm' = [at |-> t, cps |-> read[r].cps, moved |-> moves + 1, kind |-> "rewind",
                     since |-> read[r].moved]
      BY <1>6 DEF WriteRewind
    <3>2. t \in Time
      BY <2>1, <3>1 DEF Watermarks, Time
    <3>. QED  BY <2>1, <3>1, <3>2 DEF Watermarks, TypeOK
  <2>4. read' \in [Rewinders -> Watermarks]
    BY <1>6, <2>1 DEF WriteRewind, TypeOK
  <2>. QED  BY <1>6, <2>2, <2>3, <2>4 DEF WriteRewind, TypeOK, PosInTime
<1>. QED  BY <1>1, <1>2, <1>3, <1>4, <1>5, <1>6

\* A step that is planned: its range and whether it counted an event.
LEMMA PlanTypeInv ==
    ASSUME TypeInv, NEW p \in Advancers, NEW from \in Nat,
           NEW step \in {"late", "retry", "window", "provisional", "rescue"},
           Plan(p, from, step)
    PROVE  TypeInv'
<1>1. found' \in [Advancers -> BOOLEAN]
  BY Zenon DEF TypeInv, TypeOK, Plan
<1>2. pos' \in [Advancers -> Nat] /\ pc' \in [Advancers -> Steps]
  BY DEF TypeInv, TypeOK, Plan, Goto, Steps
<1>3. PosInTime'
  BY DEF TypeInv, PosInTime, TypeOK, Plan, Goto
<1>. QED  BY <1>1, <1>2, <1>3 DEF TypeInv, TypeOK, Plan, envio

\* A sub-range that is stored adds rows of the history, and moves pos to its end.
LEMMA StoreUpToTypes ==
    ASSUME TypeInv, NEW p \in Advancers, NEW hi \in Nat, StoreUpTo(p, hi)
    PROVE  stored' \subseteq Rows /\ pos' \in [Advancers -> Nat]
<1>1. \A from, to : Between(p, from, to) \subseteq Rows
  BY DEF TypeInv, TypeOK, Between, Selected, LateRows, Visible
<1>. QED  BY <1>1 DEF StoreUpTo, TypeInv, TypeOK

LEMMA StopTypeInv ==
    ASSUME TypeInv, NEW p \in Advancers, Stop(p), wm' \in Watermarks,
           UNCHANGED <<clock, envio, stored, moves, read>>
    PROVE  TypeInv'
<1>1. PosInTime'
  BY DEF TypeInv, PosInTime, TypeOK, Stop, Goto
<1>. QED  BY <1>1, StopTypes DEF TypeInv, TypeOK, envio

\* The steps of an advance, those that fail and die among them.
LEMMA AdvanceTypeInv ==
    ASSUME TypeInv, NEW p \in Advancers, Step(p) \/ Fail(p) \/ Crash(p)
    PROVE  TypeInv'
<1>. USE DEF TypeInv
<1>1. CASE ReadMovedAt(p)
  BY <1>1 DEF ReadMovedAt, TypeOK, PosInTime, Goto, Steps, Watermarks, envio
<1>2. CASE ReadFrontier(p)
  BY <1>2 DEF ReadFrontier, TypeOK, PosInTime, Goto, Steps, envio
<1>3. CASE ReadWatermark(p)
  BY <1>3 DEF ReadWatermark, TypeOK, PosInTime, Goto, Steps, Watermarks, envio
<1>4. CASE ReadTarget(p)
  <2>1. AfterTarget(p) \in {"first", "planRetry", "planLate"}
    BY DEF AfterTarget
  <2>. QED  BY <1>4, <2>1 DEF ReadTarget, TypeOK, PosInTime, Goto, Steps, envio
<1>5. CASE PlanLate(p)
  BY <1>5, PlanTypeInv DEF PlanLate
<1>6. CASE PlanRetry(p)
  <2>1. RetryStart(p) \in Nat
    BY DEF RetryStart, TypeOK, Watermarks, Time
  <2>. QED  BY <1>6, <2>1, PlanTypeInv DEF PlanRetry
<1>7. CASE PlanWindow(p) \/ PlanProvisional(p) \/ PlanRescue(p)
  <2>1. reached[p] \in Nat
    BY DEF TypeOK, Time
  <2>. QED  BY <1>7, <2>1, PlanTypeInv DEF PlanWindow, PlanProvisional, PlanRescue
<1>8. CASE StoreChunk(p)
  <2>1. stored' \subseteq Rows /\ pos' \in [Advancers -> Nat]
    BY <1>8, StoreUpToTypes DEF StoreChunk
  <2>2. PosInTime'
    BY <1>8 DEF StoreChunk, StoreUpTo, PosInTime, TypeOK
  <2>. QED  BY <1>8, <2>1, <2>2 DEF StoreChunk, TypeOK, envio
<1>9. CASE EndLate(p)
  <2>1. found' \in [Advancers -> BOOLEAN]
    BY <1>9, Zenon DEF EndLate, TypeOK
  <2>. QED  BY <1>9, <2>1 DEF EndLate, TypeOK, PosInTime, Goto, Steps, envio
<1>10. CASE EndRetry(p)
  <2>1. found' \in [Advancers -> BOOLEAN]
    BY <1>10, Zenon DEF EndRetry, TypeOK
  <2>2. pos' \in [Advancers -> Nat] /\ pos'[p] \in Time
    BY <1>10 DEF EndRetry, MoveAloneTo, TypeOK, Time
  <2>. QED  BY <1>10, <2>1, <2>2 DEF EndRetry, TypeOK, PosInTime, Goto, Steps, envio
<1>11. CASE First(p)
  <2>1. PICK start \in Time : /\ pos' = [pos EXCEPT ![p] = start]
                              /\ reached' = [reached EXCEPT ![p] = start]
    BY <1>11 DEF First
  <2>2. pc' \in [Advancers -> Steps]
    BY <1>11 DEF First, TypeOK, Goto, Steps
  <2>3. pos' \in [Advancers -> Nat] /\ reached' \in [Advancers -> Time]
    BY <2>1 DEF TypeOK, Time
  <2>4. PosInTime'
    BY <1>11, <2>1 DEF First, PosInTime, TypeOK, Goto
  <2>. QED  BY <1>11, <2>2, <2>3, <2>4 DEF First, TypeOK, envio
<1>12. CASE NoEvents(p) \/ Superseded(p) \/ Finish(p) \/ Crash(p)
  BY <1>12, StopTypeInv DEF NoEvents, Superseded, Finish, Crash, TypeOK
<1>13. CASE StoreWindow(p)
  <2>1. PICK hi \in Time : StoreUpTo(p, hi)
    BY <1>13 DEF StoreWindow
  <2>2. stored' \subseteq Rows /\ pos' \in [Advancers -> Nat]
    BY <2>1, StoreUpToTypes DEF Time
  <2>3. PosInTime'
    BY <1>13, <2>1 DEF StoreWindow, StoreUpTo, PosInTime, TypeOK, Goto
  <2>. QED  BY <1>13, <2>2, <2>3 DEF StoreWindow, TypeOK, Goto, Steps, envio
<1>14. CASE Check(p)
  BY <1>14 DEF Check, TypeOK, PosInTime, Goto, Steps, envio
<1>15. CASE Insert(p)
  <2>1. wm' \in Watermarks
    BY <1>15, NewRowTypes DEF Insert, PosInTime
  <2>2. reached' \in [Advancers -> Time] /\ seen' \in [Advancers -> Nat]
    BY <1>15 DEF Insert, PosInTime, TypeOK
  <2>3. pc' \in [Advancers -> Steps] /\ PosInTime'
    BY <1>15 DEF Insert, PosInTime, TypeOK, Goto, Steps
  <2>. QED  BY <1>15, <2>1, <2>2, <2>3 DEF Insert, TypeOK, envio
<1>16. CASE InsertAndPause(p)
  <2>1. wm' \in Watermarks
    BY <1>16, NewRowTypes DEF InsertAndPause, PosInTime
  <2>. QED  BY <1>16, <2>1, StopTypeInv DEF InsertAndPause
<1>17. CASE Fail(p)
  <2>1. stored' \subseteq Rows
    <3>1. \A from, to : Between(p, from, to) \subseteq Rows
      BY DEF TypeOK, Between, Selected, LateRows, Visible
    <3>. QED  BY <1>17, <3>1 DEF Fail, TypeOK
  <2>2. wm' \in Watermarks
    BY <1>17, NewRowTypes DEF Fail, PosInTime, TypeOK
  <2>3. found' \in [Advancers -> BOOLEAN]
    BY <1>17, Zenon DEF Fail, TypeOK
  <2>4. pos' \in [Advancers -> Nat] /\ pc' \in [Advancers -> Steps]
    BY <1>17 DEF Fail, TypeOK, Goto, Steps, Time
  <2>5. PosInTime'
    BY <1>17 DEF Fail, PosInTime, TypeOK, Goto
  <2>. QED  BY <1>17, <2>1, <2>2, <2>3, <2>4, <2>5 DEF Fail, TypeOK, envio
<1>. QED  BY <1>1, <1>2, <1>3, <1>4, <1>5, <1>6, <1>7, <1>8, <1>9, <1>10, <1>11, <1>12,
             <1>13, <1>14, <1>15, <1>16, <1>17 DEF Step

LEMMA StepTypeInv == TypeInv /\ [Next]_vars => TypeInv'
<1>. SUFFICES ASSUME TypeInv, [Next]_vars PROVE TypeInv'
  OBVIOUS
<1>1. CASE UNCHANGED vars
  BY <1>1 DEF TypeInv, TypeOK, PosInTime, vars, envio, locals
<1>. QED  BY <1>1, EnvTypeInv, AdvanceTypeInv DEF Next

\* Type correctness (advanceVersion, rewind): every variable keeps its type.
THEOREM TypeCorrect == Spec => []TypeOK
<1>1. TypeInv => TypeOK
  BY DEF TypeInv
<1>. QED  BY <1>1, InitTypeInv, StepTypeInv, PTL DEF Spec

-----------------------------------------------------------------------------
(* No rewind is lost.  movedAt is read before the watermark: an advance     *)
(* whose movedAt is the one of a rewind has therefore read the rewound row  *)
(* or a later one, and the check refuses a later one.  Between the check    *)
(* and the insert a rewind may still land; its moved_at is then later than  *)
(* the one the insert carries, so the insert is not the row readers take.   *)

Opened(p) == pc[p] \notin {"idle", "frontier", "watermark"}

StartedFromRewind(p) ==
    Opened(p) /\ wm.kind = "rewind" /\ seen[p] = wm.moved => base[p].moved = wm.moved

InsertsOverSeen(p) ==
    pc[p] = "insert" /\ wm.kind = "rewind"
    => next[p] # wm.moved /\ (next[p] > wm.moved => seen[p] = wm.moved)

RewindInv ==
    /\ wm.moved <= moves
    /\ \A p \in Advancers : /\ seen[p] <= moves
                            /\ next[p] <= moves
                            /\ StartedFromRewind(p)
                            /\ InsertsOverSeen(p)

LEMMA InitRewindInv == Init => RewindInv
  BY DEF Init, RewindInv, StartedFromRewind, InsertsOverSeen, NoWatermark, Opened

\* A step that changes none of what the compare-and-set looks at.
LEMMA QuietRewindInv ==
    ASSUME TypeInv, RewindInv, NEW p \in Advancers, NEW step \in Steps \ {"insert"},
           Goto(p, step), UNCHANGED <<wm, moves, seen, base, next>>,
           Opened(p) \/ step \in {"idle", "frontier", "watermark"}
    PROVE  RewindInv'
<1>. USE DEF TypeInv, TypeOK, Goto
<1>1. \A q \in Advancers : StartedFromRewind(q)'
  BY DEF RewindInv, StartedFromRewind, Opened
<1>2. \A q \in Advancers : InsertsOverSeen(q)'
  BY DEF RewindInv, InsertsOverSeen
<1>. QED  BY <1>1, <1>2 DEF RewindInv

\* An advance that stops forgets what it saw.
LEMMA StopRewindInv ==
    ASSUME TypeInv, RewindInv, NEW p \in Advancers, Stop(p), moves' = moves,
           \/ wm' = wm
           \/ wm'.kind = "advance" /\ wm'.moved <= moves
    PROVE  RewindInv'
<1>. USE DEF TypeInv, TypeOK, Stop, Goto
<1>1. \A q \in Advancers : StartedFromRewind(q)'
  BY DEF RewindInv, StartedFromRewind, Opened
<1>2. \A q \in Advancers : InsertsOverSeen(q)'
  BY DEF RewindInv, InsertsOverSeen
<1>3. wm'.moved <= moves'
  BY DEF RewindInv
<1>4. \A q \in Advancers : seen'[q] <= moves' /\ next'[q] <= moves'
  BY DEF RewindInv
<1>. QED  BY <1>1, <1>2, <1>3, <1>4 DEF RewindInv

\* What the insert of an advance leaves behind.
LEMMA InsertWrites ==
    ASSUME TypeInv, RewindInv, NEW p \in Advancers, WriteNewRow(p)
    PROVE  \/ wm' = wm /\ next[p] <= wm.moved
           \/ /\ next[p] > wm.moved
              /\ wm'.kind = "advance"
              /\ wm'.moved = next[p]
              /\ wm'.since = base[p].moved
  BY DEF TypeInv, TypeOK, WriteNewRow, NewRow, Watermarks

LEMMA StepRewindInv ==
    ASSUME TypeInv, RewindInv, [Next]_vars
    PROVE  RewindInv'
<1>. USE DEF TypeInv, envio, locals
<1>1. CASE UNCHANGED vars \/ Tick \/ \E c \in Chains : WriteRow(c) \/ Commit(c) \/ Rollback(c)
  <2>1. UNCHANGED <<wm, moves, locals>>
    BY <1>1 DEF vars, Tick, WriteRow, Commit, Rollback
  <2>. QED  BY <2>1 DEF RewindInv, StartedFromRewind, InsertsOverSeen, Opened
<1>2. ASSUME NEW r \in Rewinders, ReadForRewind(r)
      PROVE  RewindInv'
  BY <1>2 DEF ReadForRewind, RewindInv, StartedFromRewind, InsertsOverSeen, Opened
<1>3. ASSUME NEW r \in Rewinders, WriteRewind(r)
      PROVE  RewindInv'
  <2>1. wm'.moved = moves + 1 /\ moves' = moves + 1 /\ UNCHANGED locals
    BY <1>3 DEF WriteRewind
  <2>2. \A q \in Advancers : seen[q] < wm'.moved /\ next[q] < wm'.moved
    BY <2>1 DEF RewindInv, TypeOK
  <2>3. \A q \in Advancers : StartedFromRewind(q)' /\ InsertsOverSeen(q)'
    BY <2>1, <2>2 DEF StartedFromRewind, InsertsOverSeen, TypeOK
  <2>4. \A q \in Advancers : seen'[q] <= moves' /\ next'[q] <= moves'
    BY <2>1, <2>2 DEF TypeOK
  <2>. QED  BY <2>1, <2>3, <2>4 DEF RewindInv, TypeOK
<1>4. ASSUME NEW p \in Advancers, ReadMovedAt(p)
      PROVE  RewindInv'
  <2>1. \A q \in Advancers : StartedFromRewind(q)'
    BY <1>4 DEF ReadMovedAt, Goto, TypeOK, RewindInv, StartedFromRewind, Opened
  <2>2. \A q \in Advancers : InsertsOverSeen(q)'
    BY <1>4 DEF ReadMovedAt, Goto, TypeOK, RewindInv, InsertsOverSeen
  <2>. QED  BY <1>4, <2>1, <2>2 DEF ReadMovedAt, TypeOK, RewindInv
<1>5. ASSUME NEW p \in Advancers, ReadWatermark(p)
      PROVE  RewindInv'
  <2>1. \A q \in Advancers : StartedFromRewind(q)'
    BY <1>5 DEF ReadWatermark, Goto, TypeOK, RewindInv, StartedFromRewind, Opened
  <2>2. \A q \in Advancers : InsertsOverSeen(q)'
    BY <1>5 DEF ReadWatermark, Goto, TypeOK, RewindInv, InsertsOverSeen
  <2>. QED  BY <1>5, <2>1, <2>2 DEF ReadWatermark, RewindInv
<1>6. ASSUME NEW p \in Advancers,
             \/ ReadFrontier(p) \/ ReadTarget(p) \/ PlanLate(p) \/ PlanRetry(p)
             \/ PlanWindow(p) \/ PlanProvisional(p) \/ PlanRescue(p) \/ EndLate(p)
             \/ EndRetry(p) \/ First(p) \/ StoreWindow(p)
      PROVE  RewindInv'
  <2>1. /\ \E step \in Steps \ {"insert"} :
              /\ Goto(p, step)
              /\ Opened(p) \/ step \in {"idle", "frontier", "watermark"}
        /\ UNCHANGED <<wm, moves, seen, base, next>>
    BY <1>6 DEF ReadFrontier, ReadTarget, AfterTarget, PlanLate, PlanRetry, PlanWindow,
       PlanProvisional, PlanRescue, Plan, EndLate, EndRetry, First, StoreWindow, Opened, Steps
  <2>. QED  BY <2>1, QuietRewindInv
<1>7. ASSUME NEW p \in Advancers, StoreChunk(p)
      PROVE  RewindInv'
  BY <1>7 DEF StoreChunk, RewindInv, StartedFromRewind, InsertsOverSeen, Opened
<1>8. ASSUME NEW p \in Advancers, NoEvents(p) \/ Superseded(p) \/ Finish(p) \/ Crash(p)
      PROVE  RewindInv'
  BY <1>8, StopRewindInv DEF NoEvents, Superseded, Finish, Crash
<1>9. ASSUME NEW p \in Advancers, Check(p)
      PROVE  RewindInv'
  <2>1. \A q \in Advancers : StartedFromRewind(q)'
    BY <1>9 DEF Check, Goto, TypeOK, RewindInv, StartedFromRewind, Opened
  <2>2. \A q \in Advancers : InsertsOverSeen(q)'
    BY <1>9 DEF Check, Unchanged, Goto, TypeOK, RewindInv, InsertsOverSeen, Watermarks
  <2>3. wm'.moved <= moves'
    BY <1>9 DEF Check, TypeOK, RewindInv, Watermarks
  <2>4. \A q \in Advancers : seen'[q] <= moves' /\ next'[q] <= moves'
    BY <1>9 DEF Check, TypeOK, RewindInv
  <2>. QED  BY <2>1, <2>2, <2>3, <2>4 DEF RewindInv
<1>10. ASSUME NEW p \in Advancers, Insert(p)
       PROVE  RewindInv'
  <2>1. CASE wm' = wm /\ next[p] <= wm.moved
    <3>1. \A q \in Advancers : StartedFromRewind(q)'
      BY <1>10, <2>1 DEF Insert, Goto, TypeOK, RewindInv, StartedFromRewind,
         InsertsOverSeen, Opened
    <3>2. \A q \in Advancers : InsertsOverSeen(q)'
      BY <1>10, <2>1 DEF Insert, Goto, TypeOK, RewindInv, InsertsOverSeen
    <3>. QED  BY <1>10, <2>1, <3>1, <3>2 DEF Insert, TypeOK, RewindInv
  <2>2. CASE wm'.kind = "advance" /\ wm'.moved = next[p]
    <3>1. \A q \in Advancers : StartedFromRewind(q)' /\ InsertsOverSeen(q)'
      BY <2>2 DEF StartedFromRewind, InsertsOverSeen
    <3>. QED  BY <1>10, <2>2, <3>1 DEF Insert, TypeOK, RewindInv
  <2>. QED  BY <1>10, <2>1, <2>2, InsertWrites DEF Insert
<1>11. ASSUME NEW p \in Advancers, InsertAndPause(p)
       PROVE  RewindInv'
  <2>1. wm' = wm \/ (wm'.kind = "advance" /\ wm'.moved <= moves)
    BY <1>11, InsertWrites DEF InsertAndPause, RewindInv
  <2>. QED  BY <1>11, <2>1, StopRewindInv DEF InsertAndPause
<1>12. ASSUME NEW p \in Advancers, Fail(p)
       PROVE  RewindInv'
  <2>1. CASE wm' = wm
    <3>1. Opened(p) /\ Goto(p, "planRescue") /\ UNCHANGED <<wm, moves, seen, base, next>>
      BY <1>12, <2>1 DEF Fail, Opened
    <3>. QED  BY <3>1, QuietRewindInv DEF Steps
  <2>2. CASE pc[p] = "insert" /\ WriteNewRow(p) /\ wm' # wm
    <3>1. wm'.kind = "advance" /\ wm'.moved = next[p]
      BY <2>2, InsertWrites
    <3>2. \A q \in Advancers : StartedFromRewind(q)' /\ InsertsOverSeen(q)'
      BY <3>1 DEF StartedFromRewind, InsertsOverSeen
    <3>. QED  BY <1>12, <3>1, <3>2 DEF Fail, TypeOK, RewindInv
  <2>. QED  BY <1>12, <2>1, <2>2 DEF Fail
<1>. QED  BY <1>1, <1>2, <1>3, <1>4, <1>5, <1>6, <1>7, <1>8, <1>9, <1>10, <1>11, <1>12
          DEF Next, Step

\* A step that moves the watermark on from a rewound row is the insert of an advance
\* that started from that row.
LEMMA StepKeepsRewind ==
    ASSUME TypeInv, RewindInv, [Next]_vars, wm.kind = "rewind", wm' # wm,
           wm'.kind = "advance"
    PROVE  wm'.since = wm.moved
<1>1. \E p \in Advancers : pc[p] = "insert" /\ WriteNewRow(p)
  <2>1. ASSUME NEW r \in Rewinders, WriteRewind(r)
        PROVE  FALSE
    BY <2>1 DEF WriteRewind
  <2>. QED  BY <2>1 DEF Next, Step, vars, Tick, WriteRow, Commit, Rollback, ReadMovedAt,
       ReadFrontier, ReadWatermark, ReadTarget, PlanLate, PlanRetry, PlanWindow,
       PlanProvisional, PlanRescue, Plan, StoreChunk, EndLate, EndRetry, First, NoEvents,
       StoreWindow, Check, Superseded, Insert, InsertAndPause, Finish, Fail, Crash,
       ReadForRewind
<1>2. PICK p \in Advancers : pc[p] = "insert" /\ WriteNewRow(p)
  BY <1>1
<1>3. next[p] > wm.moved /\ wm'.since = base[p].moved
  BY <1>2, InsertWrites
<1>4. seen[p] = wm.moved
  BY <1>2, <1>3 DEF RewindInv, InsertsOverSeen
<1>. QED  BY <1>2, <1>3, <1>4 DEF RewindInv, StartedFromRewind, Opened

\* Rewinds are not lost (writeWatermarkIfUnchanged, deployments.ts:593), whatever
\* number of advances and operators write the watermark.
THEOREM RewindSafe == Spec => RewindNotLost
<1>1. TypeInv /\ RewindInv /\ [Next]_vars => RewindInv'
  BY StepRewindInv
<1>2. TypeInv /\ RewindInv /\ [Next]_vars =>
          [wm.kind = "rewind" /\ wm'.moved # wm.moved /\ wm'.kind = "advance"
           => wm'.since = wm.moved]_wm
  BY StepKeepsRewind
<1>. QED  BY <1>1, <1>2, StepTypeInv, InitTypeInv, InitRewindInv, PTL DEF Spec, RewindNotLost

-----------------------------------------------------------------------------
(* The gate of ready and switch misses no event without a price, for every *)
(* number of chains, advances and operators, as long as rollbacks stay     *)
(* within the retry window.                                                *)
(*                                                                         *)
(* A watermark row vouches for the rows of its frontier further below it   *)
(* than a rollback reaches: they are stored, and rows of the frontier that *)
(* Envio may still write again lie above.  An advance keeps that promise   *)
(* because what it has passed is stored up to its horizon: the latest time *)
(* it may move the watermark to.                                           *)

\* A rollback takes a chain back to no time further than this before the clock.
Slack == IF Reach = 0 THEN 0 ELSE Reach - 1

RollbacksInReach == Reach <= Retry + 1

LEMMA SlackNumber == Slack \in Nat /\ Reach <= Slack + 1
  BY DEF Slack

LEMMA SlackInRetry ==
    ASSUME RollbacksInReach
    PROVE  Slack <= Retry
  BY DEF RollbacksInReach, Slack

USE SlackNumber

\* Envio writes its rows in order, not after the clock.
EnvioInv ==
    /\ \A c \in Chains : head[c] <= clock /\ committed[c] <= top[c]
    /\ \A r \in history : r.cp <= top[r.chain] /\ r.at <= head[r.chain]

\* Chain c has yet to write (again) rows of a frontier cps: none is older than at.
ReplaysAfter(at, cps) == \A c \in Chains : top[c] < cps[c] => at <= head[c] + Slack

Vouches(w) ==
    /\ w.at <= clock
    /\ ReplaysAfter(w.at, w.cps)
    /\ \A r \in history : r.cp <= w.cps[r.chain] /\ r.at + Slack < w.at => r \in stored

\* The latest time an advance may move the watermark to.
Opening(p) == pc[p] \in {"watermark", "target", "first"}
Running(p) == pc[p] \notin {"idle", "frontier"}
Horizon(p) == IF Opening(p) THEN clock
              ELSE IF reached[p] < target[p] THEN target[p] ELSE reached[p]

\* The rows of p's frontier that no rollback during its run can have brought.
Settled(p) == {r \in Visible(p) : r.at + Slack < Horizon(p)}

FrontierInv(p) ==
    /\ target[p] <= clock
    /\ reached[p] <= clock
    /\ Running(p) => ReplaysAfter(Horizon(p), front[p])

\* Where the steps are: pos between what is recorded and the horizon.
PlaceInv(p) ==
    /\ pc[p] \in {"target", "planLate", "late", "planRetry", "retry"} =>
           reached[p] = base[p].at
    /\ pc[p] \in {"planWindow", "window", "check", "insert"} =>
           reached[p] <= pos[p] /\ pos[p] <= Horizon(p)

\* What each step has stored so far.
LateStored(p) ==
    pc[p] \in {"late", "planRetry", "retry"} =>
        \A r \in Settled(p) :
            /\ r.cp > base[p].cps[r.chain]
            /\ r.at < base[p].at
            /\ pc[p] = "late" => r.at < pos[p]
            => r \in stored

RetryStored(p) ==
    pc[p] = "retry" =>
        \A r \in Settled(p) : RetryStart(p) <= r.at /\ r.at < pos[p] => r \in stored

PassedStored(p) ==
    /\ pc[p] \in {"planWindow", "window", "check", "insert"} =>
           \A r \in Settled(p) : r.at < pos[p] => r \in stored
    /\ pc[p] \in {"planProvisional", "provisional"} =>
           \A r \in Settled(p) : r.at < reached[p] => r \in stored

\* A plan that counted nothing has missed no settled row.
FoundAll(p) ==
    pc[p] \in {"late", "retry", "window", "check", "insert"} /\ ~found[p] =>
        \A r \in Settled(p) :
            /\ pc[p] = "late" => r.cp > base[p].cps[r.chain]
            /\ pos[p] <= r.at
            /\ r.at < IF pc[p] \in {"late", "retry"} THEN base[p].at ELSE target[p]
            => FALSE

AdvanceInv(p) ==
    /\ FrontierInv(p)
    /\ PlaceInv(p)
    /\ LateStored(p)
    /\ RetryStored(p)
    /\ PassedStored(p)
    /\ FoundAll(p)

GateInv ==
    /\ EnvioInv
    /\ Vouches(wm)
    /\ \A r \in Rewinders : Vouches(read[r])
    /\ \A p \in Advancers : Vouches(base[p]) /\ AdvanceInv(p)

-----------------------------------------------------------------------------
(* What every step carries over: the clock and the stored rows only grow,  *)
(* a chain goes back no further than the retry window, and a new row comes *)
(* after every row of its chain.                                           *)

Carries ==
    /\ clock <= clock'
    /\ stored \subseteq stored'
    /\ \A c \in Chains : head[c] <= head'[c] \/ clock <= head'[c] + Slack
    /\ \A c \in Chains, n \in Nat :
           top'[c] < n => top[c] < n \/ clock <= head'[c] + Slack
    /\ \A r \in history' :
           r \in history \/ (top[r.chain] < r.cp /\ head[r.chain] <= r.at)

LEMMA QuietCarries ==
    ASSUME TypeInv, UNCHANGED <<clock, envio>>, stored \subseteq stored'
    PROVE  Carries
  BY DEF Carries, envio, TypeInv, TypeOK, Time

LEMMA WriteRowCarries ==
    ASSUME TypeInv, EnvioInv, NEW c \in Chains, WriteRow(c)
    PROVE  Carries /\ EnvioInv'
<1>. USE DEF TypeInv, TypeOK, Time, Frontiers
<1>1. PICK t \in head[c]..clock :
          /\ history' = history \cup {[chain |-> c, cp |-> top[c] + 1, at |-> t]}
          /\ head' = [head EXCEPT ![c] = t]
  BY DEF WriteRow
<1>2. top' = [top EXCEPT ![c] = top[c] + 1] /\ UNCHANGED <<clock, stored, committed>>
  BY DEF WriteRow
<1>3. Carries
  <2>1. \A d \in Chains : head[d] <= head'[d] /\ top[d] <= top'[d]
    BY <1>1, <1>2
  <2>2. \A r \in history' :
            r \in history \/ (top[r.chain] < r.cp /\ head[r.chain] <= r.at)
    BY <1>1
  <2>3. \A d \in Chains, n \in Nat : top'[d] < n => top[d] < n
    BY <1>2, <2>1
  <2>. QED  BY <1>2, <2>1, <2>2, <2>3 DEF Carries
<1>4. EnvioInv'
  <2>1. \A d \in Chains : head'[d] <= clock' /\ committed'[d] <= top'[d]
    BY <1>1, <1>2 DEF EnvioInv
  <2>2. \A r \in history' : r.cp <= top'[r.chain] /\ r.at <= head'[r.chain]
    <3>1. ASSUME NEW r \in history
          PROVE  r.cp <= top'[r.chain] /\ r.at <= head'[r.chain]
      BY <1>1, <1>2 DEF EnvioInv, Rows, Cps
    <3>2. /\ top[c] + 1 <= top'[c]
          /\ t <= head'[c]
      BY <1>1, <1>2
    <3>. QED  BY <1>1, <3>1, <3>2
  <2>. QED  BY <2>1, <2>2 DEF EnvioInv
<1>. QED  BY <1>3, <1>4

LEMMA RollbackCarries ==
    ASSUME TypeInv, EnvioInv, NEW c \in Chains, Rollback(c)
    PROVE  Carries /\ EnvioInv'
<1>. USE DEF TypeInv, TypeOK, Time, Frontiers
<1>1. PICK t \in 0..head[c], k \in 0..top[c] :
          /\ clock < t + Reach
          /\ k < top[c]
          /\ \A r \in history : r.chain = c => (r.cp > k <=> r.at >= t)
          /\ history' = {r \in history : r.chain # c \/ r.cp <= k}
          /\ top' = [top EXCEPT ![c] = k]
          /\ head' = [head EXCEPT ![c] = t]
          /\ committed' = [committed EXCEPT ![c] = IF k < @ THEN k ELSE @]
  BY DEF Rollback
<1>2. UNCHANGED <<clock, stored>>
  BY DEF Rollback
<1>3. Carries
  <2>1. clock <= head'[c] + Slack
    BY <1>1
  <2>2. \A d \in Chains : d # c => head'[d] = head[d] /\ top'[d] = top[d]
    BY <1>1
  <2>3. history' \subseteq history
    BY <1>1
  <2>4. \A d \in Chains : head[d] <= head'[d] \/ clock <= head'[d] + Slack
    BY <2>1, <2>2
  <2>5. \A d \in Chains, n \in Nat :
            top'[d] < n => top[d] < n \/ clock <= head'[d] + Slack
    BY <2>1, <2>2
  <2>. QED  BY <1>2, <2>3, <2>4, <2>5 DEF Carries
<1>4. EnvioInv'
  <2>1. \A d \in Chains : head'[d] <= clock' /\ committed'[d] <= top'[d]
    BY <1>1, <1>2 DEF EnvioInv
  <2>2. ASSUME NEW r \in history'
        PROVE  r.cp <= top'[r.chain] /\ r.at <= head'[r.chain]
    <3>1. r \in history /\ r.chain \in Chains /\ r.cp \in Nat /\ r.at \in Nat
      BY <1>1 DEF Rows, Cps
    <3>2. CASE r.chain = c
      <4>1. r.cp <= k
        BY <1>1, <3>2
      <4>2. r.at < t
        BY <1>1, <3>1, <3>2, <4>1
      <4>. QED  BY <1>1, <3>1, <3>2, <4>1, <4>2
    <3>3. CASE r.chain # c
      BY <1>1, <3>1, <3>3 DEF EnvioInv
    <3>. QED  BY <3>2, <3>3
  <2>. QED  BY <2>1, <2>2 DEF EnvioInv
<1>. QED  BY <1>3, <1>4

\* No step of an advance or an operator touches Envio, and none unstores a row.
LEMMA JobCarries ==
    ASSUME TypeInv, EnvioInv,
           \/ \E p \in Advancers : Step(p) \/ Fail(p) \/ Crash(p)
           \/ \E r \in Rewinders : ReadForRewind(r) \/ WriteRewind(r)
    PROVE  Carries /\ EnvioInv' /\ clock' = clock /\ UNCHANGED <<history, top, head>>
<1>1. ASSUME NEW p \in Advancers, Step(p) \/ Fail(p) \/ Crash(p)
      PROVE  UNCHANGED <<clock, envio>> /\ stored \subseteq stored'
  <2>1. CASE \/ ReadMovedAt(p) \/ ReadFrontier(p) \/ ReadWatermark(p) \/ ReadTarget(p)
             \/ PlanLate(p) \/ PlanRetry(p) \/ PlanWindow(p) \/ PlanProvisional(p)
             \/ PlanRescue(p) \/ EndLate(p) \/ EndRetry(p) \/ First(p) \/ NoEvents(p)
             \/ Check(p) \/ Superseded(p) \/ Insert(p) \/ InsertAndPause(p) \/ Finish(p)
             \/ Crash(p)
    BY <2>1 DEF ReadMovedAt, ReadFrontier, ReadWatermark, ReadTarget, PlanLate, PlanRetry,
       PlanWindow, PlanProvisional, PlanRescue, Plan, EndLate, EndRetry, First, NoEvents,
       Check, Superseded, Insert, InsertAndPause, Finish, Crash
  <2>2. CASE StoreChunk(p) \/ StoreWindow(p)
    BY <2>2 DEF StoreChunk, StoreWindow, StoreUpTo
  <2>3. CASE Fail(p)
    BY <2>3 DEF Fail
  <2>. QED  BY <1>1, <2>1, <2>2, <2>3 DEF Step
<1>2. ASSUME NEW r \in Rewinders, ReadForRewind(r) \/ WriteRewind(r)
      PROVE  UNCHANGED <<clock, envio>> /\ stored \subseteq stored'
  BY <1>2 DEF ReadForRewind, WriteRewind
<1>. QED  BY <1>1, <1>2, QuietCarries DEF EnvioInv, envio

LEMMA StepCarries ==
    ASSUME TypeInv, EnvioInv, [Next]_vars
    PROVE  Carries /\ EnvioInv'
<1>1. CASE UNCHANGED vars
  BY <1>1, QuietCarries DEF vars, EnvioInv, envio
<1>2. CASE Tick
  <2>1. clock' = clock + 1 /\ UNCHANGED <<history, top, head, committed, stored>>
    BY <1>2 DEF Tick, envio
  <2>2. Carries
    BY <2>1 DEF Carries, TypeInv, TypeOK, Time
  <2>3. EnvioInv'
    BY <2>1 DEF EnvioInv, TypeInv, TypeOK, Time
  <2>. QED  BY <2>2, <2>3
<1>3. ASSUME NEW c \in Chains, Commit(c)
      PROVE  Carries /\ EnvioInv'
  <2>1. UNCHANGED <<clock, history, top, head, stored>>
    BY <1>3 DEF Commit
  <2>2. Carries
    BY <2>1 DEF Carries, TypeInv, TypeOK, Time
  <2>3. \A d \in Chains : committed'[d] <= top[d]
    BY <1>3 DEF Commit, EnvioInv, TypeInv, TypeOK, Frontiers
  <2>. QED  BY <2>1, <2>2, <2>3 DEF EnvioInv
<1>. QED  BY <1>1, <1>2, <1>3, WriteRowCarries, RollbackCarries, JobCarries DEF Next

-----------------------------------------------------------------------------
(* What a watermark row vouches for, it vouches for after every step.      *)

VouchesNext(w) ==
    /\ w.at <= clock'
    /\ \A c \in Chains : top'[c] < w.cps[c] => w.at <= head'[c] + Slack
    /\ \A r \in history' : r.cp <= w.cps[r.chain] /\ r.at + Slack < w.at => r \in stored'

\* The types the arithmetic below needs.
LEMMA Numbers ==
    ASSUME TypeInv
    PROVE  /\ clock \in Nat
           /\ \A c \in Chains : top[c] \in Nat /\ head[c] \in Nat
           /\ \A r \in history : r.chain \in Chains /\ r.cp \in Nat /\ r.at \in Nat
           /\ wm \in Watermarks
           /\ \A p \in Advancers :
                  /\ base[p] \in Watermarks
                  /\ \A c \in Chains : front[p][c] \in Nat
                  /\ target[p] \in Nat /\ reached[p] \in Nat /\ pos[p] \in Nat
  BY DEF TypeInv, TypeOK, Time, Frontiers, Rows, Cps

LEMMA WatermarkNumbers ==
    ASSUME NEW w \in Watermarks
    PROVE  w.at \in Nat /\ \A c \in Chains : w.cps[c] \in Nat
  BY DEF Watermarks, Time, Frontiers

LEMMA NumbersNext ==
    ASSUME TypeInv'
    PROVE  /\ clock' \in Nat
           /\ \A c \in Chains : top'[c] \in Nat /\ head'[c] \in Nat
           /\ \A r \in history' : r.chain \in Chains /\ r.cp \in Nat /\ r.at \in Nat
           /\ \A p \in Advancers :
                  /\ \A c \in Chains : front'[p][c] \in Nat
                  /\ target'[p] \in Nat /\ reached'[p] \in Nat /\ pos'[p] \in Nat
  BY DEF TypeInv, TypeOK, Time, Frontiers, Rows, Cps

LEMMA VouchesCarries ==
    ASSUME TypeInv, TypeInv', Carries, NEW w \in Watermarks, Vouches(w)
    PROVE  VouchesNext(w)
<1>. /\ clock \in Nat /\ clock' \in Nat
     /\ \A c \in Chains : /\ top[c] \in Nat /\ head[c] \in Nat
                          /\ top'[c] \in Nat /\ head'[c] \in Nat
                          /\ w.cps[c] \in Nat
     /\ \A r \in history' : r.chain \in Chains /\ r.cp \in Nat /\ r.at \in Nat
     /\ w.at \in Nat
  BY Numbers, NumbersNext, WatermarkNumbers
<1>1. w.at <= clock'
  BY DEF Vouches, Carries
<1>2. ASSUME NEW c \in Chains, top'[c] < w.cps[c]
      PROVE  w.at <= head'[c] + Slack
  <2>1. CASE top[c] < w.cps[c]
    BY <2>1 DEF Vouches, ReplaysAfter, Carries
  <2>2. CASE clock <= head'[c] + Slack
    BY <2>2 DEF Vouches
  <2>. QED  BY <1>2, <2>1, <2>2 DEF Carries
<1>3. ASSUME NEW r \in history', r.cp <= w.cps[r.chain], r.at + Slack < w.at
      PROVE  r \in stored'
  <2>1. CASE r \in history
    BY <1>3, <2>1 DEF Vouches, Carries
  <2>2. CASE top[r.chain] < r.cp /\ head[r.chain] <= r.at
    <3>1. w.at <= head[r.chain] + Slack
      BY <1>3, <2>2 DEF Vouches, ReplaysAfter
    <3>. QED  BY <1>3, <2>2, <3>1
  <2>. QED  BY <2>1, <2>2 DEF Carries
<1>. QED  BY <1>1, <1>2, <1>3 DEF VouchesNext

-----------------------------------------------------------------------------
(* What an advance has stored up to its horizon, it has after every step.  *)

LEMMA HorizonNumber ==
    ASSUME TypeInv, NEW p \in Advancers
    PROVE  Horizon(p) \in Nat
  BY Numbers DEF Horizon

LEMMA HorizonPast ==
    ASSUME TypeInv, NEW p \in Advancers, FrontierInv(p)
    PROVE  Horizon(p) <= clock
  BY Numbers DEF Horizon, FrontierInv

LEMMA HorizonNextNumber ==
    ASSUME TypeInv', NEW p \in Advancers
    PROVE  Horizon(p)' \in Nat
  BY NumbersNext DEF Horizon

\* Nothing settles while an advance runs: new rows of its frontier are replays.
LEMMA SettledShrinks ==
    ASSUME TypeInv, TypeInv', Carries, NEW p \in Advancers, Running(p), FrontierInv(p),
           front'[p] = front[p], Horizon(p)' <= Horizon(p)
    PROVE  Settled(p)' \subseteq Settled(p)
<1>. /\ \A c \in Chains : top[c] \in Nat /\ head[c] \in Nat /\ front[p][c] \in Nat
     /\ \A r \in history' : r.chain \in Chains /\ r.cp \in Nat /\ r.at \in Nat
     /\ Horizon(p) \in Nat /\ Horizon(p)' \in Nat
  BY Numbers, NumbersNext, HorizonNumber, HorizonNextNumber
<1>1. ASSUME NEW r \in Settled(p)'
      PROVE  r \in Settled(p)
  <2>1. r \in history' /\ r.cp <= front[p][r.chain] /\ r.at + Slack < Horizon(p)'
    BY <1>1 DEF Settled, Visible
  <2>2. CASE r \in history
    BY <2>1, <2>2 DEF Settled, Visible
  <2>3. CASE top[r.chain] < r.cp /\ head[r.chain] <= r.at
    <3>1. Horizon(p) <= head[r.chain] + Slack
      BY <2>1, <2>3 DEF FrontierInv, ReplaysAfter
    <3>. QED  BY <2>1, <2>3, <3>1
  <2>. QED  BY <2>1, <2>2, <2>3 DEF Carries
<1>. QED  BY <1>1

LEMMA ReplaysCarry ==
    ASSUME TypeInv, TypeInv', Carries, NEW p \in Advancers, Running(p), FrontierInv(p),
           front'[p] = front[p], Horizon(p)' <= Horizon(p)
    PROVE  ReplaysAfter(Horizon(p), front[p])'
<1>. /\ clock \in Nat /\ clock' \in Nat
     /\ \A c \in Chains : /\ top[c] \in Nat /\ head[c] \in Nat /\ front[p][c] \in Nat
                          /\ top'[c] \in Nat /\ head'[c] \in Nat
     /\ Horizon(p) \in Nat /\ Horizon(p)' \in Nat
  BY Numbers, NumbersNext, HorizonNumber, HorizonNextNumber
<1>1. ASSUME NEW c \in Chains, top'[c] < front[p][c]
      PROVE  Horizon(p)' <= head'[c] + Slack
  <2>1. CASE top[c] < front[p][c]
    BY <2>1, HorizonPast DEF FrontierInv, ReplaysAfter, Carries
  <2>2. CASE clock <= head'[c] + Slack
    BY <2>2, HorizonPast
  <2>. QED  BY <1>1, <2>1, <2>2 DEF Carries
<1>. QED  BY <1>1 DEF ReplaysAfter

\* An advance that stands still while the others go on.
LEMMA StillCarries ==
    ASSUME TypeInv, TypeInv', Carries, NEW p \in Advancers, AdvanceInv(p),
           pc'[p] = pc[p], front'[p] = front[p], base'[p] = base[p],
           target'[p] = target[p], pos'[p] = pos[p], found'[p] = found[p],
           reached'[p] = reached[p],
           Opening(p) => clock' = clock
    PROVE  AdvanceInv(p)'
<1>0. target'[p] <= clock' /\ reached'[p] <= clock'
  <2>1. clock \in Nat /\ clock' \in Nat /\ target[p] \in Nat /\ reached[p] \in Nat
    BY Numbers, NumbersNext
  <2>2. target[p] <= clock /\ reached[p] <= clock /\ clock <= clock'
    BY DEF AdvanceInv, FrontierInv, Carries
  <2>. QED  BY <2>1, <2>2
<1>1. CASE ~Running(p)
  BY <1>0, <1>1 DEF AdvanceInv, FrontierInv, PlaceInv, LateStored, RetryStored,
     PassedStored, FoundAll, Running
<1>2. CASE Running(p)
  <2>1. Horizon(p)' = Horizon(p) /\ Running(p)'
    BY <1>2 DEF Horizon, Opening, Running
  <2>2. Horizon(p)' <= Horizon(p)
    BY <2>1, HorizonNumber
  <2>3. Settled(p)' \subseteq Settled(p) /\ stored \subseteq stored'
    BY <1>2, <2>2, SettledShrinks DEF AdvanceInv, Carries
  <2>4. FrontierInv(p)'
    BY <1>0, <1>2, <2>1, <2>2, ReplaysCarry DEF AdvanceInv, FrontierInv
  <2>5. PlaceInv(p)'
    BY <2>1 DEF AdvanceInv, PlaceInv
  <2>6. LateStored(p)' /\ PassedStored(p)'
    BY <2>3 DEF AdvanceInv, LateStored, PassedStored
  <2>7. RetryStored(p)'
    BY <2>3 DEF AdvanceInv, RetryStored, RetryStart
  <2>8. FoundAll(p)'
    BY <2>3 DEF AdvanceInv, FoundAll
  <2>. QED  BY <2>4, <2>5, <2>6, <2>7, <2>8 DEF AdvanceInv
<1>. QED  BY <1>1, <1>2

-----------------------------------------------------------------------------
(* The steps of an advance keep its own promise.                           *)

\* What an advance knows before a step of its own, which leaves Envio alone.
OwnStep(p) ==
    /\ TypeInv
    /\ TypeInv'
    /\ GateInv
    /\ Carries
    /\ clock' = clock
    /\ UNCHANGED <<history, top, head>>

LEMMA OwnSettled ==
    ASSUME NEW p \in Advancers, OwnStep(p), Running(p), front'[p] = front[p],
           Horizon(p)' <= Horizon(p)
    PROVE  Settled(p)' \subseteq Settled(p) /\ stored \subseteq stored'
  BY SettledShrinks DEF OwnStep, GateInv, AdvanceInv, Carries

LEMMA OwnFrontier ==
    ASSUME NEW p \in Advancers, OwnStep(p), Running(p), front'[p] = front[p],
           Horizon(p)' <= Horizon(p), target'[p] <= clock, reached'[p] <= clock
    PROVE  FrontierInv(p)'
  BY ReplaysCarry DEF OwnStep, GateInv, AdvanceInv, FrontierInv

\* Steps that keep the frontier, the target and what is reached keep the horizon.
LEMMA SameHorizon ==
    ASSUME NEW p \in Advancers, OwnStep(p), target'[p] = target[p],
           reached'[p] = reached[p], Opening(p)' <=> Opening(p)
    PROVE  Horizon(p)' = Horizon(p) /\ Horizon(p)' <= Horizon(p)
  BY HorizonNumber DEF Horizon, OwnStep

\* An advance that does not run has promised nothing.
LEMMA IdleInv ==
    ASSUME NEW p \in Advancers, OwnStep(p), pc'[p] \in {"idle", "frontier"},
           target'[p] <= clock, reached'[p] <= clock
    PROVE  AdvanceInv(p)'
  BY DEF OwnStep, AdvanceInv, FrontierInv, PlaceInv, LateStored, RetryStored, PassedStored,
     FoundAll, Running

LEMMA StopInv ==
    ASSUME NEW p \in Advancers, OwnStep(p), Stop(p)
    PROVE  AdvanceInv(p)' /\ base'[p] = NoWatermark
<1>1. pc'[p] = "idle" /\ target'[p] = 0 /\ reached'[p] = 0 /\ base'[p] = NoWatermark
  BY DEF Stop, Goto, OwnStep, TypeInv, TypeOK
<1>. QED  BY <1>1, IdleInv, Numbers DEF OwnStep

LEMMA ReadMovedAtInv ==
    ASSUME NEW p \in Advancers, OwnStep(p), ReadMovedAt(p)
    PROVE  AdvanceInv(p)'
<1>1. pc'[p] = "frontier" /\ target'[p] = target[p] /\ reached'[p] = reached[p]
  BY DEF ReadMovedAt, Goto, OwnStep, TypeInv, TypeOK
<1>. QED  BY <1>1, IdleInv DEF OwnStep, GateInv, AdvanceInv, FrontierInv

LEMMA ReadFrontierInv ==
    ASSUME NEW p \in Advancers, OwnStep(p), ReadFrontier(p)
    PROVE  AdvanceInv(p)'
<1>1. /\ pc'[p] = "watermark" /\ front'[p] = committed
      /\ target'[p] = target[p] /\ reached'[p] = reached[p]
  BY DEF ReadFrontier, Goto, OwnStep, TypeInv, TypeOK
<1>2. FrontierInv(p)'
  <2>1. \A c \in Chains : ~(top'[c] < front'[p][c])
    BY <1>1, Numbers DEF OwnStep, GateInv, EnvioInv, TypeInv, TypeOK, Frontiers
  <2>. QED  BY <1>1, <2>1 DEF OwnStep, GateInv, AdvanceInv, FrontierInv, ReplaysAfter
<1>. QED  BY <1>1, <1>2 DEF AdvanceInv, PlaceInv, LateStored, RetryStored, PassedStored,
             FoundAll

LEMMA ReadWatermarkInv ==
    ASSUME NEW p \in Advancers, OwnStep(p), ReadWatermark(p)
    PROVE  AdvanceInv(p)'
<1>1. /\ pc[p] = "watermark" /\ pc'[p] = "target" /\ front'[p] = front[p]
      /\ base'[p] = wm /\ target'[p] = target[p] /\ reached'[p] = wm.at
  BY DEF ReadWatermark, Goto, OwnStep, TypeInv, TypeOK
<1>2. Horizon(p)' <= Horizon(p)
  BY <1>1, Numbers DEF Horizon, Opening, OwnStep
<1>3. FrontierInv(p)'
  BY <1>1, <1>2, OwnFrontier DEF OwnStep, GateInv, Vouches, Running, AdvanceInv, FrontierInv
<1>. QED  BY <1>1, <1>3 DEF AdvanceInv, PlaceInv, LateStored, RetryStored, PassedStored,
             FoundAll

LEMMA ReadTargetInv ==
    ASSUME NEW p \in Advancers, OwnStep(p), ReadTarget(p)
    PROVE  AdvanceInv(p)'
<1>1. /\ pc[p] = "target" /\ pc'[p] = AfterTarget(p) /\ front'[p] = front[p]
      /\ base'[p] = base[p] /\ reached'[p] = reached[p]
  BY DEF ReadTarget, Goto, OwnStep, TypeInv, TypeOK
<1>2. target'[p] <= clock
  <2>1. PICK t \in Time : /\ t + MinAge <= clock \/ t = 0
                          /\ target' = [target EXCEPT ![p] = t]
    BY DEF ReadTarget
  <2>2. target'[p] = t
    BY <2>1 DEF OwnStep, TypeInv, TypeOK
  <2>. QED  BY <2>1, <2>2, Numbers DEF OwnStep, Time
<1>3. reached[p] <= clock
  BY DEF OwnStep, GateInv, AdvanceInv, FrontierInv
<1>4. Horizon(p)' <= Horizon(p)
  BY <1>1, <1>2, <1>3, Numbers DEF Horizon, Opening, OwnStep
<1>5. FrontierInv(p)'
  BY <1>1, <1>2, <1>3, <1>4, OwnFrontier DEF Running
<1>6. pc'[p] \in {"first", "planRetry", "planLate"}
  BY <1>1 DEF AfterTarget
<1>7. PlaceInv(p)'
  BY <1>1, <1>6 DEF OwnStep, GateInv, AdvanceInv, PlaceInv
<1>8. LateStored(p)'
  <2>1. ASSUME pc'[p] = "planRetry"
        PROVE  base[p].cps = front[p]
    BY <1>1, <2>1 DEF AfterTarget
  <2>2. \A r \in Visible(p) : r.cp <= front[p][r.chain]
    BY DEF Visible
  <2>3. Settled(p)' \subseteq Visible(p)
    BY <1>1 DEF Settled, Visible, OwnStep
  <2>4. /\ \A r \in history : r.cp \in Nat /\ r.chain \in Chains
        /\ \A c \in Chains : front[p][c] \in Nat
    BY Numbers DEF OwnStep
  <2>5. \A r \in Visible(p) : r \in history
    BY DEF Visible
  <2>6. ASSUME pc'[p] = "planRetry", NEW r \in Settled(p)', r.cp > base[p].cps[r.chain]
        PROVE  FALSE
    <3>1. r \in Visible(p)
      BY <2>3, <2>6
    <3>2. r.cp \in Nat /\ front[p][r.chain] \in Nat
      BY <2>4, <2>5, <3>1
    <3>3. r.cp <= front[p][r.chain]
      BY <2>2, <3>1
    <3>. QED  BY <2>1, <2>6, <3>2, <3>3
  <2>. QED  BY <1>1, <1>6, <2>6 DEF LateStored
<1>. QED  BY <1>5, <1>6, <1>7, <1>8 DEF AdvanceInv, RetryStored, PassedStored, FoundAll

\* What a plan of one of the five steps leaves.
LEMMA PlanFacts ==
    ASSUME NEW p \in Advancers, OwnStep(p), NEW from \in Nat,
           NEW step \in {"late", "retry", "window", "provisional", "rescue"},
           Plan(p, from, step), Running(p), ~Opening(p)
    PROVE  /\ pc'[p] = step /\ pos'[p] = from
           /\ base'[p] = base[p] /\ target'[p] = target[p] /\ reached'[p] = reached[p]
           /\ Horizon(p)' = Horizon(p)
           /\ Settled(p)' \subseteq Settled(p) /\ stored' = stored
           /\ FrontierInv(p)'
           /\ ~found'[p] => Between(p, from, RangeEnd(p)) = {}
<1>1. /\ pc'[p] = step /\ pos'[p] = from /\ front'[p] = front[p]
      /\ base'[p] = base[p] /\ target'[p] = target[p] /\ reached'[p] = reached[p]
      /\ stored' = stored
  BY DEF Plan, Goto, OwnStep, TypeInv, TypeOK
<1>2. Horizon(p)' = Horizon(p) /\ Horizon(p)' <= Horizon(p)
  BY <1>1, SameHorizon DEF Opening
<1>3. Settled(p)' \subseteq Settled(p)
  BY <1>1, <1>2, OwnSettled
<1>4. FrontierInv(p)'
  BY <1>1, <1>2, OwnFrontier DEF OwnStep, GateInv, AdvanceInv, FrontierInv
<1>5. ~found'[p] => Between(p, from, RangeEnd(p)) = {}
  BY Zenon DEF Plan, OwnStep, TypeInv, TypeOK
<1>. QED  BY <1>1, <1>2, <1>3, <1>4, <1>5

LEMMA SettledVisible ==
    ASSUME NEW p \in Advancers, TypeInv
    PROVE  \A r \in Settled(p) :
               /\ r \in Visible(p) /\ r \in history
               /\ r.chain \in Chains /\ r.cp \in Nat /\ r.at \in Nat
               /\ r.cp <= front[p][r.chain] /\ r.at + Slack < Horizon(p)
  BY Numbers DEF Settled, Visible

LEMMA PlanLateInv ==
    ASSUME NEW p \in Advancers, OwnStep(p), PlanLate(p)
    PROVE  AdvanceInv(p)'
<1>1. pc[p] = "planLate" /\ Plan(p, 0, "late")
  BY DEF PlanLate
<1>2. Running(p) /\ ~Opening(p)
  BY <1>1 DEF Running, Opening
<1>3. /\ pc'[p] = "late" /\ pos'[p] = 0
      /\ base'[p] = base[p] /\ target'[p] = target[p] /\ reached'[p] = reached[p]
      /\ Settled(p)' \subseteq Settled(p)
      /\ FrontierInv(p)'
      /\ ~found'[p] => Between(p, 0, RangeEnd(p)) = {}
  BY <1>1, <1>2, PlanFacts
<1>4. PlaceInv(p)'
  BY <1>1, <1>3 DEF OwnStep, GateInv, AdvanceInv, PlaceInv
<1>5. LateStored(p)'
  BY <1>3, SettledVisible DEF LateStored, OwnStep
<1>6. FoundAll(p)'
  <2>1. ASSUME NEW r \in Settled(p), r.cp > base[p].cps[r.chain], r.at < base[p].at
        PROVE  r \in Between(p, 0, RangeEnd(p))
    BY <1>1, <2>1, SettledVisible DEF Between, Selected, LateRows, RangeEnd, OwnStep
  <2>. QED  BY <1>3, <2>1 DEF FoundAll
<1>. QED  BY <1>3, <1>4, <1>5, <1>6 DEF AdvanceInv, RetryStored, PassedStored

LEMMA PlanRetryInv ==
    ASSUME NEW p \in Advancers, OwnStep(p), PlanRetry(p)
    PROVE  AdvanceInv(p)'
<1>1. pc[p] = "planRetry" /\ Plan(p, RetryStart(p), "retry")
  BY DEF PlanRetry
<1>2. Running(p) /\ ~Opening(p) /\ RetryStart(p) \in Nat
  BY <1>1, Numbers, WatermarkNumbers DEF Running, Opening, RetryStart, OwnStep
<1>3. /\ pc'[p] = "retry" /\ pos'[p] = RetryStart(p)
      /\ base'[p] = base[p] /\ target'[p] = target[p] /\ reached'[p] = reached[p]
      /\ Settled(p)' \subseteq Settled(p) /\ stored' = stored
      /\ FrontierInv(p)'
      /\ ~found'[p] => Between(p, RetryStart(p), RangeEnd(p)) = {}
  BY <1>1, <1>2, PlanFacts
<1>4. PlaceInv(p)'
  BY <1>1, <1>3 DEF OwnStep, GateInv, AdvanceInv, PlaceInv
<1>5. LateStored(p)'
  BY <1>1, <1>3 DEF OwnStep, GateInv, AdvanceInv, LateStored
<1>6. RetryStored(p)'
  <2>1. RetryStart(p)' = RetryStart(p)
    BY <1>3 DEF RetryStart
  <2>. QED  BY <1>2, <1>3, <2>1, SettledVisible DEF RetryStored, OwnStep
<1>7. FoundAll(p)'
  <2>1. ASSUME NEW r \in Settled(p), RetryStart(p) <= r.at, r.at < base[p].at
        PROVE  r \in Between(p, RetryStart(p), RangeEnd(p))
    BY <1>1, <2>1, SettledVisible DEF Between, Selected, RangeEnd, OwnStep
  <2>. QED  BY <1>3, <2>1 DEF FoundAll
<1>. QED  BY <1>3, <1>4, <1>5, <1>6, <1>7 DEF AdvanceInv, PassedStored

LEMMA PlanWindowInv ==
    ASSUME NEW p \in Advancers, OwnStep(p), PlanWindow(p)
    PROVE  AdvanceInv(p)'
<1>1. pc[p] = "planWindow" /\ Plan(p, reached[p], "window")
  BY DEF PlanWindow
<1>2. Running(p) /\ ~Opening(p) /\ reached[p] \in Nat /\ pos[p] \in Nat
  BY <1>1, Numbers DEF Running, Opening, OwnStep
<1>3. /\ pc'[p] = "window" /\ pos'[p] = reached[p]
      /\ base'[p] = base[p] /\ target'[p] = target[p] /\ reached'[p] = reached[p]
      /\ Horizon(p)' = Horizon(p)
      /\ Settled(p)' \subseteq Settled(p) /\ stored' = stored
      /\ FrontierInv(p)'
      /\ ~found'[p] => Between(p, reached[p], RangeEnd(p)) = {}
  BY <1>1, <1>2, PlanFacts
<1>4. reached[p] <= pos[p] /\ reached[p] <= Horizon(p)
  BY <1>1, Numbers, HorizonNumber DEF OwnStep, GateInv, AdvanceInv, PlaceInv
<1>5. PlaceInv(p)'
  BY <1>2, <1>3, <1>4 DEF PlaceInv
<1>6. PassedStored(p)'
  <2>1. ASSUME NEW r \in Settled(p), r.at < reached[p]
        PROVE  r.at < pos[p]
    BY <1>2, <1>4, <2>1, SettledVisible DEF OwnStep
  <2>. QED  BY <1>1, <1>3, <2>1 DEF OwnStep, GateInv, AdvanceInv, PassedStored
<1>7. FoundAll(p)'
  <2>1. ASSUME NEW r \in Settled(p), reached[p] <= r.at, r.at < target[p]
        PROVE  r \in Between(p, reached[p], RangeEnd(p))
    BY <1>1, <2>1, SettledVisible DEF Between, Selected, RangeEnd, OwnStep
  <2>. QED  BY <1>3, <2>1 DEF FoundAll
<1>. QED  BY <1>3, <1>5, <1>6, <1>7 DEF AdvanceInv, LateStored, RetryStored

\* The provisional steps promise nothing about the watermark.
LEMMA PlanProvisionalInv ==
    ASSUME NEW p \in Advancers, OwnStep(p), PlanProvisional(p) \/ PlanRescue(p)
    PROVE  AdvanceInv(p)'
<1>1. PICK step \in {"provisional", "rescue"} :
          /\ pc[p] = IF step = "provisional" THEN "planProvisional" ELSE "planRescue"
          /\ Plan(p, reached[p], step)
  BY DEF PlanProvisional, PlanRescue
<1>2. Running(p) /\ ~Opening(p) /\ reached[p] \in Nat
  BY <1>1, Numbers DEF Running, Opening, OwnStep
<1>3. /\ pc'[p] = step /\ FrontierInv(p)'
      /\ reached'[p] = reached[p] /\ Settled(p)' \subseteq Settled(p) /\ stored' = stored
  BY <1>1, <1>2, PlanFacts
<1>4. PassedStored(p)'
  BY <1>1, <1>3 DEF OwnStep, GateInv, AdvanceInv, PassedStored
<1>. QED  BY <1>3, <1>4 DEF AdvanceInv, PlaceInv, LateStored, RetryStored, FoundAll

\* A sub-range that is stored: its settled rows are stored, or there were none.
LEMMA StoreFacts ==
    ASSUME NEW p \in Advancers, OwnStep(p), NEW hi \in Nat, StoreUpTo(p, hi),
           pc[p] \in {"late", "retry", "window"}
    PROVE  /\ pos'[p] = hi /\ pos[p] < hi /\ hi <= RangeEnd(p)
           /\ stored \subseteq stored'
           /\ \A r \in Settled(p) :
                  /\ pc[p] = "late" => r.cp > base[p].cps[r.chain]
                  /\ pos[p] <= r.at
                  /\ r.at < hi
                  => r \in stored'
<1>1. pos'[p] = hi /\ pos[p] < hi /\ hi <= RangeEnd(p) /\ stored \subseteq stored'
  BY DEF StoreUpTo, OwnStep, TypeInv, TypeOK
<1>2. ASSUME NEW r \in Settled(p), pc[p] = "late" => r.cp > base[p].cps[r.chain],
             pos[p] <= r.at, r.at < hi
      PROVE  r \in stored'
  <2>1. r \in Between(p, pos[p], hi)
    BY <1>2, SettledVisible DEF Between, Selected, LateRows, OwnStep
  <2>2. CASE found[p]
    BY <2>1, <2>2 DEF StoreUpTo
  <2>3. CASE ~found[p]
    <3>1. RangeEnd(p) = IF pc[p] \in {"late", "retry"} THEN base[p].at ELSE target[p]
      BY DEF RangeEnd
    <3>2. r.at < RangeEnd(p)
      BY <1>1, <1>2, <3>1, SettledVisible, Numbers, WatermarkNumbers DEF OwnStep
    <3>3. FoundAll(p)
      BY DEF OwnStep, GateInv, AdvanceInv
    <3>. QED  BY <1>2, <2>3, <3>1, <3>2, <3>3 DEF FoundAll
  <2>. QED  BY <2>2, <2>3
<1>. QED  BY <1>1, <1>2

\* A statement keeps the horizon, what is settled only shrinks.
LEMMA StatementFacts ==
    ASSUME NEW p \in Advancers, OwnStep(p), Running(p), front'[p] = front[p],
           target'[p] = target[p], reached'[p] = reached[p], Opening(p)' <=> Opening(p)
    PROVE  /\ Horizon(p)' = Horizon(p)
           /\ Settled(p)' \subseteq Settled(p)
           /\ FrontierInv(p)'
<1>1. Horizon(p)' = Horizon(p) /\ Horizon(p)' <= Horizon(p)
  BY SameHorizon
<1>. QED  BY <1>1, OwnSettled, OwnFrontier DEF OwnStep, GateInv, AdvanceInv, FrontierInv

LEMMA StoreChunkInv ==
    ASSUME NEW p \in Advancers, OwnStep(p), StoreChunk(p)
    PROVE  AdvanceInv(p)'
<1>1. /\ pc[p] \in {"late", "retry", "provisional", "rescue"} /\ pc'[p] = pc[p]
      /\ front'[p] = front[p] /\ base'[p] = base[p] /\ target'[p] = target[p]
      /\ reached'[p] = reached[p] /\ found'[p] = found[p]
  BY DEF StoreChunk
<1>2. /\ Settled(p)' \subseteq Settled(p)
      /\ FrontierInv(p)'
  BY <1>1, StatementFacts DEF Running, Opening
<1>3. CASE pc[p] \in {"provisional", "rescue"}
  <2>1. stored \subseteq stored'
    BY DEF StoreChunk, StoreUpTo
  <2>2. PassedStored(p)'
    BY <1>1, <1>2, <1>3, <2>1 DEF OwnStep, GateInv, AdvanceInv, PassedStored
  <2>. QED  BY <1>1, <1>2, <1>3, <2>2 DEF AdvanceInv, PlaceInv, LateStored, RetryStored,
            FoundAll
<1>4. CASE pc[p] \in {"late", "retry"}
  <2>1. PICK hi \in 0..(MaxTime + 1) : StoreUpTo(p, hi)
    BY DEF StoreChunk
  <2>2. /\ pos'[p] = hi /\ pos[p] < hi
        /\ stored \subseteq stored'
        /\ \A r \in Settled(p) :
               /\ pc[p] = "late" => r.cp > base[p].cps[r.chain]
               /\ pos[p] <= r.at
               /\ r.at < hi
               => r \in stored'
    BY <1>4, <2>1, StoreFacts
  <2>3. PlaceInv(p)'
    BY <1>1, <1>4 DEF OwnStep, GateInv, AdvanceInv, PlaceInv
  <2>4. \A r \in Settled(p) : r.at \in Nat /\ (r.at < pos[p] \/ pos[p] <= r.at)
    BY SettledVisible, Numbers DEF OwnStep
  <2>5. LateStored(p)'
    BY <1>1, <1>2, <1>4, <2>2, <2>4 DEF OwnStep, GateInv, AdvanceInv, LateStored
  <2>6. RetryStored(p)'
    <3>1. RetryStart(p)' = RetryStart(p)
      BY <1>1 DEF RetryStart
    <3>. QED  BY <1>1, <1>2, <2>2, <2>4, <3>1 DEF OwnStep, GateInv, AdvanceInv, RetryStored
  <2>7. FoundAll(p)'
    <3>1. ASSUME NEW r \in Settled(p), hi <= r.at
          PROVE  pos[p] <= r.at
      BY <2>2, <3>1, SettledVisible, Numbers DEF OwnStep
    <3>. QED  BY <1>1, <1>2, <1>4, <2>2, <3>1 DEF OwnStep, GateInv, AdvanceInv, FoundAll
  <2>. QED  BY <1>1, <1>2, <1>4, <2>3, <2>5, <2>6, <2>7 DEF AdvanceInv, PassedStored
<1>. QED  BY <1>1, <1>3, <1>4

LEMMA EndLateInv ==
    ASSUME NEW p \in Advancers, OwnStep(p), EndLate(p)
    PROVE  AdvanceInv(p)'
<1>1. /\ pc[p] = "late" /\ pc'[p] = "planRetry" /\ pos[p] >= base[p].at
      /\ front'[p] = front[p] /\ base'[p] = base[p] /\ target'[p] = target[p]
      /\ reached'[p] = reached[p] /\ stored' = stored
  BY DEF EndLate, RangeEnd, Goto, OwnStep, TypeInv, TypeOK
<1>2. /\ Settled(p)' \subseteq Settled(p)
      /\ FrontierInv(p)'
  BY <1>1, StatementFacts DEF Running, Opening
<1>3. PlaceInv(p)'
  BY <1>1 DEF OwnStep, GateInv, AdvanceInv, PlaceInv
<1>4. LateStored(p)'
  <2>1. ASSUME NEW r \in Settled(p), r.at < base[p].at
        PROVE  r.at < pos[p]
    BY <1>1, <2>1, SettledVisible, Numbers, WatermarkNumbers DEF OwnStep
  <2>. QED  BY <1>1, <1>2, <2>1 DEF OwnStep, GateInv, AdvanceInv, LateStored
<1>. QED  BY <1>1, <1>2, <1>3, <1>4 DEF AdvanceInv, RetryStored, PassedStored, FoundAll

\* Below the watermark every settled row is stored once the retry step is done: the
\* watermark vouched for the older rows, the retry step stored the others, and the
\* late step the rows of checkpoints after the recorded frontier.
LEMMA EndRetryInv ==
    ASSUME RollbacksInReach, NEW p \in Advancers, OwnStep(p), EndRetry(p)
    PROVE  AdvanceInv(p)'
<1>1. /\ pc[p] = "retry" /\ pc'[p] \in {"planWindow", "check"} /\ pos[p] >= base[p].at
      /\ pc'[p] = "check" => target[p] <= reached[p]
      /\ pos'[p] = reached[p] /\ front'[p] = front[p] /\ base'[p] = base[p]
      /\ target'[p] = target[p] /\ reached'[p] = reached[p] /\ stored' = stored
  <2>1. ~(reached[p] < target[p]) => target[p] <= reached[p]
    BY Numbers DEF OwnStep
  <2>. QED  BY <2>1 DEF EndRetry, MoveAloneTo, RangeEnd, Goto, OwnStep, TypeInv, TypeOK
<1>2. /\ Horizon(p)' = Horizon(p)
      /\ Settled(p)' \subseteq Settled(p)
      /\ FrontierInv(p)'
  BY <1>1, StatementFacts DEF Running, Opening
<1>3. reached[p] = base[p].at
  BY <1>1 DEF OwnStep, GateInv, AdvanceInv, PlaceInv
<1>4. PlaceInv(p)'
  <2>1. reached[p] <= Horizon(p)
    BY <1>1, Numbers DEF Horizon, Opening, OwnStep
  <2>. QED  BY <1>1, <1>2, <2>1, Numbers DEF PlaceInv, OwnStep
<1>5. PassedStored(p)'
  <2>1. ASSUME NEW r \in Settled(p), r.at < base[p].at
        PROVE  r \in stored
    <3>. /\ r \in history /\ r.chain \in Chains /\ r.cp \in Nat /\ r.at \in Nat
         /\ base[p].at \in Nat /\ base[p].cps[r.chain] \in Nat /\ pos[p] \in Nat
      BY SettledVisible, Numbers, WatermarkNumbers DEF OwnStep
    <3>1. CASE r.cp > base[p].cps[r.chain]
      BY <1>1, <2>1, <3>1 DEF OwnStep, GateInv, AdvanceInv, LateStored
    <3>2. CASE r.at + Slack < base[p].at /\ r.cp <= base[p].cps[r.chain]
      BY <3>2 DEF OwnStep, GateInv, Vouches
    <3>3. CASE base[p].at <= r.at + Slack
      <4>1. RetryStart(p) <= r.at /\ r.at < pos[p]
        BY <1>1, <2>1, <3>3, SlackInRetry DEF RetryStart
      <4>. QED  BY <1>1, <4>1 DEF OwnStep, GateInv, AdvanceInv, RetryStored
    <3>. QED  BY <3>1, <3>2, <3>3
  <2>. QED  BY <1>1, <1>2, <1>3, <2>1 DEF PassedStored
<1>6. FoundAll(p)'
  <2>1. ASSUME NEW r \in Settled(p), reached[p] <= r.at, r.at < target[p],
               target[p] <= reached[p]
        PROVE  FALSE
    BY <2>1, SettledVisible, Numbers DEF OwnStep
  <2>. QED  BY <1>1, <1>2, <2>1 DEF FoundAll
<1>. QED  BY <1>1, <1>2, <1>4, <1>5, <1>6 DEF AdvanceInv, LateStored, RetryStored

\* The first advance starts before every row of its frontier.
LEMMA FirstInv ==
    ASSUME NEW p \in Advancers, OwnStep(p), First(p)
    PROVE  AdvanceInv(p)'
<1>1. PICK r \in Visible(p), start \in Time :
          /\ \A s \in Visible(p) : r.at <= s.at
          /\ start <= r.at
          /\ pos' = [pos EXCEPT ![p] = start]
          /\ reached' = [reached EXCEPT ![p] = start]
          /\ Goto(p, IF start < target[p] THEN "planWindow" ELSE "check")
  BY DEF First
<1>2. start \in Nat /\ r.at \in Nat /\ target[p] \in Nat /\ clock \in Nat
  BY Numbers DEF Visible, OwnStep, Time
<1>3. /\ pc[p] = "first" /\ pc'[p] \in {"planWindow", "check"}
      /\ pc'[p] = "check" => target[p] <= start
      /\ pos'[p] = start /\ reached'[p] = start /\ front'[p] = front[p]
      /\ base'[p] = base[p] /\ target'[p] = target[p] /\ stored' = stored
  BY <1>1, <1>2 DEF First, Goto, OwnStep, TypeInv, TypeOK
<1>4. start <= clock /\ target[p] <= clock
  <2>1. head[r.chain] <= clock /\ r.at <= head[r.chain] /\ head[r.chain] \in Nat
    BY Numbers DEF Visible, OwnStep, GateInv, EnvioInv
  <2>. QED  BY <1>1, <1>2, <2>1 DEF OwnStep, GateInv, AdvanceInv, FrontierInv
<1>5. /\ Horizon(p) = clock
      /\ Horizon(p)' = IF start < target[p] THEN target[p] ELSE start
  BY <1>3 DEF Horizon, Opening
<1>6. Horizon(p)' <= Horizon(p) /\ start <= Horizon(p)'
  BY <1>2, <1>4, <1>5
<1>7. FrontierInv(p)'
  BY <1>3, <1>4, <1>6, OwnFrontier DEF Running
<1>8. Settled(p)' \subseteq Settled(p)
  BY <1>3, <1>6, OwnSettled DEF Running
<1>9. PlaceInv(p)'
  BY <1>2, <1>3, <1>6 DEF PlaceInv
<1>10. PassedStored(p)'
  <2>1. ASSUME NEW s \in Settled(p), s.at < start
        PROVE  FALSE
    BY <1>1, <1>2, <2>1, SettledVisible DEF OwnStep
  <2>. QED  BY <1>3, <1>8, <2>1 DEF PassedStored
<1>11. FoundAll(p)'
  <2>1. ASSUME NEW s \in Settled(p), start <= s.at, s.at < target[p], target[p] <= start
        PROVE  FALSE
    BY <1>2, <2>1, SettledVisible DEF OwnStep
  <2>. QED  BY <1>3, <1>8, <2>1 DEF FoundAll
<1>. QED  BY <1>3, <1>7, <1>9, <1>10, <1>11 DEF AdvanceInv, LateStored, RetryStored

LEMMA StoreWindowInv ==
    ASSUME NEW p \in Advancers, OwnStep(p), StoreWindow(p)
    PROVE  AdvanceInv(p)'
<1>1. /\ pc[p] = "window" /\ pc'[p] = "check"
      /\ front'[p] = front[p] /\ base'[p] = base[p] /\ target'[p] = target[p]
      /\ reached'[p] = reached[p] /\ found'[p] = found[p]
  BY DEF StoreWindow, Goto, OwnStep, TypeInv, TypeOK
<1>2. /\ Horizon(p)' = Horizon(p)
      /\ Settled(p)' \subseteq Settled(p)
      /\ FrontierInv(p)'
  BY <1>1, StatementFacts DEF Running, Opening
<1>3. PICK hi \in Time : StoreUpTo(p, hi)
  BY DEF StoreWindow
<1>4. /\ pos'[p] = hi /\ pos[p] < hi /\ hi <= target[p]
      /\ stored \subseteq stored'
      /\ \A r \in Settled(p) : pos[p] <= r.at /\ r.at < hi => r \in stored'
  <2>1. hi \in Nat /\ RangeEnd(p) = target[p]
    BY <1>1 DEF Time, RangeEnd
  <2>. QED  BY <1>1, <1>3, <2>1, StoreFacts
<1>5. PlaceInv(p)'
  <2>1. reached[p] <= pos[p]
    BY <1>1 DEF OwnStep, GateInv, AdvanceInv, PlaceInv
  <2>2. target[p] <= Horizon(p)
    BY <1>1, Numbers DEF Horizon, Opening, OwnStep
  <2>. QED  BY <1>1, <1>2, <1>4, <2>1, <2>2, Numbers, HorizonNumber DEF PlaceInv, OwnStep, Time
<1>6. PassedStored(p)'
  <2>1. \A r \in Settled(p) : r.at < pos[p] \/ pos[p] <= r.at
    BY SettledVisible, Numbers DEF OwnStep
  <2>. QED  BY <1>1, <1>2, <1>4, <2>1 DEF OwnStep, GateInv, AdvanceInv, PassedStored
<1>7. FoundAll(p)'
  <2>1. ASSUME NEW r \in Settled(p), hi <= r.at
        PROVE  pos[p] <= r.at
    BY <1>4, <2>1, SettledVisible, Numbers DEF OwnStep, Time
  <2>. QED  BY <1>1, <1>2, <1>4, <2>1 DEF OwnStep, GateInv, AdvanceInv, FoundAll
<1>. QED  BY <1>1, <1>2, <1>5, <1>6, <1>7 DEF AdvanceInv, LateStored, RetryStored

LEMMA CheckInv ==
    ASSUME NEW p \in Advancers, OwnStep(p), Check(p)
    PROVE  AdvanceInv(p)'
<1>1. /\ pc[p] = "check" /\ pc'[p] = "insert"
      /\ front'[p] = front[p] /\ base'[p] = base[p] /\ target'[p] = target[p]
      /\ reached'[p] = reached[p] /\ found'[p] = found[p] /\ pos'[p] = pos[p]
      /\ stored' = stored
  BY DEF Check, Goto, OwnStep, TypeInv, TypeOK
<1>2. /\ Horizon(p)' = Horizon(p)
      /\ Settled(p)' \subseteq Settled(p)
      /\ FrontierInv(p)'
  BY <1>1, StatementFacts DEF Running, Opening
<1>3. PlaceInv(p)' /\ PassedStored(p)' /\ FoundAll(p)'
  BY <1>1, <1>2 DEF OwnStep, GateInv, AdvanceInv, PlaceInv, PassedStored, FoundAll
<1>. QED  BY <1>1, <1>2, <1>3 DEF AdvanceInv, LateStored, RetryStored

LEMMA InsertInv ==
    ASSUME NEW p \in Advancers, OwnStep(p), Insert(p)
    PROVE  AdvanceInv(p)'
<1>1. /\ pc[p] = "insert" /\ pc'[p] \in {"window", "planProvisional"}
      /\ front'[p] = front[p] /\ base'[p] = base[p] /\ target'[p] = target[p]
      /\ reached'[p] = pos[p] /\ found'[p] = found[p] /\ pos'[p] = pos[p]
      /\ stored' = stored
  BY DEF Insert, Goto, OwnStep, TypeInv, TypeOK
<1>2. reached[p] <= pos[p] /\ pos[p] <= Horizon(p)
  BY <1>1 DEF OwnStep, GateInv, AdvanceInv, PlaceInv
<1>3. Horizon(p)' = Horizon(p) /\ Horizon(p)' <= Horizon(p)
  BY <1>1, <1>2, Numbers DEF Horizon, Opening, OwnStep
<1>4. Settled(p)' \subseteq Settled(p)
  BY <1>1, <1>3, OwnSettled DEF Running
<1>5. FrontierInv(p)'
  <2>1. pos[p] <= clock /\ target[p] <= clock
    BY <1>2, HorizonPast, HorizonNumber, Numbers DEF OwnStep, GateInv, AdvanceInv, FrontierInv
  <2>. QED  BY <1>1, <1>3, <2>1, OwnFrontier DEF Running
<1>6. PlaceInv(p)'
  BY <1>1, <1>2, <1>3, Numbers DEF PlaceInv, OwnStep
<1>7. PassedStored(p)' /\ FoundAll(p)'
  BY <1>1, <1>4 DEF OwnStep, GateInv, AdvanceInv, PassedStored, FoundAll
<1>. QED  BY <1>1, <1>5, <1>6, <1>7 DEF AdvanceInv, LateStored, RetryStored

LEMMA FailInv ==
    ASSUME NEW p \in Advancers, OwnStep(p), Fail(p)
    PROVE  AdvanceInv(p)'
<1>1. /\ Running(p) /\ ~Opening(p) /\ pc'[p] = "planRescue"
      /\ front'[p] = front[p] /\ target'[p] = target[p] /\ reached'[p] = reached[p]
  BY DEF Fail, Goto, Running, Opening, OwnStep, TypeInv, TypeOK
<1>2. FrontierInv(p)'
  BY <1>1, StatementFacts DEF Opening
<1>. QED  BY <1>1, <1>2 DEF AdvanceInv, PlaceInv, LateStored, RetryStored, PassedStored,
             FoundAll

-----------------------------------------------------------------------------
(* The invariant is inductive.                                             *)

LEMMA NoWatermarkVouches ==
    ASSUME TypeInv
    PROVE  Vouches(NoWatermark)
<1>1. \A c \in Chains : NoWatermark.cps[c] = 0
  BY DEF NoWatermark, NoFrontier
<1>2. NoWatermark.at = 0
  BY DEF NoWatermark
<1>3. \A r \in history : r.cp > 0
  BY DEF TypeInv, TypeOK, Rows, Cps
<1>. QED  BY <1>1, <1>2, <1>3, Numbers DEF Vouches, ReplaysAfter

LEMMA NoWatermarkNext ==
    ASSUME TypeInv, TypeInv', Carries
    PROVE  VouchesNext(NoWatermark)
<1>1. NoWatermark \in Watermarks
  BY DEF NoWatermark, NoFrontier, Watermarks, Frontiers, Time
<1>. QED  BY <1>1, VouchesCarries, NoWatermarkVouches

LEMMA InitGateInv == Init => GateInv
<1>. SUFFICES ASSUME Init PROVE GateInv
  OBVIOUS
<1>1. Vouches(NoWatermark)
  BY InitTypeInv, NoWatermarkVouches
<1>2. EnvioInv
  BY DEF Init, EnvioInv, NoFrontier
<1>3. \A p \in Advancers : AdvanceInv(p)
  BY DEF Init, AdvanceInv, FrontierInv, PlaceInv, LateStored, RetryStored, PassedStored,
     FoundAll, Running
<1>. QED  BY <1>1, <1>2, <1>3 DEF Init, GateInv

\* The row an advance inserts vouches for what the advance has passed.
LEMMA NewRowVouches ==
    ASSUME NEW p \in Advancers, OwnStep(p), pc[p] = "insert", stored' = stored,
           wm' = NewRow(p)
    PROVE  Vouches(wm)'
<1>1. wm'.at = pos[p] /\ wm'.cps = front[p]
  BY DEF NewRow
<1>2. pos[p] <= Horizon(p) /\ Horizon(p) <= clock
  BY HorizonPast DEF OwnStep, GateInv, AdvanceInv, PlaceInv
<1>. /\ pos[p] \in Nat /\ Horizon(p) \in Nat /\ clock \in Nat
     /\ \A c \in Chains : head[c] \in Nat
     /\ \A r \in history : r.at \in Nat
  BY Numbers, HorizonNumber DEF OwnStep
<1>3. \A c \in Chains : top[c] < front[p][c] => pos[p] <= head[c] + Slack
  BY <1>2 DEF OwnStep, GateInv, AdvanceInv, FrontierInv, Running, ReplaysAfter
<1>4. ASSUME NEW r \in history, r.cp <= front[p][r.chain], r.at + Slack < pos[p]
      PROVE  r \in stored
  <2>1. r \in Settled(p) /\ r.at < pos[p]
    BY <1>2, <1>4 DEF Settled, Visible
  <2>. QED  BY <2>1 DEF OwnStep, GateInv, AdvanceInv, PassedStored
<1>. QED  BY <1>1, <1>2, <1>3, <1>4 DEF Vouches, ReplaysAfter, OwnStep

\* A row that is kept vouches for what it vouched for.
LEMMA KeptVouches ==
    ASSUME TypeInv, TypeInv', Carries, Vouches(wm), wm' = wm
    PROVE  Vouches(wm)'
<1>1. VouchesNext(wm)
  BY VouchesCarries, Numbers
<1>. QED  BY <1>1 DEF VouchesNext, Vouches, ReplaysAfter

LEMMA KeptBase ==
    ASSUME TypeInv, TypeInv', Carries, NEW p \in Advancers, Vouches(base[p]),
           base'[p] = base[p]
    PROVE  Vouches(base[p])'
<1>1. VouchesNext(base[p])
  BY VouchesCarries, Numbers
<1>. QED  BY <1>1 DEF VouchesNext, Vouches, ReplaysAfter

LEMMA KeptRead ==
    ASSUME TypeInv, TypeInv', Carries, NEW r \in Rewinders, Vouches(read[r]),
           read'[r] = read[r]
    PROVE  Vouches(read[r])'
<1>1. VouchesNext(read[r])
  BY VouchesCarries DEF TypeInv, TypeOK
<1>. QED  BY <1>1 DEF VouchesNext, Vouches, ReplaysAfter

\* The locals of one advance.
SameLocals(p) ==
    /\ pc'[p] = pc[p] /\ front'[p] = front[p] /\ base'[p] = base[p]
    /\ target'[p] = target[p] /\ pos'[p] = pos[p] /\ found'[p] = found[p]
    /\ reached'[p] = reached[p]

LEMMA OthersStill ==
    ASSUME TypeInv, NEW p \in Advancers, Step(p) \/ Fail(p) \/ Crash(p)
    PROVE  \A q \in Advancers : q # p => SameLocals(q)
<1>. SUFFICES ASSUME NEW q \in Advancers, q # p PROVE SameLocals(q)
  OBVIOUS
<1>. USE DEF SameLocals, TypeInv, TypeOK, Goto, Stop
<1>1. CASE ReadMovedAt(p) \/ ReadFrontier(p) \/ ReadWatermark(p) \/ ReadTarget(p) \/ Check(p)
  BY <1>1 DEF ReadMovedAt, ReadFrontier, ReadWatermark, ReadTarget, Check
<1>2. CASE PlanLate(p) \/ PlanRetry(p) \/ PlanWindow(p) \/ PlanProvisional(p) \/ PlanRescue(p)
  BY <1>2 DEF PlanLate, PlanRetry, PlanWindow, PlanProvisional, PlanRescue, Plan
<1>3. CASE StoreChunk(p) \/ StoreWindow(p)
  BY <1>3 DEF StoreChunk, StoreWindow, StoreUpTo
<1>4. CASE EndLate(p) \/ EndRetry(p)
  BY <1>4 DEF EndLate, EndRetry
<1>5. CASE First(p)
  BY <1>5 DEF First
<1>6. CASE NoEvents(p) \/ Superseded(p) \/ InsertAndPause(p) \/ Finish(p) \/ Crash(p)
  BY <1>6 DEF NoEvents, Superseded, InsertAndPause, Finish, Crash
<1>7. CASE Insert(p) \/ Fail(p)
  BY <1>7 DEF Insert, Fail
<1>. QED  BY <1>1, <1>2, <1>3, <1>4, <1>5, <1>6, <1>7 DEF Step

\* A step of an advance starts it from the watermark, forgets its start, or keeps it.
LEMMA BaseAfter ==
    ASSUME TypeInv, NEW p \in Advancers, Step(p) \/ Fail(p) \/ Crash(p)
    PROVE  \/ base'[p] = base[p]
           \/ base'[p] = wm /\ wm' = wm
           \/ base'[p] = NoWatermark
<1>. USE DEF TypeInv, TypeOK, Stop
<1>1. CASE ReadMovedAt(p) \/ ReadFrontier(p) \/ ReadWatermark(p) \/ ReadTarget(p) \/ Check(p)
  BY <1>1 DEF ReadMovedAt, ReadFrontier, ReadWatermark, ReadTarget, Check
<1>2. CASE PlanLate(p) \/ PlanRetry(p) \/ PlanWindow(p) \/ PlanProvisional(p) \/ PlanRescue(p)
  BY <1>2 DEF PlanLate, PlanRetry, PlanWindow, PlanProvisional, PlanRescue, Plan
<1>3. CASE StoreChunk(p) \/ StoreWindow(p) \/ EndLate(p) \/ EndRetry(p) \/ First(p)
  BY <1>3 DEF StoreChunk, StoreWindow, EndLate, EndRetry, First
<1>4. CASE NoEvents(p) \/ Superseded(p) \/ InsertAndPause(p) \/ Finish(p) \/ Crash(p)
  BY <1>4 DEF NoEvents, Superseded, InsertAndPause, Finish, Crash
<1>5. CASE Insert(p) \/ Fail(p)
  BY <1>5 DEF Insert, Fail
<1>. QED  BY <1>1, <1>2, <1>3, <1>4, <1>5 DEF Step

\* Only the insert of an advance writes the watermark.
LEMMA WatermarkAfter ==
    ASSUME TypeInv, NEW p \in Advancers, Step(p) \/ Fail(p) \/ Crash(p)
    PROVE  \/ wm' = wm
           \/ pc[p] = "insert" /\ wm' = NewRow(p) /\ stored' = stored
<1>1. CASE Insert(p) \/ InsertAndPause(p) \/ Fail(p)
  BY <1>1 DEF Insert, InsertAndPause, Fail, WriteNewRow
<1>2. CASE ~(Insert(p) \/ InsertAndPause(p) \/ Fail(p))
  BY <1>2 DEF Step, ReadMovedAt, ReadFrontier, ReadWatermark, ReadTarget, PlanLate,
     PlanRetry, PlanWindow, PlanProvisional, PlanRescue, Plan, StoreChunk, EndLate, EndRetry,
     First, NoEvents, StoreWindow, Check, Superseded, Finish, Crash
<1>. QED  BY <1>1, <1>2

LEMMA AdvanceGateInv ==
    ASSUME RollbacksInReach, TypeInv, TypeInv', GateInv, NEW p \in Advancers,
           Step(p) \/ Fail(p) \/ Crash(p)
    PROVE  GateInv'
<1>1. Carries /\ EnvioInv' /\ clock' = clock /\ UNCHANGED <<history, top, head>>
  BY JobCarries DEF GateInv
<1>2. OwnStep(p)
  BY <1>1 DEF OwnStep
<1>3. Vouches(wm)'
  <2>1. CASE wm' = wm
    BY <1>1, <2>1, KeptVouches DEF GateInv
  <2>2. CASE pc[p] = "insert" /\ wm' = NewRow(p) /\ stored' = stored
    BY <1>2, <2>2, NewRowVouches
  <2>. QED  BY <2>1, <2>2, WatermarkAfter
<1>4. ASSUME NEW r \in Rewinders
      PROVE  Vouches(read[r])'
  <2>1. read' = read
    BY DEF Step, ReadMovedAt, ReadFrontier, ReadWatermark, ReadTarget, PlanLate,
       PlanRetry, PlanWindow, PlanProvisional, PlanRescue, Plan, StoreChunk, EndLate,
       EndRetry, First, NoEvents, StoreWindow, Check, Superseded, Insert, InsertAndPause,
       Finish, Fail, Crash
  <2>. QED  BY <1>1, <2>1, KeptRead DEF GateInv
<1>5. AdvanceInv(p)'
  <2>1. CASE NoEvents(p) \/ Superseded(p) \/ InsertAndPause(p) \/ Finish(p) \/ Crash(p)
    BY <1>2, <2>1, StopInv DEF NoEvents, Superseded, InsertAndPause, Finish, Crash
  <2>. QED  BY <1>2, <2>1, ReadMovedAtInv, ReadFrontierInv, ReadWatermarkInv,
       ReadTargetInv, PlanLateInv, PlanRetryInv, PlanWindowInv, PlanProvisionalInv,
       StoreChunkInv, EndLateInv, EndRetryInv, FirstInv, StoreWindowInv, CheckInv,
       InsertInv, FailInv DEF Step
<1>6. Vouches(base[p])'
  <2>1. CASE base'[p] = base[p]
    BY <1>1, <2>1, KeptBase DEF GateInv
  <2>2. CASE base'[p] = wm /\ wm' = wm
    BY <1>3, <2>2 DEF Vouches, ReplaysAfter
  <2>3. CASE base'[p] = NoWatermark
    <3>1. Vouches(NoWatermark)'
      <4>1. VouchesNext(NoWatermark)
        BY <1>1, NoWatermarkNext
      <4>. QED  BY <4>1 DEF VouchesNext, Vouches, ReplaysAfter, NoWatermark, NoFrontier
    <3>. QED  BY <2>3, <3>1 DEF Vouches, ReplaysAfter
  <2>. QED  BY <2>1, <2>2, <2>3, BaseAfter
<1>7. ASSUME NEW q \in Advancers, q # p
      PROVE  Vouches(base[q])' /\ AdvanceInv(q)'
  <2>1. SameLocals(q)
    BY <1>7, OthersStill
  <2>2. AdvanceInv(q)'
    BY <1>1, <2>1, StillCarries DEF SameLocals, GateInv
  <2>3. Vouches(base[q])'
    BY <1>1, <2>1, KeptBase DEF SameLocals, GateInv
  <2>. QED  BY <2>2, <2>3
<1>. QED  BY <1>1, <1>3, <1>4, <1>5, <1>6, <1>7 DEF GateInv

LEMMA StepGateInv ==
    ASSUME RollbacksInReach, TypeInv, GateInv, [Next]_vars
    PROVE  GateInv'
<1>1. TypeInv'
  BY StepTypeInv
<1>2. Carries /\ EnvioInv'
  BY StepCarries DEF GateInv
<1>3. CASE \E p \in Advancers : Step(p) \/ Fail(p) \/ Crash(p)
  BY <1>1, <1>3, AdvanceGateInv
<1>4. CASE \/ UNCHANGED vars
           \/ Tick
           \/ \E c \in Chains : WriteRow(c) \/ Commit(c) \/ Rollback(c)
           \/ \E r \in Rewinders : ReadForRewind(r) \/ WriteRewind(r)
  <2>1. UNCHANGED locals /\ \A p \in Advancers : Opening(p) => clock' = clock
    BY <1>4 DEF vars, Tick, WriteRow, Commit, Rollback, ReadForRewind, WriteRewind, Opening
  <2>2. ASSUME NEW p \in Advancers
        PROVE  Vouches(base[p])' /\ AdvanceInv(p)'
    <3>1. SameLocals(p)
      BY <2>1 DEF locals, SameLocals
    <3>2. AdvanceInv(p)'
      BY <1>1, <1>2, <2>1, <3>1, StillCarries DEF SameLocals, GateInv
    <3>3. Vouches(base[p])'
      BY <1>1, <1>2, <3>1, KeptBase DEF SameLocals, GateInv
    <3>. QED  BY <3>2, <3>3
  <2>3. Vouches(wm)' /\ \A r \in Rewinders : Vouches(read[r])'
    <3>1. CASE wm' = wm /\ read' = read
      BY <1>1, <1>2, <3>1, KeptVouches, KeptRead DEF GateInv
    <3>2. ASSUME NEW r \in Rewinders, ReadForRewind(r)
          PROVE  Vouches(wm)' /\ \A s \in Rewinders : Vouches(read[s])'
      <4>1. wm' = wm /\ read'[r] = wm /\ \A s \in Rewinders : s # r => read'[s] = read[s]
        BY <3>2 DEF ReadForRewind, TypeInv, TypeOK
      <4>2. Vouches(wm)'
        BY <1>1, <1>2, <4>1, KeptVouches DEF GateInv
      <4>3. Vouches(read[r])'
        BY <4>1, <4>2 DEF Vouches, ReplaysAfter
      <4>4. \A s \in Rewinders : s # r => Vouches(read[s])'
        BY <1>1, <1>2, <4>1, KeptRead DEF GateInv
      <4>. QED  BY <4>2, <4>3, <4>4
    <3>3. ASSUME NEW r \in Rewinders, WriteRewind(r)
          PROVE  Vouches(wm)' /\ \A s \in Rewinders : Vouches(read[s])'
      <4>1. /\ read'[r] = NoWatermark
            /\ \A s \in Rewinders : s # r => read'[s] = read[s]
        BY <3>3 DEF WriteRewind, TypeInv, TypeOK
      <4>2. VouchesNext(read[r])
        BY <1>1, <1>2, VouchesCarries DEF GateInv, TypeInv, TypeOK
      <4>3. VouchesNext(NoWatermark)
        BY <1>1, <1>2, NoWatermarkNext
      <4>4. Vouches(wm)'
        <5>1. PICK t \in 0..read[r].at : wm'.at = t /\ wm'.cps = read[r].cps
          BY <3>3 DEF WriteRewind
        <5>2. /\ t \in Nat /\ t <= read[r].at /\ read[r].at \in Nat /\ clock' \in Nat
              /\ \A c \in Chains : head'[c] \in Nat
              /\ \A s \in history' : s.at \in Nat
          BY <1>1, <5>1, NumbersNext, WatermarkNumbers DEF TypeInv, TypeOK
        <5>. QED  BY <4>2, <5>1, <5>2 DEF VouchesNext, Vouches, ReplaysAfter
      <4>5. Vouches(read[r])'
        BY <4>1, <4>3 DEF VouchesNext, Vouches, ReplaysAfter
      <4>6. \A s \in Rewinders : s # r => Vouches(read[s])'
        BY <1>1, <1>2, <4>1, KeptRead DEF GateInv
      <4>. QED  BY <4>4, <4>5, <4>6
    <3>. QED  BY <1>4, <3>1, <3>2, <3>3 DEF vars, Tick, WriteRow, Commit, Rollback
  <2>. QED  BY <1>2, <2>2, <2>3 DEF GateInv
<1>. QED  BY <1>3, <1>4 DEF Next

\* What the gate skips is stored: below the retry window, under the recorded frontier.
LEMMA GateInvSuffices ==
    ASSUME RollbacksInReach, TypeInv, GateInv
    PROVE  GateSeesEveryPending
<1>1. ASSUME NEW r \in Pending, ~Recent(r)
      PROVE  CommittedAfterWatermark(r)
  <2>. /\ r \in history /\ r \notin stored /\ r.chain \in Chains /\ r.cp \in Nat
       /\ r.at \in Nat /\ wm.at \in Nat /\ wm.cps[r.chain] \in Nat
    BY Numbers, WatermarkNumbers DEF Pending
  <2>. QED  BY <1>1, SlackInRetry DEF GateInv, Vouches, Recent, CommittedAfterWatermark
<1>. QED  BY <1>1 DEF GateSeesEveryPending, PendingEvents

\* The gate sees every event without a price (pendingEvents, deployments.ts:335), as
\* long as no rollback reaches further back than the retry window.
THEOREM GateSafe == ASSUME RollbacksInReach PROVE Spec => []GateSeesEveryPending
<1>1. TypeInv /\ GateInv /\ [Next]_vars => GateInv'
  BY StepGateInv
<1>2. TypeInv /\ GateInv => GateSeesEveryPending
  BY GateInvSuffices
<1>. QED  BY <1>1, <1>2, StepTypeInv, InitTypeInv, InitGateInv, PTL DEF Spec

-----------------------------------------------------------------------------
(* Without rollbacks an advance that ends has stored its frontier: no row   *)
(* of it comes later (a new row has a later checkpoint than any committed), *)
(* what is below the watermark it has reached was passed, and the           *)
(* provisional step stores the rest.                                        *)

FrontCommitted == \A p \in Advancers, c \in Chains : front[p][c] <= committed[c]

\* What the provisional step has stored so far, from where the watermark is.
ProvisionalStored(p) ==
    pc[p] = "provisional" =>
        \A r \in Visible(p) :
            reached[p] <= r.at => found[p] /\ (r.at < pos[p] => r \in stored)

EndInv ==
    /\ FrontCommitted
    /\ OnlyCommittedStored
    /\ \A p \in Advancers : ProvisionalStored(p)

LEMMA InitEndInv == Init => EndInv
  BY DEF Init, EndInv, FrontCommitted, OnlyCommittedStored, ProvisionalStored, NoFrontier

LEMMA NoRollback ==
    ASSUME Reach = 0, TypeInv, EnvioInv, NEW c \in Chains, Rollback(c)
    PROVE  FALSE
<1>1. PICK t \in 0..head[c] : clock < t + Reach
  BY DEF Rollback
<1>. QED  BY <1>1, Numbers DEF EnvioInv

\* What is committed stays so, and a frontier is one that was committed.
LEMMA CommittedGrows ==
    ASSUME Reach = 0, TypeInv, EnvioInv, [Next]_vars
    PROVE  \A c \in Chains : committed[c] <= committed'[c]
<1>. /\ \A c \in Chains : committed[c] \in Nat /\ top[c] \in Nat
     /\ committed \in [Chains -> Nat]
  BY DEF TypeInv, TypeOK, Frontiers
<1>1. ASSUME NEW c \in Chains, Commit(c)
      PROVE  \A d \in Chains : committed[d] <= committed'[d]
  BY <1>1 DEF Commit
<1>2. CASE committed' = committed
  BY <1>2
<1>3. CASE \/ UNCHANGED vars \/ Tick \/ \E c \in Chains : WriteRow(c)
           \/ \E r \in Rewinders : ReadForRewind(r) \/ WriteRewind(r)
  BY <1>2, <1>3 DEF vars, envio, Tick, WriteRow, ReadForRewind, WriteRewind
<1>4. ASSUME NEW p \in Advancers, Step(p) \/ Fail(p) \/ Crash(p)
      PROVE  committed' = committed
  BY <1>4 DEF envio, Step, ReadMovedAt, ReadFrontier, ReadWatermark, ReadTarget, PlanLate,
     PlanRetry, PlanWindow, PlanProvisional, PlanRescue, Plan, StoreChunk, EndLate, EndRetry,
     First, NoEvents, StoreWindow, Check, Superseded, Insert, InsertAndPause, Finish, Fail,
     Crash
<1>. QED  BY <1>1, <1>2, <1>3, <1>4, NoRollback DEF Next

LEMMA FrontAfter ==
    ASSUME TypeInv, NEW p \in Advancers, Step(p) \/ Fail(p) \/ Crash(p)
    PROVE  front'[p] \in {front[p], committed, NoFrontier}
<1>. USE DEF TypeInv, TypeOK
<1>1. CASE ReadFrontier(p)
  BY <1>1 DEF ReadFrontier
<1>2. CASE NoEvents(p) \/ Superseded(p) \/ InsertAndPause(p) \/ Finish(p) \/ Crash(p)
  BY <1>2 DEF NoEvents, Superseded, InsertAndPause, Finish, Crash, Stop
<1>3. CASE ~ReadFrontier(p) /\ ~(\/ NoEvents(p) \/ Superseded(p) \/ InsertAndPause(p)
                                 \/ Finish(p) \/ Crash(p))
  BY <1>3 DEF Step, ReadMovedAt, ReadWatermark, ReadTarget, PlanLate, PlanRetry, PlanWindow,
     PlanProvisional, PlanRescue, Plan, StoreChunk, EndLate, EndRetry, First, StoreWindow,
     Check, Insert, Fail
<1>. QED  BY <1>1, <1>2, <1>3

\* A price is stored of a row that an advance sees.
LEMMA StoredAfter ==
    ASSUME NEW p \in Advancers, Step(p) \/ Fail(p) \/ Crash(p)
    PROVE  \A r \in stored' : r \in stored \/ r \in Visible(p)
<1>1. \A from, to : Between(p, from, to) \subseteq Visible(p)
  BY DEF Between, Selected, LateRows
<1>2. CASE StoreChunk(p) \/ StoreWindow(p)
  BY <1>1, <1>2 DEF StoreChunk, StoreWindow, StoreUpTo
<1>3. CASE Fail(p)
  BY <1>1, <1>3 DEF Fail
<1>4. CASE ~(StoreChunk(p) \/ StoreWindow(p) \/ Fail(p))
  BY <1>4 DEF Step, ReadMovedAt, ReadFrontier, ReadWatermark, ReadTarget, PlanLate,
     PlanRetry, PlanWindow, PlanProvisional, PlanRescue, Plan, EndLate, EndRetry, First,
     NoEvents, Check, Superseded, Insert, InsertAndPause, Finish, Crash
<1>. QED  BY <1>2, <1>3, <1>4

\* An advance comes to its provisional step, or is still in it.
LEMMA ProvisionalAfter ==
    ASSUME TypeInv, NEW p \in Advancers, Step(p) \/ Fail(p) \/ Crash(p),
           pc'[p] = "provisional"
    PROVE  \/ PlanProvisional(p)
           \/ pc[p] = "provisional" /\ StoreChunk(p)
<1>. USE DEF TypeInv, TypeOK, Goto
<1>1. CASE ReadMovedAt(p) \/ ReadFrontier(p) \/ ReadWatermark(p) \/ ReadTarget(p) \/ Check(p)
  BY <1>1 DEF ReadMovedAt, ReadFrontier, ReadWatermark, ReadTarget, AfterTarget, Check
<1>2. CASE PlanLate(p) \/ PlanRetry(p) \/ PlanWindow(p) \/ PlanRescue(p)
  BY <1>2 DEF PlanLate, PlanRetry, PlanWindow, PlanRescue, Plan
<1>3. CASE StoreChunk(p)
  BY <1>3 DEF StoreChunk
<1>4. CASE StoreWindow(p) \/ EndLate(p) \/ EndRetry(p) \/ First(p) \/ Insert(p) \/ Fail(p)
  BY <1>4 DEF StoreWindow, EndLate, EndRetry, First, Insert, Fail
<1>5. CASE NoEvents(p) \/ Superseded(p) \/ InsertAndPause(p) \/ Finish(p) \/ Crash(p)
  BY <1>5 DEF NoEvents, Superseded, InsertAndPause, Finish, Crash, Stop
<1>. QED  BY <1>1, <1>2, <1>3, <1>4, <1>5 DEF Step

\* No row of a frontier comes later.
LEMMA VisibleShrinks ==
    ASSUME TypeInv, TypeInv', EnvioInv, Carries, FrontCommitted, NEW p \in Advancers,
           front'[p] = front[p]
    PROVE  Visible(p)' \subseteq Visible(p)
<1>1. ASSUME NEW r \in history', r.cp <= front[p][r.chain]
      PROVE  r \in history
  <2>1. r.chain \in Chains /\ r.cp \in Nat
    BY NumbersNext
  <2>2. front[p][r.chain] <= committed[r.chain] /\ committed[r.chain] <= top[r.chain]
    BY <2>1 DEF FrontCommitted, EnvioInv
  <2>3. front[p][r.chain] \in Nat /\ committed[r.chain] \in Nat /\ top[r.chain] \in Nat
    BY <2>1 DEF TypeInv, TypeOK, Frontiers
  <2>. QED  BY <1>1, <2>1, <2>2, <2>3 DEF Carries
<1>. QED  BY <1>1 DEF Visible

LEMMA PlanProvisionalEnd ==
    ASSUME TypeInv, NEW p \in Advancers, PlanProvisional(p)
    PROVE  ProvisionalStored(p)'
<1>1. /\ pc[p] = "planProvisional" /\ pos'[p] = reached[p] /\ reached'[p] = reached[p]
      /\ front' = front /\ history' = history
  BY DEF PlanProvisional, Plan, envio, TypeInv, TypeOK
<1>2. found'[p] = (Between(p, reached[p], RangeEnd(p)) # {})
  BY Zenon DEF PlanProvisional, Plan, TypeInv, TypeOK
<1>3. \A r \in Visible(p) : r \in history /\ r.at \in Nat /\ r.at <= MaxTime
  BY DEF Visible, TypeInv, TypeOK, Rows, Time
<1>4. ASSUME NEW r \in Visible(p), reached[p] <= r.at
      PROVE  r \in Between(p, reached[p], RangeEnd(p))
  BY <1>1, <1>3, <1>4 DEF Between, Selected, RangeEnd
<1>5. Visible(p)' = Visible(p)
  BY <1>1 DEF Visible
<1>6. \A r \in Visible(p) : reached[p] <= r.at => found'[p]
  <2>. HIDE DEF Between, RangeEnd
  <2>. QED  BY <1>2, <1>4
<1>7. \A r \in Visible(p) : reached[p] <= r.at => ~(r.at < reached[p])
  BY <1>3, Numbers
<1>. QED  BY <1>1, <1>5, <1>6, <1>7 DEF ProvisionalStored

LEMMA StoreChunkEnd ==
    ASSUME TypeInv, NEW p \in Advancers, ProvisionalStored(p), StoreChunk(p),
           pc[p] = "provisional"
    PROVE  ProvisionalStored(p)'
<1>1. PICK hi \in 0..(MaxTime + 1) : StoreUpTo(p, hi)
  BY DEF StoreChunk
<1>2. /\ pc'[p] = "provisional" /\ pos'[p] = hi /\ reached'[p] = reached[p]
      /\ found'[p] = found[p] /\ stored \subseteq stored'
  BY <1>1 DEF StoreChunk, StoreUpTo, TypeInv, TypeOK
<1>3. Visible(p)' = Visible(p)
  BY DEF Visible, StoreChunk, envio
<1>4. ASSUME NEW r \in Visible(p), reached[p] <= r.at
      PROVE  found[p] /\ (r.at < hi => r \in stored')
  <2>1. found[p] /\ (r.at < pos[p] => r \in stored)
    BY <1>4 DEF ProvisionalStored
  <2>2. r.at \in Nat /\ pos[p] \in Nat
    BY Numbers DEF Visible
  <2>3. ASSUME r.at < hi, pos[p] <= r.at
        PROVE  r \in Between(p, pos[p], hi)
    BY <2>3 DEF Between, Selected
  <2>4. ASSUME r.at < hi, pos[p] <= r.at
        PROVE  r \in stored'
    BY <1>1, <2>1, <2>3, <2>4 DEF StoreUpTo
  <2>. QED  BY <1>2, <2>1, <2>2, <2>4
<1>. QED  BY <1>2, <1>3, <1>4 DEF ProvisionalStored

LEMMA StepEndInv ==
    ASSUME Reach = 0, TypeInv, GateInv, EndInv, [Next]_vars
    PROVE  EndInv'
<1>1. TypeInv' /\ Carries /\ EnvioInv /\ \A c \in Chains : committed[c] <= committed'[c]
  BY StepTypeInv, StepCarries, CommittedGrows DEF GateInv
<1>2. \A c \in Chains : committed[c] \in Nat /\ committed'[c] \in Nat
  BY <1>1 DEF TypeInv, TypeOK, Frontiers
<1>3. ASSUME NEW r \in stored, stored' = stored
      PROVE  r.cp <= committed'[r.chain]
  <2>1. r.cp \in Nat /\ r.chain \in Chains /\ r.cp <= committed[r.chain]
    BY DEF TypeInv, TypeOK, Rows, Cps, EndInv, OnlyCommittedStored
  <2>. QED  BY <1>1, <1>2, <2>1
<1>4. CASE UNCHANGED <<locals, stored>>
  <2>1. FrontCommitted'
    BY <1>1, <1>2, <1>4, Numbers DEF locals, EndInv, FrontCommitted
  <2>2. ASSUME NEW p \in Advancers
        PROVE  ProvisionalStored(p)'
    <3>1. Visible(p)' \subseteq Visible(p)
      BY <1>1, <1>4, VisibleShrinks DEF locals, EndInv
    <3>. QED  BY <1>4, <3>1 DEF locals, EndInv, ProvisionalStored
  <2>. QED  BY <1>3, <1>4, <2>1, <2>2 DEF EndInv, OnlyCommittedStored
<1>5. ASSUME NEW p \in Advancers, Step(p) \/ Fail(p) \/ Crash(p)
      PROVE  EndInv'
  <2>1. committed' = committed /\ stored \subseteq stored' /\ history' = history
    <3>1. stored \subseteq stored'
      BY <1>1 DEF Carries
    <3>. QED  BY <1>5, <3>1 DEF envio, Step, ReadMovedAt, ReadFrontier, ReadWatermark,
         ReadTarget, PlanLate, PlanRetry, PlanWindow, PlanProvisional, PlanRescue, Plan,
         StoreChunk, EndLate, EndRetry, First, NoEvents, StoreWindow, Check, Superseded,
         Insert, InsertAndPause, Finish, Fail, Crash
  <2>2. ASSUME NEW q \in Advancers, q # p
        PROVE  SameLocals(q)
    BY <1>5, <2>2, OthersStill
  <2>3. FrontCommitted'
    <3>1. \A c \in Chains : front'[p][c] <= committed[c]
      BY <1>2, <1>5, FrontAfter DEF EndInv, FrontCommitted, NoFrontier
    <3>2. \A q \in Advancers, c \in Chains : q # p => front'[q][c] <= committed[c]
      BY <2>2 DEF SameLocals, EndInv, FrontCommitted
    <3>. QED  BY <2>1, <3>1, <3>2 DEF FrontCommitted
  <2>4. OnlyCommittedStored'
    <3>1. ASSUME NEW r \in Visible(p)
          PROVE  r.cp <= committed[r.chain]
      BY <1>2, Numbers DEF Visible, EndInv, FrontCommitted
    <3>. QED  BY <1>5, <2>1, <3>1, StoredAfter DEF EndInv, OnlyCommittedStored
  <2>5. ProvisionalStored(p)'
    <3>1. CASE pc'[p] # "provisional"
      BY <3>1 DEF ProvisionalStored
    <3>. QED  BY <1>5, <3>1, ProvisionalAfter, PlanProvisionalEnd, StoreChunkEnd DEF EndInv
  <2>6. ASSUME NEW q \in Advancers, q # p
        PROVE  ProvisionalStored(q)'
    <3>1. Visible(q)' = Visible(q)
      BY <2>1, <2>2, <2>6 DEF Visible, SameLocals
    <3>. QED  BY <2>1, <2>2, <2>6, <3>1 DEF SameLocals, EndInv, ProvisionalStored
  <2>. QED  BY <2>3, <2>4, <2>5, <2>6 DEF EndInv
<1>6. CASE \/ UNCHANGED vars \/ Tick \/ \E c \in Chains : WriteRow(c) \/ Commit(c)
           \/ \E r \in Rewinders : ReadForRewind(r) \/ WriteRewind(r)
  <2>1. UNCHANGED <<locals, stored>>
    BY <1>6 DEF vars, Tick, WriteRow, Commit, ReadForRewind, WriteRewind
  <2>. QED  BY <1>4, <2>1
<1>. QED  BY <1>1, <1>5, <1>6, NoRollback DEF Next

\* Rows below what the watermark has reached were passed, the others are provisional.
LEMMA EndInvSuffices ==
    ASSUME Reach = 0, TypeInv, GateInv, EndInv
    PROVE  StoresItsFrontier
<1>1. ASSUME NEW p \in Advancers, pc[p] = "provisional", pos[p] >= RangeEnd(p),
             NEW r \in Visible(p)
      PROVE  r \in stored
  <2>1. r \in history /\ r.at \in Nat /\ r.at <= MaxTime /\ reached[p] \in Nat
        /\ pos[p] \in Nat /\ target[p] \in Nat
    BY Numbers DEF Visible, TypeInv, TypeOK, Rows, Time
  <2>2. r.at < pos[p]
    BY <1>1, <2>1 DEF RangeEnd
  <2>3. CASE reached[p] <= r.at
    BY <1>1, <2>2, <2>3 DEF EndInv, ProvisionalStored
  <2>4. CASE r.at < reached[p]
    <3>1. r \in Settled(p)
      BY <1>1, <2>1, <2>4 DEF Settled, Slack, Horizon, Opening
    <3>. QED  BY <1>1, <2>4, <3>1 DEF GateInv, AdvanceInv, PassedStored
  <2>. QED  BY <2>1, <2>3, <2>4
<1>. QED  BY <1>1 DEF StoresItsFrontier, EndedAdvanceLeavesNothing, EndInv

\* While no reorg happens, an advance that ends leaves no event of its frontier without a
\* price, and none stores a price of an event that is not committed (advanceVersion,
\* repriceStatement), whatever advances, rewinds, crashes and late rows are about.
THEOREM FrontierStored == ASSUME Reach = 0 PROVE Spec => []StoresItsFrontier
<1>1. RollbacksInReach
  BY DEF RollbacksInReach
<1>2. TypeInv /\ GateInv /\ [Next]_vars => GateInv'
  BY <1>1, StepGateInv
<1>3. TypeInv /\ GateInv /\ EndInv /\ [Next]_vars => EndInv'
  BY StepEndInv
<1>4. TypeInv /\ GateInv /\ EndInv => StoresItsFrontier
  BY EndInvSuffices
<1>. QED  BY <1>2, <1>3, <1>4, StepTypeInv, InitTypeInv, InitGateInv, InitEndInv, PTL
          DEF Spec

-----------------------------------------------------------------------------
(* With one advance at a time only a rewind takes the watermark back: where *)
(* an advance goes on from is not below the watermark as long as nobody     *)
(* else wrote it, and the insert that follows a rewind carries an earlier   *)
(* moved_at than the rewind, which readers keep.                            *)

OneAdvance == \A p, q \in Advancers : p = q

AheadOfWatermark(p) == Opened(p) /\ seen[p] = wm.moved => wm.at <= reached[p]

InsertsOverOwn(p) ==
    pc[p] = "insert" => next[p] # wm.moved /\ (next[p] > wm.moved => seen[p] = wm.moved)

GoesOn(p) ==
    pc[p] \in {"planWindow", "window", "check", "insert"} => reached[p] <= pos[p]

\* movedAt is read before the watermark, and the first advance has found none.
SeenBefore(p) ==
    /\ pc[p] \in {"frontier", "watermark"} => seen[p] <= wm.moved
    /\ pc[p] \in {"target", "first"} => seen[p] <= base[p].moved
    /\ pc[p] = "first" => base[p].moved = 0

BackInv ==
    /\ wm.moved = 0 => wm.at = 0
    /\ \A p \in Advancers : /\ AheadOfWatermark(p)
                            /\ InsertsOverOwn(p)
                            /\ GoesOn(p)
                            /\ SeenBefore(p)

LEMMA InitBackInv == Init => BackInv
  BY DEF Init, BackInv, AheadOfWatermark, InsertsOverOwn, GoesOn, SeenBefore, Opened,
     NoWatermark

LEMMA MoreNumbers ==
    ASSUME TypeInv
    PROVE  /\ wm.moved \in Nat /\ wm.at \in Nat /\ moves \in Nat
           /\ \A p \in Advancers : /\ seen[p] \in Nat /\ next[p] \in Nat
                                   /\ base[p].moved \in Nat /\ base[p].at \in Nat
                                   /\ pos[p] \in Nat /\ reached[p] \in Nat
                                   /\ target[p] \in Nat
  BY DEF TypeInv, TypeOK, Watermarks, Time

\* A new row of the watermark is at the place its advance has come to.
LEMMA InsertMovesOn ==
    ASSUME TypeInv, BackInv, NEW p \in Advancers, pc[p] = "insert", WriteNewRow(p)
    PROVE  \/ wm' = wm /\ next[p] < wm.moved
           \/ /\ wm'.at = pos[p] /\ wm'.moved = next[p]
              /\ next[p] > wm.moved /\ seen[p] = wm.moved
              /\ wm.at <= wm'.at
<1>1. next[p] # wm.moved /\ (next[p] > wm.moved => seen[p] = wm.moved)
  BY DEF BackInv, InsertsOverOwn
<1>2. seen[p] = wm.moved => wm.at <= pos[p]
  BY MoreNumbers DEF BackInv, AheadOfWatermark, GoesOn, Opened
<1>3. CASE next[p] > wm.moved
  BY <1>1, <1>2, <1>3 DEF WriteNewRow, NewRow
<1>4. CASE ~(next[p] > wm.moved)
  BY <1>1, <1>4, MoreNumbers DEF WriteNewRow
<1>. QED  BY <1>3, <1>4

\* The step of the one advance there is.
LEMMA AdvanceBackInv ==
    ASSUME TypeInv, TypeInv', RewindInv, BackInv, OneAdvance, NEW p \in Advancers,
           Step(p) \/ Fail(p) \/ Crash(p)
    PROVE  BackInv'
<1>. SUFFICES /\ wm'.moved = 0 => wm'.at = 0
              /\ AheadOfWatermark(p)' /\ InsertsOverOwn(p)'
              /\ GoesOn(p)' /\ SeenBefore(p)'
  BY DEF BackInv, OneAdvance
<1>. USE DEF AheadOfWatermark, InsertsOverOwn, GoesOn, SeenBefore, Opened
<1>0. /\ wm.moved = 0 => wm.at = 0
      /\ AheadOfWatermark(p) /\ InsertsOverOwn(p) /\ GoesOn(p) /\ SeenBefore(p)
      /\ pc \in [Advancers -> Steps] /\ pos \in [Advancers -> Nat]
      /\ seen \in [Advancers -> Nat] /\ next \in [Advancers -> Nat]
      /\ reached \in [Advancers -> Time] /\ base \in [Advancers -> Watermarks]
      /\ wm.moved <= moves
  BY DEF BackInv, RewindInv, TypeInv, TypeOK
<1>1. CASE ReadMovedAt(p)
  BY <1>0, <1>1, MoreNumbers DEF ReadMovedAt, Goto
<1>2. CASE ReadFrontier(p)
  BY <1>0, <1>2 DEF ReadFrontier, Goto
<1>3. CASE ReadWatermark(p)
  BY <1>0, <1>3, MoreNumbers DEF ReadWatermark, Goto
<1>4. CASE ReadTarget(p)
  <2>1. \/ pc'[p] = "first" /\ ~(base[p].moved > 0)
        \/ pc'[p] \in {"planRetry", "planLate"}
    BY <1>0, <1>4 DEF ReadTarget, AfterTarget, Started, Goto
  <2>. QED  BY <1>0, <1>4, <2>1, MoreNumbers DEF ReadTarget
<1>5. CASE PlanLate(p) \/ PlanRetry(p) \/ PlanProvisional(p) \/ PlanRescue(p)
  BY <1>0, <1>5 DEF PlanLate, PlanRetry, PlanProvisional, PlanRescue, Plan, Goto
<1>6. CASE PlanWindow(p)
  BY <1>0, <1>6, MoreNumbers DEF PlanWindow, Plan, Goto
<1>7. CASE StoreChunk(p)
  BY <1>0, <1>7 DEF StoreChunk
<1>8. CASE EndLate(p)
  BY <1>0, <1>8 DEF EndLate, Goto
<1>9. CASE EndRetry(p)
  BY <1>0, <1>9, MoreNumbers DEF EndRetry, MoveAloneTo, Goto
<1>10. CASE First(p)
  <2>1. PICK start \in Time :
            /\ pos' = [pos EXCEPT ![p] = start]
            /\ reached' = [reached EXCEPT ![p] = start]
            /\ Goto(p, IF start < target[p] THEN "planWindow" ELSE "check")
    BY <1>10 DEF First
  <2>2. pos'[p] = start /\ reached'[p] = start /\ pc'[p] \in {"planWindow", "check"}
    BY <1>0, <2>1 DEF Goto
  <2>3. seen[p] = 0 /\ start \in Nat
    BY <1>0, <1>10, MoreNumbers DEF First, Time
  <2>. QED  BY <1>0, <1>10, <2>2, <2>3, MoreNumbers DEF First
<1>11. CASE NoEvents(p) \/ Superseded(p) \/ Finish(p) \/ Crash(p)
  BY <1>0, <1>11 DEF NoEvents, Superseded, Finish, Crash, Stop, Goto
<1>12. CASE StoreWindow(p)
  <2>1. PICK hi \in Time : pos[p] < hi /\ pos'[p] = hi
    BY <1>0, <1>12 DEF StoreWindow, StoreUpTo
  <2>. QED  BY <1>0, <1>12, <2>1, MoreNumbers DEF StoreWindow, Goto, Time
<1>13. CASE Check(p)
  BY <1>0, <1>13, MoreNumbers DEF Check, Unchanged, Goto
<1>14. CASE Insert(p)
  <2>1. /\ pc[p] = "insert" /\ WriteNewRow(p)
        /\ pc'[p] \in {"window", "planProvisional"}
        /\ seen'[p] = next[p] /\ reached'[p] = pos[p] /\ pos'[p] = pos[p]
    BY <1>0, <1>14 DEF Insert, Goto
  <2>. QED  BY <1>0, <2>1, InsertMovesOn, MoreNumbers
<1>15. CASE InsertAndPause(p)
  <2>1. pc'[p] = "idle" /\ pc[p] = "insert" /\ WriteNewRow(p)
    BY <1>0, <1>15 DEF InsertAndPause, Stop, Goto
  <2>. QED  BY <1>0, <2>1, InsertMovesOn, MoreNumbers
<1>16. CASE Fail(p)
  <2>1. /\ pc'[p] = "planRescue" /\ seen' = seen /\ reached' = reached
        /\ pc[p] \notin {"idle", "frontier", "watermark"}
    BY <1>0, <1>16 DEF Fail, Goto
  <2>2. wm' = wm \/ (pc[p] = "insert" /\ WriteNewRow(p))
    BY <1>16 DEF Fail
  <2>. QED  BY <1>0, <2>1, <2>2, InsertMovesOn, MoreNumbers
<1>. QED  BY <1>1, <1>2, <1>3, <1>4, <1>5, <1>6, <1>7, <1>8, <1>9, <1>10, <1>11, <1>12,
             <1>13, <1>14, <1>15, <1>16 DEF Step

LEMMA StepBackInv ==
    ASSUME TypeInv, RewindInv, BackInv, OneAdvance, [Next]_vars
    PROVE  BackInv'
<1>1. TypeInv'
  BY StepTypeInv
<1>2. CASE UNCHANGED <<wm, locals>>
  BY <1>2 DEF locals, BackInv, AheadOfWatermark, InsertsOverOwn, GoesOn, SeenBefore, Opened
<1>3. ASSUME NEW r \in Rewinders, WriteRewind(r)
      PROVE  BackInv'
  <2>1. wm'.moved = moves + 1 /\ UNCHANGED locals
    BY <1>3 DEF WriteRewind
  <2>2. \A p \in Advancers : seen[p] < wm'.moved /\ next[p] < wm'.moved
    BY <2>1, MoreNumbers DEF RewindInv
  <2>3. wm.moved <= wm'.moved /\ wm'.moved # 0
    BY <2>1, MoreNumbers DEF RewindInv
  <2>. QED  BY <2>1, <2>2, <2>3, MoreNumbers DEF locals, BackInv, AheadOfWatermark,
            InsertsOverOwn, GoesOn, SeenBefore, Opened
<1>4. CASE \/ UNCHANGED vars \/ Tick
           \/ \E c \in Chains : WriteRow(c) \/ Commit(c) \/ Rollback(c)
           \/ \E r \in Rewinders : ReadForRewind(r)
  BY <1>2, <1>4 DEF vars, locals, Tick, WriteRow, Commit, Rollback, ReadForRewind
<1>. QED  BY <1>1, <1>3, <1>4, AdvanceBackInv DEF Next

LEMMA StepMovesOn ==
    ASSUME TypeInv, BackInv, [Next]_vars, wm' # wm, wm'.at < wm.at
    PROVE  wm'.kind = "rewind"
<1>1. ASSUME NEW p \in Advancers, pc[p] = "insert", WriteNewRow(p)
      PROVE  FALSE
  <2>1. wm.at <= wm'.at
    BY <1>1, InsertMovesOn
  <2>2. wm.at \in Nat /\ pos[p] \in Nat
    BY MoreNumbers
  <2>3. wm'.at = pos[p]
    BY <1>1 DEF WriteNewRow, NewRow
  <2>. QED  BY <2>1, <2>2, <2>3
<1>2. ASSUME NEW r \in Rewinders, WriteRewind(r)
      PROVE  wm'.kind = "rewind"
  BY <1>2 DEF WriteRewind
<1>. QED  BY <1>1, <1>2 DEF Next, Step, vars, Tick, WriteRow, Commit, Rollback, ReadMovedAt,
     ReadFrontier, ReadWatermark, ReadTarget, PlanLate, PlanRetry, PlanWindow,
     PlanProvisional, PlanRescue, Plan, StoreChunk, EndLate, EndRetry, First, NoEvents,
     StoreWindow, Check, Superseded, Insert, InsertAndPause, Finish, Fail, Crash,
     ReadForRewind

\* One advance at a time, next to any number of operators, never takes the watermark back
\* (advanceVersion, writeWatermarkIfUnchanged): only a rewind does.
THEOREM MovesOn == ASSUME OneAdvance PROVE Spec => OnlyRewindMovesBack
<1>1. TypeInv /\ RewindInv /\ [Next]_vars => RewindInv'
  BY StepRewindInv
<1>2. TypeInv /\ RewindInv /\ BackInv /\ [Next]_vars => BackInv'
  BY StepBackInv
<1>3. TypeInv /\ BackInv /\ [Next]_vars => [wm'.at < wm.at => wm'.kind = "rewind"]_wm
  BY StepMovesOn
<1>. QED  BY <1>1, <1>2, <1>3, StepTypeInv, InitTypeInv, InitRewindInv, InitBackInv, PTL
          DEF Spec, OnlyRewindMovesBack

=============================================================================
