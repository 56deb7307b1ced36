----------------------------- MODULE GuardsProofs -----------------------------
(***************************************************************************)
(* The breaker and the limiter, each on its own and the one inside the     *)
(* other, for every set of calls and all settings.                         *)
(*                                                                         *)
(* The breaker's argument: when a probe is let in, openMs are over, so     *)
(* every call from before the opening has settled.  The limiter's: a       *)
(* waiter is in the queue once and not inside, so passing a place on       *)
(* counts it once.  Together: a call is in the breaker exactly while it    *)
(* waits or its query runs, so a probe, which is alone, finds a place, and *)
(* the two timers bound what the breaker has to assume of its calls.       *)
(***************************************************************************)
EXTENDS Guards, FiniteSetTheorems, SequenceTheorems, TLAPS

-----------------------------------------------------------------------------
(* The breaker.                                                            *)

LEMMA InitTyped == B!Init => B!TypeOK
<1> SUFFICES ASSUME B!Init PROVE B!TypeOK
  OBVIOUS
<1>1. probing \in BOOLEAN
  BY DEF B!Init
<1>2. openedAt \in 0..(MaxTime + 1)
  BY BreakerAssumption DEF BreakerAssumption, B!Init, B!Closed
<1> QED
  BY <1>1, <1>2, BreakerAssumption DEF BreakerAssumption, B!Init, B!TypeOK

LEMMA NextTyped == B!TypeOK /\ [B!Next]_(B!vars) => B!TypeOK'
<1> SUFFICES ASSUME B!TypeOK, [B!Next]_(B!vars) PROVE B!TypeOK'
  OBVIOUS
<1> USE BreakerAssumption DEF BreakerAssumption, B!TypeOK
<1>1. ASSUME NEW c \in Calls, B!Admit(c) PROVE B!TypeOK'
  BY <1>1 DEF B!Admit
<1>2. ASSUME NEW c \in Calls, B!Probe(c) PROVE B!TypeOK'
  BY <1>2 DEF B!Probe
<1>3. ASSUME NEW c \in Calls, B!Succeed(c) PROVE B!TypeOK'
  <2>1. openedAt' \in 0..(MaxTime + 1)
    BY <1>3 DEF B!Succeed, B!Closed
  <2> QED
    BY <1>3, <2>1 DEF B!Succeed, B!Settle
<1>4. ASSUME NEW c \in Calls, B!Fail(c) PROVE B!TypeOK'
  <2>1. openedAt' \in 0..(MaxTime + 1) /\ failures' \in Nat
    BY <1>4 DEF B!Fail
  <2> QED
    BY <1>4, <2>1 DEF B!Fail, B!Settle
<1>5. ASSUME NEW c \in Calls, B!PassOn(c) PROVE B!TypeOK'
  BY <1>5 DEF B!PassOn, B!Settle
<1>6. CASE B!Tick
  BY <1>6 DEF B!Tick
<1>7. CASE UNCHANGED B!vars
  BY <1>7 DEF B!vars
<1> QED
  BY <1>1, <1>2, <1>3, <1>4, <1>5, <1>6, <1>7 DEF B!Next

\* Every variable of the breaker keeps its type.
THEOREM TypeCorrect == B!Spec => []B!TypeOK
  BY InitTyped, NextTyped, PTL DEF B!Spec

-----------------------------------------------------------------------------
(* Why a probe is alone.  Only calls admitted before the opening can be in  *)
(* flight when the probe is admitted, at least OpenMs after it; by then     *)
(* each of them is older than CallMax.                                      *)
InFlightInTime == \A c \in running : startedAt[c] <= now /\ now - startedAt[c] <= CallMax
OpenedInThePast == B!IsOpen => openedAt <= now
StragglersPrecedeOpening ==
    B!IsOpen /\ ~probing => \A c \in running : startedAt[c] <= openedAt
ProbesOnlyWhenOpen == probes # {} => B!IsOpen

BreakerInv ==
    /\ InFlightInTime
    /\ OpenedInThePast
    /\ StragglersPrecedeOpening
    /\ ProbesOnlyWhenOpen
    /\ B!ProbingMeansProbe
    /\ B!ProbeIsAlone

LEMMA InvStep == ASSUME B!CallsEndInTime, B!TypeOK, BreakerInv, [B!Next]_(B!vars)
                 PROVE  BreakerInv'
<1> USE BreakerAssumption DEF BreakerAssumption, B!TypeOK, BreakerInv, InFlightInTime, OpenedInThePast,
        StragglersPrecedeOpening, ProbesOnlyWhenOpen, B!ProbingMeansProbe, B!ProbeIsAlone,
        B!IsOpen
<1>1. ASSUME NEW c \in Calls, B!Admit(c) PROVE BreakerInv'
  BY <1>1 DEF B!Admit
<1>2. ASSUME NEW c \in Calls, B!Probe(c) PROVE BreakerInv'
  \* openMs are over, so no straggler is left and the probe starts alone
  <2>1. running = {}
    BY <1>2 DEF B!Probe, B!MayProbe, B!Closed, B!CallsEndInTime
  <2> QED
    BY <1>2, <2>1 DEF B!Probe, B!MayProbe
<1>3. ASSUME NEW c \in Calls, B!Succeed(c) PROVE BreakerInv'
  BY <1>3 DEF B!Succeed, B!Settle
<1>4. ASSUME NEW c \in Calls, B!Fail(c) PROVE BreakerInv'
  BY <1>4 DEF B!Fail, B!Settle, B!Opens
<1>5. ASSUME NEW c \in Calls, B!PassOn(c) PROVE BreakerInv'
  BY <1>5 DEF B!PassOn, B!Settle
<1>6. CASE B!Tick
  BY <1>6 DEF B!Tick
<1>7. CASE UNCHANGED B!vars
  BY <1>7 DEF B!vars
<1> QED
  BY <1>1, <1>2, <1>3, <1>4, <1>5, <1>6, <1>7 DEF B!Next

LEMMA InvInit == B!Init => BreakerInv
BY DEF B!Init, BreakerInv, InFlightInTime, OpenedInThePast, StragglersPrecedeOpening,
       ProbesOnlyWhenOpen, B!ProbingMeansProbe, B!ProbeIsAlone, B!IsOpen

\* While a probe is out it is the only call in flight, whenever calls end in time.
THEOREM ProbeAlone == B!CallsEndInTime => (B!Spec => []B!ProbeIsAlone)
<1> SUFFICES ASSUME B!CallsEndInTime PROVE B!Spec => []B!ProbeIsAlone
  OBVIOUS
<1>1. B!TypeOK /\ BreakerInv /\ [B!Next]_(B!vars) => BreakerInv'
  BY InvStep
<1>2. BreakerInv => B!ProbeIsAlone
  BY DEF BreakerInv
<1> QED
  BY <1>1, <1>2, InvInit, TypeCorrect, PTL DEF B!Spec

\* The flag and the probe come and go together, so nobody is refused for good.
THEOREM ProbingSound == B!CallsEndInTime => (B!Spec => []B!ProbingMeansProbe)
<1> SUFFICES ASSUME B!CallsEndInTime PROVE B!Spec => []B!ProbingMeansProbe
  OBVIOUS
<1>1. B!TypeOK /\ BreakerInv /\ [B!Next]_(B!vars) => BreakerInv'
  BY InvStep
<1>2. BreakerInv => B!ProbingMeansProbe
  BY DEF BreakerInv
<1> QED
  BY <1>1, <1>2, InvInit, TypeCorrect, PTL DEF B!Spec

-----------------------------------------------------------------------------
(* The limiter.                                                            *)

\* The limiter's count is the one the library's theorems are about.
LEMMA CountsAgree == \A S : L!Cardinality(S) = Cardinality(S)
  BY DEF L!Cardinality, Cardinality

\* The inductive invariant; the runs are finitely many, or counting them means nothing.
LimiterInv == L!TypeOK /\ IsFiniteSet(inside) /\ L!Bounded /\ L!NoIdlePlace /\ L!WaitsOnce

LEMMA LimiterInit == L!Init => LimiterInv
  <1> SUFFICES ASSUME L!Init PROVE LimiterInv
    OBVIOUS
  <1>1. IsFiniteSet({}) /\ Cardinality({}) = 0
    BY FS_EmptySet
  <1>2. L!TypeOK
    BY DEF L!Init, L!TypeOK
  <1>3. L!Bounded
    BY <1>1, LimiterAssumption, CountsAgree DEF L!Init, L!Bounded, LimiterAssumption
  <1>4. L!NoIdlePlace /\ L!WaitsOnce
    BY DEF L!Init, L!NoIdlePlace, L!WaitsOnce, L!Queued, L!Range
  <1> QED
    BY <1>1, <1>2, <1>3, <1>4 DEF L!Init, LimiterInv

LEMMA EnterStep == ASSUME LimiterInv, NEW c \in Calls, L!Enter(c) PROVE LimiterInv'
  <1> USE LimiterAssumption DEF LimiterAssumption
  <1>1. L!TypeOK'
    BY DEF LimiterInv, L!TypeOK, L!Enter, L!Free
  <1>2. IsFiniteSet(inside)' /\ Cardinality(inside') = Cardinality(inside) + 1
    BY FS_AddElement DEF LimiterInv, L!Enter, L!Outside
  <1>3. L!Bounded'
    BY <1>2, CountsAgree DEF LimiterInv, L!TypeOK, L!Bounded, L!Enter, L!Free
  <1>4. L!NoIdlePlace'
    BY DEF LimiterInv, L!TypeOK, L!NoIdlePlace, L!Enter, L!Free
  <1>5. L!WaitsOnce'
    BY DEF LimiterInv, L!WaitsOnce, L!Enter, L!Outside, L!Queued, L!Range
  <1> QED
    BY <1>1, <1>2, <1>3, <1>4, <1>5 DEF LimiterInv

LEMMA WaitStep == ASSUME LimiterInv, NEW c \in Calls, L!Wait(c) PROVE LimiterInv'
  <1> USE LimiterAssumption DEF LimiterAssumption
  <1>1. L!TypeOK'
    BY DEF LimiterInv, L!TypeOK, L!Wait
  <1>2. L!Bounded'
    BY CountsAgree DEF LimiterInv, L!TypeOK, L!Bounded, L!Wait
  <1>3. L!NoIdlePlace'
    BY CountsAgree DEF LimiterInv, L!TypeOK, L!Bounded, L!NoIdlePlace, L!Wait, L!Free
  <1>4. /\ DOMAIN waiting = 1..Len(waiting)
        /\ DOMAIN waiting' = 1..(Len(waiting) + 1)
        /\ \A i \in DOMAIN waiting' :
            waiting'[i] = IF i = Len(waiting) + 1 THEN c ELSE waiting[i]
    BY DEF LimiterInv, L!TypeOK, L!Wait
  <1>5. \A i \in DOMAIN waiting : waiting[i] # c /\ waiting[i] \notin inside
    BY DEF LimiterInv, L!WaitsOnce, L!Wait, L!Outside, L!Queued, L!Range
  <1>6. c \notin inside /\ inside' = inside /\ Len(waiting) \in Nat
    BY DEF LimiterInv, L!TypeOK, L!Wait, L!Outside
  <1>7. L!WaitsOnce'
    BY <1>4, <1>5, <1>6 DEF LimiterInv, L!WaitsOnce, L!Queued, L!Range
  <1> QED
    BY <1>1, <1>2, <1>3, <1>6, <1>7 DEF LimiterInv

\* A sequence without its i-th element.
LEMMA RemovedAt ==
    ASSUME NEW s \in Seq(Calls), NEW i \in DOMAIN s, NEW t, t = L!RemoveAt(s, i)
    PROVE  /\ t \in Seq(Calls) /\ Len(t) = Len(s) - 1 /\ DOMAIN t = 1..(Len(s) - 1)
           /\ \A n \in DOMAIN t : t[n] = IF n < i THEN s[n] ELSE s[n + 1]
  <1>1. t = SubSeq(s, 1, i - 1) \o SubSeq(s, i + 1, Len(s))
    BY DEF L!RemoveAt
  <1>2. Len(s) \in Nat /\ i \in 1..Len(s)
    OBVIOUS
  <1> DEFINE before == SubSeq(s, 1, i - 1)
             after == SubSeq(s, i + 1, Len(s))
  <1>a. /\ before \in Seq(Calls) /\ Len(before) = i - 1
        /\ \A n \in 1..(i - 1) : before[n] = s[n]
    BY <1>2
  <1>b. /\ after \in Seq(Calls) /\ Len(after) = Len(s) - i
        /\ \A n \in 1..(Len(s) - i) : after[n] = s[i + n]
    BY <1>2
  <1>c. t = before \o after
    BY <1>1
  <1> HIDE DEF before, after
  <1>3. /\ t \in Seq(Calls)
        /\ Len(t) = Len(s) - 1
        /\ DOMAIN t = 1..(Len(s) - 1)
    <2>1. /\ before \o after \in Seq(Calls)
          /\ Len(before \o after) = Len(before) + Len(after)
      BY <1>a, <1>b, ConcatProperties
    <2>3. t \in Seq(Calls) /\ Len(t) = Len(before) + Len(after)
      BY <1>c, <2>1
    <2>2. Len(before) + Len(after) = Len(s) - 1
      BY <1>2, <1>a, <1>b
    <2>4. DOMAIN t = 1..Len(t)
      BY <2>3
    <2> QED
      BY <2>2, <2>3, <2>4
  <1>4. \A n \in DOMAIN t : t[n] = IF n < i THEN s[n] ELSE s[n + 1]
    <2>4. \A n \in 1..(Len(s) - 1) :
            t[n] = IF n <= i - 1 THEN before[n] ELSE after[n - (i - 1)]
      <3>1. \A n \in 1..(Len(before) + Len(after)) :
              (before \o after)[n] = IF n <= Len(before) THEN before[n] ELSE after[n - Len(before)]
        BY <1>a, <1>b, ConcatProperties
      <3>2. Len(before) = i - 1 /\ Len(before) + Len(after) = Len(s) - 1
        BY <1>2, <1>a, <1>b
      <3> QED  BY <1>c, <3>1, <3>2
    <2>5. \A n \in 1..(Len(s) - 1) :
            n > i - 1 => /\ n - (i - 1) \in 1..(Len(s) - i)
                         /\ i + (n - (i - 1)) = n + 1
      BY <1>2
    <2> SUFFICES ASSUME NEW n \in 1..(Len(s) - 1)
                 PROVE t[n] = IF n < i THEN s[n] ELSE s[n + 1]
      BY <1>3
    <2>6. CASE n <= i - 1
      BY <1>2, <1>a, <2>4, <2>6
    <2>7. CASE n > i - 1
      <3>1. t[n] = after[n - (i - 1)]
        BY <1>2, <2>4, <2>7
      <3>2. after[n - (i - 1)] = s[n + 1]
        BY <1>b, <2>5, <2>7
      <3> QED
        BY <1>2, <2>7, <3>1, <3>2
    <2> QED
      BY <1>2, <2>6, <2>7
  <1> QED
    BY <1>3, <1>4

\* Where the n-th waiter stood before the i-th one left.
At(n, i) == IF n < i THEN n ELSE n + 1

LEMMA TimeOutStep == ASSUME LimiterInv, NEW c \in Calls, L!TimeOut(c) PROVE LimiterInv'
  <1> USE LimiterAssumption DEF LimiterAssumption
  <1>1. PICK i \in DOMAIN waiting : waiting' = L!RemoveAt(waiting, i)
    BY DEF L!TimeOut
  <1>2. waiting \in Seq(Calls) /\ Len(waiting) \in Nat /\ i \in 1..Len(waiting) /\ inside' = inside
    BY DEF LimiterInv, L!TypeOK, L!TimeOut
  <1>3. /\ waiting' \in Seq(Calls)
        /\ Len(waiting') = Len(waiting) - 1
        /\ DOMAIN waiting' = 1..(Len(waiting) - 1)
        /\ \A n \in DOMAIN waiting' : waiting'[n] = IF n < i THEN waiting[n] ELSE waiting[n + 1]
    BY <1>1, <1>2, RemovedAt
  <1>5. L!TypeOK'
    BY <1>3 DEF LimiterInv, L!TypeOK, L!TimeOut
  <1>6. L!Bounded'
    BY <1>2, <1>3, CountsAgree DEF LimiterInv, L!Bounded, L!TimeOut
  <1>7. L!NoIdlePlace'
    BY <1>2 DEF LimiterInv, L!NoIdlePlace, L!TimeOut
  <1>8. \A n \in DOMAIN waiting' :
          /\ At(n, i) \in DOMAIN waiting
          /\ waiting'[n] = waiting[At(n, i)]
    <2> SUFFICES ASSUME NEW n \in DOMAIN waiting'
                 PROVE At(n, i) \in DOMAIN waiting /\ waiting'[n] = waiting[At(n, i)]
      OBVIOUS
    <2>1. n \in 1..(Len(waiting) - 1) /\ DOMAIN waiting = 1..Len(waiting)
      BY <1>2, <1>3
    <2>2. CASE n < i
      <3>1. At(n, i) = n
        BY <2>2 DEF At
      <3> QED
        BY <1>2, <1>3, <2>1, <2>2, <3>1
    <2>3. CASE ~(n < i)
      <3>1. At(n, i) = n + 1
        BY <2>3 DEF At
      <3>2. n + 1 \in 1..Len(waiting)
        BY <1>2, <2>1
      <3> QED
        BY <1>3, <2>1, <2>3, <3>1, <3>2
    <2> QED
      BY <2>2, <2>3
  <1>9. \A m, n \in DOMAIN waiting' : At(m, i) = At(n, i) => m = n
    BY <1>2, <1>3 DEF At
  <1>10. \A m, n \in DOMAIN waiting' : waiting'[m] = waiting'[n] => m = n
    <2> SUFFICES ASSUME NEW m \in DOMAIN waiting', NEW n \in DOMAIN waiting',
                        waiting'[m] = waiting'[n]
                 PROVE m = n
      OBVIOUS
    <2>1. waiting[At(m, i)] = waiting[At(n, i)]
      BY <1>8
    <2>2. At(m, i) = At(n, i)
      BY <1>8, <2>1 DEF LimiterInv, L!WaitsOnce
    <2> QED
      BY <1>9, <2>2
  <1>11. L!Range(waiting') \subseteq L!Range(waiting)
    BY <1>8 DEF L!Range
  <1>12. L!WaitsOnce'
    <2>1. L!Range(waiting) \cap inside = {}
      BY DEF LimiterInv, L!WaitsOnce, L!Queued
    <2>2. L!Range(waiting') \cap inside' = {}
      BY <1>2, <1>11, <2>1
    <2> QED
      BY <1>10, <2>2 DEF L!WaitsOnce, L!Queued
  <1> QED
    BY <1>2, <1>5, <1>6, <1>7, <1>12 DEF LimiterInv

LEMMA LeaveStep == ASSUME LimiterInv, NEW c \in Calls, L!Leave(c) PROVE LimiterInv'
  <1> USE LimiterAssumption DEF LimiterAssumption
  <1>1. /\ IsFiniteSet(inside \ {c})
        /\ Cardinality(inside \ {c}) = Cardinality(inside) - 1
        /\ c \in inside
    BY FS_RemoveElement DEF LimiterInv, L!Leave
  <1>2. active \in Nat /\ active - 1 \in Nat /\ active = Cardinality(inside)
    BY <1>1, FS_CardinalityType, CountsAgree DEF LimiterInv, L!TypeOK, L!Bounded
  <1>3. CASE waiting = <<>>
    <2>1. active' = active - 1 /\ inside' = inside \ {c} /\ waiting' = <<>>
      BY <1>3 DEF L!Leave, L!PassOn
    <2>2. L!TypeOK' /\ L!NoIdlePlace' /\ L!WaitsOnce'
      BY <1>2, <2>1 DEF LimiterInv, L!TypeOK, L!NoIdlePlace, L!WaitsOnce, L!Queued, L!Range
    <2>3. L!Bounded' /\ IsFiniteSet(inside)'
      BY <1>1, <1>2, <2>1, CountsAgree DEF LimiterInv, L!Bounded
    <2> QED
      BY <2>2, <2>3 DEF LimiterInv
  <1>4. CASE waiting # <<>>
    <2>1. /\ active' = active
          /\ inside' = (inside \ {c}) \cup {Head(waiting)}
          /\ waiting' = Tail(waiting)
      BY <1>2, <1>4 DEF L!Leave, L!PassOn
    <2>2. waiting \in Seq(Calls) /\ Len(waiting) \in Nat \ {0}
      BY <1>4 DEF LimiterInv, L!TypeOK
    <2>3. /\ waiting' \in Seq(Calls)
          /\ Len(waiting') = Len(waiting) - 1
          /\ DOMAIN waiting' = 1..(Len(waiting) - 1)
          /\ \A n \in DOMAIN waiting' : waiting'[n] = waiting[n + 1]
      BY <2>1, <2>2
    <2>4. 1 \in DOMAIN waiting /\ Head(waiting) = waiting[1] /\ Head(waiting) \in Calls
      BY <2>2
    <2>5. Head(waiting) \notin inside
      BY <2>4 DEF LimiterInv, L!WaitsOnce, L!Queued, L!Range
    <2>6. /\ IsFiniteSet(inside')
          /\ Cardinality(inside') = Cardinality(inside \ {c}) + 1
      BY <1>1, <2>1, <2>5, FS_AddElement
    <2>7. L!TypeOK'
      BY <1>2, <2>1, <2>3, <2>4 DEF LimiterInv, L!TypeOK
    <2>8. L!Bounded'
      BY <1>1, <1>2, <2>1, <2>2, <2>3, <2>6, CountsAgree DEF LimiterInv, L!Bounded
    <2>9. L!NoIdlePlace'
      BY <1>4, <2>1 DEF LimiterInv, L!NoIdlePlace
    <2>10. \A n \in DOMAIN waiting' : waiting'[n] \notin inside' /\ n + 1 \in DOMAIN waiting
      BY <2>1, <2>2, <2>3, <2>4 DEF LimiterInv, L!WaitsOnce, L!Queued, L!Range
    <2>11. L!WaitsOnce'
      BY <2>2, <2>3, <2>10 DEF LimiterInv, L!WaitsOnce, L!Queued, L!Range
    <2> QED
      BY <2>6, <2>7, <2>8, <2>9, <2>11 DEF LimiterInv
  <1> QED
    BY <1>3, <1>4

LEMMA LimiterStep == LimiterInv /\ [L!Next]_(L!vars) => LimiterInv'
  <1> SUFFICES ASSUME LimiterInv, [L!Next]_(L!vars) PROVE LimiterInv'
    OBVIOUS
  <1>1. ASSUME NEW c \in Calls, L!Enter(c) PROVE LimiterInv'
    BY <1>1, EnterStep
  <1>2. ASSUME NEW c \in Calls, L!Wait(c) PROVE LimiterInv'
    BY <1>2, WaitStep
  <1>3. ASSUME NEW c \in Calls, L!TimeOut(c) PROVE LimiterInv'
    BY <1>3, TimeOutStep
  <1>4. ASSUME NEW c \in Calls, L!Leave(c) PROVE LimiterInv'
    BY <1>4, LeaveStep
  <1>5. CASE UNCHANGED L!vars
    BY <1>5, CountsAgree DEF LimiterInv, L!TypeOK, L!Bounded, L!NoIdlePlace, L!WaitsOnce, L!Queued, L!vars
  <1> QED
    BY <1>1, <1>2, <1>3, <1>4, <1>5 DEF L!Next

\* The counter is the number of runs, and neither the runs nor the queue pass their
\* limits, whatever the calls do and whatever the limits are.
THEOREM LimitsHold == L!Spec => []L!Bounded
  <1> QED
    BY LimiterInit, LimiterStep, PTL DEF L!Spec, LimiterInv

\* A call waits only while every place is taken: the limiter never refuses or delays a
\* call that could run.
THEOREM NoPlaceIdle == L!Spec => []L!NoIdlePlace
  <1> QED
    BY LimiterInit, LimiterStep, PTL DEF L!Spec, LimiterInv

\* A waiter is queued once and starts once, so the counter's increment in `start` and the
\* decrement at its end belong together.
THEOREM StartsOnce == L!Spec => []L!WaitsOnce
  <1> QED
    BY LimiterInit, LimiterStep, PTL DEF L!Spec, LimiterInv
-----------------------------------------------------------------------------
(* The two together.  Every step of the guards is a step of each.          *)

LEMMA StepsOfBoth == [Next]_vars => [B!Next]_(B!vars) /\ [L!Next]_(L!vars)
<1> SUFFICES ASSUME [Next]_vars  PROVE [B!Next]_(B!vars) /\ [L!Next]_(L!vars)
  OBVIOUS
<1>1. ASSUME NEW c \in Calls, Begin(c)  PROVE [B!Next]_(B!vars) /\ [L!Next]_(L!vars)
  BY <1>1 DEF Begin, Admitted, B!Next, L!Next
<1>2. ASSUME NEW c \in Calls, Queue(c)  PROVE [B!Next]_(B!vars) /\ [L!Next]_(L!vars)
  BY <1>2 DEF Queue, Admitted, B!Next, L!Next
<1>3. ASSUME NEW c \in Calls, GiveUp(c)  PROVE [B!Next]_(B!vars) /\ [L!Next]_(L!vars)
  BY <1>3 DEF GiveUp, Refusal, B!Next, L!Next
<1>4. ASSUME NEW c \in Calls, End(c)  PROVE [B!Next]_(B!vars) /\ [L!Next]_(L!vars)
  BY <1>4 DEF End, Outcome, B!Next, L!Next
<1>5. CASE Tick
  BY <1>5 DEF Tick, limiter, B!Next, L!vars
<1>6. CASE UNCHANGED vars
  BY <1>6 DEF vars, breaker, limiter, B!vars, L!vars
<1> QED  BY <1>1, <1>2, <1>3, <1>4, <1>5, <1>6 DEF Next

\* The guards implement the breaker and the limiter: what holds of either alone holds of it
\* with the other around it, or in it.
THEOREM GuardsImplementBoth == Spec => B!Spec /\ L!Spec
<1>1. Init => B!Init /\ L!Init
  BY DEF Init
<1> QED  BY <1>1, StepsOfBoth, PTL DEF Spec, B!Spec, L!Spec

\* The queue after a call was added to it, left it, or was let in from its head.
LEMMA QueuedAfter ==
    ASSUME LimiterInv, NEW c \in Calls
    PROVE  /\ L!Wait(c) => L!Queued' = L!Queued \cup {c}
           /\ L!TimeOut(c) => L!Queued' = L!Queued \ {c} /\ c \in L!Queued
           /\ L!Leave(c) => /\ c \in inside /\ c \notin inside' /\ c \notin L!Queued
                            /\ inside' \cup L!Queued' = (inside \cup L!Queued) \ {c}
                            /\ inside \ {c} \subseteq inside'
                            /\ inside' \ inside \subseteq L!Queued
<1>1. waiting \in Seq(Calls) /\ DOMAIN waiting = 1..Len(waiting) /\ Len(waiting) \in Nat
  BY DEF LimiterInv, L!TypeOK
<1>2. \A s : L!Range(s) = {s[i] : i \in DOMAIN s}
  BY DEF L!Range
<1>3. ASSUME L!Wait(c)  PROVE L!Queued' = L!Queued \cup {c}
  <2>1. waiting' = Append(waiting, c) /\ DOMAIN waiting' = 1..(Len(waiting) + 1)
    BY <1>1, <1>3 DEF L!Wait
  <2>2. \A i \in 1..(Len(waiting) + 1) :
            waiting'[i] = IF i = Len(waiting) + 1 THEN c ELSE waiting[i]
    BY <1>1, <2>1
  <2>3. \A x : x \in {waiting'[i] : i \in DOMAIN waiting'} <=> x \in {waiting[i] : i \in DOMAIN waiting} \cup {c}
    BY <1>1, <2>1, <2>2
  <2> QED  BY <1>2, <2>3 DEF L!Queued
<1>4. ASSUME L!TimeOut(c)  PROVE L!Queued' = L!Queued \ {c} /\ c \in L!Queued
  <2>1. PICK i \in DOMAIN waiting : waiting[i] = c /\ waiting' = L!RemoveAt(waiting, i)
    BY <1>4 DEF L!TimeOut
  <2>2. /\ DOMAIN waiting' = 1..(Len(waiting) - 1)
        /\ \A n \in DOMAIN waiting' : waiting'[n] = IF n < i THEN waiting[n] ELSE waiting[n + 1]
    <3>1. waiting \in Seq(Calls) /\ i \in DOMAIN waiting /\ waiting' = L!RemoveAt(waiting, i)
      BY <1>1, <2>1
    <3> QED  BY ONLY <3>1, RemovedAt
  <2>3. \A m, n \in DOMAIN waiting : waiting[m] = waiting[n] => m = n
    BY DEF LimiterInv, L!WaitsOnce
  <2>4. ASSUME NEW n \in DOMAIN waiting'
        PROVE  \E m \in DOMAIN waiting \ {i} : waiting'[n] = waiting[m]
    <3>1. CASE n < i
      BY <1>1, <2>1, <2>2, <2>4, <3>1
    <3>2. CASE ~(n < i)
      <4>1. n + 1 \in DOMAIN waiting \ {i} /\ waiting'[n] = waiting[n + 1]
        BY <1>1, <2>1, <2>2, <2>4, <3>2
      <4> QED  BY <4>1
    <3> QED  BY <3>1, <3>2
  <2>5. ASSUME NEW m \in DOMAIN waiting \ {i}
        PROVE  \E n \in DOMAIN waiting' : waiting'[n] = waiting[m]
    <3>1. CASE m < i
      BY <1>1, <2>1, <2>2, <2>5, <3>1
    <3>2. CASE ~(m < i)
      <4>1. m - 1 \in DOMAIN waiting' /\ waiting'[m - 1] = waiting[m]
        BY <1>1, <2>1, <2>2, <2>5, <3>2
      <4> QED  BY <4>1
    <3> QED  BY <3>1, <3>2
  <2>6. \A x : x \in {waiting'[n] : n \in DOMAIN waiting'} <=> x \in {waiting[m] : m \in DOMAIN waiting} \ {c}
    BY <2>1, <2>3, <2>4, <2>5
  <2> QED  BY <1>2, <2>1, <2>6 DEF L!Queued
<1>5. ASSUME L!Leave(c)
      PROVE  /\ c \in inside /\ c \notin inside' /\ c \notin L!Queued
             /\ inside' \cup L!Queued' = (inside \cup L!Queued) \ {c}
             /\ inside \ {c} \subseteq inside'
             /\ inside' \ inside \subseteq L!Queued
  <2>1. c \in inside /\ c \notin L!Queued
    BY <1>5 DEF L!Leave, LimiterInv, L!WaitsOnce
  <2>2. CASE waiting = <<>>
    <3>1. inside' = inside \ {c} /\ waiting' = waiting
      BY <1>5, <2>2 DEF L!Leave, L!PassOn
    <3> QED  BY <2>1, <3>1 DEF L!Queued
  <2>3. CASE waiting # <<>>
    <3>1. inside' = (inside \ {c}) \cup {Head(waiting)} /\ waiting' = Tail(waiting)
      BY <1>5, <2>3 DEF L!Leave, L!PassOn
    <3>2. /\ DOMAIN waiting' = 1..(Len(waiting) - 1)
          /\ \A n \in DOMAIN waiting' : waiting'[n] = waiting[n + 1]
          /\ 1 \in DOMAIN waiting /\ Head(waiting) = waiting[1]
      BY <1>1, <2>3, <3>1
    <3>3. \A x : x \in {waiting[n] : n \in DOMAIN waiting}
                    <=> x = Head(waiting) \/ x \in {waiting'[n] : n \in DOMAIN waiting'}
      <4>1. \A n \in DOMAIN waiting : n = 1 \/ (n - 1 \in DOMAIN waiting' /\ waiting'[n - 1] = waiting[n])
        BY <1>1, <3>2
      <4>2. \A n \in DOMAIN waiting' : n + 1 \in DOMAIN waiting
        BY <1>1, <3>2
      <4> QED  BY <3>2, <4>1, <4>2
    <3>4. L!Queued = {Head(waiting)} \cup L!Queued'
      BY <1>2, <3>3 DEF L!Queued
    <3> QED  BY <2>1, <3>1, <3>4
  <2> QED  BY <2>2, <2>3
<1> QED  BY <1>3, <1>4, <1>5
-----------------------------------------------------------------------------
(* Who is in which, and for how long.                                      *)

\* A call waits no longer than its timer, and its query runs no longer than its timeout.
InTime ==
    /\ enteredAt \in [Calls -> Nat]
    /\ \A c \in L!Queued : now - startedAt[c] <= MaxWait
    /\ \A c \in inside : /\ startedAt[c] <= enteredAt[c] /\ enteredAt[c] <= now
                         /\ enteredAt[c] - startedAt[c] <= MaxWait

GuardsInv ==
    /\ B!TypeOK /\ BreakerInv
    /\ LimiterInv
    /\ InBothOrNeither
    /\ InTime

LEMMA GuardsInit == Init => GuardsInv
<1> SUFFICES ASSUME Init  PROVE GuardsInv
  OBVIOUS
<1>1. B!TypeOK /\ BreakerInv /\ LimiterInv
  BY InitTyped, InvInit, LimiterInit DEF Init
<1>2. L!Queued = {}
  BY DEF Init, L!Init, L!Queued, L!Range
<1>3. InBothOrNeither /\ InTime
  BY <1>2 DEF Init, B!Init, L!Init, InBothOrNeither, InTime
<1> QED  BY <1>1, <1>3 DEF GuardsInv

\* A call that is let through by the breaker was in neither.
LEMMA AdmittedStep ==
    ASSUME NEW c \in Calls, Admitted(c)
    PROVE  /\ c \notin running /\ running' = running \cup {c}
           /\ startedAt' = [startedAt EXCEPT ![c] = now] /\ now' = now
           /\ probes' \in {probes, probes \cup {c}}
           /\ UNCHANGED openedAt
  BY DEF Admitted, B!Admit, B!Probe

LEMMA SettledStep ==
    ASSUME NEW c \in Calls, Refusal(c) \/ Outcome(c)
    PROVE  /\ running' = running \ {c} /\ probes' = probes \ {c}
           /\ UNCHANGED <<now, startedAt>>
  BY DEF Refusal, Outcome, B!Succeed, B!Fail, B!PassOn, B!Settle

LEMMA GuardsStep == GuardsInv /\ [Next]_vars => GuardsInv'
<1> SUFFICES ASSUME GuardsInv, [Next]_vars  PROVE GuardsInv'
  OBVIOUS
<1>0. /\ B!TypeOK /\ BreakerInv /\ LimiterInv /\ InBothOrNeither /\ InTime
      /\ now \in Nat /\ startedAt \in [Calls -> Nat] /\ inside \subseteq Calls
      /\ running = inside \cup L!Queued /\ inside \cap L!Queued = {} /\ probes \subseteq inside
      /\ L!Queued \subseteq Calls
  BY BreakerAssumption DEF GuardsInv, B!TypeOK, LimiterInv, L!TypeOK, L!WaitsOnce, InBothOrNeither
<1>1. B!TypeOK' /\ BreakerInv' /\ LimiterInv'
  <2>1. [B!Next]_(B!vars) /\ [L!Next]_(L!vars)
    BY StepsOfBoth
  <2>2. B!CallsEndInTime
    BY GuardsAssumption DEF B!CallsEndInTime
  <2> QED  BY <1>0, <2>1, <2>2, NextTyped, InvStep, LimiterStep
<1>2. ASSUME NEW c \in Calls, Begin(c)  PROVE InBothOrNeither' /\ InTime'
  <2>1. /\ inside' = inside \cup {c} /\ waiting' = waiting /\ c \notin inside \cup L!Queued
        /\ enteredAt' = [enteredAt EXCEPT ![c] = now]
    BY <1>2 DEF Begin, L!Enter, L!Outside
  <2>2. L!Queued' = L!Queued
    BY <2>1 DEF L!Queued
  <2>3. InBothOrNeither'
    BY <1>0, <1>2, <2>1, <2>2, AdmittedStep DEF Begin, InBothOrNeither
  <2>4. InTime'
    <3>1. now' = now /\ startedAt' = [startedAt EXCEPT ![c] = now]
      BY <1>2, AdmittedStep DEF Begin
    <3>2. \A d \in Calls \ {c} : startedAt'[d] = startedAt[d] /\ enteredAt'[d] = enteredAt[d]
      BY <1>0, <2>1, <3>1 DEF InTime
    <3>3. startedAt'[c] = now /\ enteredAt'[c] = now /\ now - now <= MaxWait
      BY <1>0, <2>1, <3>1, GuardsAssumption DEF InTime
    <3>4. enteredAt' \in [Calls -> Nat]
      BY <1>0, <2>1 DEF InTime
    <3> QED  BY <1>0, <2>1, <2>2, <3>1, <3>2, <3>3, <3>4 DEF InTime
  <2> QED  BY <2>3, <2>4
<1>3. ASSUME NEW c \in Calls, Queue(c)  PROVE InBothOrNeither' /\ InTime'
  <2>1. /\ L!Queued' = L!Queued \cup {c} /\ inside' = inside /\ c \notin inside \cup L!Queued
        /\ enteredAt' = enteredAt
    BY <1>0, <1>3, QueuedAfter DEF Queue, L!Wait, L!Outside
  \* the places are taken, so a probe would not be alone
  <2>2. inside # {}
    <3>1. active # 0
      BY <1>3, LimiterAssumption DEF Queue, L!Wait, L!Free
    <3>2. Cardinality({}) = 0
      BY FS_EmptySet
    <3> QED  BY <1>0, <3>1, <3>2, CountsAgree DEF LimiterInv, L!Bounded
  <2>3. probes' = probes
    <3>1. c \in probes' => running' = {c}
      BY <1>1 DEF BreakerInv, B!ProbeIsAlone
    <3>2. running' = running \cup {c} /\ probes' \in {probes, probes \cup {c}}
      BY <1>3, AdmittedStep DEF Queue
    <3> QED  BY <1>0, <2>1, <2>2, <3>1, <3>2
  <2>4. InBothOrNeither'
    BY <1>0, <1>3, <2>1, <2>3, AdmittedStep DEF Queue, InBothOrNeither
  <2>5. InTime'
    <3>1. now' = now /\ startedAt' = [startedAt EXCEPT ![c] = now]
      BY <1>3, AdmittedStep DEF Queue
    <3>2. \A d \in Calls \ {c} : startedAt'[d] = startedAt[d]
      BY <1>0, <3>1
    <3>3. startedAt'[c] = now /\ now - now <= MaxWait
      BY <1>0, <3>1, GuardsAssumption
    <3> QED  BY <1>0, <2>1, <3>1, <3>2, <3>3 DEF InTime
  <2> QED  BY <2>4, <2>5
<1>4. ASSUME NEW c \in Calls, GiveUp(c)  PROVE InBothOrNeither' /\ InTime'
  <2>1. L!Queued' = L!Queued \ {c} /\ c \in L!Queued /\ inside' = inside /\ enteredAt' = enteredAt
    BY <1>0, <1>4, QueuedAfter DEF GiveUp, L!TimeOut
  <2>2. running' = running \ {c} /\ probes' = probes \ {c} /\ UNCHANGED <<now, startedAt>>
    BY <1>4, SettledStep DEF GiveUp
  <2>3. InBothOrNeither'
    BY <1>0, <2>1, <2>2 DEF InBothOrNeither
  <2>4. InTime'
    BY <1>0, <2>1, <2>2 DEF InTime
  <2> QED  BY <2>3, <2>4
<1>5. ASSUME NEW c \in Calls, End(c)  PROVE InBothOrNeither' /\ InTime'
  <2>1. /\ c \in inside /\ c \notin inside' /\ c \notin L!Queued
        /\ inside' \cup L!Queued' = (inside \cup L!Queued) \ {c}
        /\ inside \ {c} \subseteq inside'
        /\ inside' \ inside \subseteq L!Queued
    BY <1>0, <1>5, QueuedAfter DEF End
  <2>2. running' = running \ {c} /\ probes' = probes \ {c} /\ UNCHANGED <<now, startedAt>>
    BY <1>5, SettledStep DEF End
  <2>3. enteredAt' = [d \in Calls |-> IF d \in inside' \ inside THEN now ELSE IF d = c THEN 0 ELSE enteredAt[d]]
    BY <1>5 DEF End
  <2>4. InBothOrNeither'
    BY <1>0, <2>1, <2>2 DEF InBothOrNeither
  <2>5. InTime'
    <3>1. enteredAt' \in [Calls -> Nat]
      BY <1>0, <2>3 DEF InTime
    <3>2. L!Queued' \subseteq L!Queued
      <4>1. (inside' \cup L!Queued') \cap inside' \cap L!Queued' = {}
        BY <1>1 DEF LimiterInv, L!WaitsOnce
      <4> QED  BY <2>1, <4>1
    <3>3. ASSUME NEW d \in inside'
          PROVE  /\ startedAt[d] <= enteredAt'[d] /\ enteredAt'[d] <= now
                 /\ enteredAt'[d] - startedAt[d] <= MaxWait
      <4>1. d \in Calls /\ d # c
        BY <1>1, <2>1 DEF LimiterInv, L!TypeOK
      <4>2. CASE d \in inside
        BY <1>0, <2>3, <4>1, <4>2 DEF InTime
      <4>3. CASE d \notin inside
        <5>1. d \in L!Queued /\ enteredAt'[d] = now /\ d \in running
          BY <1>0, <2>1, <2>3, <4>1, <4>3
        <5> QED  BY <1>0, <5>1 DEF InTime, BreakerInv, InFlightInTime
      <4> QED  BY <4>2, <4>3
    <3> QED  BY <1>0, <2>2, <3>1, <3>2, <3>3 DEF InTime
  <2> QED  BY <2>4, <2>5
<1>6. CASE Tick
  <2>1. /\ L!Queued' = L!Queued /\ inside' = inside /\ enteredAt' = enteredAt
        /\ now' = now + 1 /\ UNCHANGED <<running, startedAt, probes>>
        /\ \A c \in L!Queued : now - startedAt[c] < MaxWait
    BY <1>6 DEF Tick, limiter, B!Tick, L!Queued
  <2>2. InTime'
    <3>1. \A c \in L!Queued : now + 1 - startedAt[c] <= MaxWait
      BY <1>0, <2>1, GuardsAssumption
    <3>2. \A c \in inside : enteredAt[c] <= now + 1
      BY <1>0 DEF InTime
    <3> QED  BY <1>0, <2>1, <3>1, <3>2 DEF InTime
  <2> QED  BY <1>0, <1>1, <2>1, <2>2 DEF InBothOrNeither, GuardsInv
<1>7. CASE UNCHANGED vars
  BY <1>0, <1>1, <1>7 DEF vars, breaker, limiter, InBothOrNeither, InTime, L!Queued, GuardsInv
<1> QED  BY <1>1, <1>2, <1>3, <1>4, <1>5, <1>6, <1>7 DEF Next, GuardsInv
LEMMA GuardsAlways == Spec => []GuardsInv
  BY GuardsInit, GuardsStep, PTL DEF Spec

\* The breaker's probe is the only call in it while others wait for a place or query
\* (ProbeIsAlone).
THEOREM GuardedProbeAlone == Spec => []ProbeIsAlone
<1>1. GuardsInv => ProbeIsAlone
  BY DEF GuardsInv, BreakerInv, ProbeIsAlone
<1> QED  BY <1>1, GuardsAlways, PTL

\* The limits hold with the breaker around them, the two agree on who is in, and a probe
\* never waits (Limited).
THEOREM GuardedLimits == Spec => []Limited
<1>1. GuardsInv => Limited
  BY DEF GuardsInv, LimiterInv, Limited, Bounded, NoIdlePlace, WaitsOnce
<1> QED  BY <1>1, GuardsAlways, PTL

\* A call that only waited never opens the breaker, nor keeps it open (OnlyQueriesOpenIt).
THEOREM WaitingOpensNothing == Spec => OnlyQueriesOpenIt
<1>1. GuardsInv /\ [Next]_vars =>
        [openedAt' \notin {openedAt, B!Closed} => \E c \in inside : c \notin inside']_vars
  <2> SUFFICES ASSUME GuardsInv, [Next]_vars, openedAt' \notin {openedAt, B!Closed}
               PROVE  \E c \in inside : c \notin inside'
    OBVIOUS
  <2>1. \A c \in Calls : ~Begin(c) /\ ~Queue(c)
    BY AdmittedStep DEF Begin, Queue
  <2>2. \A c \in Calls : ~GiveUp(c)
    BY DEF GiveUp, Refusal, B!PassOn
  <2>3. ~Tick /\ ~UNCHANGED vars
    BY DEF Tick, B!Tick, vars, breaker
  <2>4. PICK c \in Calls : End(c)
    BY <2>1, <2>2, <2>3 DEF Next
  <2> QED  BY <2>4, QueuedAfter DEF End, GuardsInv
<1> QED  BY <1>1, GuardsAlways, PTL DEF Spec, OnlyQueriesOpenIt

\* That a call settles within CallMax is no assumption here: the timer of the queue and the
\* timeout of the query make it so, and time never has to wait for the breaker.
TimersSuffice ==
    (/\ \A c \in L!Queued : now - startedAt[c] < MaxWait
     /\ \A c \in inside : now - enteredAt[c] < QueryMax)
    => \A c \in running : now - startedAt[c] < CallMax

\* The two timers bound the time a call spends in the breaker, which is why the breaker's
\* bound on it holds.
THEOREM TimersBoundCalls == Spec => []TimersSuffice
<1>1. GuardsInv => TimersSuffice
  <2> SUFFICES ASSUME GuardsInv, NEW c \in running,
                      \A d \in L!Queued : now - startedAt[d] < MaxWait,
                      \A d \in inside : now - enteredAt[d] < QueryMax
               PROVE  now - startedAt[c] < CallMax
    BY DEF TimersSuffice
  <2>1. /\ now \in Nat /\ startedAt[c] \in Nat /\ enteredAt[c] \in Nat
        /\ MaxWait \in Nat /\ QueryMax \in Nat /\ CallMax = MaxWait + QueryMax
    BY BreakerAssumption, GuardsAssumption DEF GuardsInv, B!TypeOK, InTime
  <2>2. CASE c \in L!Queued
    BY <2>1, <2>2
  <2>3. CASE c \in inside
    BY <2>1, <2>3 DEF GuardsInv, InTime
  <2> QED  BY <2>2, <2>3 DEF GuardsInv, InBothOrNeither
<1> QED  BY <1>1, GuardsAlways, PTL
=============================================================================
