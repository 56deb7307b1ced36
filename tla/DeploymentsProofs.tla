-------------------------- MODULE DeploymentsProofs --------------------------
(***************************************************************************)
(* The version lifecycle, for any versions, databases and API views.       *)
(*                                                                         *)
(* While nobody forces, any number of operators and cleanups may overlap:  *)
(* a version cleanup may take (Spent) stays one, because only a forced     *)
(* switch takes it back, and no command that is running works on one; so   *)
(* what cleanup saw of the views stays true until it has dropped the       *)
(* version.  One command at a time, forced or not, what a command listed   *)
(* is still true when it uses it.                                          *)
(***************************************************************************)
EXTENDS Deployments, WellFoundedInduction, TLAPS

DeploySteps == {"createEventPrice", "createPriceWatermark"}
ViewSteps == {"view", "createNext", "exchange", "dropNext"}
Cleaning == {"reread"} \cup CleanSteps

\* A command's version is one, and only operators run the operators' commands.
JobsOK ==
    \A p \in Processes :
        /\ job[p].at \notin {"idle", "reread"} => job[p].version \in Versions
        /\ job[p].at \notin {"idle"} \cup Cleaning => p \in Operators
Typed == TypeOK /\ JobsOK

-----------------------------------------------------------------------------
(* Without --force.                                                        *)

HandWrittenSpent == \A v \in Versions : Database[v] # v => Spent(v)

OperatorsOnLive ==
    \A p \in Processes :
        /\ job[p].at = "register" => Registers(p)
        /\ job[p].at \in DeploySteps /\ Registers(p) => ~Spent(job[p].version)
        /\ job[p].at \in {"register", "ready"} \cup SwitchSteps => ~Spent(job[p].version)
        /\ job[p].at \in SwitchSteps => \A d \in job[p].rest : ~Spent(d)

CleanersOnSpent ==
    \A p \in Processes :
        /\ job[p].at \in Cleaning => \A v \in job[p].rest : Spent(v)
        /\ job[p].at \in CleanSteps => Spent(job[p].version)

LiveKept == \A v \in Versions : ~Spent(v) => ObjectsOf(v) \cap gone = {}

\* A view reads a version on its own database, all of which is there.
Sound(i, v) == v # NoVersion => Database[v] = v /\ Names(i, v) \cap gone = {}
ViewsSound == \A i \in Places : Sound(i, view[i]) /\ Sound(i, aside[i])

NotInUse ==
    \A p \in Processes : job[p].at \in CleanSteps \ {"users"} =>
        \A i \in Places : view[i] # job[p].version /\ aside[i] # job[p].version

Unforced ==
    /\ HandWrittenSpent /\ OperatorsOnLive /\ CleanersOnSpent
    /\ LiveKept /\ ViewsSound /\ NotInUse
UnforcedInv == ~mode.forced => Unforced

-----------------------------------------------------------------------------
(* Operators who take turns, or one command at a time: what a command      *)
(* checked is true until its end.                                          *)

OneAtWork == \A p, q \in Operators : job[p] # Idle /\ job[q] # Idle => p = q
TurnsInv == InTurn => OneAtWork

Checked(p, states) ==
    /\ job[p].at = "register" => Registers(p)
    /\ job[p].at \in DeploySteps \cup {"register"} /\ Registers(p) => rows[job[p].version].state = "none"
    /\ job[p].at = "ready" => rows[job[p].version].state = "building"
    /\ job[p].at = "activate" => rows[job[p].version].state \in states
    /\ job[p].at \in {"activate", "retire"} =>
        \A d \in job[p].rest : d # job[p].version /\ rows[d].state = "active"
ActivatedFrom == {"ready"} \cup (IF mode.forced THEN {"building", "retired"} ELSE {})
ChecksHold == \A p \in Processes : Checked(p, ActivatedFrom)
ChecksInv == InTurn => ChecksHold

-----------------------------------------------------------------------------
(* However commands overlap, a _next view stands beside a view, and a      *)
(* switch finds the views it listed: no command drops one.                 *)

AsideBesideView == \A i \in Places : aside[i] # NoVersion => view[i] # NoVersion
HaveViews(p) ==
    job[p].at \in ViewSteps =>
        /\ \A i \in job[p].have : view[i] # NoVersion
        /\ job[p].at # "view" => job[p].place \in job[p].have
ViewsInv == AsideBesideView /\ \A p \in Processes : HaveViews(p)

-----------------------------------------------------------------------------
(* One command at a time.                                                  *)

Alone == \A p, q \in Processes : job[p] # Idle /\ job[q] # Idle => p = q

\* A switch retires every other active version, then moves the views one place after the
\* other: the places before the one it works on are done.
Actives == {v \in Versions : rows[v].state = "active"}
RetiresRest(p) ==
    /\ job[p].at = "retire" => Actives = {job[p].version} \cup job[p].rest
    /\ job[p].at = "activate" => Actives = job[p].rest
    /\ job[p].at \in ViewSteps => Actives = {job[p].version}
PlacesDone(p) ==
    \A i \in Places : i < job[p].place => view[i] = job[p].version /\ aside[i] = NoVersion
Switched(p) ==
    /\ RetiresRest(p)
    /\ job[p].at \in ViewSteps => PlacesDone(p)
    /\ job[p].at = "exchange" => aside[job[p].place] = job[p].version
    /\ job[p].at = "dropNext" => view[job[p].place] = job[p].version

\* What cleanup owes a version it found expired.
Settled(v) ==
    \/ rows[v].state = "dropped" /\ <<"envio", Database[v]>> \in gone
    \/ rows[v].state = "dropped" /\ \E d \in Versions \ {v} : Database[d] = Database[v]
    \/ InUse(v)
    \/ ~Droppable(v) /\ rows[v].tables

\* What a cleanup listed is still true, but for what it dropped itself and what expired
\* meanwhile; what it is through with is settled; it works on a version it found expired.
ListTrue(p) ==
    /\ job[p].rest \subseteq Expired(job[p].list)
    /\ \A v \in Versions :
        /\ v \in job[p].rest \/ v \notin Expired(job[p].list)
            => rows[v].state = job[p].list[v].state
        /\ v \in Expired(job[p].list) => Spent(v)
RestSettled(p) == \A v \in Expired(job[p].list) \ job[p].rest : Settled(v)
AtVersion(p) ==
    /\ job[p].at \in CleanSteps =>
        /\ job[p].version \in job[p].rest
        /\ job[p].tables => rows[job[p].version].tables
        /\ job[p].at \in {"database", "record"} => rows[job[p].version].tables
    /\ job[p].at = "record" => <<"envio", Database[job[p].version]>> \in gone
Listed(p) == job[p].at \in Cleaning => ListTrue(p) /\ RestSettled(p) /\ AtVersion(p)

Serial == Alone /\ \A p \in Processes : Switched(p) /\ Listed(p)
SerialInv == mode.serial => Serial

-----------------------------------------------------------------------------
(* The operators of the model.                                             *)

LEMMA Constants ==
    /\ Versions \subseteq Nat /\ NoVersion \notin Versions
    /\ Database \in [Versions -> Nat]
    /\ Len(ApiViews) \in Nat /\ 1 \in Places
    /\ \A i \in Places : i \in Nat /\ ApiViews[i] \in ViewNames
    /\ Modes \subseteq [forced : BOOLEAN, overlap : BOOLEAN, serial : BOOLEAN]
  BY DeploymentsAssumption DEF DeploymentsAssumption, NoVersion, Places, ViewNames

\* The least of some versions is one of them: the order of the natural numbers is
\* well-founded.
LEMMA LeastOne == ASSUME NEW S \in SUBSET Versions, S # {} PROVE Min(S) \in S
  <1> DEFINE less == OpToRel(<, Nat)
  <1>1. S \subseteq Nat
    BY Constants
  <1>2. PICK x \in S : \A y \in S : ~(<<y, x>> \in less)
    BY <1>1, NatLessThanWellFounded, WFMin
  <1>3. less = {pair \in Nat \X Nat : pair[1] < pair[2]}
    BY DEF OpToRel
  <1> HIDE DEF less
  <1>4. \A m, n \in Nat : m < n => <<m, n>> \in less
    BY <1>3
  <1>5. \A m, n \in Nat : ~(m < n) => n <= m
    OBVIOUS
  <1>6. \A y \in S : x <= y
    BY <1>1, <1>2, <1>4, <1>5
  <1> QED
    BY <1>6 DEF Min

\* A view reads something of its version, and of nothing else.
LEMMA NamesOf ==
    ASSUME NEW i \in Places, NEW v \in Versions
    PROVE  Names(i, v) # {} /\ Names(i, v) \subseteq ObjectsOf(v)
  <1>1. Names(i, v) = {object \in ObjectsOf(v) : object[1] \in Reads[ApiViews[i]]}
    BY Constants DEF Names
  <1>2. CASE ApiViews[i] = "api_status"
    <2>1. "price_watermark" \in Reads[ApiViews[i]]
      BY <1>2 DEF Reads
    <2>2. <<"price_watermark", v>> \in ObjectsOf(v)
      BY DEF ObjectsOf
    <2> QED
      BY <1>1, <2>1, <2>2
  <1>3. CASE ApiViews[i] # "api_status"
    <2>1. "envio" \in Reads[ApiViews[i]]
      BY <1>3, Constants DEF Reads, ViewNames
    <2>2. <<"envio", Database[v]>> \in ObjectsOf(v)
      BY DEF ObjectsOf
    <2> QED
      BY <1>1, <2>1, <2>2
  <1> QED
    BY <1>1, <1>2, <1>3

\* Two versions on databases of their own share no object.
LEMMA ObjectsApart ==
    ASSUME NEW v \in Versions, NEW w \in Versions, v # w, Database[v] = v, Database[w] = w
    PROVE  ObjectsOf(v) \cap ObjectsOf(w) = {}
  BY DEF ObjectsOf

-----------------------------------------------------------------------------
(* Types.                                                                  *)

LEMMA InitTyped == Init => Typed
  <1> SUFFICES ASSUME Init PROVE Typed
    OBVIOUS
  <1>1. /\ NoRow \in Row /\ LongRetired \in Row
        /\ [LongRetired EXCEPT !.state = "dropped", !.tables = TRUE] \in Row
    BY DEF NoRow, LongRetired, Row
  <1>2. Idle \in Jobs /\ Idle.at = "idle"
    BY <1>1 DEF Idle, Jobs, Steps
  <1> QED
    BY <1>1, <1>2, Constants DEF Init, Typed, TypeOK, JobsOK, SwitchSteps, Objects, ByHand

LEMMA RowsTyped ==
    ASSUME TypeOK, NEW v \in Versions
    PROVE  /\ \A state \in {"building", "ready", "active", "retired", "dropped"} :
                InState(v, state) \in [Versions -> Row]
           /\ [rows EXCEPT ![v] = [NoRow EXCEPT !.state = "building"]] \in [Versions -> Row]
           /\ [rows EXCEPT ![v].tables = TRUE] \in [Versions -> Row]
           /\ [rows EXCEPT ![v].retired = "expired"] \in [Versions -> Row]
           /\ [rows EXCEPT ![v].state = "retired", ![v].retired = "recent"] \in [Versions -> Row]
  <1>1. rows \in [Versions -> Row] /\ rows[v] \in Row /\ [NoRow EXCEPT !.state = "building"] \in Row
    BY DEF TypeOK, NoRow, Row
  <1>2. \A state \in {"building", "ready", "active", "retired", "dropped"} :
            InState(v, state) \in [Versions -> Row]
    BY <1>1 DEF InState, Row
  <1>3. /\ [rows[v] EXCEPT !.tables = TRUE] \in Row
        /\ [rows[v] EXCEPT !.retired = "expired"] \in Row
        /\ [[rows[v] EXCEPT !.state = "retired"] EXCEPT !.retired = "recent"] \in Row
    BY <1>1 DEF Row
  <1> QED
    BY <1>1, <1>2, <1>3

LEMMA Idles == Idle \in Jobs /\ Idle.at = "idle" /\ \A at \in Steps : [Idle EXCEPT !.at = at] \in Jobs
  <1>1. NoRow \in Row
    BY DEF NoRow, Row
  <1> QED
    BY <1>1 DEF Idle, Jobs, Steps

LEMMA Starting ==
    ASSUME TypeOK, NEW at \in Steps, NEW v \in Versions \cup {NoVersion}
    PROVE  /\ Starts(at, v) \in Jobs /\ Starts(at, v).at = at /\ Starts(at, v).version = v
           /\ StartsListing(at, v) \in Jobs /\ StartsListing(at, v).at = at
           /\ StartsListing(at, v).version = v /\ StartsListing(at, v).list = rows
  BY Idles DEF Starts, StartsListing, TypeOK, Jobs

\* The types, of the tables and views and of the jobs.
StoreTyped ==
    /\ mode \in [forced : BOOLEAN, overlap : BOOLEAN, serial : BOOLEAN] /\ rows \in [Versions -> Row] /\ gone \subseteq Objects
    /\ view \in [Places -> Versions \cup {NoVersion}]
    /\ aside \in [Places -> Versions \cup {NoVersion}]
JobTyped(p, j) ==
    /\ j \in Jobs
    /\ j.at \in ViewSteps => j.place \in Places
    /\ j.at \notin {"idle", "reread"} => j.version \in Versions
    /\ j.at \notin {"idle"} \cup Cleaning => p \in Operators
JobsTyped == job \in [Processes -> Jobs] /\ \A p \in Processes : JobTyped(p, job[p])

LEMMA TypedParts == Typed <=> StoreTyped /\ JobsTyped
  BY DEF Typed, TypeOK, JobsOK, StoreTyped, JobsTyped, JobTyped, SwitchSteps, ViewSteps

LEMMA TypedPartsNext == Typed' <=> StoreTyped' /\ JobsTyped'
  BY DEF Typed, TypeOK, JobsOK, StoreTyped, JobsTyped, JobTyped, SwitchSteps, ViewSteps

LEMMA JobChanged ==
    ASSUME JobsTyped, NEW p \in Processes, NEW j, JobTyped(p, j), job' = [job EXCEPT ![p] = j]
    PROVE  JobsTyped'
  BY DEF JobsTyped, JobTyped

LEMMA GoesTyped ==
    ASSUME JobsTyped, NEW p \in Processes, NEW at \in Steps, Goes(p, at),
           job[p].version \in Versions, at \notin Cleaning => p \in Operators,
           at \in ViewSteps => job[p].place \in Places
    PROVE  JobsTyped'
  <1> DEFINE j == [job[p] EXCEPT !.at = at]
  <1>1. job[p] \in Jobs
    BY DEF JobsTyped
  <1>2. JobTyped(p, j)
    BY <1>1 DEF JobTyped, Jobs
  <1> QED
    BY <1>2, JobChanged DEF Goes

LEMMA EndsTyped == ASSUME JobsTyped, NEW p \in Processes, Ends(p) PROVE JobsTyped'
  <1>1. JobTyped(p, Idle)
    BY Idles DEF JobTyped, ViewSteps
  <1> QED
    BY <1>1, JobChanged DEF Ends

LEMMA DoneTyped == ASSUME JobsTyped, NEW p \in Processes, Done(p) PROVE JobsTyped'
  <1> DEFINE j == [job[p] EXCEPT !.at = "reread", !.rest = @ \ {job[p].version},
                                 !.version = NoVersion, !.tables = FALSE]
  <1>1. job[p] \in Jobs
    BY DEF JobsTyped
  <1>2. JobTyped(p, j)
    BY <1>1 DEF JobTyped, Jobs, Steps, ViewSteps, Cleaning
  <1> QED
    BY <1>2, JobChanged DEF Done

LEMMA NextViewTyped ==
    ASSUME JobsTyped, NEW p \in Operators, NextView(p), job[p].at \in {"view", "dropNext"}
    PROVE  JobsTyped'
  <1> DEFINE j == [job[p] EXCEPT !.at = "view", !.place = @ + 1]
  <1>1. p \in Processes /\ job[p] \in Jobs /\ job[p].place \in Places /\ job[p].version \in Versions
    BY DEF JobsTyped, JobTyped, Processes, ViewSteps
  <1>2. CASE job[p].place = Len(ApiViews)
    BY <1>1, <1>2, EndsTyped DEF NextView
  <1>3. CASE job[p].place # Len(ApiViews)
    <2>1. job[p].place + 1 \in Places /\ job[p].place + 1 \in Nat
      BY <1>1, <1>3, Constants DEF Places
    <2>2. JobTyped(p, j)
      BY <1>1, <2>1 DEF JobTyped, Jobs, Steps, SwitchSteps
    <2> QED
      BY <1>1, <1>3, <2>2, JobChanged DEF NextView
  <1> QED
    BY <1>2, <1>3

LEMMA ObjectsTyped == ASSUME NEW v \in Versions PROVE ObjectsOf(v) \subseteq Objects
  BY Constants DEF ObjectsOf, Objects

LEMMA TypedStep == Typed /\ [Next]_vars => Typed'
  <1> SUFFICES ASSUME Typed, [Next]_vars PROVE StoreTyped' /\ JobsTyped'
    BY TypedPartsNext
  <1> USE Constants
  <1>0. StoreTyped /\ JobsTyped
    BY TypedParts
  <1>1. ASSUME NEW p \in Processes PROVE job[p] \in Jobs /\ JobTyped(p, job[p])
    BY <1>0, <1>1 DEF JobsTyped
  <1>2. ASSUME NEW p \in Operators, NEW v \in Versions, Deploy(p, v) PROVE StoreTyped' /\ JobsTyped'
    <2>1. StoreTyped'
      BY <1>0, <1>2 DEF Deploy, StoreTyped
    <2>2. JobsTyped'
      <3> DEFINE j == StartsListing("createEventPrice", v)
      <3>1. "createEventPrice" \in Steps
        BY DEF Steps
      <3>2. j \in Jobs /\ j.at = "createEventPrice" /\ j.version = v
        BY <3>1, Starting DEF Typed
      <3>3. JobTyped(p, j)
        BY <3>2 DEF JobTyped, Processes, ViewSteps
      <3> QED
        BY <1>0, <1>2, <3>3, JobChanged DEF Deploy, Processes
    <2> QED
      BY <2>1, <2>2
  <1>3. ASSUME NEW p \in Operators, NEW v \in Versions, Ready(p, v) PROVE StoreTyped' /\ JobsTyped'
    <2>1. StoreTyped'
      BY <1>0, <1>3 DEF Ready, StoreTyped
    <2>2. JobsTyped'
      <3> DEFINE j == Starts("ready", v)
      <3>1. "ready" \in Steps
        BY DEF Steps
      <3>2. j \in Jobs /\ j.at = "ready" /\ j.version = v
        BY <3>1, Starting DEF Typed
      <3>3. JobTyped(p, j)
        BY <3>2 DEF JobTyped, Processes, ViewSteps
      <3> QED
        BY <1>0, <1>3, <3>3, JobChanged DEF Ready, Processes
    <2> QED
      BY <2>1, <2>2
  <1>4. ASSUME NEW p \in Operators, NEW v \in Versions, Switch(p, v) PROVE StoreTyped' /\ JobsTyped'
    <2>1. StoreTyped'
      BY <1>0, <1>4 DEF Switch, StoreTyped
    <2>2. JobsTyped'
      <3> DEFINE at == IF rows[v].state = "active" THEN "retire" ELSE "activate"
                 j == [Starts(at, v) EXCEPT !.rest = OtherActives(v)]
      <3>1. Starts(at, v) \in Jobs /\ Starts(at, v).at = at /\ Starts(at, v).version = v
        BY Starting DEF Typed, Steps, SwitchSteps
      <3>2. OtherActives(v) \in SUBSET Versions
        BY DEF OtherActives
      <3>3. j \in Jobs /\ j.at = at /\ j.version = v
        BY <3>1, <3>2 DEF Jobs
      <3>4. JobTyped(p, j)
        BY <3>3 DEF JobTyped, Processes, ViewSteps
      <3> QED
        BY <1>0, <1>4, <3>4, JobChanged DEF Switch, Processes
    <2> QED
      BY <2>1, <2>2
  <1>5. ASSUME NEW p \in Operators, CreateEventPrice(p) PROVE StoreTyped' /\ JobsTyped'
    <2>0. p \in Processes /\ job[p].version \in Versions
      BY <1>1, <1>5 DEF Processes, JobTyped, CreateEventPrice, Cleaning, CleanSteps
    <2>1. StoreTyped'
      BY <1>0, <1>5 DEF CreateEventPrice, StoreTyped
    <2>2. JobsTyped'
      BY <1>0, <1>1, <1>5, <2>0, GoesTyped DEF CreateEventPrice, Steps, SwitchSteps, CleanSteps, ViewSteps, Cleaning, JobTyped
    <2> QED
      BY <2>1, <2>2
  <1>6. ASSUME NEW p \in Operators, CreatePriceWatermark(p) PROVE StoreTyped' /\ JobsTyped'
    <2>0. p \in Processes /\ job[p].version \in Versions
      BY <1>1, <1>6 DEF Processes, JobTyped, CreatePriceWatermark, Cleaning, CleanSteps
    <2>1. StoreTyped'
      BY <1>0, <1>6 DEF CreatePriceWatermark, StoreTyped
    <2>2. JobsTyped'
      BY <1>0, <1>1, <1>6, <2>0, GoesTyped, EndsTyped DEF CreatePriceWatermark, Steps, SwitchSteps, CleanSteps, ViewSteps, Cleaning, JobTyped
    <2> QED
      BY <2>1, <2>2
  <1>7. ASSUME NEW p \in Operators, Register(p) PROVE StoreTyped' /\ JobsTyped'
    <2>0. p \in Processes /\ job[p].version \in Versions
      BY <1>1, <1>7 DEF Processes, JobTyped, Register
    <2>1. StoreTyped'
      BY <1>0, <1>1, <1>7, <2>0, RowsTyped DEF Register, StoreTyped, Typed
    <2>2. JobsTyped'
      BY <1>0, <1>7, <2>0, EndsTyped DEF Register
    <2> QED
      BY <2>1, <2>2
  <1>8. ASSUME NEW p \in Operators, MarkReady(p) PROVE StoreTyped' /\ JobsTyped'
    <2>0. p \in Processes /\ job[p].version \in Versions
      BY <1>1, <1>8 DEF Processes, JobTyped, MarkReady
    <2>1. StoreTyped'
      BY <1>0, <1>1, <1>8, <2>0, RowsTyped DEF MarkReady, StoreTyped, Typed
    <2>2. JobsTyped'
      BY <1>0, <1>8, <2>0, EndsTyped DEF MarkReady
    <2> QED
      BY <2>1, <2>2
  <1>9. ASSUME NEW p \in Operators, Activate(p) PROVE StoreTyped' /\ JobsTyped'
    <2>0. p \in Processes /\ job[p].version \in Versions
      BY <1>1, <1>9 DEF Processes, JobTyped, Activate
    <2>1. StoreTyped'
      BY <1>0, <1>1, <1>9, <2>0, RowsTyped DEF Activate, StoreTyped, Typed
    <2>2. JobsTyped'
      BY <1>0, <1>1, <1>9, <2>0, GoesTyped DEF Activate, Steps, SwitchSteps, CleanSteps, ViewSteps, Cleaning, JobTyped
    <2> QED
      BY <2>1, <2>2
  <1>10. ASSUME NEW p \in Operators, Retire(p) PROVE StoreTyped' /\ JobsTyped'
    <2>0. p \in Processes /\ job[p].version \in Versions
      BY <1>1, <1>10 DEF Processes, JobTyped, Retire
    <2>1. StoreTyped'
      <3>1. Min(job[p].rest) \in Versions
        BY <1>1, <1>10, <2>0, LeastOne DEF Retire, Jobs
      <3> QED
        BY <1>0, <1>10, <3>1, RowsTyped DEF Retire, StoreTyped, Typed
    <2>2. JobsTyped'
      <3> DEFINE j == [job[p] EXCEPT !.rest = @ \ {Min(job[p].rest)}]
      <3>1. JobTyped(p, j)
        BY <1>1, <2>0 DEF JobTyped, Jobs
      <3> QED
        BY <1>0, <1>10, <2>0, <3>1, JobChanged DEF Retire
    <2> QED
      BY <2>1, <2>2
  <1>11. ASSUME NEW p \in Operators, ListViews(p) PROVE StoreTyped' /\ JobsTyped'
    <2>0. p \in Processes /\ job[p].version \in Versions
      BY <1>1, <1>11 DEF Processes, JobTyped, ListViews
    <2>1. StoreTyped'
      BY <1>0, <1>11 DEF ListViews, StoreTyped
    <2>2. JobsTyped'
      <3> DEFINE j == [job[p] EXCEPT !.at = "view", !.place = 1,
                                     !.have = {i \in Places : view[i] # NoVersion}]
      <3>1. JobTyped(p, j)
        BY <1>1, <1>11, <2>0 DEF JobTyped, Jobs, Steps, SwitchSteps
      <3> QED
        BY <1>0, <1>11, <2>0, <3>1, JobChanged DEF ListViews
    <2> QED
      BY <2>1, <2>2
  <1>12. ASSUME NEW p \in Operators, CreateView(p) PROVE StoreTyped' /\ JobsTyped'
    <2>0. p \in Processes /\ job[p].version \in Versions
      BY <1>1, <1>12 DEF Processes, JobTyped, CreateView
    <2>1. StoreTyped'
      BY <1>0, <1>1, <1>12, <2>0 DEF CreateView, StoreTyped, JobTyped, ViewSteps
    <2>2. JobsTyped'
      BY <1>0, <1>12, NextViewTyped DEF CreateView
    <2> QED
      BY <2>1, <2>2
  <1>13. ASSUME NEW p \in Operators, DropLeftover(p) PROVE StoreTyped' /\ JobsTyped'
    <2>0. p \in Processes /\ job[p].version \in Versions
      BY <1>1, <1>13 DEF Processes, JobTyped, DropLeftover
    <2>1. StoreTyped'
      BY <1>0, <1>1, <1>13, <2>0 DEF DropLeftover, StoreTyped, JobTyped, ViewSteps
    <2>2. JobsTyped'
      BY <1>0, <1>1, <1>13, <2>0, GoesTyped DEF DropLeftover, Steps, SwitchSteps, CleanSteps, ViewSteps, Cleaning, JobTyped
    <2> QED
      BY <2>1, <2>2
  <1>14. ASSUME NEW p \in Operators, CreateNext(p) PROVE StoreTyped' /\ JobsTyped'
    <2>0. p \in Processes /\ job[p].version \in Versions
      BY <1>1, <1>14 DEF Processes, JobTyped, CreateNext
    <2>1. StoreTyped'
      BY <1>0, <1>1, <1>14, <2>0 DEF CreateNext, StoreTyped, JobTyped, ViewSteps
    <2>2. JobsTyped'
      BY <1>0, <1>1, <1>14, <2>0, GoesTyped DEF CreateNext, Steps, SwitchSteps, CleanSteps, ViewSteps, Cleaning, JobTyped
    <2> QED
      BY <2>1, <2>2
  <1>15. ASSUME NEW p \in Operators, Exchange(p) PROVE StoreTyped' /\ JobsTyped'
    <2>0. p \in Processes /\ job[p].version \in Versions
      BY <1>1, <1>15 DEF Processes, JobTyped, Exchange
    <2>1. StoreTyped'
      BY <1>0, <1>1, <1>15, <2>0 DEF Exchange, StoreTyped, JobTyped, ViewSteps
    <2>2. JobsTyped'
      BY <1>0, <1>1, <1>15, <2>0, GoesTyped DEF Exchange, Steps, SwitchSteps, CleanSteps, ViewSteps, Cleaning, JobTyped
    <2> QED
      BY <2>1, <2>2
  <1>16. ASSUME NEW p \in Operators, DropNext(p) PROVE StoreTyped' /\ JobsTyped'
    <2>0. p \in Processes /\ job[p].version \in Versions
      BY <1>1, <1>16 DEF Processes, JobTyped, DropNext
    <2>1. StoreTyped'
      BY <1>0, <1>1, <1>16, <2>0 DEF DropNext, StoreTyped, JobTyped, ViewSteps
    <2>2. JobsTyped'
      BY <1>0, <1>16, NextViewTyped DEF DropNext
    <2> QED
      BY <2>1, <2>2
  <1>17. ASSUME NEW p \in Cleaners, Cleanup(p) PROVE StoreTyped' /\ JobsTyped'
    <2>1. StoreTyped'
      BY <1>0, <1>17 DEF Cleanup, StoreTyped
    <2>2. JobsTyped'
      <3> DEFINE j == [StartsListing("reread", NoVersion) EXCEPT !.rest = Expired(rows)]
      <3>1. StartsListing("reread", NoVersion) \in Jobs /\ StartsListing("reread", NoVersion).at = "reread"
        BY Starting DEF Typed, Steps
      <3>2. Expired(rows) \in SUBSET Versions
        BY DEF Expired
      <3>3. j \in Jobs /\ j.at = "reread"
        BY <3>1, <3>2 DEF Jobs
      <3> QED
        BY <1>0, <1>17, <3>3, JobChanged DEF Cleanup, JobTyped, Processes, ViewSteps, Cleaning
    <2> QED
      BY <2>1, <2>2
  <1>18. ASSUME NEW p \in Cleaners, Reread(p) PROVE StoreTyped' /\ JobsTyped'
    <2>1. StoreTyped'
      BY <1>0, <1>18 DEF Reread, StoreTyped
    <2>2. JobsTyped'
      <3> DEFINE v == Min(job[p].rest)
                 to == [job[p] EXCEPT !.at = "users", !.version = v, !.tables = rows[v].tables]
                 past == [job[p] EXCEPT !.rest = @ \ {v}]
      <3>1. v \in Versions /\ p \in Processes
        BY <1>1, <1>18, LeastOne DEF Reread, Jobs, Processes
      <3>2. rows[v].tables \in BOOLEAN
        BY <1>0, <3>1 DEF StoreTyped, Row
      <3>3. JobTyped(p, to)
        BY <1>1, <3>1, <3>2 DEF JobTyped, Jobs, Steps, CleanSteps, ViewSteps, Cleaning
      <3>4. JobTyped(p, past)
        BY <1>1, <3>1 DEF JobTyped, Jobs
      <3> QED
        BY <1>0, <1>18, <3>1, <3>3, <3>4, JobChanged DEF Reread
    <2> QED
      BY <2>1, <2>2
  <1>19. ASSUME NEW p \in Cleaners, FindUsers(p) PROVE StoreTyped' /\ JobsTyped'
    <2>0. p \in Processes /\ job[p].version \in Versions
      BY <1>1, <1>19 DEF Processes, JobTyped, FindUsers
    <2>1. StoreTyped'
      BY <1>0, <1>19 DEF FindUsers, StoreTyped
    <2>2. JobsTyped'
      BY <1>0, <1>1, <1>19, <2>0, GoesTyped, DoneTyped DEF FindUsers, Steps, SwitchSteps, CleanSteps, ViewSteps, Cleaning, JobTyped, AfterUsers
    <2> QED
      BY <2>1, <2>2
  <1>20. ASSUME NEW p \in Cleaners, DropEventPrice(p) PROVE StoreTyped' /\ JobsTyped'
    <2>0. p \in Processes /\ job[p].version \in Versions
      BY <1>1, <1>20 DEF Processes, JobTyped, DropEventPrice
    <2>1. StoreTyped'
      BY <1>0, <1>1, <1>20, <2>0, ObjectsTyped DEF DropEventPrice, StoreTyped, ObjectsOf
    <2>2. JobsTyped'
      BY <1>0, <1>1, <1>20, <2>0, GoesTyped DEF DropEventPrice, Steps, SwitchSteps, CleanSteps, ViewSteps, Cleaning, JobTyped
    <2> QED
      BY <2>1, <2>2
  <1>21. ASSUME NEW p \in Cleaners, DropPriceWatermark(p) PROVE StoreTyped' /\ JobsTyped'
    <2>0. p \in Processes /\ job[p].version \in Versions
      BY <1>1, <1>21 DEF Processes, JobTyped, DropPriceWatermark
    <2>1. StoreTyped'
      BY <1>0, <1>1, <1>21, <2>0, ObjectsTyped DEF DropPriceWatermark, StoreTyped, ObjectsOf
    <2>2. JobsTyped'
      BY <1>0, <1>1, <1>21, <2>0, GoesTyped DEF DropPriceWatermark, Steps, SwitchSteps, CleanSteps, ViewSteps, Cleaning, JobTyped
    <2> QED
      BY <2>1, <2>2
  <1>22. ASSUME NEW p \in Cleaners, RecordTables(p) PROVE StoreTyped' /\ JobsTyped'
    <2>0. p \in Processes /\ job[p].version \in Versions
      BY <1>1, <1>22 DEF Processes, JobTyped, RecordTables
    <2>1. StoreTyped'
      BY <1>0, <1>1, <1>22, <2>0, RowsTyped DEF RecordTables, StoreTyped, Typed
    <2>2. JobsTyped'
      BY <1>0, <1>1, <1>22, <2>0, GoesTyped DEF RecordTables, Steps, SwitchSteps, CleanSteps, ViewSteps, Cleaning, JobTyped
    <2> QED
      BY <2>1, <2>2
  <1>23. ASSUME NEW p \in Cleaners, KeepShared(p) PROVE StoreTyped' /\ JobsTyped'
    <2>0. p \in Processes /\ job[p].version \in Versions
      BY <1>1, <1>23 DEF Processes, JobTyped, KeepShared
    <2>1. StoreTyped'
      BY <1>0, <1>1, <1>23, <2>0, RowsTyped DEF KeepShared, StoreTyped, Typed
    <2>2. JobsTyped'
      BY <1>0, <1>23, <2>0, DoneTyped DEF KeepShared
    <2> QED
      BY <2>1, <2>2
  <1>24. ASSUME NEW p \in Cleaners, RefuseDatabase(p) PROVE StoreTyped' /\ JobsTyped'
    <2>0. p \in Processes /\ job[p].version \in Versions
      BY <1>1, <1>24 DEF Processes, JobTyped, RefuseDatabase
    <2>1. StoreTyped'
      BY <1>0, <1>24 DEF RefuseDatabase, StoreTyped
    <2>2. JobsTyped'
      BY <1>0, <1>24, <2>0, DoneTyped DEF RefuseDatabase
    <2> QED
      BY <2>1, <2>2
  <1>25. ASSUME NEW p \in Cleaners, DropDatabase(p) PROVE StoreTyped' /\ JobsTyped'
    <2>0. p \in Processes /\ job[p].version \in Versions
      BY <1>1, <1>25 DEF Processes, JobTyped, DropDatabase
    <2>1. StoreTyped'
      BY <1>0, <1>1, <1>25, <2>0, ObjectsTyped DEF DropDatabase, StoreTyped, ObjectsOf
    <2>2. JobsTyped'
      BY <1>0, <1>1, <1>25, <2>0, GoesTyped DEF DropDatabase, Steps, SwitchSteps, CleanSteps, ViewSteps, Cleaning, JobTyped
    <2> QED
      BY <2>1, <2>2
  <1>26. ASSUME NEW p \in Cleaners, RecordDropped(p) PROVE StoreTyped' /\ JobsTyped'
    <2>0. p \in Processes /\ job[p].version \in Versions
      BY <1>1, <1>26 DEF Processes, JobTyped, RecordDropped
    <2>1. StoreTyped'
      BY <1>0, <1>1, <1>26, <2>0, RowsTyped DEF RecordDropped, StoreTyped, Typed
    <2>2. JobsTyped'
      BY <1>0, <1>26, <2>0, DoneTyped DEF RecordDropped
    <2> QED
      BY <2>1, <2>2
  <1>27. ASSUME NEW p \in Cleaners, EndCleanup(p) PROVE StoreTyped' /\ JobsTyped'
    <2>1. StoreTyped'
      BY <1>0, <1>27 DEF EndCleanup, StoreTyped
    <2>2. JobsTyped'
      BY <1>0, <1>27, EndsTyped DEF EndCleanup, Processes
    <2> QED
      BY <2>1, <2>2
  <1>28. ASSUME NEW p \in Processes, Crash(p) PROVE StoreTyped' /\ JobsTyped'
    <2>1. StoreTyped'
      BY <1>0, <1>28 DEF Crash, StoreTyped
    <2>2. JobsTyped'
      BY <1>0, <1>28, EndsTyped DEF Crash
    <2> QED
      BY <2>1, <2>2
  <1>29. ASSUME NEW v \in Versions, Expire(v) PROVE StoreTyped' /\ JobsTyped'
    <2>1. StoreTyped'
      BY <1>0, <1>29, RowsTyped DEF Expire, StoreTyped, Typed
    <2>2. JobsTyped'
      BY <1>0, <1>29 DEF Expire, JobsTyped, JobTyped
    <2> QED
      BY <2>1, <2>2
  <1>30. CASE UNCHANGED vars
    BY <1>0, <1>30 DEF vars, StoreTyped, JobsTyped, JobTyped
  <1>31. CASE Calm
    BY <1>0, <1>31 DEF Calm, StoreTyped, JobsTyped, JobTyped
  <1> QED
    BY <1>2, <1>3, <1>4, <1>5, <1>6, <1>7, <1>8, <1>9, <1>10, <1>11, <1>12, <1>13, <1>14, <1>15, <1>16, <1>17, <1>18, <1>19, <1>20, <1>21, <1>22, <1>23, <1>24, <1>25, <1>26, <1>27, <1>28, <1>29, <1>30, <1>31 DEF Next, Operate, Clean

\* Every variable keeps its type, and a switch never works on a place past the last view.
THEOREM TypeCorrect == Spec => []TypeOK
  <1>1. Typed => TypeOK
    BY DEF Typed
  <1> QED
    BY <1>1, InitTyped, TypedStep, PTL DEF Spec

-----------------------------------------------------------------------------
(* What a step changes.                                                    *)

LEMMA RowsChange ==
    ASSUME [Next]_vars, rows' # rows
    PROVE  \/ \E p \in Operators : Register(p) \/ MarkReady(p) \/ Activate(p) \/ Retire(p)
           \/ \E p \in Cleaners : RecordTables(p) \/ KeepShared(p) \/ RecordDropped(p)
           \/ \E v \in Versions : Expire(v)
  BY DEF Next, vars, Operate, Clean, Deploy, Ready, Switch, CreateEventPrice, CreatePriceWatermark,
         ListViews, CreateView, DropLeftover, CreateNext, Exchange, DropNext,
         Cleanup, Reread, FindUsers, DropEventPrice, DropPriceWatermark, RefuseDatabase,
         DropDatabase, EndCleanup, Crash, Calm

LEMMA GoneChange ==
    ASSUME [Next]_vars, gone' # gone
    PROVE  \/ \E p \in Operators : CreateEventPrice(p) \/ CreatePriceWatermark(p)
           \/ \E p \in Cleaners : DropEventPrice(p) \/ DropPriceWatermark(p) \/ DropDatabase(p)
  BY DEF Next, vars, Operate, Clean, Deploy, Ready, Switch, Register, MarkReady, Activate, Retire,
         ListViews, CreateView, DropLeftover, CreateNext, Exchange, DropNext,
         Cleanup, Reread, FindUsers, RecordTables, KeepShared, RefuseDatabase,
         RecordDropped, EndCleanup, Crash, Expire, Calm

LEMMA ViewsChange ==
    ASSUME [Next]_vars, view' # view \/ aside' # aside
    PROVE  \E p \in Operators :
                CreateView(p) \/ DropLeftover(p) \/ CreateNext(p) \/ Exchange(p) \/ DropNext(p)
  BY DEF Next, vars, Operate, Clean, Deploy, Ready, Switch, CreateEventPrice, CreatePriceWatermark,
         Register, MarkReady, Activate, Retire, ListViews,
         Cleanup, Reread, FindUsers, DropEventPrice, DropPriceWatermark, RecordTables, KeepShared,
         RefuseDatabase, DropDatabase, RecordDropped, EndCleanup, Crash, Expire, Calm

LEMMA ModeStays == ASSUME [Next]_vars, ~Calm PROVE mode' = mode
  BY DEF Next, vars, Operate, Clean, Deploy, Ready, Switch, CreateEventPrice, CreatePriceWatermark,
         Register, MarkReady, Activate, Retire, ListViews, CreateView, DropLeftover, CreateNext,
         Exchange, DropNext, Cleanup, Reread, FindUsers, DropEventPrice, DropPriceWatermark,
         RecordTables, KeepShared, RefuseDatabase, DropDatabase, RecordDropped, EndCleanup,
         Crash, Expire

LEMMA ForcedStays == ASSUME Typed, [Next]_vars PROVE mode'.forced = mode.forced
  BY ModeStays DEF Calm, Typed, TypeOK

\* A step of a process changes its own job only.
Acts(p) ==
    \/ p \in Operators /\ Operate(p)
    \/ p \in Cleaners /\ Clean(p)
    \/ Crash(p)

LEMMA OwnJob ==
    ASSUME JobsTyped, NEW p \in Processes, Acts(p), NEW q \in Processes, p # q
    PROVE  job'[q] = job[q]
  <1>1. CASE Operate(p)
    <2> USE DEF JobsTyped
    <2>1. ASSUME NEW v \in Versions, Deploy(p, v) \/ Ready(p, v) \/ Switch(p, v) PROVE job'[q] = job[q]
      BY <1>1, <2>1 DEF Deploy, Ready, Switch
    <2>2. CASE CreateEventPrice(p) \/ CreatePriceWatermark(p) \/ Register(p) \/ MarkReady(p)
      BY <1>1, <2>2 DEF CreateEventPrice, CreatePriceWatermark, Register, MarkReady, Goes, Ends
    <2>3. CASE Activate(p) \/ Retire(p) \/ ListViews(p)
      BY <1>1, <2>3 DEF Activate, Retire, ListViews, Goes
    <2>4. CASE DropLeftover(p) \/ CreateNext(p) \/ Exchange(p)
      BY <1>1, <2>4 DEF DropLeftover, CreateNext, Exchange, Goes
    <2>5. CASE CreateView(p) \/ DropNext(p)
      BY <1>1, <2>5 DEF CreateView, DropNext, NextView, Ends
    <2> QED
      BY <1>1, <2>1, <2>2, <2>3, <2>4, <2>5 DEF Operate
  <1>2. CASE Clean(p)
    BY <1>2 DEF JobsTyped, Clean, Cleanup, Reread, FindUsers, DropEventPrice, DropPriceWatermark,
         RecordTables, KeepShared, RefuseDatabase, DropDatabase, RecordDropped, EndCleanup,
         AfterUsers, Goes, Ends, Done
  <1>3. CASE Crash(p)
    BY <1>3 DEF JobsTyped, Crash, Ends
  <1> QED
    BY <1>1, <1>2, <1>3 DEF Acts

LEMMA NextActs ==
    ASSUME [Next]_vars
    PROVE  UNCHANGED vars \/ (\E v \in Versions : Expire(v)) \/ Calm \/ \E p \in Processes : Acts(p)
  <1>1. CASE \E p \in Operators : Operate(p)
    BY <1>1 DEF Acts, Processes
  <1>2. CASE \E p \in Cleaners : Clean(p)
    BY <1>2 DEF Acts, Processes
  <1>3. CASE \E p \in Processes : Crash(p)
    BY <1>3 DEF Acts
  <1> QED
    BY <1>1, <1>2, <1>3 DEF Next

LEMMA JobsChange ==
    ASSUME JobsTyped, [Next]_vars, NEW q \in Processes, job'[q] # job[q]
    PROVE  \/ q \in Operators /\ Operate(q)
           \/ q \in Cleaners /\ Clean(q)
           \/ Crash(q)
  <1>1. PICK p \in Processes : Acts(p)
    BY NextActs DEF vars, Expire, Calm
  <1> QED
    BY <1>1, OwnJob DEF Acts

-----------------------------------------------------------------------------
(* Nothing served is dropped, without --force.                             *)

\* An operator's command is past its start.
Operating(p) == job[p].at \notin {"idle"} \cup Cleaning

\* Rows of the versions a step does not name stay.
LEMMA RowKept ==
    ASSUME Typed, [Next]_vars, NEW v \in Versions, rows'[v] # rows[v]
    PROVE  \/ \E p \in Operators : v = job[p].version /\ (Register(p) \/ MarkReady(p) \/ Activate(p))
           \/ \E p \in Operators : v \in job[p].rest /\ Retire(p) /\ rows'[v].state = "retired"
                                   /\ rows'[v].retired = "recent"
           \/ \E p \in Cleaners : v = job[p].version /\ RecordTables(p) /\ rows'[v] = [rows[v] EXCEPT !.tables = TRUE]
           \/ \E p \in Cleaners : /\ v = job[p].version /\ (KeepShared(p) \/ RecordDropped(p))
                                  /\ rows'[v] = [rows[v] EXCEPT !.state = "dropped"]
           \/ Expire(v) /\ rows'[v] = [rows[v] EXCEPT !.retired = "expired"]
  <1> USE DEF Typed, TypeOK, Row
  <1>0. rows' # rows
    OBVIOUS
  <1>1. ASSUME NEW p \in Operators, Register(p) \/ MarkReady(p) \/ Activate(p) PROVE v = job[p].version
    BY <1>1 DEF Register, MarkReady, Activate, InState
  <1>2. ASSUME NEW p \in Operators, Retire(p)
        PROVE  v \in job[p].rest /\ rows'[v].state = "retired" /\ rows'[v].retired = "recent"
    <2>1. p \in Processes /\ Min(job[p].rest) \in job[p].rest
      BY <1>2, LeastOne DEF Retire, Processes, Jobs
    <2> QED
      BY <1>2, <2>1 DEF Retire
  <1>3. ASSUME NEW p \in Cleaners, RecordTables(p)
        PROVE  v = job[p].version /\ rows'[v] = [rows[v] EXCEPT !.tables = TRUE]
    BY <1>3 DEF RecordTables
  <1>4. ASSUME NEW p \in Cleaners, KeepShared(p) \/ RecordDropped(p)
        PROVE  v = job[p].version /\ rows'[v] = [rows[v] EXCEPT !.state = "dropped"]
    BY <1>4 DEF KeepShared, RecordDropped, InState
  <1>5. ASSUME NEW u \in Versions, Expire(u) PROVE u = v /\ rows'[v] = [rows[v] EXCEPT !.retired = "expired"]
    BY <1>5 DEF Expire
  <1> QED
    BY <1>0, <1>1, <1>2, <1>3, <1>4, <1>5, RowsChange

LEMMA SpentStays ==
    ASSUME Typed, Unforced, ~mode.forced, [Next]_vars, NEW v \in Versions
    PROVE  /\ Spent(v) => Spent(v)'
           /\ ~Spent(v) /\ Spent(v)' => \A p \in Processes : ~Operating(p) \/ p \notin Operators
  <1> USE DEF Typed, TypeOK, Row
  <1>1. CASE rows'[v] = rows[v]
    BY <1>1 DEF Spent
  <1>2. ASSUME NEW p \in Operators, v = job[p].version, Register(p) \/ MarkReady(p) \/ Activate(p)
        PROVE  ~Spent(v) /\ ~Spent(v)'
    <2>1. ~Spent(v)
      BY <1>2 DEF Register, MarkReady, Activate, Unforced, OperatorsOnLive, Processes, SwitchSteps
    <2>2. ~Spent(v)'
      BY <1>2 DEF Register, MarkReady, Activate, InState, NoRow, Spent
    <2> QED
      BY <2>1, <2>2
  <1>3. ASSUME NEW p \in Operators, v \in job[p].rest, Retire(p), rows'[v].state = "retired", rows'[v].retired = "recent"
        PROVE  ~Spent(v) /\ ~Spent(v)'
    <2>1. ~Spent(v)
      BY <1>3 DEF Retire, Unforced, OperatorsOnLive, Processes, SwitchSteps
    <2> QED
      BY <1>3, <2>1 DEF Spent
  <1>4. ASSUME NEW p \in Cleaners, v = job[p].version, RecordTables(p) \/ KeepShared(p) \/ RecordDropped(p),
               \/ rows'[v] = [rows[v] EXCEPT !.tables = TRUE]
               \/ rows'[v] = [rows[v] EXCEPT !.state = "dropped"]
        PROVE  Spent(v) /\ Spent(v)'
    <2>1. Spent(v)
      BY <1>4 DEF RecordTables, KeepShared, RecordDropped, Unforced, CleanersOnSpent, Processes, CleanSteps
    <2> QED
      BY <1>4, <2>1 DEF Spent
  <1>5. ASSUME Expire(v), rows'[v] = [rows[v] EXCEPT !.retired = "expired"]
        PROVE  Spent(v)' /\ \A p \in Processes : ~Operating(p) \/ p \notin Operators
    BY <1>5 DEF Expire, Spent, Operating, Cleaning
  <1> QED
    BY <1>1, <1>2, <1>3, <1>4, <1>5, RowKept

LEMMA HandWrittenStep ==
    ASSUME Typed, Unforced, ~mode.forced, [Next]_vars PROVE HandWrittenSpent'
  BY SpentStays DEF Unforced, HandWrittenSpent

\* A cleanup's step leaves it cleaning or ends it.
LEMMA CleanStays == ASSUME Typed, NEW p \in Cleaners, Clean(p)
                    PROVE  job'[p].at \in {"idle"} \cup Cleaning /\ job[p].at \in {"idle"} \cup Cleaning
  <1>0. StartsListing("reread", NoVersion) \in Jobs /\ StartsListing("reread", NoVersion).at = "reread"
    BY Starting DEF Typed, Steps
  <1> USE Idles DEF Typed, TypeOK, Jobs, Processes, Cleaning, CleanSteps
  <1>1. CASE Cleanup(p)
    <2>1. job[p].at = "idle"
      BY <1>1 DEF Cleanup, MayStart
    <2>2. job'[p] = [StartsListing("reread", NoVersion) EXCEPT !.rest = Expired(rows)]
      BY <1>1 DEF Cleanup
    <2>3. job'[p].at = "reread"
      BY <1>0, <2>2
    <2> QED
      BY <2>1, <2>3
  <1>2. CASE Reread(p)
    BY <1>2 DEF Reread
  <1>3. CASE FindUsers(p)
    <2>1. job[p].at = "users" /\ (Done(p) \/ AfterUsers(p))
      BY <1>3 DEF FindUsers
    <2>2. CASE Done(p)
      BY <2>1, <2>2 DEF Done
    <2>3. CASE AfterUsers(p)
      BY <2>1, <2>3 DEF AfterUsers, Goes
    <2> QED
      BY <2>1, <2>2, <2>3
  <1>6. CASE DropEventPrice(p) \/ DropPriceWatermark(p) \/ RecordTables(p) \/ DropDatabase(p)
    BY <1>6 DEF DropEventPrice, DropPriceWatermark, RecordTables, DropDatabase, Goes, Done
  <1>4. CASE KeepShared(p) \/ RefuseDatabase(p) \/ RecordDropped(p)
    BY <1>4 DEF KeepShared, RefuseDatabase, RecordDropped, Done
  <1>5. CASE EndCleanup(p)
    BY <1>5 DEF EndCleanup, Ends
  <1> QED
    BY <1>1, <1>2, <1>3, <1>4, <1>5, <1>6 DEF Clean

\* The statements of an operator's command follow one another.
Follows ==
    {<<"createEventPrice", "createPriceWatermark">>, <<"createPriceWatermark", "register">>,
     <<"activate", "retire">>, <<"retire", "retire">>, <<"retire", "view">>, <<"view", "createNext">>,
     <<"view", "view">>, <<"createNext", "exchange">>, <<"exchange", "dropNext">>, <<"dropNext", "view">>}

Started(p) == \E v \in Versions : Deploy(p, v) \/ Ready(p, v) \/ Switch(p, v)

LEMMA OperateKeeps ==
    ASSUME Typed, NEW p \in Operators, Operate(p), ~Started(p), job'[p].at # "idle"
    PROVE  /\ <<job[p].at, job'[p].at>> \in Follows
           /\ job'[p].version = job[p].version /\ job'[p].list = job[p].list
           /\ job'[p].rest \subseteq job[p].rest
           /\ job'[p].at = "register" => Registers(p)
  <1> USE DEF Typed, TypeOK, Jobs, Processes, Follows
  <1>1. CASE CreateEventPrice(p)
    BY <1>1 DEF CreateEventPrice, Goes
  <1>2. CASE CreatePriceWatermark(p)
    <2>1. job[p].at = "createPriceWatermark" /\ IF Registers(p) THEN Goes(p, "register") ELSE Ends(p)
      BY <1>2 DEF CreatePriceWatermark
    <2>2. CASE Registers(p)
      BY <2>1, <2>2 DEF Goes
    <2>3. CASE ~Registers(p)
      BY <2>1, <2>3, Idles DEF Ends
    <2> QED
      BY <2>2, <2>3
  <1>3. CASE Register(p) \/ MarkReady(p)
    BY <1>3, Idles DEF Register, MarkReady, Ends
  <1>4. CASE Activate(p)
    BY <1>4 DEF Activate, Goes
  <1>5. CASE Retire(p)
    BY <1>5 DEF Retire
  <1>6. CASE ListViews(p)
    BY <1>6 DEF ListViews
  <1>7. CASE DropLeftover(p) \/ CreateNext(p) \/ Exchange(p)
    BY <1>7 DEF DropLeftover, CreateNext, Exchange, Goes
  <1>8. CASE CreateView(p)
    BY <1>8, Idles DEF CreateView, NextView, Ends
  <1>9. CASE DropNext(p)
    BY <1>9, Idles DEF DropNext, NextView, Ends
  <1> QED
    BY <1>1, <1>2, <1>3, <1>4, <1>5, <1>6, <1>7, <1>8, <1>9 DEF Operate, Started

\* What a command starts with.
LEMMA StartedJobs ==
    ASSUME Typed, NEW p \in Operators, NEW v \in Versions
    PROVE  /\ Deploy(p, v) => job'[p] = StartsListing("createEventPrice", v)
           /\ Ready(p, v) => job'[p] = Starts("ready", v)
           /\ Switch(p, v) => job'[p] = [Starts(IF rows[v].state = "active" THEN "retire" ELSE "activate", v)
                                            EXCEPT !.rest = OtherActives(v)]
  BY DEF Deploy, Ready, Switch, Typed, TypeOK, Processes

LEMMA StartedFields ==
    ASSUME Typed, NEW p \in Operators, NEW v \in Versions
    PROVE  /\ Deploy(p, v) => /\ job'[p].at = "createEventPrice" /\ job'[p].version = v
                              /\ job'[p].list = rows /\ UNCHANGED rows
           /\ Ready(p, v) => job'[p].at = "ready" /\ job'[p].version = v /\ UNCHANGED rows
           /\ Switch(p, v) => /\ job'[p].at = IF rows[v].state = "active" THEN "retire" ELSE "activate"
                              /\ job'[p].version = v /\ job'[p].rest = OtherActives(v)
                              /\ UNCHANGED rows
  <1> DEFINE at == IF rows[v].state = "active" THEN "retire" ELSE "activate"
  <1>1. at \in Steps /\ "createEventPrice" \in Steps /\ "ready" \in Steps
    BY DEF Steps, SwitchSteps
  <1>2. ASSUME Deploy(p, v)
        PROVE  /\ job'[p].at = "createEventPrice" /\ job'[p].version = v
               /\ job'[p].list = rows /\ UNCHANGED rows
    <2> DEFINE j == StartsListing("createEventPrice", v)
    <2>1. j.at = "createEventPrice" /\ j.version = v /\ j.list = rows
      BY <1>1, Starting DEF Typed
    <2>2. job'[p] = j
      BY <1>2, StartedJobs
    <2> HIDE DEF j
    <2> QED
      BY <1>2, <2>1, <2>2 DEF Deploy
  <1>3. ASSUME Ready(p, v) PROVE job'[p].at = "ready" /\ job'[p].version = v /\ UNCHANGED rows
    <2> DEFINE j == Starts("ready", v)
    <2>1. j.at = "ready" /\ j.version = v
      BY <1>1, Starting DEF Typed
    <2>2. job'[p] = j
      BY <1>3, StartedJobs
    <2> HIDE DEF j
    <2> QED
      BY <1>3, <2>1, <2>2 DEF Ready
  <1>4. ASSUME Switch(p, v)
        PROVE  /\ job'[p].at = at /\ job'[p].version = v /\ job'[p].rest = OtherActives(v)
               /\ UNCHANGED rows
    <2>1. Starts(at, v) \in Jobs /\ Starts(at, v).at = at /\ Starts(at, v).version = v
      BY <1>1, Starting DEF Typed
    <2>2. job'[p] = [Starts(at, v) EXCEPT !.rest = OtherActives(v)]
      BY <1>4, StartedJobs
    <2> HIDE DEF at
    <2>3. job'[p].at = at /\ job'[p].version = v /\ job'[p].rest = OtherActives(v)
      BY <2>1, <2>2 DEF Jobs
    <2> QED
      BY <1>4, <2>3 DEF Switch
  <1> QED
    BY <1>2, <1>3, <1>4

LEMMA OperatorsStep ==
    ASSUME Typed, Unforced, ~mode.forced, [Next]_vars PROVE OperatorsOnLive'
  <1> DEFINE Live(q) ==
        /\ job[q].at = "register" => Registers(q)
        /\ job[q].at \in DeploySteps /\ Registers(q) => ~Spent(job[q].version)
        /\ job[q].at \in {"register", "ready"} \cup SwitchSteps => ~Spent(job[q].version)
        /\ job[q].at \in SwitchSteps => \A d \in job[q].rest : ~Spent(d)
  <1> SUFFICES ASSUME NEW q \in Processes PROVE Live(q)'
    BY DEF OperatorsOnLive
  <1>1. Live(q) /\ JobsTyped /\ job[q] \in Jobs
    BY TypedParts DEF Unforced, OperatorsOnLive, JobsTyped
  <1>2. CASE job'[q] = job[q]
    <2>1. Registers(q)' = Registers(q)
      BY <1>2 DEF Registers
    <2>2. CASE Operating(q)
      <3>1. q \in Operators /\ job[q].version \in Versions /\ job[q].rest \subseteq Versions
        BY <1>1, <2>2 DEF Operating, Cleaning, Typed, JobsOK, Jobs
      <3>2. \A v \in Versions : ~Spent(v) => ~Spent(v)'
        BY <2>2, <3>1, SpentStays
      <3> QED
        BY <1>1, <1>2, <2>1, <3>1, <3>2
    <2>3. CASE ~Operating(q)
      BY <1>2, <2>3 DEF Operating, DeploySteps, SwitchSteps, Cleaning, CleanSteps
    <2> QED
      BY <2>2, <2>3
  <1>3. CASE q \in Cleaners /\ Clean(q)
    BY <1>3, CleanStays DEF DeploySteps, SwitchSteps, Cleaning, CleanSteps
  <1>4. CASE Crash(q)
    BY <1>1, <1>4, Idles DEF Crash, Ends, JobsTyped, DeploySteps, SwitchSteps
  <1>5. ASSUME NEW v \in Versions, q \in Operators, Deploy(q, v) PROVE Live(q)'
    <2>1. job'[q].at = "createEventPrice" /\ job'[q].version = v /\ job'[q].list = rows /\ rows' = rows
      BY <1>5, StartedFields
    <2>2. Registers(q)' => ~Spent(v)'
      BY <2>1 DEF Registers, Spent
    <2> QED
      BY <2>1, <2>2 DEF DeploySteps, SwitchSteps
  <1>6. ASSUME NEW v \in Versions, q \in Operators, Ready(q, v) PROVE Live(q)'
    <2>1. job'[q].at = "ready" /\ job'[q].version = v /\ rows' = rows /\ rows[v].state = "building"
      BY <1>6, StartedFields DEF Ready
    <2> QED
      BY <2>1 DEF DeploySteps, SwitchSteps, Spent
  <1>7. ASSUME NEW v \in Versions, q \in Operators, Switch(q, v) PROVE Live(q)'
    <2>1. /\ job'[q].at \in {"activate", "retire"} /\ job'[q].version = v
          /\ job'[q].rest = OtherActives(v) /\ rows' = rows
      BY <1>7, StartedFields
    <2>2. rows[v].state \in {"ready", "active"}
      BY <1>7 DEF Switch
    <2> QED
      BY <2>1, <2>2 DEF DeploySteps, SwitchSteps, Spent, OtherActives
  <1>8. CASE q \in Operators /\ Operate(q) /\ ~Started(q)
    <2>1. CASE job'[q].at = "idle"
      BY <2>1 DEF DeploySteps, SwitchSteps
    <2>2. CASE job'[q].at # "idle"
      <3>1. /\ <<job[q].at, job'[q].at>> \in Follows
            /\ job'[q].version = job[q].version /\ job'[q].list = job[q].list
            /\ job'[q].rest \subseteq job[q].rest
            /\ job'[q].at = "register" => Registers(q)
        BY <1>8, <2>2, OperateKeeps
      <3>2. Registers(q)' = Registers(q)
        BY <3>1 DEF Registers
      <3>3. Operating(q) /\ job[q].version \in Versions /\ job[q].rest \subseteq Versions
        BY <1>1, <3>1 DEF Operating, Cleaning, CleanSteps, Typed, JobsOK, Jobs, Follows
      <3>4. \A v \in Versions : ~Spent(v) => ~Spent(v)'
        BY <1>8, <3>3, SpentStays
      <3>5. job[q].at \in DeploySteps /\ Registers(q) /\ job'[q].at \in {"createPriceWatermark", "register"} => Live(q)'
        BY <1>1, <3>1, <3>2, <3>3, <3>4 DEF DeploySteps, SwitchSteps
      <3>6. job[q].at \in DeploySteps /\ ~Registers(q) => Live(q)'
        BY <1>1, <3>1, <3>2 DEF DeploySteps, SwitchSteps, Follows
      <3>7. job[q].at \in SwitchSteps /\ job'[q].at \in SwitchSteps => Live(q)'
        BY <1>1, <3>1, <3>2, <3>3, <3>4 DEF DeploySteps, SwitchSteps
      <3> QED
        BY <3>1, <3>5, <3>6, <3>7 DEF Follows, DeploySteps, SwitchSteps
    <2> QED
      BY <2>1, <2>2
  <1> QED
    BY <1>1, <1>2, <1>3, <1>4, <1>5, <1>6, <1>7, <1>8, JobsChange DEF Started

\* An operator's step never leaves its process cleaning.
LEMMA OperateStays == ASSUME Typed, NEW p \in Operators, Operate(p) PROVE job'[p].at \notin Cleaning
  <1>1. ASSUME NEW v \in Versions, Deploy(p, v) \/ Ready(p, v) \/ Switch(p, v) PROVE job'[p].at \notin Cleaning
    BY <1>1, StartedFields DEF Cleaning, CleanSteps
  <1>2. CASE ~Started(p)
    BY <1>2, OperateKeeps DEF Cleaning, CleanSteps, Follows
  <1> QED
    BY <1>1, <1>2 DEF Started

\* What a cleanup starts with.
LEMMA CleanupFields ==
    ASSUME Typed, NEW p \in Cleaners, Cleanup(p)
    PROVE  /\ job'[p].at = "reread" /\ job'[p].rest = Expired(rows) /\ job'[p].list = rows
           /\ UNCHANGED <<rows, gone, view, aside>>
  <1> DEFINE j == StartsListing("reread", NoVersion)
  <1>1. j \in Jobs /\ j.at = "reread" /\ j.list = rows
    BY Starting DEF Typed, Steps
  <1>2. job'[p] = [j EXCEPT !.rest = Expired(rows)]
    BY DEF Cleanup, Typed, TypeOK, Processes
  <1> HIDE DEF j
  <1>3. job'[p].at = "reread" /\ job'[p].rest = Expired(rows) /\ job'[p].list = rows
    BY <1>1, <1>2 DEF Jobs
  <1> QED
    BY <1>3 DEF Cleanup

\* The statements of a cleanup follow one another, version by version.
CleanFollows ==
    {<<"users", "eventPrice">>, <<"users", "database">>, <<"eventPrice", "priceWatermark">>,
     <<"priceWatermark", "recordTables">>, <<"recordTables", "database">>, <<"database", "record">>}

LEMMA CleanKeeps ==
    ASSUME Typed, NEW p \in Cleaners, Clean(p), ~Cleanup(p), job'[p].at # "idle"
    PROVE  /\ job[p].at \in Cleaning /\ job'[p].list = job[p].list
           /\ \/ /\ Reread(p) /\ job'[p].at = "users"
                 /\ job'[p].version = Min(job[p].rest) /\ job'[p].version \in job[p].rest
                 /\ job'[p].rest = job[p].rest
                 /\ rows[job'[p].version].state = "retired"
                 /\ job'[p].tables = rows[job'[p].version].tables
              \/ /\ Reread(p) /\ job'[p].at = "reread"
                 /\ Min(job[p].rest) \in job[p].rest /\ rows[Min(job[p].rest)].state # "retired"
                 /\ job'[p].rest = job[p].rest \ {Min(job[p].rest)}
              \/ /\ <<job[p].at, job'[p].at>> \in CleanFollows
                 /\ job'[p].version = job[p].version /\ job'[p].rest = job[p].rest
                 /\ job'[p].tables = job[p].tables
              \/ /\ job[p].at \in {"users", "database", "record"} /\ job'[p].at = "reread"
                 /\ job'[p].rest = job[p].rest \ {job[p].version}
  <1> USE DEF Typed, TypeOK, Jobs, Processes, CleanFollows, Cleaning, CleanSteps
  <1>1. CASE Reread(p)
    <2>1. Min(job[p].rest) \in job[p].rest
      BY <1>1, LeastOne DEF Reread
    <2> QED
      BY <1>1, <2>1 DEF Reread
  <1>2. CASE FindUsers(p)
    BY <1>2 DEF FindUsers, AfterUsers, Goes, Done
  <1>3. CASE DropEventPrice(p) \/ DropPriceWatermark(p) \/ RecordTables(p) \/ DropDatabase(p)
    BY <1>3 DEF DropEventPrice, DropPriceWatermark, RecordTables, DropDatabase, Goes
  <1>4. CASE KeepShared(p) \/ RefuseDatabase(p) \/ RecordDropped(p)
    BY <1>4 DEF KeepShared, RefuseDatabase, RecordDropped, Done
  <1>5. CASE EndCleanup(p)
    BY <1>5, Idles DEF EndCleanup, Ends
  <1> QED
    BY <1>1, <1>2, <1>3, <1>4, <1>5 DEF Clean

LEMMA CleanersStep ==
    ASSUME Typed, Unforced, ~mode.forced, [Next]_vars PROVE CleanersOnSpent'
  <1> DEFINE Fine(q) == /\ job[q].at \in Cleaning => \A v \in job[q].rest : Spent(v)
                        /\ job[q].at \in CleanSteps => Spent(job[q].version)
  <1> SUFFICES ASSUME NEW q \in Processes PROVE Fine(q)'
    BY DEF CleanersOnSpent
  <1>1. /\ JobsTyped /\ job[q] \in Jobs /\ job[q].rest \subseteq Versions
        /\ job[q].at \in CleanSteps => job[q].version \in Versions
        /\ job[q].at \in Cleaning => \A v \in job[q].rest : Spent(v)
        /\ job[q].at \in CleanSteps => Spent(job[q].version)
    BY TypedParts DEF Unforced, CleanersOnSpent, JobsTyped, JobTyped, Jobs, CleanSteps
  <1>2. \A v \in Versions : Spent(v) => Spent(v)'
    BY SpentStays
  <1>3. CASE job'[q] = job[q]
    BY <1>1, <1>2, <1>3
  <1>4. CASE q \in Operators /\ Operate(q)
    BY <1>4, OperateStays DEF Cleaning
  <1>5. CASE Crash(q)
    BY <1>1, <1>5, Idles DEF Crash, Ends, JobsTyped, Cleaning, CleanSteps
  <1>6. CASE q \in Cleaners /\ Cleanup(q)
    <2>1. job'[q].at = "reread" /\ job'[q].rest = Expired(rows) /\ rows' = rows
      BY <1>6, CleanupFields
    <2> QED
      BY <2>1 DEF Expired, Spent, CleanSteps
  <1>7. CASE q \in Cleaners /\ Clean(q) /\ ~Cleanup(q) /\ job'[q].at # "idle"
    <2>1. job[q].at \in Cleaning /\ job'[q].rest \subseteq job[q].rest
      BY <1>7, CleanKeeps
    <2>2. job'[q].at \in CleanSteps =>
            job'[q].version \in job[q].rest \/ (job'[q].version = job[q].version /\ job[q].at \in CleanSteps)
      BY <1>7, CleanKeeps DEF CleanFollows, CleanSteps
    <2> QED
      BY <1>1, <1>2, <2>1, <2>2
  <1>8. CASE job'[q].at = "idle"
    BY <1>8 DEF Cleaning, CleanSteps
  <1> QED
    BY <1>1, <1>3, <1>4, <1>5, <1>6, <1>7, <1>8, JobsChange

\* What a cleanup drops is no part of a version on its own database other than the one it
\* cleans up.
LEMMA DroppedApart ==
    ASSUME NEW u \in Versions, NEW v \in Versions, u # v, Database[v] = v, NEW object,
           \/ object \in {<<"event_price", u>>, <<"price_watermark", u>>}
           \/ Droppable(u) /\ object = <<"envio", Database[u]>>
    PROVE  object \notin ObjectsOf(v)
  BY DEF ObjectsOf, Droppable

\* A step drops nothing, or the one object a cleanup is at.
LEMMA Dropped ==
    ASSUME Typed, [Next]_vars, NEW object \in gone' \ gone
    PROVE  \E p \in Cleaners :
              /\ job[p].at \in {"eventPrice", "priceWatermark", "database"}
              /\ job[p].version \in Versions
              /\ \/ object \in {<<"event_price", job[p].version>>, <<"price_watermark", job[p].version>>}
                 \/ /\ Droppable(job[p].version) /\ object = <<"envio", Database[job[p].version]>>
                    /\ DropDatabase(p)
  <1>1. PICK p \in Cleaners : DropEventPrice(p) \/ DropPriceWatermark(p) \/ DropDatabase(p)
    BY GoneChange DEF CreateEventPrice, CreatePriceWatermark
  <1>2. p \in Processes
    BY DEF Processes
  <1>3. job[p].at \in {"eventPrice", "priceWatermark", "database"}
    BY <1>1 DEF DropEventPrice, DropPriceWatermark, DropDatabase
  <1>4. job[p].version \in Versions
    BY <1>2, <1>3 DEF Typed, JobsOK
  <1> QED
    BY <1>1, <1>3, <1>4 DEF DropEventPrice, DropPriceWatermark, DropDatabase

LEMMA LiveStep ==
    ASSUME Typed, Unforced, ~mode.forced, [Next]_vars PROVE LiveKept'
  <1> SUFFICES ASSUME NEW v \in Versions, ~Spent(v)', NEW object \in ObjectsOf(v), object \in gone'
               PROVE  FALSE
    BY DEF LiveKept
  <1>1. ~Spent(v) /\ Database[v] = v /\ object \notin gone
    BY SpentStays DEF Unforced, HandWrittenSpent, LiveKept
  <1>2. PICK p \in Cleaners :
              /\ job[p].at \in {"eventPrice", "priceWatermark", "database"}
              /\ job[p].version \in Versions
              /\ \/ object \in {<<"event_price", job[p].version>>, <<"price_watermark", job[p].version>>}
                 \/ Droppable(job[p].version) /\ object = <<"envio", Database[job[p].version]>>
    BY <1>1, Dropped
  <1>3. Spent(job[p].version)
    BY <1>2 DEF Unforced, CleanersOnSpent, CleanSteps, Processes
  <1> QED
    BY <1>1, <1>2, <1>3, DroppedApart

LEMMA ViewsStep ==
    ASSUME Typed, Unforced, ~mode.forced, [Next]_vars PROVE ViewsSound'
  <1> DEFINE Fine(i, v) == v # NoVersion => Database[v] = v /\ Names(i, v) \cap gone' = {}
  <1> SUFFICES ASSUME NEW i \in Places PROVE Fine(i, view'[i]) /\ Fine(i, aside'[i])
    BY DEF ViewsSound, Sound
  <1>1. /\ Sound(i, view[i]) /\ Sound(i, aside[i])
        /\ view[i] \in Versions \cup {NoVersion} /\ aside[i] \in Versions \cup {NoVersion}
    BY DEF Unforced, ViewsSound, Typed, TypeOK
  <1>2. ASSUME NEW v \in Versions, Database[v] = v, Names(i, v) \cap gone = {}, \E k \in Places : view[k] = v \/ aside[k] = v
        PROVE  Fine(i, v)
    <2> SUFFICES ASSUME NEW object \in gone', object \in Names(i, v) PROVE FALSE
      BY <1>2
    <2>1. object \in gone' \ gone /\ object \in ObjectsOf(v)
      BY <1>2, NamesOf
    <2>2. PICK p \in Cleaners :
              /\ job[p].at \in {"eventPrice", "priceWatermark", "database"}
              /\ job[p].version \in Versions
              /\ \/ object \in {<<"event_price", job[p].version>>, <<"price_watermark", job[p].version>>}
                 \/ Droppable(job[p].version) /\ object = <<"envio", Database[job[p].version]>>
      BY <2>1, Dropped
    <2>3. job[p].version # v
      BY <1>2, <2>2 DEF Unforced, NotInUse, CleanSteps, Processes
    <2> QED
      BY <1>2, <2>1, <2>2, <2>3, DroppedApart
  <1>3. CASE view' = view /\ aside' = aside
    BY <1>1, <1>2, <1>3 DEF Sound
  <1>4. ASSUME NEW p \in Operators,
               CreateView(p) \/ DropLeftover(p) \/ CreateNext(p) \/ Exchange(p) \/ DropNext(p)
        PROVE  Fine(i, view'[i]) /\ Fine(i, aside'[i])
    <2>1. gone' = gone /\ p \in Processes
      BY <1>4 DEF CreateView, DropLeftover, CreateNext, Exchange, DropNext, Processes
    <2>2. /\ job[p].version \in Versions
          /\ Database[job[p].version] = job[p].version /\ ObjectsOf(job[p].version) \cap gone = {}
      <3>1. job[p].at \in SwitchSteps
        BY <1>4 DEF CreateView, DropLeftover, CreateNext, Exchange, DropNext, SwitchSteps
      <3>2. job[p].version \in Versions /\ ~Spent(job[p].version)
        BY <2>1, <3>1 DEF Typed, JobsOK, SwitchSteps, Unforced, OperatorsOnLive
      <3> QED
        BY <3>2 DEF Unforced, HandWrittenSpent, LiveKept
    <2>3. Fine(i, job[p].version)
      BY <2>1, <2>2, NamesOf
    <2>4. /\ view'[i] \in {view[i], aside[i], job[p].version}
          /\ aside'[i] \in {view[i], aside[i], NoVersion, job[p].version}
      BY <1>4 DEF CreateView, DropLeftover, CreateNext, Exchange, DropNext, Typed, TypeOK
    <2>5. Fine(i, view[i]) /\ Fine(i, aside[i]) /\ Fine(i, NoVersion)
      BY <1>1, <2>1 DEF Sound
    <2> HIDE DEF Fine
    <2> QED
      BY <2>3, <2>4, <2>5
  <1> QED
    BY <1>3, <1>4, ViewsChange

LEMMA NotInUseStep ==
    ASSUME Typed, Unforced, ~mode.forced, [Next]_vars PROVE NotInUse'
  <1> SUFFICES ASSUME NEW q \in Processes, job'[q].at \in CleanSteps \ {"users"}, NEW i \in Places
               PROVE  view'[i] # job'[q].version /\ aside'[i] # job'[q].version
    BY DEF NotInUse
  <1>0. JobsTyped /\ job[q] \in Jobs
    BY TypedParts DEF JobsTyped
  <1>1. CASE job'[q] = job[q]
    <2> DEFINE u == job[q].version
    <2>1. u \in Versions /\ view[i] # u /\ aside[i] # u /\ Spent(u)
      BY <1>1 DEF Unforced, NotInUse, CleanersOnSpent, CleanSteps, Typed, JobsOK
    <2>2. ASSUME NEW p \in Operators,
                 CreateView(p) \/ DropLeftover(p) \/ CreateNext(p) \/ Exchange(p) \/ DropNext(p)
          PROVE  view'[i] # u /\ aside'[i] # u
      <3>1. job[p].at \in SwitchSteps /\ p \in Processes
        BY <2>2 DEF CreateView, DropLeftover, CreateNext, Exchange, DropNext, SwitchSteps, Processes
      <3>2. job[p].version # u /\ u # NoVersion
        BY <2>1, <3>1, Constants DEF Unforced, OperatorsOnLive
      <3>3. /\ view'[i] \in {view[i], aside[i], job[p].version}
            /\ aside'[i] \in {view[i], aside[i], NoVersion, job[p].version}
        BY <2>2 DEF CreateView, DropLeftover, CreateNext, Exchange, DropNext, Typed, TypeOK
      <3> QED
        BY <2>1, <3>2, <3>3
    <2>3. CASE view' = view /\ aside' = aside
      BY <1>1, <2>1, <2>3
    <2> QED
      BY <1>1, <2>2, <2>3, ViewsChange
  <1>2. CASE q \in Operators /\ Operate(q)
    BY <1>2, OperateStays DEF Cleaning
  <1>3. CASE Crash(q)
    BY <1>0, <1>3, Idles DEF Crash, Ends, JobsTyped, CleanSteps
  <1>4. CASE q \in Cleaners /\ Cleanup(q)
    BY <1>4, CleanupFields DEF CleanSteps
  <1>5. CASE q \in Cleaners /\ Clean(q) /\ ~Cleanup(q)
    <2>1. <<job[q].at, job'[q].at>> \in CleanFollows /\ job'[q].version = job[q].version
      BY <1>5, CleanKeeps DEF CleanSteps
    <2>2. view' = view /\ aside' = aside
      BY <1>5 DEF Clean, Reread, FindUsers, DropEventPrice, DropPriceWatermark, RecordTables, KeepShared,
                  RefuseDatabase, DropDatabase, RecordDropped, EndCleanup
    <2>3. job[q].version \in Versions
      BY <2>1 DEF CleanFollows, Typed, JobsOK
    <2>4. CASE job[q].at # "users"
      BY <2>1, <2>2, <2>4 DEF Unforced, NotInUse, CleanFollows, CleanSteps
    <2>5. CASE job[q].at = "users"
      <3>1. FindUsers(q)
        BY <1>5, <2>5 DEF Clean, Cleanup, MayStart, Idle, Reread, DropEventPrice, DropPriceWatermark, RecordTables,
                          KeepShared, RefuseDatabase, DropDatabase, RecordDropped, EndCleanup
      <3>2. ~InUse(job[q].version)
        BY <1>0, <2>1, <2>5, <3>1 DEF FindUsers, Done, CleanFollows, JobsTyped, Jobs
      <3>3. ASSUME NEW v \in {view[i], aside[i]} PROVE v # job[q].version
        BY <2>3, <3>2, NamesOf DEF InUse
      <3> QED
        BY <2>1, <2>2, <3>3
    <2> QED
      BY <2>4, <2>5
  <1> QED
    BY <1>0, <1>1, <1>2, <1>3, <1>4, <1>5, JobsChange

LEMMA UnforcedInit == Init => UnforcedInv
  <1> SUFFICES ASSUME Init PROVE Unforced
    BY DEF UnforcedInv
  <1>1. PICK cleaned \in SUBSET ByHand :
            /\ rows = [v \in Versions |->
                        IF v \in cleaned THEN [LongRetired EXCEPT !.state = "dropped", !.tables = TRUE]
                        ELSE IF v \in ByHand THEN LongRetired ELSE NoRow]
            /\ gone = {"event_price", "price_watermark"} \X cleaned
    BY DEF Init
  <1>4. \A v \in ByHand : Spent(v)
    BY <1>1 DEF Spent, LongRetired, ByHand
  <1>5. HandWrittenSpent /\ ViewsSound
    BY <1>4 DEF Init, HandWrittenSpent, ByHand, ViewsSound, Sound
  <1>6. LiveKept
    BY <1>1, <1>4 DEF LiveKept, ObjectsOf
  <1>2. \A p \in Processes : job[p].at = "idle"
    BY Idles DEF Init
  <1>3. OperatorsOnLive /\ CleanersOnSpent /\ NotInUse
    BY <1>2 DEF OperatorsOnLive, CleanersOnSpent, NotInUse, DeploySteps, SwitchSteps, Cleaning, CleanSteps
  <1> QED
    BY <1>3, <1>5, <1>6 DEF Unforced

LEMMA UnforcedStep == Typed /\ UnforcedInv /\ [Next]_vars => UnforcedInv'
  <1> SUFFICES ASSUME Typed, UnforcedInv, [Next]_vars, ~mode'.forced PROVE Unforced'
    BY DEF UnforcedInv
  <1>1. ~mode.forced /\ Unforced
    BY ForcedStays DEF UnforcedInv
  <1> QED
    BY <1>1, HandWrittenStep, OperatorsStep, CleanersStep, LiveStep, ViewsStep, NotInUseStep DEF Unforced

\* While no switch is forced, no API view reads what cleanup dropped and no version that is
\* cleaned up was taken back, however many operators and cleanups overlap.
THEOREM NothingServedIsDropped == Spec => []NothingServedDropped
  <1>1. Typed /\ UnforcedInv => NothingServedDropped
    <2> SUFFICES ASSUME Typed, Unforced PROVE ServedNotDropped /\ CleaningExpired
      BY DEF UnforcedInv, NothingServedDropped
    <2>1. ServedNotDropped
      BY DEF Unforced, ViewsSound, Sound, ServedNotDropped, Names
    <2>2. CleaningExpired
      BY DEF Unforced, CleanersOnSpent, Spent, CleaningExpired, Processes
    <2> QED
      BY <2>1, <2>2
  <1> QED
    BY <1>1, InitTyped, TypedStep, UnforcedInit, UnforcedStep, PTL DEF Spec

-----------------------------------------------------------------------------
(* One command at a time.                                                  *)

\* Nobody else is busy when a process acts.
LEMMA OthersIdle ==
    ASSUME Typed, mode.serial, Alone, NEW p \in Processes, Acts(p), NEW q \in Processes, q # p
    PROVE  job[q] = Idle
  <1>1. CASE job[p] # Idle
    BY <1>1 DEF Alone
  <1>2. CASE job[p] = Idle
    <2>1. job[p].at = "idle"
      BY <1>2, Idles
    <2>2. CASE Operate(p)
      BY <2>1, <2>2 DEF Operate, Deploy, Ready, Switch, MayStart, CreateEventPrice, CreatePriceWatermark,
         Register, MarkReady, Activate, Retire, ListViews, CreateView, DropLeftover, CreateNext, Exchange, DropNext
    <2>3. CASE Clean(p)
      BY <2>1, <2>3 DEF Clean, Cleanup, MayStart, Reread, FindUsers, DropEventPrice, DropPriceWatermark,
         RecordTables, KeepShared, RefuseDatabase, DropDatabase, RecordDropped, EndCleanup
    <2> QED
      BY <1>2, <2>2, <2>3 DEF Acts, Crash
  <1> QED
    BY <1>1, <1>2

LEMMA AloneStep == ASSUME Typed, mode.serial, Alone, [Next]_vars PROVE Alone'
  <1> SUFFICES ASSUME NEW p \in Processes, NEW q \in Processes, p # q, job'[p] # Idle, job'[q] # Idle
               PROVE  FALSE
    BY DEF Alone
  <1>1. PICK r \in Processes : Acts(r)
    BY NextActs DEF vars, Expire, Calm, Alone
  <1>2. ASSUME NEW s \in Processes, s # r PROVE job'[s] = Idle
    BY <1>1, <1>2, OthersIdle, OwnJob, TypedParts
  <1> QED
    BY <1>2

\* What is done while a command runs, it does itself, but for versions that expire.
LEMMA BusyActs ==
    ASSUME Typed, mode.serial, Alone, [Next]_vars, NEW q \in Processes, job'[q] # Idle
    PROVE  \/ UNCHANGED vars
           \/ \E v \in Versions : Expire(v)
           \/ Calm
           \/ q \in Operators /\ Operate(q)
           \/ q \in Cleaners /\ Clean(q)
  <1>1. ASSUME NEW r \in Processes, Acts(r) PROVE r = q
    BY <1>1, OthersIdle, OwnJob, TypedParts
  <1>2. ~Crash(q)
    BY DEF Crash, Ends, Typed, TypeOK
  <1> QED
    BY <1>1, <1>2, NextActs DEF Acts

-----------------------------------------------------------------------------
(* What a command checked is true until its end.                           *)

\* Operators who take turns: the others are idle when one acts.
LEMMA TurnsIdle ==
    ASSUME Typed, InTurn, OneAtWork, NEW p \in Operators, Acts(p), NEW q \in Operators, q # p
    PROVE  job[q] = Idle
  <1>1. CASE job[p] # Idle
    BY <1>1 DEF OneAtWork
  <1>2. CASE job[p] = Idle
    <2>1. job[p].at = "idle" /\ q \in Processes
      BY <1>2, Idles DEF Processes
    <2>2. CASE Operate(p)
      <3>1. MayStart(p)
        BY <2>1, <2>2 DEF Operate, Deploy, Ready, Switch, CreateEventPrice, CreatePriceWatermark,
           Register, MarkReady, Activate, Retire, ListViews, CreateView, DropLeftover, CreateNext, Exchange, DropNext
      <3> QED
        BY <2>1, <3>1 DEF MayStart, InTurn
    <2>3. CASE Clean(p)
      <3>1. MayStart(p)
        BY <2>1, <2>3 DEF Clean, Cleanup, Reread, FindUsers, DropEventPrice, DropPriceWatermark,
           RecordTables, KeepShared, RefuseDatabase, DropDatabase, RecordDropped, EndCleanup
      <3> QED
        BY <2>1, <3>1 DEF MayStart, InTurn
    <2> QED
      BY <1>2, <2>2, <2>3 DEF Acts, Crash
  <1> QED
    BY <1>1, <1>2

LEMMA TurnsStep == ASSUME Typed, InTurn, OneAtWork, [Next]_vars PROVE OneAtWork'
  <1> SUFFICES ASSUME NEW p \in Operators, NEW q \in Operators, p # q, job'[p] # Idle, job'[q] # Idle
               PROVE  FALSE
    BY DEF OneAtWork
  <1>1. p \in Processes /\ q \in Processes
    BY DEF Processes
  <1>2. PICK r \in {p, q} : job[r] = Idle
    BY DEF OneAtWork
  <1>3. PICK s \in Processes : Acts(s)
    BY <1>2, NextActs DEF vars, Expire, Calm
  <1>4. s = r
    BY <1>1, <1>2, <1>3, OwnJob, TypedParts
  <1>5. ASSUME NEW o \in {p, q}, o # s PROVE job'[o] = Idle
    BY <1>1, <1>3, <1>4, <1>5, TurnsIdle, OwnJob, TypedParts
  <1> QED
    BY <1>2, <1>4, <1>5

\* Of what an operator's command looks at, the others change no state.
LEMMA OthersKeep ==
    ASSUME Typed, UnforcedInv, mode.serial => Alone, InTurn, OneAtWork, [Next]_vars,
           NEW q \in Processes, Operating(q), ~Operate(q), NEW v \in Versions, rows'[v].state # rows[v].state
    PROVE  ~mode.forced /\ Spent(v)
  <1>0. q \in Operators /\ job[q] # Idle
    BY Idles DEF Operating, Typed, JobsOK
  <1>1. ASSUME NEW p \in Operators, Operate(p) PROVE FALSE
    <2>1. p # q /\ p \in Processes /\ Acts(p)
      BY <1>1 DEF Processes, Acts
    <2> QED
      BY <1>0, <1>1, <2>1, TurnsIdle
  <1>2. ASSUME NEW p \in Cleaners, v = job[p].version, KeepShared(p) \/ RecordDropped(p)
        PROVE  ~mode.forced /\ Spent(v)
    <2>1. p \in Processes /\ Acts(p) /\ job[p].at \in CleanSteps
      BY <1>2 DEF Processes, Acts, Clean, KeepShared, RecordDropped, CleanSteps
    <2>2. p # q
      BY <2>1 DEF Operating, Cleaning
    <2>3. ~mode.serial
      BY <1>0, <2>1, <2>2, OthersIdle
    <2>4. ~mode.forced /\ Unforced
      BY <2>3 DEF InTurn, UnforcedInv
    <2> QED
      BY <1>2, <2>1, <2>4 DEF Unforced, CleanersOnSpent
  <1>3. ASSUME NEW p \in Operators, Register(p) \/ MarkReady(p) \/ Activate(p) \/ Retire(p) PROVE FALSE
    BY <1>1, <1>3 DEF Operate
  <1>4. ASSUME rows'[v] = [rows[v] EXCEPT !.tables = TRUE] \/ rows'[v] = [rows[v] EXCEPT !.retired = "expired"]
        PROVE  FALSE
    BY <1>4 DEF Typed, TypeOK, Row
  <1>5. rows'[v] # rows[v]
    OBVIOUS
  <1> QED
    BY <1>2, <1>3, <1>4, <1>5, RowKept

LEMMA ChecksStep ==
    ASSUME Typed, UnforcedInv, mode.serial => Alone, InTurn, OneAtWork, ChecksHold, [Next]_vars
    PROVE  ChecksHold'
  <1> DEFINE From == ActivatedFrom
             State(v) == rows[v].state
             Kept(q) ==
                /\ job[q].at \in DeploySteps \cup {"register"} /\ Registers(q) => State(job[q].version) = "none"
                /\ job[q].at = "ready" => State(job[q].version) = "building"
                /\ job[q].at = "activate" => State(job[q].version) \in From
                /\ job[q].at \in {"activate", "retire"} =>
                    \A d \in job[q].rest : d # job[q].version /\ State(d) = "active"
             Fine(q) == (job[q].at = "register" => Registers(q)) /\ Kept(q)
  <1>0. From' = From
    BY ForcedStays DEF ActivatedFrom
  <1> SUFFICES ASSUME NEW q \in Processes PROVE Fine(q)'
    BY <1>0 DEF ChecksHold, Checked
  <1>1. Fine(q) /\ JobsTyped /\ job[q] \in Jobs
    BY TypedParts DEF ChecksHold, Checked, JobsTyped
  <1> HIDE DEF From
  <1>2. CASE job'[q] = job[q] /\ Operating(q) /\ ~Operate(q)
    <2>1. job[q].version \in Versions /\ job[q].rest \subseteq Versions
      BY <1>1, <1>2 DEF Operating, Cleaning, Typed, JobsOK, Jobs
    <2>2. Registers(q)' = Registers(q)
      BY <1>2 DEF Registers
    <2>3. ~mode.forced => Unforced
      BY DEF UnforcedInv
    <2>4. ASSUME NEW v \in Versions, ~Spent(v) PROVE State(v)' = State(v)
      BY <1>2, <2>4, OthersKeep
    <2>5. ASSUME NEW v \in Versions, mode.forced PROVE State(v)' = State(v)
      BY <1>2, <2>5, OthersKeep
    <2>6. CASE mode.forced
      BY <1>0, <1>1, <1>2, <2>1, <2>2, <2>5, <2>6
    <2>7. CASE ~mode.forced
      <3>1. /\ job[q].at \in DeploySteps /\ Registers(q) => ~Spent(job[q].version)
            /\ job[q].at \in {"register", "ready"} \cup SwitchSteps => ~Spent(job[q].version)
            /\ job[q].at \in SwitchSteps => \A d \in job[q].rest : ~Spent(d)
        BY <2>3, <2>7 DEF Unforced, OperatorsOnLive
      <3>2. \A v \in Versions : ~Spent(v) => State(v)' = State(v)
        BY <2>4
      <3> HIDE DEF State
      <3> QED
        BY <1>0, <1>1, <1>2, <2>1, <2>2, <3>1, <3>2 DEF SwitchSteps
    <2> QED
      BY <2>6, <2>7
  <1>3. CASE job'[q].at \in {"idle"} \cup Cleaning
    BY <1>3 DEF Cleaning, CleanSteps, DeploySteps
  <1>4. ASSUME NEW v \in Versions, q \in Operators, Deploy(q, v) PROVE Fine(q)'
    <2>1. job'[q].at = "createEventPrice" /\ job'[q].version = v /\ job'[q].list = rows /\ rows' = rows
      BY <1>4, StartedFields
    <2> QED
      BY <2>1 DEF Registers
  <1>5. ASSUME NEW v \in Versions, q \in Operators, Ready(q, v) PROVE Fine(q)'
    <2>1. job'[q].at = "ready" /\ job'[q].version = v /\ rows' = rows /\ rows[v].state = "building"
      BY <1>5, StartedFields DEF Ready
    <2> QED
      BY <2>1 DEF DeploySteps
  <1>6. ASSUME NEW v \in Versions, q \in Operators, Switch(q, v) PROVE Fine(q)'
    <2>1. /\ job'[q].at = (IF rows[v].state = "active" THEN "retire" ELSE "activate")
          /\ job'[q].version = v /\ job'[q].rest = OtherActives(v) /\ rows' = rows
      BY <1>6, StartedFields
    <2>2. rows[v].state = "active" \/ rows[v].state \in From
      <3>1. rows[v].state \in {"building", "ready", "active", "retired"}
        BY <1>6 DEF Switch, Typed, TypeOK, Row
      <3> QED
        BY <1>6, <3>1 DEF Switch, From, ActivatedFrom
    <2> QED
      BY <1>0, <2>1, <2>2 DEF DeploySteps, OtherActives
  <1>7. CASE q \in Operators /\ Operate(q) /\ ~Started(q) /\ job'[q].at # "idle"
    <2>1. /\ <<job[q].at, job'[q].at>> \in Follows
          /\ job'[q].version = job[q].version /\ job'[q].list = job[q].list
          /\ job'[q].rest \subseteq job[q].rest
          /\ job'[q].at = "register" => Registers(q)
      BY <1>7, OperateKeeps
    <2>2. Registers(q)' = Registers(q)
      BY <2>1 DEF Registers
    <2>3. CASE job[q].at \in DeploySteps
      <3>1. rows' = rows
        BY <1>7, <2>3 DEF Operate, Started, DeploySteps, CreateEventPrice, CreatePriceWatermark, Register, MarkReady,
                          Activate, Retire, ListViews, CreateView, DropLeftover, CreateNext, Exchange, DropNext
      <3>2. job'[q].at \in {"createPriceWatermark", "register"}
        BY <2>1, <2>3 DEF Follows, DeploySteps
      <3> QED
        BY <1>1, <2>1, <2>2, <2>3, <3>1, <3>2 DEF DeploySteps
    <2>4. CASE job[q].at = "activate"
      <3>1. Activate(q)
        BY <1>7, <2>4 DEF Operate, Started, CreateEventPrice, CreatePriceWatermark, Register, MarkReady,
                          Retire, ListViews, CreateView, DropLeftover, CreateNext, Exchange, DropNext
      <3>2. \A d \in job[q].rest : rows'[d] = rows[d]
        BY <1>1, <2>4, <3>1 DEF Activate, InState, Typed, TypeOK, Jobs
      <3>3. job'[q].at = "retire"
        BY <2>1, <2>4 DEF Follows
      <3> QED
        BY <1>1, <2>1, <2>4, <3>2, <3>3 DEF DeploySteps
    <2>5. CASE job[q].at = "retire" /\ job'[q].at = "retire"
      <3>1. Retire(q)
        BY <1>1, <1>7, <2>5 DEF Operate, Started, CreateEventPrice, CreatePriceWatermark, Register, MarkReady, Activate,
                          ListViews, CreateView, DropLeftover, CreateNext, Exchange, DropNext, Typed, TypeOK, Jobs
      <3>2. job'[q].rest = job[q].rest \ {Min(job[q].rest)}
        BY <1>1, <3>1 DEF Retire, Typed, TypeOK, Jobs
      <3>3. \A d \in job'[q].rest : rows'[d] = rows[d]
        BY <1>1, <3>1, <3>2 DEF Retire, Typed, TypeOK, Jobs
      <3> QED
        BY <1>1, <2>1, <2>5, <3>2, <3>3 DEF DeploySteps
    <2>6. CASE job'[q].at \in ViewSteps
      BY <2>6 DEF ViewSteps, DeploySteps
    <2> QED
      BY <2>1, <2>3, <2>4, <2>5, <2>6 DEF Follows, DeploySteps, ViewSteps
  <1>8. CASE q \in Cleaners /\ Clean(q)
    BY <1>3, <1>8, CleanStays
  <1>9. CASE Crash(q)
    BY <1>1, <1>3, <1>9, Idles DEF Crash, Ends, JobsTyped
  <1>10. CASE ~Operating(q) /\ job'[q] = job[q]
    BY <1>3, <1>10 DEF Operating
  <1>11. CASE q \in Operators /\ Operate(q)
    BY <1>3, <1>4, <1>5, <1>6, <1>7, <1>11 DEF Started
  <1>12. Operating(q) => q \in Operators
    BY DEF Operating, Typed, JobsOK
  <1> QED
    BY <1>1, <1>2, <1>8, <1>9, <1>10, <1>11, <1>12, JobsChange

-----------------------------------------------------------------------------
(* A switch, one command at a time.                                        *)

\* A version that expires keeps its state, and nothing else changes.
LEMMA ExpireKeeps ==
    ASSUME Typed, NEW v \in Versions, Expire(v)
    PROVE  /\ UNCHANGED <<mode, gone, view, aside, job>>
           /\ \A d \in Versions : rows'[d].state = rows[d].state /\ rows'[d].tables = rows[d].tables
           /\ rows[v].state = "retired" /\ rows'[v].retired = "expired"
           /\ \A d \in Versions \ {v} : rows'[d] = rows[d]
  BY DEF Expire, Typed, TypeOK, Row

LEMMA AsideStep ==
    ASSUME Typed, ViewsInv, [Next]_vars
    PROVE  AsideBesideView'
  <1> SUFFICES ASSUME NEW i \in Places, aside'[i] # NoVersion PROVE view'[i] # NoVersion
    BY DEF AsideBesideView
  <1>1. aside[i] # NoVersion => view[i] # NoVersion
    BY DEF ViewsInv, AsideBesideView
  <1>2. CASE view' = view /\ aside' = aside
    BY <1>1, <1>2
  <1>3. ASSUME NEW p \in Operators, CreateView(p) \/ DropLeftover(p) \/ Exchange(p) \/ DropNext(p)
        PROVE  view'[i] # NoVersion
    <2>1. p \in Processes /\ job[p].version \in Versions
      BY <1>3 DEF Processes, Typed, JobsOK, Cleaning, CleanSteps, CreateView, DropLeftover, Exchange, DropNext
    <2> QED
      BY <1>1, <1>3, <2>1, Constants DEF CreateView, DropLeftover, Exchange, DropNext, Typed, TypeOK
  <1>4. ASSUME NEW p \in Operators, CreateNext(p) PROVE view'[i] # NoVersion
    <2>1. p \in Processes /\ view[job[p].place] # NoVersion
      BY <1>4 DEF CreateNext, Processes, ViewsInv, HaveViews, ViewSteps
    <2> QED
      BY <1>1, <1>4, <2>1 DEF CreateNext, Typed, TypeOK
  <1> QED
    BY <1>2, <1>3, <1>4, ViewsChange

\* A view that is there stays.
LEMMA ViewsRemain ==
    ASSUME Typed, [Next]_vars, NEW i \in Places, view[i] # NoVersion
    PROVE  view'[i] # NoVersion
  <1>1. CASE view' = view
    BY <1>1
  <1>2. ASSUME NEW p \in Operators, CreateView(p) \/ DropLeftover(p) \/ CreateNext(p) \/ Exchange(p) \/ DropNext(p)
        PROVE  view'[i] # NoVersion
    BY <1>2 DEF CreateView, DropLeftover, CreateNext, Exchange, DropNext, Typed, TypeOK
  <1> QED
    BY <1>1, <1>2, ViewsChange

\* What NextView makes of a job.
LEMMA NextViewFields ==
    ASSUME Typed, NEW q \in Operators, NextView(q)
    PROVE  \/ job'[q] = Idle /\ job[q].place = Len(ApiViews)
           \/ /\ job'[q].at = "view" /\ job'[q].place = job[q].place + 1
              /\ job'[q].version = job[q].version /\ job'[q].have = job[q].have
  BY DEF NextView, Ends, Typed, TypeOK, Jobs, Processes

LEMMA HaveStep ==
    ASSUME Typed, ViewsInv, [Next]_vars, NEW q \in Processes
    PROVE  HaveViews(q)'
  <1>0. job[q] \in Jobs /\ HaveViews(q) /\ job[q].have \subseteq Places
    BY DEF Typed, TypeOK, Jobs, ViewsInv
  <1>1. \A i \in Places : view[i] # NoVersion => view'[i] # NoVersion
    BY ViewsRemain
  <1>2. CASE job'[q] = job[q]
    BY <1>0, <1>1, <1>2 DEF HaveViews
  <1>3. CASE job'[q].at \notin ViewSteps
    BY <1>3 DEF HaveViews
  <1>4. CASE q \in Operators /\ ListViews(q)
    <2>1. job'[q].at = "view" /\ job'[q].have = {i \in Places : view[i] # NoVersion}
      BY <1>0, <1>4 DEF ListViews, Typed, TypeOK, Jobs
    <2> QED
      BY <1>1, <2>1 DEF HaveViews
  <1>5. CASE q \in Operators /\ (DropLeftover(q) \/ CreateNext(q) \/ Exchange(q))
    <2>1. /\ job[q].at \in ViewSteps /\ job[q].place \in job[q].have
          /\ job'[q].place = job[q].place /\ job'[q].have = job[q].have
      BY <1>0, <1>5 DEF DropLeftover, CreateNext, Exchange, Goes, Jobs, HaveViews, ViewSteps, Typed, TypeOK
    <2> QED
      BY <1>0, <1>1, <2>1 DEF HaveViews
  <1>6. CASE q \in Operators /\ (CreateView(q) \/ DropNext(q)) /\ job'[q].at \in ViewSteps
    <2>1. job[q].at \in ViewSteps /\ NextView(q)
      BY <1>6 DEF CreateView, DropNext, ViewSteps
    <2>2. job'[q].at = "view" /\ job'[q].have = job[q].have
      BY <1>6, <2>1, NextViewFields, Idles DEF ViewSteps
    <2> QED
      BY <1>0, <1>1, <2>1, <2>2 DEF HaveViews
  <1>7. CASE q \in Cleaners /\ Clean(q)
    BY <1>3, <1>7, CleanStays DEF ViewSteps, Cleaning, CleanSteps
  <1>8. CASE Crash(q)
    BY <1>3, <1>8, Idles DEF Crash, Ends, ViewSteps, Typed, TypeOK
  <1>9. ASSUME NEW d \in Versions, q \in Operators, Deploy(q, d) \/ Ready(q, d) \/ Switch(q, d) PROVE HaveViews(q)'
    BY <1>3, <1>9, StartedFields DEF ViewSteps
  <1>10. CASE q \in Operators /\ (CreateEventPrice(q) \/ CreatePriceWatermark(q) \/ Register(q) \/ MarkReady(q))
    BY <1>0, <1>3, <1>10, Idles DEF CreateEventPrice, CreatePriceWatermark, Register, MarkReady, Goes, Ends, Jobs,
       ViewSteps, Typed, TypeOK
  <1>11. CASE q \in Operators /\ (Activate(q) \/ Retire(q))
    BY <1>0, <1>3, <1>11 DEF Activate, Retire, Goes, Jobs, ViewSteps, Typed, TypeOK
  <1> QED
    BY <1>2, <1>3, <1>4, <1>5, <1>6, <1>7, <1>8, <1>9, <1>10, <1>11, JobsChange, TypedParts DEF Operate

LEMMA ViewsInvStep == ASSUME Typed, ViewsInv, [Next]_vars PROVE ViewsInv'
  BY AsideStep, HaveStep DEF ViewsInv

LEMMA RetiresStep ==
    ASSUME Typed, ChecksHold, NEW q \in Operators, RetiresRest(q), Operate(q)
    PROVE  RetiresRest(q)'
  <1>0. q \in Processes /\ job[q] \in Jobs
    BY DEF Processes, Typed, TypeOK
  <1>1. ASSUME NEW v \in Versions, Deploy(q, v) \/ Ready(q, v) PROVE RetiresRest(q)'
    BY <1>1, StartedFields DEF RetiresRest, ViewSteps
  <1>2. ASSUME NEW v \in Versions, Switch(q, v) PROVE RetiresRest(q)'
    <2>1. /\ job'[q].at = (IF rows[v].state = "active" THEN "retire" ELSE "activate")
          /\ job'[q].version = v /\ job'[q].rest = OtherActives(v) /\ rows' = rows
      BY <1>2, StartedFields
    <2>2. Actives' = OtherActives(v) \cup (IF rows[v].state = "active" THEN {v} ELSE {})
      BY <2>1 DEF Actives, OtherActives
    <2> QED
      BY <2>1, <2>2 DEF RetiresRest, ViewSteps
  <1>3. CASE ~Started(q)
    <2>1. CASE Activate(q)
      <3>1. Actives' = Actives \cup {job[q].version}
        BY <1>0, <2>1 DEF Activate, InState, Actives, Typed, TypeOK, JobsOK, Cleaning, CleanSteps, Row
      <3>2. job'[q] = [job[q] EXCEPT !.at = "retire"]
        BY <1>0, <2>1 DEF Activate, Goes, Typed, TypeOK
      <3>3. job'[q].at = "retire" /\ job'[q].version = job[q].version /\ job'[q].rest = job[q].rest
        BY <1>0, <3>2 DEF Jobs
      <3> QED
        BY <2>1, <3>1, <3>3 DEF Activate, RetiresRest, ViewSteps
    <2>2. CASE Retire(q)
      <3> DEFINE d == Min(job[q].rest)
      <3>1. d \in job[q].rest /\ d \in Versions /\ d # job[q].version
        BY <1>0, <2>2, LeastOne DEF Retire, Jobs, ChecksHold, Checked
      <3>2. Actives' = Actives \ {d}
        BY <1>0, <2>2, <3>1 DEF Retire, Actives, Typed, TypeOK, Row
      <3>3. job'[q] = [job[q] EXCEPT !.rest = @ \ {d}]
        BY <1>0, <2>2 DEF Retire, Typed, TypeOK
      <3> HIDE DEF d
      <3>4. job'[q].at = job[q].at /\ job'[q].version = job[q].version /\ job'[q].rest = job[q].rest \ {d}
        BY <1>0, <3>3 DEF Jobs
      <3> QED
        BY <2>2, <3>1, <3>2, <3>4 DEF Retire, RetiresRest, ViewSteps
    <2>3. CASE ~Activate(q) /\ ~Retire(q) /\ job'[q].at # "idle"
      <3>1. /\ <<job[q].at, job'[q].at>> \in Follows
            /\ job'[q].version = job[q].version
        BY <1>3, <2>3, OperateKeeps
      <3>2. CASE job[q].at \in DeploySteps
        BY <3>1, <3>2 DEF Follows, DeploySteps, RetiresRest, ViewSteps
      <3>3. CASE job[q].at \in ViewSteps \cup {"retire"} /\ job'[q].at \in ViewSteps
        <4>1. rows' = rows /\ (job[q].at = "retire" => job[q].rest = {})
          BY <1>3, <2>3, <3>3 DEF Operate, Started, ViewSteps, CreateEventPrice, CreatePriceWatermark, Register, MarkReady,
                          ListViews, CreateView, DropLeftover, CreateNext, Exchange, DropNext
        <4>2. Actives' = Actives
          BY <4>1 DEF Actives
        <4> QED
          BY <3>1, <3>3, <4>1, <4>2 DEF RetiresRest, ViewSteps
      <3>4. job[q].at # "activate"
        BY <1>3, <2>3 DEF Operate, Started, CreateEventPrice, CreatePriceWatermark, Register, MarkReady,
                          ListViews, CreateView, DropLeftover, CreateNext, Exchange, DropNext
      <3>5. ~(job[q].at = "retire" /\ job'[q].at = "retire")
        <4>1. ListViews(q) => job'[q].at = "view"
          BY <1>0 DEF ListViews, Typed, TypeOK, Jobs
        <4> QED
          BY <1>3, <2>3, <4>1 DEF Operate, Started, CreateEventPrice, CreatePriceWatermark, Register, MarkReady,
                          CreateView, DropLeftover, CreateNext, Exchange, DropNext
      <3> QED
        BY <3>1, <3>2, <3>3, <3>4, <3>5 DEF Follows, DeploySteps, ViewSteps
    <2>4. CASE job'[q].at = "idle"
      BY <2>4 DEF RetiresRest, ViewSteps
    <2> QED
      BY <2>1, <2>2, <2>3, <2>4
  <1> QED
    BY <1>1, <1>2, <1>3 DEF Started

\* A switch is done with the places before the one it works on.
LEMMA SwitchedStep ==
    ASSUME Typed, ChecksHold, AsideBesideView, NEW q \in Operators, HaveViews(q), Switched(q), Operate(q)
    PROVE  Switched(q)'
  <1> DEFINE v == job[q].version
             i == job[q].place
  <1>0. /\ q \in Processes /\ job[q] \in Jobs /\ RetiresRest(q) /\ RetiresRest(q)'
        /\ view \in [Places -> Versions \cup {NoVersion}] /\ aside \in [Places -> Versions \cup {NoVersion}]
        /\ job[q].at \in ViewSteps => i \in Places /\ v \in Versions
        /\ \A k \in Places : k \in Nat
        /\ job \in [Processes -> Jobs]
    BY RetiresStep, TypedParts, Constants DEF Processes, Typed, TypeOK, JobsTyped, JobTyped, ViewSteps, Switched
  <1> DEFINE Goal == /\ job'[q].at \in ViewSteps => PlacesDone(q)'
                     /\ job'[q].at = "exchange" => aside'[job'[q].place] = job'[q].version
                     /\ job'[q].at = "dropNext" => view'[job'[q].place] = job'[q].version
  <1> SUFFICES Goal
    BY <1>0 DEF Switched, RetiresRest, PlacesDone, Actives
  <1>1. CASE job'[q].at \notin ViewSteps
    BY <1>1 DEF ViewSteps
  <1>2. CASE ListViews(q)
    <2>1. /\ job'[q].at = "view" /\ job'[q].place = 1 /\ view' = view
          /\ job'[q].have = {k \in Places : view[k] # NoVersion}
      BY <1>0, <1>2 DEF ListViews, Jobs
    <2>2. \A k \in Nat : k < 1 => k = 0
      OBVIOUS
    <2> QED
      BY <1>0, <2>1, <2>2 DEF PlacesDone, Places
  <1>3. CASE DropLeftover(q) \/ CreateNext(q) \/ Exchange(q)
    <2>1. /\ job[q].at \in ViewSteps /\ PlacesDone(q) /\ i \in job[q].have
      BY <1>3 DEF DropLeftover, CreateNext, Exchange, ViewSteps, HaveViews, Switched
    <2>2. /\ job'[q].place = i /\ job'[q].version = v /\ job'[q].have = job[q].have
          /\ DropLeftover(q) => job'[q].at = "createNext"
          /\ CreateNext(q) => job'[q].at = "exchange"
          /\ Exchange(q) => job'[q].at = "dropNext"
      BY <1>0, <1>3 DEF DropLeftover, CreateNext, Exchange, Goes, Jobs
    <2>3. \A k \in Places \ {i} : view'[k] = view[k] /\ aside'[k] = aside[k]
      BY <1>0, <1>3, <2>1 DEF DropLeftover, CreateNext, Exchange
    <2>4. /\ CreateNext(q) => aside'[i] = v
          /\ Exchange(q) => view'[i] = aside[i] /\ aside[i] = v
          /\ ~Exchange(q) => view' = view
      BY <1>0, <1>3, <2>1 DEF DropLeftover, CreateNext, Exchange, Switched
    <2>5. PlacesDone(q)'
      <3>1. \A k \in Places : k < i => view'[k] = v /\ aside'[k] = NoVersion
        BY <1>0, <2>1, <2>3 DEF PlacesDone
      <3> QED
        BY <2>1, <2>2, <3>1 DEF PlacesDone
    <2> QED
      BY <1>3, <2>2, <2>4, <2>5
  <1>4. CASE (CreateView(q) \/ DropNext(q)) /\ job'[q].at \in ViewSteps
    <2>1. job[q].at \in {"view", "dropNext"} /\ job[q].at \in ViewSteps /\ PlacesDone(q) /\ NextView(q)
      BY <1>4 DEF CreateView, DropNext, ViewSteps, Switched
    <2>2. /\ job'[q].at = "view" /\ job'[q].place = i + 1
          /\ job'[q].version = v /\ job'[q].have = job[q].have
      BY <1>4, <2>1, NextViewFields, Idles DEF ViewSteps
    <2>3. \A k \in Places \ {i} : view'[k] = view[k] /\ aside'[k] = aside[k]
      BY <1>0, <1>4, <2>1 DEF CreateView, DropNext
    <2>4. view'[i] = v /\ aside'[i] = NoVersion
      BY <1>0, <1>4, <2>1 DEF CreateView, DropNext, AsideBesideView, Switched
    <2>5. \A k \in Places : k < i + 1 => k < i \/ k = i
      BY <1>0, <2>1
    <2>6. job[q].have \subseteq Places /\ v # NoVersion
      BY <1>0, <2>1, Constants DEF Jobs
    <2>7. PlacesDone(q)'
      BY <2>1, <2>2, <2>3, <2>4, <2>5, <2>6 DEF PlacesDone
    <2> QED
      BY <2>2, <2>7
  <1>5. ASSUME NEW d \in Versions, Deploy(q, d) \/ Ready(q, d) \/ Switch(q, d) PROVE job'[q].at \notin ViewSteps
    BY <1>5, StartedFields DEF ViewSteps
  <1>6. CASE CreateEventPrice(q) \/ CreatePriceWatermark(q) \/ Register(q) \/ MarkReady(q)
    BY <1>0, <1>1, <1>6, Idles DEF CreateEventPrice, CreatePriceWatermark, Register, MarkReady, Goes, Ends, Jobs, ViewSteps
  <1>7. CASE Activate(q) \/ Retire(q)
    BY <1>0, <1>1, <1>7 DEF Activate, Retire, Goes, Jobs, ViewSteps
  <1> HIDE DEF Goal
  <1> QED
    BY <1>1, <1>2, <1>3, <1>4, <1>5, <1>6, <1>7 DEF Operate

-----------------------------------------------------------------------------
(* A cleanup, one command at a time.                                       *)

\* Nothing undoes what a cleanup settled, as long as the views stay.
LEMMA SettledStays ==
    ASSUME NEW v \in Versions, Settled(v), gone \subseteq gone',
           view' = view, aside' = aside,
           rows[v].state = "dropped" => rows'[v].state = "dropped",
           rows[v].tables => rows'[v].tables
    PROVE  Settled(v)'
  BY DEF Settled, InUse

LEMMA ListedExpire ==
    ASSUME Typed, NEW q \in Processes, Listed(q), NEW u \in Versions, Expire(u)
    PROVE  Listed(q)'
  <1> SUFFICES ASSUME job[q].at \in Cleaning PROVE ListTrue(q)' /\ RestSettled(q)' /\ AtVersion(q)'
    BY ExpireKeeps DEF Listed, ListTrue, RestSettled, AtVersion
  <1>0. /\ ListTrue(q) /\ RestSettled(q) /\ AtVersion(q)
        /\ job[q] \in Jobs /\ job' = job /\ gone' = gone /\ view' = view /\ aside' = aside
        /\ job[q].at \in CleanSteps => job[q].version \in Versions
    BY ExpireKeeps DEF Typed, TypeOK, JobsOK, CleanSteps, Listed
  <1>1. \A v \in Versions : Spent(v) => Spent(v)'
    BY ExpireKeeps DEF Spent
  <1>2. ListTrue(q)'
    BY <1>0, <1>1, ExpireKeeps DEF ListTrue
  <1>3. RestSettled(q)'
    BY <1>0, SettledStays, ExpireKeeps DEF RestSettled, Expired
  <1>4. AtVersion(q)'
    BY <1>0, ExpireKeeps DEF AtVersion
  <1> QED
    BY <1>2, <1>3, <1>4

\* What a cleanup's steps past its start leave of the tables.
LEMMA CleanTables ==
    ASSUME Typed, NEW q \in Cleaners, Clean(q), ~Cleanup(q)
    PROVE  /\ view' = view /\ aside' = aside /\ gone \subseteq gone'
           /\ \A v \in Versions :
                /\ rows[v].tables => rows'[v].tables
                /\ rows[v].state = "dropped" => rows'[v].state = "dropped"
                /\ Spent(v) => Spent(v)'
                /\ \/ rows'[v].state = rows[v].state
                   \/ v = job[q].version /\ rows'[v].state = "dropped" /\ job'[q].at = "reread"
  <1> USE DEF Typed, TypeOK, Row, Spent, Processes
  <1>1. CASE Reread(q) \/ FindUsers(q) \/ RefuseDatabase(q) \/ EndCleanup(q)
    BY <1>1 DEF Reread, FindUsers, RefuseDatabase, EndCleanup
  <1>2. CASE DropEventPrice(q) \/ DropPriceWatermark(q) \/ DropDatabase(q)
    BY <1>2 DEF DropEventPrice, DropPriceWatermark, DropDatabase
  <1>3. CASE RecordTables(q)
    BY <1>3 DEF RecordTables
  <1>4. CASE KeepShared(q) \/ RecordDropped(q)
    <2>1. job'[q].at = "reread"
      BY <1>4 DEF KeepShared, RecordDropped, Done, Jobs
    <2>2. /\ view' = view /\ aside' = aside /\ gone' = gone
          /\ \A v \in Versions : \/ rows'[v] = rows[v]
                                 \/ v = job[q].version /\ rows'[v] = [rows[v] EXCEPT !.state = "dropped"]
      BY <1>4 DEF KeepShared, RecordDropped, InState
    <2>3. \A v \in Versions : rows'[v] = [rows[v] EXCEPT !.state = "dropped"] =>
             rows'[v].state = "dropped" /\ rows'[v].tables = rows[v].tables
      OBVIOUS
    <2> QED
      BY <2>1, <2>2, <2>3
  <1> QED
    BY <1>1, <1>2, <1>3, <1>4 DEF Clean

LEMMA ListedStep ==
    ASSUME Typed, NEW q \in Cleaners, Listed(q), Clean(q)
    PROVE  Listed(q)'
  <1>0. /\ q \in Processes /\ job[q] \in Jobs /\ job \in [Processes -> Jobs]
        /\ job[q].at \in CleanSteps => job[q].version \in Versions
    BY DEF Processes, Typed, TypeOK, JobsOK, CleanSteps
  <1>1. CASE Cleanup(q)
    <2>1. /\ job'[q].at = "reread" /\ job'[q].rest = Expired(rows) /\ job'[q].list = rows
          /\ UNCHANGED <<rows, gone, view, aside>>
      BY <1>1, CleanupFields
    <2>2. ListTrue(q)' /\ RestSettled(q)' /\ AtVersion(q)'
      BY <2>1 DEF ListTrue, RestSettled, AtVersion, CleanSteps, Expired, Spent
    <2> QED
      BY <2>2 DEF Listed, ListTrue, RestSettled, AtVersion
  <1>2. CASE job'[q].at = "idle"
    BY <1>2 DEF Listed, Cleaning, CleanSteps
  <1>3. CASE ~Cleanup(q) /\ job'[q].at # "idle"
    <2>1. /\ job[q].at \in Cleaning /\ job'[q].list = job[q].list /\ job'[q].rest \subseteq job[q].rest
          /\ ListTrue(q) /\ RestSettled(q) /\ AtVersion(q)
          /\ job[q].rest \subseteq Versions
          /\ job[q].at \in CleanSteps => rows[job[q].version].state \in {"retired", "dropped"}
      <3>1. job[q].at \in Cleaning /\ job'[q].list = job[q].list /\ job'[q].rest \subseteq job[q].rest
        BY <1>3, CleanKeeps
      <3>2. ListTrue(q) /\ RestSettled(q) /\ AtVersion(q)
        BY <3>1 DEF Listed
      <3> QED
        BY <1>0, <3>1, <3>2 DEF Jobs, ListTrue, AtVersion, Spent
    <2>2. /\ view' = view /\ aside' = aside /\ gone \subseteq gone'
          /\ \A v \in Versions :
                /\ rows[v].tables => rows'[v].tables
                /\ rows[v].state = "dropped" => rows'[v].state = "dropped"
                /\ Spent(v) => Spent(v)'
                /\ \/ rows'[v].state = rows[v].state
                   \/ v = job[q].version /\ rows'[v].state = "dropped" /\ job'[q].at = "reread"
      BY <1>3, CleanTables
    <2>3. /\ job'[q].at = "reread" /\ job[q].at \in CleanSteps => job'[q].rest = job[q].rest \ {job[q].version}
      BY <1>3, CleanKeeps DEF CleanFollows, Reread, CleanSteps
    <2>4. ListTrue(q)'
      <3>1. ASSUME NEW v \in Versions, v \in job'[q].rest \/ v \notin Expired(job[q].list)
            PROVE  rows'[v].state = job[q].list[v].state
        <4>1. rows[v].state = job[q].list[v].state
          BY <2>1, <3>1 DEF ListTrue
        <4>2. CASE rows'[v].state = rows[v].state
          BY <4>1, <4>2
        <4>3. CASE v = job[q].version /\ job'[q].at = "reread" /\ rows'[v].state # rows[v].state
          <5>1. job[q].at \in CleanSteps
            BY <1>0, <1>3, <4>3 DEF Clean, Reread, FindUsers, DropEventPrice, DropPriceWatermark, RecordTables, KeepShared,
                  RefuseDatabase, DropDatabase, RecordDropped, EndCleanup, CleanSteps
          <5>2. v \in job[q].rest /\ v \notin job'[q].rest
            BY <2>1, <2>3, <4>3, <5>1 DEF AtVersion
          <5> QED
            BY <2>1, <3>1, <5>2 DEF ListTrue
        <4> QED
          BY <2>2, <4>2, <4>3
      <3>2. \A v \in Expired(job[q].list) : Spent(v)'
        BY <2>1, <2>2 DEF ListTrue, Expired
      <3>3. job'[q].rest \subseteq Expired(job[q].list)
        BY <2>1 DEF ListTrue
      <3> QED
        BY <2>1, <3>1, <3>2, <3>3 DEF ListTrue
    <2>5. RestSettled(q)'
      <3> SUFFICES ASSUME NEW v \in Expired(job[q].list), v \notin job'[q].rest PROVE Settled(v)'
        BY <2>1 DEF RestSettled
      <3>0. v \in Versions
        BY DEF Expired
      <3>1. CASE v \notin job[q].rest
        BY <2>1, <2>2, <3>0, <3>1, SettledStays DEF RestSettled
      <3>2. CASE v \in job[q].rest
        <4>1. CASE Reread(q)
          <5>1. rows[v].state = "retired"
            BY <2>1, <3>2 DEF ListTrue, Expired
          <5> QED
            BY <1>3, <3>2, <4>1, <5>1, CleanKeeps DEF CleanFollows, Cleaning, CleanSteps, Reread
        <4>2. CASE ~Reread(q)
          <5>1. /\ job[q].at \in CleanSteps /\ job'[q].at = "reread" /\ v = job[q].version
                /\ job[q].at \in {"users", "database", "record"}
            BY <1>3, <3>2, <4>2, CleanKeeps DEF CleanSteps
          <5>2. CASE FindUsers(q)
            <6>1. InUse(v)
              BY <1>0, <5>1, <5>2 DEF FindUsers, AfterUsers, Goes, Jobs
            <6> QED
              BY <2>2, <6>1 DEF Settled, InUse
          <5>3. CASE KeepShared(q)
            <6>1. rows'[v].state = "dropped"
              BY <3>0, <5>1, <5>3 DEF KeepShared, InState, Typed, TypeOK, Row
            <6>2. \E d \in Versions \ {v} : Database[d] = Database[v]
              BY <5>1, <5>3 DEF KeepShared, Shared
            <6> QED
              BY <6>1, <6>2 DEF Settled
          <5>4. CASE RefuseDatabase(q)
            <6>1. ~Droppable(v) /\ rows'[v].tables
              BY <2>1, <2>2, <3>0, <5>1, <5>4 DEF RefuseDatabase, AtVersion
            <6> QED
              BY <6>1 DEF Settled
          <5>5. CASE RecordDropped(q)
            <6>1. rows'[v].state = "dropped" /\ <<"envio", Database[v]>> \in gone'
              BY <2>1, <2>2, <3>0, <5>1, <5>5 DEF RecordDropped, InState, Typed, TypeOK, Row, AtVersion
            <6> QED
              BY <6>1 DEF Settled
          <5>6. ~(DropEventPrice(q) \/ DropPriceWatermark(q) \/ RecordTables(q) \/ DropDatabase(q) \/ EndCleanup(q))
            BY <1>0, <1>3, <5>1, Idles DEF DropEventPrice, DropPriceWatermark, RecordTables, DropDatabase, EndCleanup, Goes, Ends, Jobs
          <5> QED
            BY <1>3, <4>2, <5>2, <5>3, <5>4, <5>5, <5>6 DEF Clean
        <4> QED
          BY <4>1, <4>2
      <3> QED
        BY <3>1, <3>2
    <2>6. AtVersion(q)'
      <3>1. CASE Reread(q)
        BY <1>3, <2>1, <3>1, CleanKeeps DEF AtVersion, CleanSteps, CleanFollows, Reread
      <3>2. CASE job'[q].at = "reread"
        BY <3>2 DEF AtVersion, CleanSteps
      <3>3. CASE ~Reread(q) /\ job'[q].at # "reread"
        <4>1. /\ <<job[q].at, job'[q].at>> \in CleanFollows
              /\ job'[q].version = job[q].version /\ job'[q].rest = job[q].rest
              /\ job'[q].tables = job[q].tables
          BY <1>3, <3>3, CleanKeeps
        <4>2. job[q].at \in CleanSteps /\ job[q].version \in Versions
          BY <1>0, <4>1 DEF CleanFollows, CleanSteps
        <4>3. job[q].version \in job[q].rest /\ (job[q].tables => rows'[job[q].version].tables)
          BY <2>1, <2>2, <4>2 DEF AtVersion
        <4>4. job'[q].at = "database" => rows'[job[q].version].tables
          <5>1. CASE FindUsers(q)
            BY <1>0, <3>3, <4>1, <4>3, <5>1 DEF FindUsers, AfterUsers, Goes, Done, Jobs
          <5>2. CASE RecordTables(q)
            BY <1>0, <4>2, <5>2 DEF RecordTables, Typed, TypeOK, Row
          <5>3. ASSUME job'[q].at = "database" PROVE FindUsers(q) \/ RecordTables(q)
            BY <1>0, <1>3, <3>3, <5>3, Idles DEF Clean, DropEventPrice, DropPriceWatermark, KeepShared, RefuseDatabase, DropDatabase,
                  RecordDropped, EndCleanup, Goes, Ends, Done, Jobs
          <5> QED
            BY <5>1, <5>2, <5>3
        <4>5. job'[q].at = "record" => rows'[job[q].version].tables /\ <<"envio", Database[job[q].version]>> \in gone'
          <5>1. ASSUME job'[q].at = "record" PROVE DropDatabase(q) /\ job[q].at = "database"
            <6>1. job[q].at = "database"
              BY <4>1, <5>1 DEF CleanFollows
            <6> QED
              BY <1>0, <1>3, <3>3, <5>1, <6>1, Idles DEF Clean, FindUsers, DropEventPrice, DropPriceWatermark, RecordTables, KeepShared,
                    RefuseDatabase, RecordDropped, EndCleanup, Goes, Ends, Done, Jobs
          <5> QED
            BY <2>1, <2>2, <4>2, <5>1 DEF DropDatabase, AtVersion
        <4> QED
          BY <4>1, <4>2, <4>3, <4>4, <4>5 DEF AtVersion
      <3> QED
        BY <3>1, <3>2, <3>3
    <2> QED
      BY <2>4, <2>5, <2>6 DEF Listed, ListTrue, RestSettled, AtVersion
  <1> QED
    BY <1>1, <1>2, <1>3

-----------------------------------------------------------------------------
(* The inductive invariant.                                                *)

IInv == Typed /\ UnforcedInv /\ TurnsInv /\ ChecksInv /\ ViewsInv /\ SerialInv

\* Whatever is left behind, with no command running there is nothing to keep.
AllIdle == \A p \in Processes : job[p] = Idle

LEMMA IdleHolds == AllIdle => OneAtWork /\ ChecksHold /\ Serial
  <1> SUFFICES ASSUME AllIdle PROVE OneAtWork /\ ChecksHold /\ Serial
    OBVIOUS
  <1>1. \A p \in Processes : job[p] = Idle /\ job[p].at = "idle"
    BY Idles DEF AllIdle
  <1>2. OneAtWork /\ Alone
    BY <1>1 DEF OneAtWork, Alone, Processes
  <1>3. ChecksHold
    BY <1>1 DEF ChecksHold, Checked, DeploySteps
  <1>4. \A p \in Processes : Switched(p) /\ Listed(p)
    BY <1>1 DEF Switched, Listed, ViewSteps, Cleaning, CleanSteps, RetiresRest
  <1> QED
    BY <1>2, <1>3, <1>4 DEF Serial

LEMMA IdleHoldsNext == AllIdle' => OneAtWork' /\ ChecksHold' /\ Serial'
  <1> SUFFICES ASSUME AllIdle' PROVE OneAtWork' /\ ChecksHold' /\ Serial'
    OBVIOUS
  <1>1. \A p \in Processes : job'[p] = Idle /\ job'[p].at = "idle"
    BY Idles DEF AllIdle
  <1>2. OneAtWork' /\ Alone'
    BY <1>1 DEF OneAtWork, Alone, Processes
  <1>3. ChecksHold'
    BY <1>1 DEF ChecksHold, Checked, DeploySteps
  <1>4. \A p \in Processes : Switched(p)' /\ Listed(p)'
    BY <1>1 DEF Switched, Listed, ViewSteps, Cleaning, CleanSteps, RetiresRest
  <1> QED
    BY <1>2, <1>3, <1>4 DEF Serial

LEMMA InitInv == Init => IInv
  <1> SUFFICES ASSUME Init PROVE IInv
    OBVIOUS
  <1>1. AllIdle /\ \A p \in Processes : job[p].at = "idle"
    BY Idles DEF Init, AllIdle
  <1>2. ViewsInv
    BY <1>1 DEF ViewsInv, AsideBesideView, HaveViews, ViewSteps, Init
  <1> QED
    BY <1>1, <1>2, IdleHolds, InitTyped, UnforcedInit DEF IInv, TurnsInv, ChecksInv, SerialInv

LEMMA SerialStep ==
    ASSUME Typed, mode.serial, Serial, ViewsInv, ChecksHold, [Next]_vars, ~Calm
    PROVE  Serial'
  <1>1. Alone'
    BY AloneStep DEF Serial
  <1>3. ASSUME NEW q \in Processes PROVE Switched(q)' /\ Listed(q)'
    <2>0. Switched(q) /\ Listed(q) /\ Alone /\ AsideBesideView /\ HaveViews(q)
      BY DEF Serial, ViewsInv
    <2>1. CASE job'[q] = Idle
      <3>1. job'[q].at = "idle"
        BY <2>1, Idles
      <3> QED
        BY <3>1 DEF Switched, Listed, ViewSteps, Cleaning, CleanSteps, RetiresRest
    <2>2. CASE UNCHANGED vars
      BY <2>0, <2>2 DEF vars, Switched, Listed, Settled, InUse, Spent, RetiresRest, PlacesDone, Actives, ListTrue, RestSettled, AtVersion
    <2>3. ASSUME NEW v \in Versions, Expire(v) PROVE Switched(q)' /\ Listed(q)'
      <3>1. Actives' = Actives
        BY <2>3, ExpireKeeps DEF Actives
      <3>2. Switched(q)'
        BY <2>0, <2>3, <3>1, ExpireKeeps DEF Switched, Actives, RetiresRest, PlacesDone
      <3> QED
        BY <2>0, <2>3, <3>2, ListedExpire
    <2>4. CASE q \in Operators /\ Operate(q)
      <3>1. job'[q].at \notin Cleaning
        BY <2>4, OperateStays
      <3> QED
        BY <2>0, <2>4, <3>1, SwitchedStep DEF Listed
    <2>5. CASE q \in Cleaners /\ Clean(q)
      <3>1. job'[q].at \in {"idle"} \cup Cleaning
        BY <2>5, CleanStays
      <3> QED
        BY <2>0, <2>5, <3>1, ListedStep DEF Switched, ViewSteps, Cleaning, CleanSteps, RetiresRest
    <2> QED
      BY <2>0, <2>1, <2>2, <2>3, <2>4, <2>5, BusyActs
  <1> QED
    BY <1>1, <1>3 DEF Serial

LEMMA InvStep == IInv /\ [Next]_vars => IInv'
  <1> SUFFICES ASSUME IInv, [Next]_vars PROVE IInv'
    OBVIOUS
  <1>1. Typed' /\ UnforcedInv' /\ ViewsInv'
    BY TypedStep, UnforcedStep, ViewsInvStep DEF IInv
  <1>2. CASE Calm
    <2>1. AllIdle'
      BY <1>2 DEF Calm, AllIdle
    <2> QED
      BY <1>1, <2>1, IdleHoldsNext DEF IInv, TurnsInv, ChecksInv, SerialInv
  <1>3. CASE ~Calm
    <2>1. mode' = mode
      BY <1>3, ModeStays
    <2>2. mode.serial => Alone /\ InTurn
      BY DEF IInv, SerialInv, Serial, InTurn
    <2>3. TurnsInv'
      BY <2>1, TurnsStep DEF IInv, TurnsInv, InTurn
    <2>4. ChecksInv'
      BY <2>1, <2>2, ChecksStep DEF IInv, TurnsInv, ChecksInv, InTurn
    <2>5. SerialInv'
      BY <1>3, <2>1, <2>2, SerialStep DEF IInv, SerialInv, ChecksInv
    <2> QED
      BY <1>1, <2>3, <2>4, <2>5 DEF IInv
  <1> QED
    BY <1>2, <1>3

\* One command at a time, or any number of them that force nothing, drop an Envio database
\* only when every version on it is dropped or retired for longer than the grace.
THEOREM DatabasesDroppedUnused == Spec => DropsOnlyUnused
  <1>1. IInv /\ [Next]_vars => [Orderly => DropOnlyUnused]_vars
    <2> SUFFICES ASSUME IInv, [Next]_vars, Orderly, NEW v \in Versions, <<"envio", Database[v]>> \in gone' \ gone
                 PROVE  rows[v].state = "none" \/ Spent(v)
      BY DEF DropOnlyUnused, Spent
    <2>1. PICK p \in Cleaners :
              /\ job[p].version \in Versions
              /\ \/ <<"envio", Database[v]>> \in {<<"event_price", job[p].version>>, <<"price_watermark", job[p].version>>}
                 \/ /\ Droppable(job[p].version)
                    /\ <<"envio", Database[v]>> = <<"envio", Database[job[p].version]>>
                    /\ DropDatabase(p)
      BY Dropped DEF IInv
    <2> DEFINE u == job[p].version
    <2>2. /\ u \in Versions /\ Database[u] = u /\ Database[v] = Database[u] /\ DropDatabase(p)
          /\ p \in Processes /\ job[p].at = "database" /\ job[p].at \in CleanSteps
      BY <2>1 DEF Droppable, DropDatabase, Processes, CleanSteps
    <2>3. CASE ~mode.forced
      BY <2>2, <2>3 DEF IInv, UnforcedInv, Unforced, HandWrittenSpent, CleanersOnSpent
    <2>4. CASE mode.serial
      <3>1. ListTrue(p)
        BY <2>2, <2>4 DEF IInv, SerialInv, Serial, Cleaning, Listed
      <3>2. CASE v \in Expired(job[p].list)
        BY <3>1, <3>2 DEF ListTrue
      <3>3. CASE v \notin Expired(job[p].list)
        <4>1. job[p].list[v].state \in {"none", "dropped"}
          BY <2>2, <3>3 DEF DropDatabase, Shared
        <4> QED
          BY <3>1, <3>3, <4>1 DEF ListTrue, Spent
      <3> QED
        BY <3>2, <3>3
    <2> QED
      BY <2>3, <2>4 DEF Orderly
  <1> QED
    BY <1>1, InitInv, InvStep, PTL DEF Spec, DropsOnlyUnused

\* Operators who take turns and force nothing, next to any cleanups, or commands one at a
\* time take no version back in its lifecycle, but by a forced switch; and however many
\* operators and cleanups overlap, while none forces, no version comes back that cleanup
\* dropped or may drop.
THEOREM LifecycleMovesForward == Spec => LifecycleForward
  <1>1. IInv /\ [Next]_vars => [InTurn => StatesForward]_vars
    <2> SUFFICES ASSUME IInv, [Next]_vars, InTurn, NEW v \in Versions, rows'[v].state # rows[v].state
                 PROVE  <<rows[v].state, rows'[v].state>> \in Forward \cup (IF mode.forced THEN Back ELSE {})
      BY DEF StatesForward
    <2>1. Typed /\ ChecksHold /\ rows'[v] # rows[v] /\ rows \in [Versions -> Row]
      BY DEF IInv, ChecksInv, Typed, TypeOK
    <2>2. ASSUME NEW p \in Operators, v = job[p].version, Register(p) \/ MarkReady(p) \/ Activate(p)
          PROVE  <<rows[v].state, rows'[v].state>> \in Forward \cup (IF mode.forced THEN Back ELSE {})
      <3>1. p \in Processes /\ Checked(p, ActivatedFrom)
        BY <2>1 DEF Processes, ChecksHold
      <3>2. CASE Register(p)
        BY <2>1, <2>2, <3>1, <3>2 DEF Checked, Register, NoRow, DeploySteps, Forward
      <3>3. CASE MarkReady(p)
        BY <2>1, <2>2, <3>1, <3>3 DEF Checked, MarkReady, InState, Forward
      <3>4. CASE Activate(p)
        BY <2>1, <2>2, <3>1, <3>4 DEF Checked, Activate, InState, Forward, Back, ActivatedFrom
      <3> QED
        BY <2>2, <3>2, <3>3, <3>4
    <2>3. ASSUME NEW p \in Operators, v \in job[p].rest, Retire(p), rows'[v].state = "retired"
          PROVE  <<rows[v].state, rows'[v].state>> \in Forward
      BY <2>1, <2>3 DEF Processes, ChecksHold, Checked, Retire, Forward
    <2>4. ASSUME NEW p \in Cleaners, v = job[p].version, KeepShared(p) \/ RecordDropped(p),
                 rows'[v] = [rows[v] EXCEPT !.state = "dropped"]
          PROVE  <<rows[v].state, rows'[v].state>> \in Forward
      <3>1. p \in Processes /\ job[p].at \in CleanSteps /\ job[p].at \in Cleaning
        BY <2>4 DEF Processes, KeepShared, RecordDropped, CleanSteps, Cleaning
      <3>2. Spent(v)
        <4>1. CASE mode.serial
          BY <2>1, <2>4, <3>1, <4>1 DEF IInv, SerialInv, Serial, ListTrue, AtVersion, Typed, JobsOK, CleanSteps, Listed
        <4>2. CASE ~mode.forced
          BY <2>4, <3>1, <4>2 DEF IInv, UnforcedInv, Unforced, CleanersOnSpent
        <4> QED
          BY <4>1, <4>2 DEF InTurn
      <3>3. rows'[v].state = "dropped"
        BY <2>1, <2>4 DEF Row
      <3> QED
        BY <3>2, <3>3 DEF Spent, Forward
    <2>5. ASSUME \/ rows'[v] = [rows[v] EXCEPT !.tables = TRUE]
                 \/ rows'[v] = [rows[v] EXCEPT !.retired = "expired"]
          PROVE  FALSE
      BY <2>1, <2>5 DEF Row
    <2> QED
      BY <2>1, <2>2, <2>3, <2>4, <2>5, RowKept
  <1>2. IInv /\ [Next]_vars => [~mode.forced => SpentForGood]_vars
    BY SpentStays DEF IInv, UnforcedInv, SpentForGood
  <1>3. IInv /\ [Next]_vars => [KeepsLifecycle]_vars
    BY <1>1, <1>2 DEF KeepsLifecycle
  <1> QED
    BY <1>3, InitInv, InvStep, PTL DEF Spec, LifecycleForward

\* Commands one at a time that run to their end put right whatever interrupted ones left: a
\* switch leaves its version the only active one and every view on it, a cleanup leaves
\* every version that was expired dropped, or kept for one of the reasons there are.
THEOREM RerunsPutRight == Spec => RerunsConverge
  <1>1. ASSUME IInv, [Next]_vars, mode.serial, NEW p \in Operators, FinishesSwitch(p)
        PROVE  /\ Actives' = {job[p].version}
               /\ \A i \in Places : view'[i] = job[p].version /\ aside'[i] = NoVersion
    <2> DEFINE i == job[p].place
    <2>1. /\ Typed /\ Alone /\ AsideBesideView /\ HaveViews(p) /\ Switched(p) /\ p \in Processes
          /\ job[p].at \in {"view", "dropNext"} /\ job'[p] = Idle /\ job \in [Processes -> Jobs]
      BY <1>1 DEF IInv, SerialInv, Serial, ViewsInv, FinishesSwitch, Processes, Typed, TypeOK
    <2>2. PICK r \in Operators :
                CreateView(r) \/ DropLeftover(r) \/ CreateNext(r) \/ Exchange(r) \/ DropNext(r)
      BY <1>1, ViewsChange DEF FinishesSwitch
    <2>3. r = p
      <3>1. r \in Processes /\ Acts(r)
        BY <2>2 DEF Processes, Acts, Operate
      <3> QED
        BY <1>1, <2>1, <3>1, OthersIdle, Idles
    <2>4. CreateView(p) \/ DropNext(p)
      <3>1. ~(DropLeftover(p) \/ CreateNext(p) \/ Exchange(p))
        BY <2>1, Idles DEF DropLeftover, CreateNext, Exchange, Goes, Jobs
      <3> QED
        BY <2>2, <2>3, <3>1
    <2>5. i = Len(ApiViews) /\ i \in Places /\ PlacesDone(p) /\ Actives = {job[p].version} /\ rows' = rows
      <3>1. NextView(p) /\ rows' = rows
        BY <2>4 DEF CreateView, DropNext
      <3>2. i = Len(ApiViews)
        BY <2>1, <3>1, NextViewFields, Idles
      <3> QED
        BY <2>1, <3>1, <3>2, TypedParts DEF RetiresRest, ViewSteps, JobsTyped, JobTyped, Switched
    <2>6. view'[i] = job[p].version /\ aside'[i] = NoVersion
      BY <2>1, <2>4, <2>5 DEF CreateView, DropNext, AsideBesideView, Switched, Typed, TypeOK
    <2>7. \A k \in Places \ {i} : view'[k] = view[k] /\ aside'[k] = aside[k]
      BY <2>1, <2>4 DEF CreateView, DropNext, Typed, TypeOK
    <2>8. \A k \in Places : k < i \/ k = i
      BY <2>5, Constants DEF Places
    <2>9. Actives' = Actives
      BY <2>5 DEF Actives
    <2> QED
      BY <2>5, <2>6, <2>7, <2>8, <2>9 DEF PlacesDone
  <1>2. ASSUME IInv, mode.serial PROVE CleanupConverged
    <2> SUFFICES ASSUME NEW p \in Cleaners, job[p].at = "reread", job[p].rest = {},
                        NEW v \in Expired(job[p].list)
                 PROVE  Settled(v)
      BY DEF CleanupConverged, Settled
    <2> QED
      BY <1>2 DEF IInv, SerialInv, Serial, Cleaning, RestSettled, Processes, Listed
  <1>3. IInv /\ [Next]_vars => [mode.serial => SwitchConverged /\ CleanupConverged]_vars
    BY <1>1, <1>2 DEF SwitchConverged, Actives
  <1> QED
    BY <1>3, InitInv, InvStep, PTL DEF Spec, RerunsConverge
==============================================================================
