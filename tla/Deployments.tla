----------------------------- MODULE Deployments -----------------------------
(***************************************************************************)
(* Versions side by side (packages/clickhouse/src/deployments.ts): the     *)
(* commands deploy, ready, switch and cleanup, run by operators and by the *)
(* worker's daily job.  Nothing locks: a command reads the `deployments`   *)
(* table once and then sends one ClickHouse statement after another, and   *)
(* between two statements other commands run, or its process dies.  Each   *)
(* statement is one step; a reading statement and the checks made on what  *)
(* it returned are one step too.                                           *)
(*                                                                         *)
(* A view is the version it was created for.  What it reads is an object   *)
(* <<kind, number>>: a table of the version or an Envio database.          *)
(***************************************************************************)
EXTENDS Naturals, Sequences, FiniteSets, FiniteSetsExt

CONSTANTS
    Versions,       \* version numbers
    Database,       \* the Envio database of each: N stands for envio_<env>_N
    ApiViews,       \* the API views, in the order a switch replaces them
    Operators,      \* processes that run deploy, ready and switch
    Cleaners,       \* processes that run cleanup: the worker, the CLI
    Modes           \* the ways to work there are: see mode

ViewNames == {"user_timeline_api", "product_contracts_api", "api_status"}

ASSUME DeploymentsAssumption ==
    /\ Versions \subseteq Nat \ {0}
    /\ IsFiniteSet(Versions)
    /\ Database \in [Versions -> Nat]
    /\ ApiViews \in Seq(ViewNames) \ {<<>>}
    /\ Modes \subseteq [forced : BOOLEAN, overlap : BOOLEAN, serial : BOOLEAN]

VARIABLES
    mode,           \* how they work: whether operators switch with --force, whether a
                    \* command of one may start before another's has ended (nothing in the
                    \* code stops it), whether a command starts only when none runs at all
    rows,           \* deployments FINAL: the latest row of each version
    gone,           \* the objects cleanup has dropped
    view,           \* the version each API view reads, NoVersion: no such view
    aside,          \* the same for the <view>_next views
    job             \* the command each process runs

vars == <<mode, rows, gone, view, aside, job>>

Processes == Operators \cup Cleaners
NoVersion == 0
Places == 1..Len(ApiViews)

\* retired: whether the last retirement is older than the grace; tables: whether
\* tables_dropped_at is set.
Row == [state : {"none", "building", "ready", "active", "retired", "dropped"},
        retired : {"null", "recent", "expired"}, tables : BOOLEAN]
NoRow == [state |-> "none", retired |-> "null", tables |-> FALSE]

Objects == {"event_price", "price_watermark", "envio"} \X Nat
ObjectsOf(v) == {<<"event_price", v>>, <<"price_watermark", v>>, <<"envio", Database[v]>>}

\* What the API view at place i reads when it was created for version v.
Reads == [user_timeline_api |-> {"event_price", "envio"}, product_contracts_api |-> {"envio"},
          api_status |-> {"price_watermark"}]
Names(i, v) == IF v = NoVersion THEN {} ELSE {object \in ObjectsOf(v) : object[1] \in Reads[ApiViews[i]]}

\* A command: the statement it is at, its version, the rows it listed when it started,
\* the versions it still has to retire or clean up, whether the version's tables were
\* recorded as dropped when it read it again, the places it found a view at, and the
\* place it works on.
Idle == [at |-> "idle", version |-> NoVersion, list |-> [v \in Versions |-> NoRow],
         rest |-> {}, tables |-> FALSE, have |-> {}, place |-> 0]
SwitchSteps == {"activate", "retire", "view", "createNext", "exchange", "dropNext"}
CleanSteps == {"users", "eventPrice", "priceWatermark", "recordTables", "database", "record"}
Steps == {"idle", "createEventPrice", "createPriceWatermark", "register", "ready", "reread"}
         \cup SwitchSteps \cup CleanSteps
Jobs == [at : Steps, version : Versions \cup {NoVersion}, list : [Versions -> Row],
         rest : SUBSET Versions, tables : BOOLEAN, have : SUBSET Places, place : Nat]

\* The variables keep their types; a switch never works on a place past the last view.
TypeOK ==
    /\ mode \in [forced : BOOLEAN, overlap : BOOLEAN, serial : BOOLEAN]
    /\ rows \in [Versions -> Row]
    /\ gone \subseteq Objects
    /\ view \in [Places -> Versions \cup {NoVersion}]
    /\ aside \in [Places -> Versions \cup {NoVersion}]
    /\ job \in [Processes -> Jobs]
    /\ \A p \in Processes : job[p].at \in SwitchSteps \ {"activate", "retire"} => job[p].place \in Places

\* A version whose database is not its own can only have been written by hand: it is there
\* from the start, retired long ago, and may have been cleaned up since.
ByHand == {v \in Versions : Database[v] # v}
LongRetired == [state |-> "retired", retired |-> "expired", tables |-> FALSE]

Init ==
    /\ mode \in Modes
    /\ \E cleaned \in SUBSET ByHand :
        /\ rows = [v \in Versions |->
                    IF v \in cleaned THEN [LongRetired EXCEPT !.state = "dropped", !.tables = TRUE]
                    ELSE IF v \in ByHand THEN LongRetired ELSE NoRow]
        /\ gone = {"event_price", "price_watermark"} \X cleaned
    /\ view = [i \in Places |-> NoVersion]
    /\ aside = [i \in Places |-> NoVersion]
    /\ job = [p \in Processes |-> Idle]

-----------------------------------------------------------------------------
(* Commands.                                                               *)

MayStart(p) ==
    /\ job[p] = Idle
    /\ mode.serial => \A q \in Processes : job[q] = Idle
    /\ ~mode.overlap /\ p \in Operators => \A q \in Operators : job[q] = Idle

\* deploy and cleanup use what they listed later on, ready and switch at once.
Starts(at, v) == [Idle EXCEPT !.at = at, !.version = v]
StartsListing(at, v) == [Starts(at, v) EXCEPT !.list = rows]

Goes(p, at) == job' = [job EXCEPT ![p].at = at]
Ends(p) == job' = [job EXCEPT ![p] = Idle]

\* updateDeployment: the row with its state changed, the rest as it is now.
InState(v, state) == [rows EXCEPT ![v].state = state]

\* The process dies, or a statement fails (whether or not the server applied it: then
\* its own step was taken first).
Crash(p) ==
    /\ job[p] # Idle
    /\ Ends(p)
    /\ UNCHANGED <<mode, rows, gone, view, aside>>

\* Every command has ended, and from here on they run one at a time: what the docs of a
\* switch promise of running it again is asked of whatever was left behind.
Calm ==
    /\ \A p \in Processes : job[p] = Idle
    /\ ~mode.serial
    /\ mode' = [mode EXCEPT !.serial = TRUE, !.overlap = FALSE]
    /\ UNCHANGED <<rows, gone, view, aside, job>>

\* The grace (hours) passes after a retirement, while no command but a cleanup (a worker's
\* cleanup can take that long) is running: the others take minutes.  (Of a version in use
\* nobody asks how long ago it was retired.)
Expire(v) ==
    /\ rows[v].state = "retired" /\ rows[v].retired = "recent"
    /\ \A p \in Operators : job[p].at \in {"idle", "reread"} \cup CleanSteps
    /\ rows' = [rows EXCEPT ![v].retired = "expired"]
    /\ UNCHANGED <<mode, gone, view, aside, job>>

-----------------------------------------------------------------------------
(* deploy and ready.                                                       *)

\* deploy up to its first statement: refused for a database not the version's own and
\* for a version that was dropped.
Deploy(p, v) ==
    /\ MayStart(p)
    /\ Database[v] = v
    /\ rows[v].state # "dropped"
    /\ job' = [job EXCEPT ![p] = StartsListing("createEventPrice", v)]
    /\ UNCHANGED <<mode, rows, gone, view, aside>>

CreateEventPrice(p) ==
    /\ job[p].at = "createEventPrice"
    /\ gone' = gone \ {<<"event_price", job[p].version>>}
    /\ Goes(p, "createPriceWatermark")
    /\ UNCHANGED <<mode, rows, view, aside>>

\* A version is registered only by a deploy that did not find it.
RegistersAlways(p) == TRUE
Registers(p) == job[p].list[job[p].version].state = "none"

CreatePriceWatermark(p) ==
    /\ job[p].at = "createPriceWatermark"
    /\ gone' = gone \ {<<"price_watermark", job[p].version>>}
    /\ IF Registers(p) THEN Goes(p, "register") ELSE Ends(p)
    /\ UNCHANGED <<mode, rows, view, aside>>

Register(p) ==
    /\ job[p].at = "register"
    /\ rows' = [rows EXCEPT ![job[p].version] = [NoRow EXCEPT !.state = "building"]]
    /\ Ends(p)
    /\ UNCHANGED <<mode, gone, view, aside>>

\* markReady up to the gate, which may also refuse.
Ready(p, v) ==
    /\ MayStart(p)
    /\ rows[v].state = "building"
    /\ job' = [job EXCEPT ![p] = Starts("ready", v)]
    /\ UNCHANGED <<mode, rows, gone, view, aside>>

MarkReady(p) ==
    /\ job[p].at = "ready"
    /\ rows' = InState(job[p].version, "ready")
    /\ Ends(p)
    /\ UNCHANGED <<mode, gone, view, aside>>

-----------------------------------------------------------------------------
(* switch.                                                                 *)

\* Every other version it found active, also those an interrupted switch left.
OnlyTheFirstActive(v) ==
    LET active == {d \in Versions : rows[d].state = "active"}
    IN  IF active = {} THEN {} ELSE {Min(active)} \ {v}
OtherActives(v) == {d \in Versions \ {v} : rows[d].state = "active"}

\* switchVersion up to the gate (which may also refuse): refused for a version that is
\* dropped or being dropped, and, unless forced, for one neither ready nor active.
Switch(p, v) ==
    /\ MayStart(p)
    /\ rows[v].state \notin {"none", "dropped"}
    /\ ~rows[v].tables
    /\ rows[v].state \in {"ready", "active"} \/ mode.forced
    /\ job' = [job EXCEPT ![p] =
                [Starts(IF rows[v].state = "active" THEN "retire" ELSE "activate", v)
                    EXCEPT !.rest = OtherActives(v)]]
    /\ UNCHANGED <<mode, rows, gone, view, aside>>

Activate(p) ==
    /\ job[p].at = "activate"
    /\ rows' = InState(job[p].version, "active")
    /\ Goes(p, "retire")
    /\ UNCHANGED <<mode, gone, view, aside>>

Retire(p) ==
    /\ job[p].at = "retire"
    /\ job[p].rest # {}
    /\ LET d == Min(job[p].rest) IN
        /\ rows' = [rows EXCEPT ![d].state = "retired", ![d].retired = "recent"]
        /\ job' = [job EXCEPT ![p].rest = @ \ {d}]
    /\ UNCHANGED <<mode, gone, view, aside>>

\* The existing views are listed once, for all of them.
ListViews(p) ==
    /\ job[p].at = "retire"
    /\ job[p].rest = {}
    /\ job' = [job EXCEPT ![p].at = "view", ![p].place = 1,
                          ![p].have = {i \in Places : view[i] # NoVersion}]
    /\ UNCHANGED <<mode, rows, gone, view, aside>>

\* On to the next view, or done.
NextView(p) ==
    IF job[p].place = Len(ApiViews) THEN Ends(p)
    ELSE job' = [job EXCEPT ![p].at = "view", ![p].place = @ + 1]

\* ClickHouse resolves what a view reads when it creates it, but for a parameterized one.
Creatable(i, v) == ApiViews[i] = "user_timeline_api" \/ Names(i, v) \cap gone = {}

\* A view that did not exist is created under its own name; CREATE VIEW fails if it
\* does by now (then only Crash is left).
CreateView(p) ==
    LET i == job[p].place IN
    /\ job[p].at = "view"
    /\ i \notin job[p].have
    /\ view[i] = NoVersion
    /\ Creatable(i, job[p].version)
    /\ view' = [view EXCEPT ![i] = job[p].version]
    /\ NextView(p)
    /\ UNCHANGED <<mode, rows, gone, aside>>

DropLeftover(p) ==
    LET i == job[p].place IN
    /\ job[p].at = "view"
    /\ i \in job[p].have
    /\ aside' = [aside EXCEPT ![i] = NoVersion]
    /\ Goes(p, "createNext")
    /\ UNCHANGED <<mode, rows, gone, view>>

CreateNext(p) ==
    LET i == job[p].place IN
    /\ job[p].at = "createNext"
    /\ aside[i] = NoVersion
    /\ Creatable(i, job[p].version)
    /\ aside' = [aside EXCEPT ![i] = job[p].version]
    /\ Goes(p, "exchange")
    /\ UNCHANGED <<mode, rows, gone, view>>

\* EXCHANGE TABLES fails when either is missing.
Exchange(p) ==
    LET i == job[p].place IN
    /\ job[p].at = "exchange"
    /\ view[i] # NoVersion /\ aside[i] # NoVersion
    /\ view' = [view EXCEPT ![i] = aside[i]]
    /\ aside' = [aside EXCEPT ![i] = view[i]]
    /\ Goes(p, "dropNext")
    /\ UNCHANGED <<mode, rows, gone>>

DropNext(p) ==
    LET i == job[p].place IN
    /\ job[p].at = "dropNext"
    /\ aside[i] # NoVersion
    /\ aside' = [aside EXCEPT ![i] = NoVersion]
    /\ NextView(p)
    /\ UNCHANGED <<mode, rows, gone, view>>

-----------------------------------------------------------------------------
(* cleanup.                                                                *)

ExpiredAnyTime(list) == {v \in Versions : list[v].state = "retired" /\ list[v].retired # "null"}
Expired(list) == {v \in Versions : list[v].state = "retired" /\ list[v].retired = "expired"}

Cleanup(p) ==
    /\ MayStart(p)
    /\ job' = [job EXCEPT ![p] = [StartsListing("reread", NoVersion) EXCEPT !.rest = Expired(rows)]]
    /\ UNCHANGED <<mode, rows, gone, view, aside>>

\* On to the next expired version.
Done(p) == job' = [job EXCEPT ![p].at = "reread", ![p].rest = @ \ {job[p].version},
                              ![p].version = NoVersion, ![p].tables = FALSE]

\* The state is read again: only a version still retired goes on.
Reread(p) ==
    /\ job[p].at = "reread"
    /\ job[p].rest # {}
    /\ LET v == Min(job[p].rest) IN
        job' = IF rows[v].state = "retired"
               THEN [job EXCEPT ![p].at = "users", ![p].version = v, ![p].tables = rows[v].tables]
               ELSE [job EXCEPT ![p].rest = @ \ {v}]
    /\ UNCHANGED <<mode, rows, gone, view, aside>>

\* Some view of ours, a _next view included, names what the version would lose.
InUseByTimeline(v) == Names(1, view[1]) \cap ObjectsOf(v) # {}
InUse(v) == \E i \in Places : (Names(i, view[i]) \cup Names(i, aside[i])) \cap ObjectsOf(v) # {}

\* Tables already recorded as dropped are skipped.
AfterUsersSkips(p) == IF job[p].tables THEN Done(p) ELSE Goes(p, "eventPrice")
AfterUsers(p) == Goes(p, IF job[p].tables THEN "database" ELSE "eventPrice")

FindUsers(p) ==
    /\ job[p].at = "users"
    /\ IF InUse(job[p].version) THEN Done(p) ELSE AfterUsers(p)
    /\ UNCHANGED <<mode, rows, gone, view, aside>>

DropEventPrice(p) ==
    /\ job[p].at = "eventPrice"
    /\ gone' = gone \cup {<<"event_price", job[p].version>>}
    /\ Goes(p, "priceWatermark")
    /\ UNCHANGED <<mode, rows, view, aside>>

DropPriceWatermark(p) ==
    /\ job[p].at = "priceWatermark"
    /\ gone' = gone \cup {<<"price_watermark", job[p].version>>}
    /\ Goes(p, "recordTables")
    /\ UNCHANGED <<mode, rows, view, aside>>

RecordTables(p) ==
    /\ job[p].at = "recordTables"
    /\ rows' = [rows EXCEPT ![job[p].version].tables = TRUE]
    /\ Goes(p, "database")
    /\ UNCHANGED <<mode, gone, view, aside>>

\* Another version, neither dropped nor expired when the cleanup listed them, is on the
\* same database.
SharedByRetired(p) ==
    LET list == job[p].list IN
    \E d \in Versions \ Expired(list) :
        /\ list[d].state = "retired"
        /\ Database[d] = Database[job[p].version]
Shared(p) ==
    LET list == job[p].list IN
    \E d \in Versions \ Expired(list) :
        /\ list[d].state \notin {"none", "dropped"}
        /\ Database[d] = Database[job[p].version]

KeepShared(p) ==
    /\ job[p].at = "database"
    /\ Shared(p)
    /\ rows' = InState(job[p].version, "dropped")
    /\ Done(p)
    /\ UNCHANGED <<mode, gone, view, aside>>

\* A database that is not <prefix><N> of the version itself is never dropped.
Droppable(v) == Database[v] = v

RefuseDatabase(p) ==
    /\ job[p].at = "database"
    /\ ~Shared(p)
    /\ ~Droppable(job[p].version)
    /\ Done(p)
    /\ UNCHANGED <<mode, rows, gone, view, aside>>

DropDatabase(p) ==
    /\ job[p].at = "database"
    /\ ~Shared(p)
    /\ Droppable(job[p].version)
    /\ gone' = gone \cup {<<"envio", Database[job[p].version]>>}
    /\ Goes(p, "record")
    /\ UNCHANGED <<mode, rows, view, aside>>

RecordDropped(p) ==
    /\ job[p].at = "record"
    /\ rows' = InState(job[p].version, "dropped")
    /\ Done(p)
    /\ UNCHANGED <<mode, gone, view, aside>>

EndCleanup(p) ==
    /\ job[p].at = "reread"
    /\ job[p].rest = {}
    /\ Ends(p)
    /\ UNCHANGED <<mode, rows, gone, view, aside>>

-----------------------------------------------------------------------------
Operate(p) ==
    \/ \E v \in Versions : Deploy(p, v) \/ Ready(p, v) \/ Switch(p, v)
    \/ CreateEventPrice(p) \/ CreatePriceWatermark(p) \/ Register(p) \/ MarkReady(p)
    \/ Activate(p) \/ Retire(p) \/ ListViews(p)
    \/ CreateView(p) \/ DropLeftover(p) \/ CreateNext(p) \/ Exchange(p) \/ DropNext(p)

Clean(p) ==
    \/ Cleanup(p) \/ Reread(p) \/ FindUsers(p)
    \/ DropEventPrice(p) \/ DropPriceWatermark(p) \/ RecordTables(p)
    \/ KeepShared(p) \/ RefuseDatabase(p) \/ DropDatabase(p) \/ RecordDropped(p)
    \/ EndCleanup(p)

Next ==
    \/ \E p \in Operators : Operate(p)
    \/ \E p \in Cleaners : Clean(p)
    \/ \E p \in Processes : Crash(p)
    \/ \E v \in Versions : Expire(v)
    \/ Calm

Spec == Init /\ [][Next]_vars

-----------------------------------------------------------------------------
(* Properties.                                                             *)

\* Nothing an API view reads has been dropped: the version it was created for keeps its
\* tables and its Envio database, whatever became of its state.
ServedNotDropped ==
    \A i \in Places : Names(i, view[i]) \cap gone = {}

\* From the moment cleanup has read a version again until it records it dropped, the
\* version stays retired for longer than the grace: no switch takes it back meanwhile.
CleaningExpired ==
    \A p \in Cleaners : job[p].at \in CleanSteps =>
        LET r == rows[job[p].version] IN
        \/ r.state = "retired" /\ r.retired = "expired"
        \/ r.state = "dropped"

\* While no switch is forced, nothing an API view reads has been dropped, and no version is
\* cleaned up that a switch took back: cleanup's look at the views and switchVersion's order
\* of state and views are enough, though nothing locks (deployments.ts:1217-1231, 488-495).
NothingServedDropped == ~mode.forced => ServedNotDropped /\ CleaningExpired

\* A switch never gets past its checks for a version whose tables are missing
\* (switchVersion's doc: refused "always for a dropped one or one whose tables are missing").
RefusesMissingTables ==
    [][\A p \in Operators :
        job[p] = Idle /\ job'[p].at \in {"activate", "retire"}
            => gone \cap {<<"event_price", job'[p].version>>, <<"price_watermark", job'[p].version>>} = {}]_vars

\* Cleanup never drops an object of an active version (switchVersion's doc: "once the
\* target is `active`, cleanup [...] leaves it alone").
ActiveLeftAlone ==
    [][\A v \in Versions :
        rows[v].state = "active" => ObjectsOf(v) \cap (gone' \ gone) = {}]_vars

\* Commands one at a time, or none that forces.
Orderly == mode.serial \/ ~mode.forced

\* An Envio database is dropped only when no version on it may be used any more: each is
\* dropped or retired for longer than the grace (cleanup's `shared`).
DropOnlyUnused ==
    \A v \in Versions :
        <<"envio", Database[v]>> \in gone' \ gone
            => \/ rows[v].state \in {"none", "dropped"}
               \/ rows[v].state = "retired" /\ rows[v].retired = "expired"
DropsOnlyUnused == [][Orderly => DropOnlyUnused]_vars

\* The states a version goes through: one way, but for a forced switch back.
Forward ==
    {<<"none", "building">>, <<"building", "ready">>, <<"ready", "active">>,
     <<"active", "retired">>, <<"retired", "dropped">>}
Back == {<<"building", "active">>, <<"retired", "active">>}

\* No command takes a version back in its lifecycle; only --force leaves the order.
StatesForward ==
    \A v \in Versions :
        rows'[v].state # rows[v].state =>
            <<rows[v].state, rows'[v].state>> \in Forward \cup (IF mode.forced THEN Back ELSE {})

\* What cleanup may take: dropped already, or retired for longer than the grace.
Spent(v) ==
    \/ rows[v].state = "dropped"
    \/ rows[v].state = "retired" /\ rows[v].retired = "expired"
SpentForGood == \A v \in Versions : Spent(v) => Spent(v)'

\* Commands one at a time, or operators who take turns and force nothing.
InTurn == mode.serial \/ (~mode.forced /\ ~mode.overlap)

\* Operators who take turns, also next to a cleanup at any moment of theirs, keep every
\* version to its lifecycle.  Operators whose commands overlap do not (ReadyOnlyBuilding),
\* but while none forces, no slow deploy, ready or switch brings back a version that is
\* dropped or has been retired for longer than the grace.
KeepsLifecycle ==
    /\ InTurn => StatesForward
    /\ ~mode.forced => SpentForGood
LifecycleForward == [][KeepsLifecycle]_vars

\* markReady writes over a building version only ("Marks a building version ready", and
\* "version N is X, not building" of any other): operators that overlap.
ReadyOnlyBuilding ==
    [][\A p \in Operators, v \in Versions :
        job[p].at = "ready" /\ job[p].version = v /\ rows'[v].state = "ready"
            => rows[v].state \in {"building", "ready"}]_vars

\* The step that puts the last view in place (CreateView) or drops the old one (DropNext).
FinishesSwitch(p) ==
    /\ job[p].at \in {"view", "dropNext"}
    /\ job'[p] = Idle
    /\ view' # view \/ aside' # aside

\* A switch that runs to its end leaves its version the only active one and every view
\* on it, whatever interrupted switches left behind (switchVersion's doc: "running the
\* same switch again converges").
SwitchConverged ==
    \A p \in Operators :
        FinishesSwitch(p)
            => /\ {v \in Versions : rows'[v].state = "active"} = {job[p].version}
               /\ \A i \in Places : view'[i] = job[p].version /\ aside'[i] = NoVersion

\* A cleanup that runs to its end leaves every version that was expired when it started
\* either dropped, with its database gone, or kept for a reason: a view names it or its
\* database is not its own.  This is how an interrupted cleanup "just runs again".
CleanupConverged ==
    \A p \in Cleaners :
        job[p].at = "reread" /\ job'[p] = Idle /\ job[p].rest = {}
            => \A v \in Expired(job[p].list) :
                \/ rows[v].state = "dropped" /\ <<"envio", Database[v]>> \in gone
                \/ rows[v].state = "dropped" /\ \E d \in Versions \ {v} : Database[d] = Database[v]
                \/ InUse(v)
                \/ ~Droppable(v) /\ rows[v].tables

\* "running the same switch again converges" (deployments.ts:491-493): commands one at a time
\* that run to their end put right whatever interrupted ones left.
RerunsConverge == [][mode.serial => SwitchConverged /\ CleanupConverged]_vars
=============================================================================
