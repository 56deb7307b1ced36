-------------------------------- MODULE Worker --------------------------------
(***************************************************************************)
(* The worker process: its scheduler (apps/worker/src/scheduler.ts), its   *)
(* shutdown (main.ts), and what its version status job says of a version   *)
(* (jobs/versionStatus.ts, over packages/clickhouse/src/monitoring.ts):    *)
(* "the warnings are what the log drain alerts on".                        *)
(*                                                                         *)
(* Time is counted in half minutes, which is as fine as the rounding of    *)
(* the stalled chains' minutes tells apart, and ages stop at the longest   *)
(* alert, so that the process may run for ever.  A report is one step: it  *)
(* reads for seconds where the alerts are minutes and hours.               *)
(***************************************************************************)
EXTENDS Naturals, FiniteSets

CONSTANTS
    StallAlert,         \* chainStallAlertMinutes, in minutes
    WatermarkAlert,     \* watermarkAlertSeconds, in half minutes
    BuildingAlert       \* buildingAlertHours, in half minutes

WorkerAssumption == {StallAlert, WatermarkAlert, BuildingAlert} \subseteq Nat \ {0}

Jobs == {"advance", "version-status"}
States == {"building", "active", "retired"}

Alerts == {2 * StallAlert, WatermarkAlert, BuildingAlert}
Longest == CHOOSE n \in Alerts : \A m \in Alerts : m <= n
Never == Longest + 2    \* the age of what has not been: no watermark, not in the progress Map

VARIABLES
    running,    \* per job, its runs in progress
    timers,     \* the jobs with a timer
    aborted,    \* the controller's signal
    process,    \* "up", "closed" (the client is), "exited"
    state,      \* of the version
    created,    \* how long ago it was deployed
    watermark,  \* the age of its watermark
    moved,      \* its checkpoint differs from the one seen last
    movedAt,    \* how long ago the job saw it move (`progress`)
    still,      \* how long it has not moved
    warned      \* the warnings of the last report

scheduler == <<running, timers, aborted, process>>
version == <<state, created, watermark, moved, still>>
vars == <<scheduler, version, movedAt, warned>>

Init ==
    /\ running = [j \in Jobs |-> 1]
    /\ timers = {}
    /\ aborted = FALSE
    /\ process = "up"
    /\ state = "building" /\ created = 0 /\ watermark = Never
    /\ moved = TRUE /\ movedAt = Never /\ still = 0
    /\ warned = {}

-----------------------------------------------------------------------------
ScheduleAnyway(j) ==
    /\ running' = [running EXCEPT ![j] = @ - 1]
    /\ timers' = timers \cup {j}

\* The `finally` of a run: a timer for the next one, unless the worker stops.
Schedule(j) ==
    /\ running' = [running EXCEPT ![j] = @ - 1]
    /\ timers' = IF aborted THEN timers ELSE timers \cup {j}
FailForGood(j) ==
    /\ process # "exited" /\ running[j] > 0
    /\ running' = [running EXCEPT ![j] = @ - 1]
    /\ UNCHANGED <<timers, aborted, process, version, movedAt, warned>>

\* A run that fails; for the advance, also one that does not move the watermark (no event yet).
Fail(j) ==
    /\ process # "exited" /\ running[j] > 0
    /\ Schedule(j)
    /\ UNCHANGED <<aborted, process, version, movedAt, warned>>

Advance ==
    /\ process = "up" /\ running["advance"] > 0
    /\ watermark' = 0
    /\ Schedule("advance")
    /\ UNCHANGED <<aborted, process, state, created, moved, still, movedAt, warned>>

\* versionReport: the lines of the version that warn.
Line(kind, condition) == IF condition THEN {kind} ELSE {}
NeverMissing == FALSE
Missing == watermark = Never /\ state # "building" /\ created > WatermarkAlert
VersionReport ==
    Line("watermark-old", watermark # Never /\ watermark > WatermarkAlert)
    \cup Line("watermark-missing", Missing)
    \cup Line("version-stuck-building", state = "building" /\ created > BuildingAlert)
    \cup Line("no-active-version", state # "active")

\* Math.round of an age, in minutes: half a minute and more is one.
RoundedUp(age) == (age + 2) \div 2
Minutes(age) == (age + 1) \div 2

\* stalledChains: a move not seen yet starts the clock again; a retired version is passed over.
SeenBefore == movedAt # Never
Seen == ~moved /\ movedAt # Never
StalledChains ==
    IF state = "retired" THEN warned' = VersionReport /\ UNCHANGED <<movedAt, moved>>
    ELSE /\ movedAt' = IF Seen THEN movedAt ELSE 0
         /\ moved' = FALSE
         /\ warned' = VersionReport \cup Line("chain-stalled", Seen /\ Minutes(movedAt) >= StallAlert)

\* A run of the status job that could read.
Report ==
    /\ process = "up" /\ running["version-status"] > 0
    /\ StalledChains
    /\ Schedule("version-status")
    /\ UNCHANGED <<aborted, process, state, created, watermark, still>>

\* A job's timer.
Loop(j) ==
    /\ process # "exited" /\ j \in timers
    /\ timers' = timers \ {j}
    /\ running' = [running EXCEPT ![j] = @ + 1]
    /\ UNCHANGED <<aborted, process, version, movedAt, warned>>

-----------------------------------------------------------------------------
\* SIGTERM or SIGINT, any number of them.
Stop ==
    /\ process # "exited"
    /\ aborted' = TRUE
    /\ timers' = {}
    /\ UNCHANGED <<running, process, version, movedAt, warned>>

Idle == \A j \in Jobs : running[j] = 0
\* The runs have returned: the client is closed, then the process ends.
Close ==
    /\ aborted /\ Idle /\ process = "up"
    /\ process' = "closed"
    /\ UNCHANGED <<running, timers, aborted, version, movedAt, warned>>
\* After that, or shutdownGraceSeconds after a signal.
Exit ==
    /\ aborted /\ process # "exited"
    /\ process' = "exited"
    /\ UNCHANGED <<running, timers, aborted, version, movedAt, warned>>

-----------------------------------------------------------------------------
\* Envio commits on the chain.
Move ==
    /\ moved' = TRUE /\ still' = 0
    /\ UNCHANGED <<scheduler, state, created, watermark, movedAt, warned>>
\* `bee deployments`: ready and switch, retire, switch back.
Turn(s) ==
    /\ s \in {"active", "retired"} /\ s # state
    /\ state' = s
    /\ UNCHANGED <<scheduler, created, watermark, moved, still, movedAt, warned>>

Older(n) == IF n <= Longest THEN n + 1 ELSE n
\* An age stays what it is at Never, and is never taken for it.
Pass ==
    /\ created' = Older(created) /\ still' = Older(still)
    /\ watermark' = IF watermark >= Longest + 1 THEN watermark ELSE watermark + 1
    /\ movedAt' = IF movedAt >= Longest + 1 THEN movedAt ELSE movedAt + 1
    /\ UNCHANGED <<scheduler, state, moved, warned>>

Next ==
    \/ \E j \in Jobs : Fail(j) \/ Loop(j)
    \/ Advance \/ Report \/ Stop \/ Close \/ Exit
    \/ Move \/ Pass \/ \E s \in States : Turn(s)

Spec == Init /\ [][Next]_vars

(* Timers come, statements end (ClickHouse cuts them off), time passes,    *)
(* and the status job can read now and then.                               *)
Fairness ==
    /\ WF_vars(Fail("advance") \/ Advance) /\ WF_vars(Fail("version-status") \/ Report)
    /\ \A j \in Jobs : WF_vars(Loop(j))
    /\ WF_vars(Exit) /\ WF_vars(Pass) /\ SF_vars(Report)
FairSpec == Spec /\ Fairness

-----------------------------------------------------------------------------
\* A job runs once or waits for its timer; once the worker stops nothing is started again, so
\* that no run is left when the client is closed ("a slow run delays the next one instead of
\* overlapping it", scheduler.ts:11-13, 34-55; main.ts:41-49).
NeverOverlaps ==
    /\ \A j \in Jobs : running[j] + (IF j \in timers THEN 1 ELSE 0) \in (IF aborted THEN {0, 1} ELSE {1})
    /\ aborted => timers = {}
    /\ process = "closed" => Idle

\* A report warns that a chain stalled only when it has not moved for the alert's time less the
\* half minute that the rounding gives away, over restarts of the clock, failed reports and
\* versions retired and taken back (versionStatus.ts:27-52).
NoFalseAlarm == [][Report /\ "chain-stalled" \in warned' => still + 1 >= 2 * StallAlert]_vars

\* A job is run again and again, whatever became of its last run, until the worker is told to
\* stop, and then the process ends (scheduler.ts:11-13, 34-42; main.ts:40-49).
RunsUntilStopped ==
    /\ \A j \in Jobs : []<>(aborted \/ running[j] = 1)
    /\ []<>(aborted => process = "exited")

\* A version whose watermark, or (in use) whose chain, stops for good is warned of, whatever its state
\* was then, unless the worker stops (versionStatus.ts:27-31, 54-62).
Silent(kinds) == \A k \in kinds : k \notin warned
StoppedIsWarned ==
    /\ ~(<>[](~aborted /\ state # "retired" /\ still > 2 * StallAlert) /\ <>[]Silent({"chain-stalled"}))
    /\ ~(<>[](~aborted /\ watermark > Longest)
         /\ <>[]Silent({"watermark-old", "watermark-missing", "version-stuck-building"}))
=============================================================================
