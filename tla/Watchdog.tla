-------------------------------- MODULE Watchdog -------------------------------
(***************************************************************************)
(* The liveness watchdog: src/tools/monitor_watchdog.py, a task of its own    *)
(* that is started every minute, and src/app/liveness.py, by which it judges  *)
(* the heartbeat the monitor leaves after every tick                          *)
(* (src/app/miner_monitor.py:4601-4637).                                     *)
(*                                                                         *)
(* One unit of time is the period of a tick.  The task is never started while *)
(* an instance of it runs (install_watchdog_task.ps1), and its calls are       *)
(* bounded by seconds, so that a run ends within the unit; everything else     *)
(* that happens in this unit may come between its steps.  The clock of the     *)
(* host does not jump, and the collector, one more worker with a threshold of  *)
(* its own, is left out.                                                     *)
(***************************************************************************)
EXTENDS Integers, Sequences, FiniteSets

CONSTANTS
    Stale,       \* tick_stale_seconds and worker_stale_seconds
    Period,      \* of the scheduled task
    Schedule,    \* reminder_schedule_seconds, as _reminder_schedule leaves it
    MaxLease,    \* maintenance_max_seconds
    MaxFaults, MaxNow   \* bounds

ASSUME WatchdogAssumption ==
    /\ Stale \in Nat /\ Period \in Nat \ {0} /\ MaxLease \in Nat
    /\ Schedule \in Seq(Nat \ {0}) /\ Schedule # <<>>
    /\ \A i, j \in DOMAIN Schedule : i < j => Schedule[i] < Schedule[j]
    /\ MaxFaults \in Nat /\ MaxNow \in Nat

NoTs == -1
Ts == Nat \cup {NoTs}
Workers == {"poller", "sender"}

Later(a, b) == IF a >= b THEN a ELSE b

Heartbeat == [pid : Nat, tick : Ts, poller : Ts, sender : Ts]
NoHeartbeat == [pid |-> 0, tick |-> NoTs, poller |-> NoTs, sender |-> NoTs]

Reason == {"service_stopped", "process_missing", "heartbeat_missing", "tick_stale", "poller_stale", "sender_stale"}

\* WatchdogIncidentState; opened_ts and last_seen_ts decide nothing.
Incident == [open : BOOLEAN, reasons : SUBSET Reason, notified : Ts, count : Nat]
Closed == [open |-> FALSE, reasons |-> {}, notified |-> NoTs, count |-> 0]

Resting == [at |-> "idle", event |-> "none", new |-> Closed]
-------------------------------------------------------------------------------
VARIABLES
    now,
    alive, pid, stuck,   \* the monitor: its process, and which of its threads hang
    seen,                \* _TELEGRAM_POLLER_TS and _TELEGRAM_SENDER_TS
    heartbeat,           \* the heartbeat file
    lease,               \* expires_ts of the maintenance file
    file,                \* the watchdog's state file
    run,                 \* the run in progress: [at, event, new]
    dueAt,               \* when the task is started next
    (* observation variables *)
    told,      \* [down, at]: what the operator believes since the last message that arrived
    ticked,    \* when the monitor last completed a tick
    quiet,     \* last moment of a maintenance the operator asked for
    disturbed, \* when a message or a run of the watchdog last failed
    diverged,  \* the last message that arrived is one the state file does not know of
    faults

monitor == <<alive, pid, stuck, seen, heartbeat, ticked>>
task == <<file, run, dueAt>>
vars == <<now, monitor, lease, task, told, quiet, disturbed, diverged, faults>>

Due == run.at = "idle" /\ now >= dueAt

Init ==
    /\ now = 1 /\ alive = TRUE /\ pid = 1 /\ stuck = {}
    /\ seen = [w \in Workers |-> now] /\ heartbeat = NoHeartbeat
    /\ lease = NoTs /\ file = Closed /\ run = Resting /\ dueAt = 2
    /\ told = [down |-> FALSE, at |-> NoTs] /\ ticked = 1 /\ quiet = NoTs
    /\ disturbed = NoTs /\ diverged = FALSE /\ faults = 0

Fault == faults < MaxFaults /\ faults' = faults + 1
-------------------------------------------------------------------------------
(* The monitor *)

Completes == alive /\ "tick" \notin stuck

\* A unit passes: what does not hang makes progress, and a completed tick leaves a heartbeat.
Advance ==
    /\ now < MaxNow /\ run.at = "idle" /\ ~Due
    /\ now' = now + 1
    /\ seen' = [w \in Workers |-> IF alive /\ w \notin stuck THEN now' ELSE seen[w]]
    /\ heartbeat' = IF Completes
                    THEN [pid |-> pid, tick |-> now', poller |-> seen'["poller"], sender |-> seen'["sender"]]
                    ELSE heartbeat
    /\ ticked' = IF Completes THEN now' ELSE ticked
    /\ UNCHANGED <<alive, pid, stuck, lease, task, told, quiet, disturbed, diverged, faults>>

Hang(t) ==
    /\ Fault /\ alive /\ t \notin stuck
    /\ stuck' = stuck \cup {t}
    /\ UNCHANGED <<now, alive, pid, seen, heartbeat, ticked, lease, task, told, quiet, disturbed, diverged>>

Resume ==
    /\ stuck # {} /\ stuck' = {}
    /\ UNCHANGED <<now, alive, pid, seen, heartbeat, ticked, lease, task, told, quiet, disturbed, diverged, faults>>

Die ==
    /\ Fault /\ alive /\ alive' = FALSE /\ stuck' = {}
    /\ UNCHANGED <<now, pid, seen, heartbeat, ticked, lease, task, told, quiet, disturbed, diverged>>

\* The service is started again; the heartbeat of the old process is still there.
Start ==
    /\ ~alive /\ alive' = TRUE /\ pid' = pid + 1
    /\ seen' = [w \in Workers |-> NoTs]
    /\ UNCHANGED <<now, stuck, heartbeat, ticked, lease, task, told, quiet, disturbed, diverged, faults>>
-------------------------------------------------------------------------------
(* monitor_watchdog.py with --maintenance-seconds and --clear-maintenance *)

Bounded(d) == IF d > MaxLease THEN MaxLease ELSE d

SetMaintenance ==
    /\ \E d \in {1, MaxLease + 3} :
        /\ lease' = now + Bounded(d)
        /\ quiet' = Later(quiet, now + IF d > MaxLease THEN MaxLease ELSE d)
    /\ UNCHANGED <<now, monitor, task, told, disturbed, diverged, faults>>

ClearMaintenance ==
    /\ lease # NoTs /\ lease' = NoTs
    /\ UNCHANGED <<now, monitor, task, told, quiet, disturbed, diverged, faults>>
-------------------------------------------------------------------------------
(* A run of the task *)

IsStale(ts) == ts = NoTs \/ now - ts > Stale

\* assess_liveness; answered: sc.exe told the state of the service.
Reasons(answered) ==
    {r \in Reason :
        CASE r = "service_stopped"   -> ~(alive /\ answered)
          [] r = "process_missing"   -> ~(alive /\ heartbeat.pid = pid)
          [] r = "heartbeat_missing" -> heartbeat = NoHeartbeat
          [] r = "tick_stale"        -> heartbeat # NoHeartbeat /\ now - heartbeat.tick > Stale
          [] r = "poller_stale"      -> heartbeat # NoHeartbeat /\ IsStale(heartbeat.poller)
          [] r = "sender_stale"      -> heartbeat # NoHeartbeat /\ IsStale(heartbeat.sender)}

\* Mutant: a lease counts as long as its file is there.
LeaseExists == lease # NoTs

MaintenanceActive == lease # NoTs /\ now <= lease

\* Mutant: nothing is due after the last interval.
GapOnce(count) == IF count > Len(Schedule) THEN MaxNow ELSE Schedule[Later(count, 1)]

Gap(count) == Schedule[IF count > Len(Schedule) THEN Len(Schedule) ELSE Later(count, 1)]

Noticed(event, reasons, count) ==
    [event |-> event, new |-> [open |-> TRUE, reasons |-> reasons, notified |-> now, count |-> count]]

Leave(incident) == [event |-> "none", new |-> incident]

\* decide_notification
Decision(reasons) ==
    IF reasons # {} /\ MaintenanceActive THEN Leave(file)
    ELSE IF reasons = {} THEN (IF file.open THEN [event |-> "recovery", new |-> Closed] ELSE Leave(file))
    ELSE IF ~file.open THEN Noticed("open", reasons, 1)
    ELSE IF reasons # file.reasons THEN Noticed("update", reasons, file.count + 1)
    ELSE IF now - file.notified >= Gap(file.count) THEN Noticed("reminder", reasons, file.count + 1)
    ELSE Leave(file)

Check ==
    /\ Due
    /\ \E answered \in BOOLEAN :
        /\ IF answered THEN UNCHANGED faults ELSE Fault
        /\ LET d == Decision(Reasons(answered))
           IN  run' = [at |-> IF d.event = "none" THEN "writing" ELSE "sending", event |-> d.event, new |-> d.new]
    /\ UNCHANGED <<now, monitor, lease, file, dueAt, told, quiet, disturbed, diverged>>

Arrives == told' = [down |-> run.event # "recovery", at |-> now]

Sent ==
    /\ run.at = "sending" /\ run' = [run EXCEPT !.at = "writing"]
    /\ Arrives /\ diverged' = FALSE
    /\ UNCHANGED <<now, monitor, lease, file, dueAt, quiet, disturbed, faults>>

\* Mutant: the state advances although nothing was sent.
Advanced == run.new

Unsent == file

\* The post failed, or only its answer was lost; either way the old state is kept.
SendFails ==
    /\ Fault
    /\ run.at = "sending" /\ run' = [run EXCEPT !.at = "writing", !.new = Unsent]
    /\ disturbed' = now
    /\ \/ UNCHANGED <<told, diverged>>
       \/ Arrives /\ diverged' = TRUE
    /\ UNCHANGED <<now, monitor, lease, file, dueAt, quiet>>

Write ==
    /\ run.at = "writing"
    /\ file' = run.new /\ run' = Resting /\ dueAt' = now + Period
    /\ UNCHANGED <<now, monitor, lease, told, quiet, disturbed, diverged, faults>>

\* The run is killed; a message that was sent is not in the state file.
Killed ==
    /\ Fault
    /\ run.at # "idle" /\ run' = Resting /\ dueAt' = now + Period
    /\ disturbed' = now
    /\ diverged' = (diverged \/ (run.at = "writing" /\ run.new # file))
    /\ UNCHANGED <<now, monitor, lease, file, told, quiet>>

Next ==
    \/ Advance \/ Resume \/ Die \/ Start
    \/ \E t \in Workers \cup {"tick"} : Hang(t)
    \/ SetMaintenance \/ ClearMaintenance
    \/ Check \/ Sent \/ SendFails \/ Write \/ Killed

Spec == Init /\ [][Next]_vars
-------------------------------------------------------------------------------
TypeOK ==
    /\ now \in Nat /\ ticked \in Nat /\ dueAt \in Nat /\ faults \in Nat
    /\ alive \in BOOLEAN /\ pid \in Nat /\ stuck \subseteq Workers \cup {"tick"}
    /\ seen \in [Workers -> Ts] /\ heartbeat \in Heartbeat /\ lease \in Ts /\ file \in Incident
    /\ run \in [at : {"idle", "sending", "writing"},
                event : {"none", "open", "update", "reminder", "recovery"}, new : Incident]
    /\ told \in [down : BOOLEAN, at : Ts]
    /\ quiet \in Ts /\ disturbed \in Ts /\ diverged \in BOOLEAN

AfterRun == run.at = "idle" /\ ~Due

LastGap == Schedule[Len(Schedule)]

\* A monitor that completes no tick is reported within one run of its heartbeat going stale,
\* whatever is the matter with it, unless maintenance, which ends by itself, or a failed
\* message stands in between; then within one run of the last of these.  When a recovery
\* arrived that the state file does not know of, an outage for the same reasons passes for the
\* old one, and is reported when a reminder of that is due.
AlarmInTime ==
    AfterRun /\ now > Later(Later(ticked + Stale, quiet), disturbed + IF diverged THEN LastGap ELSE 0) + Period
        => told.down

\* The operator is never left with an alarm the watchdog has forgotten: as long as the last
\* message that arrived was acknowledged, an alarm is told exactly while the file says so.
AlarmIsRemembered == AfterRun /\ ~diverged => (told.down <=> file.open)

\* An outage that was announced is repeated for as long as it lasts, at the latest at the
\* last interval of the schedule, maintenance and failed messages apart.
RemindedInTime ==
    AfterRun /\ told.down /\ ~diverged /\ now > Later(quiet, disturbed) + Period =>
        now - told.at < LastGap + Period
===============================================================================
