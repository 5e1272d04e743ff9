------------------------------ MODULE AutoReboot ------------------------------
(***************************************************************************)
(* The monitor process of src/app/miner_monitor.py as far as automatic      *)
(* reboots are concerned: the main loop (main, lines 3857-4524 and the end   *)
(* of the tick), the confirmed manual reboots the Telegram poller thread     *)
(* runs beside it, state.json, and the process dying and coming back.        *)
(*                                                                         *)
(* The main loop visits the miners 1..N in configuration order.  A visit is  *)
(* cut where another thread or a crash can come in between: Observe (one     *)
(* reading applied to the MinerState), the gate chain that reads the LOW     *)
(* timer again, and the Hashcore CLI call, which takes up to 30 seconds.     *)
(* The whole tick works with the time read when it started, now; the poller   *)
(* and the saves read the clock, which moves on while a tick waits.           *)
(***************************************************************************)
EXTENDS MinerState

CONSTANTS
    N,              \* number of valid miners
    \* what the QA mode replaces: functions of the mode
    LowSustained,   \* low_sustained_seconds
    Cooldown,       \* reboot_cooldown_seconds
    Window,         \* auto_reboot_window_seconds
    SnapshotMaxAge, \* auto_reboot_fleet_snapshot_max_age_seconds
    StartupGuard,   \* startup_guard_seconds
    MaxReboots,     \* max_reboots_per_window
    Attribution,    \* restart_attribution_window_seconds
    StaleAfter,     \* age beyond which load_state ignores state.json (48 h)
    QaModes,        \* the modes the process may be started in
    Readings,       \* the readings the fleet may produce
    Gaps,           \* how long the loop may rest after a tick, and before the first
    Delays,         \* how long a request to a miner or a CLI call may take
    Downtimes,      \* how long the process may stay down
    ManualMiners,   \* the miners the operator reboots by hand
    Updates,        \* whether other Telegram updates arrive
    MaxNow          \* bound: the clock stops here

Fleet == 1..N

\* qa_mode is off, or on without or with qa_allow_real_actions.
QaStates == {"off", "watch", "act"}

ASSUME AutoRebootAssumption ==
    /\ N \in Nat \ {0}
    /\ LowSustained \in [QaStates -> Nat \ {0}] /\ Cooldown \in [QaStates -> Nat \ {0}]
    /\ Window \in [QaStates -> Nat] /\ SnapshotMaxAge \in [QaStates -> Nat \ {0}]
    /\ StartupGuard \in Nat /\ MaxReboots \in Nat \ {0}
    /\ Attribution \in Nat /\ StaleAfter \in Nat
    /\ QaModes \subseteq QaStates
    /\ Readings \subseteq Reading /\ Readings # {}
    /\ Gaps \subseteq Nat \ {0} /\ Downtimes \subseteq Nat \ {0} /\ Delays \subseteq Nat \ {0}
    /\ ManualMiners \subseteq Fleet /\ Updates \in BOOLEAN
    /\ MaxNow \in Nat

\* With the 48 hours of load_state, state.json outlives the cooldown and the attribution.
ASSUME RetentionAssumption ==
    (\A qa \in QaStates : StaleAfter >= Cooldown[qa]) /\ StaleAfter >= Attribution

VARIABLES
    clock,        \* time.time()
    now,          \* now_ts: the clock when the current tick started
    process,      \* what the process fixed at its start: process_start_ts, QA mode
    phase,        \* where the main thread is
    cur,          \* the miner being visited
    reading,      \* its reading, while its visit lasts
    ms,           \* states: one MinerState per miner ...
    known,        \* ... of those that have one yet
    signals,      \* current_tick_signals
    prevSignals,  \* previous_tick_signals
    prevTs,       \* previous_tick_signals_ts
    listed,       \* miners with a line in the snapshot /status shows
    disk,         \* state.json
    poller,       \* the confirmed manual reboot the poller thread is running
    (* observation variables, read by properties only *)
    lowRun,       \* tick that began the current unbroken run of eligible readings
    tickReboots,  \* miners rebooted automatically in this tick
    saved,        \* every reboot a completed save has put on disk
    horizon       \* no window of a tick, and no stale file, reached a reboot since then

vars == <<clock, now, process, phase, cur, reading, ms, known, signals, prevSignals, prevTs,
          listed, disk, poller, lowRun, tickReboots, saved, horizon>>

threadVars == <<signals, prevSignals, prevTs, listed>>
ghostVars == <<lowRun, tickReboots, saved, horizon>>

Phases == {"down", "sleep", "observe", "gate", "cli", "finish"}
SignalMap == [Fleet -> Signals \cup {"unseen"}]
Unseen == [m \in Fleet |-> "unseen"]
Idle == [todo |-> {}, ts |-> NoTs, bulk |-> FALSE]
NoFile == [exists |-> FALSE, at |-> 0, known |-> {}, ms |-> [m \in Fleet |-> InitialMiner]]

TypeOK ==
    /\ clock \in Nat /\ now \in 0..clock /\ process \in [start : 0..now, qa : QaStates]
    /\ phase \in Phases /\ cur \in Fleet /\ reading \in Reading
    /\ ms \in [Fleet -> MinerRecord] /\ known \subseteq Fleet
    /\ signals \in SignalMap /\ prevSignals \in SignalMap /\ prevTs \in Times
    /\ listed \subseteq Fleet
    /\ disk \in [exists : BOOLEAN, at : Nat, known : SUBSET Fleet, ms : [Fleet -> MinerRecord]]
    /\ poller \in [todo : SUBSET Fleet, ts : Times, bulk : BOOLEAN]
    /\ lowRun \in [Fleet -> Times] /\ tickReboots \subseteq Fleet
    /\ saved \in [Fleet -> [auto : SUBSET Nat, manual : Times]] /\ horizon \in Nat

Init ==
    /\ clock = 0 /\ now = 0 /\ process = [start |-> 0, qa |-> "off"]
    /\ phase = "down" /\ cur = 1 /\ reading = NoAnswer
    /\ ms = [m \in Fleet |-> InitialMiner] /\ known = {}
    /\ signals = Unseen /\ prevSignals = Unseen /\ prevTs = NoTs
    /\ listed = {} /\ disk = NoFile /\ poller = Idle
    /\ lowRun = [m \in Fleet |-> NoTs] /\ tickReboots = {}
    /\ saved = [m \in Fleet |-> [auto |-> {}, manual |-> NoTs]] /\ horizon = 0
-------------------------------------------------------------------------------
(* state.json *)

\* save_state: the temporary file replaces state.json, or the error is logged.
SaveSucceeds ==
    /\ disk' = [exists |-> TRUE, at |-> clock, known |-> known', ms |-> ms']
    /\ saved' = [m \in Fleet |->
                   [auto |-> saved[m].auto \cup ms'[m].auto_reboot_timestamps,
                    manual |-> IF ms'[m].last_manual_reboot_ts >= saved[m].manual
                               THEN ms'[m].last_manual_reboot_ts
                               ELSE saved[m].manual]]
Save == SaveSucceeds \/ UNCHANGED <<disk, saved>>

\* load_state keeps the record but not the LOW streak nor the LOW timer.
Sanitized(s) == [s EXCEPT !.low_streak = 0, !.low_since_ts = NoTs]

Usable(at) == disk.exists /\ at - disk.at <= StaleAfter

Loaded(at) ==
    IF Usable(at)
    THEN [m \in Fleet |-> Sanitized(disk.ms[m])]
    ELSE [m \in Fleet |-> InitialMiner]

(* The process: threads and memory vanish together, state.json stays. *)
Vanish ==
    /\ phase' = "down" /\ cur' = 1 /\ reading' = NoAnswer
    /\ ms' = [m \in Fleet |-> InitialMiner] /\ known' = {}
    /\ signals' = Unseen /\ prevSignals' = Unseen /\ prevTs' = NoTs
    /\ listed' = {} /\ poller' = Idle
    /\ lowRun' = [m \in Fleet |-> NoTs] /\ tickReboots' = {}
    /\ UNCHANGED <<clock, now, process, disk, saved, horizon>>

Later(a, b) == IF a >= b THEN a ELSE b

\* The first tick follows the start as the others follow the rest of the loop.
Boot ==
    /\ phase = "down"
    /\ \E d \in Downtimes, qa \in QaModes :
         LET start == clock + d
         IN  /\ start <= MaxNow /\ clock' = start /\ now' = start
             /\ process' = [start |-> start, qa |-> qa]
             /\ ms' = Loaded(start)
             /\ known' = IF Usable(start) THEN disk.known ELSE {}
             /\ horizon' = IF Usable(start) THEN horizon ELSE Later(horizon, start - StaleAfter)
    /\ phase' = "sleep"
    /\ UNCHANGED <<cur, reading, disk, poller, threadVars, lowRun, tickReboots, saved>>

Crash == phase # "down" /\ Vanish
-------------------------------------------------------------------------------
(* The main loop *)

\* The loop rests from the end of a tick; the first tick waits for the start to be through.
Resting == IF prevTs = NoTs THEN process.start ELSE prevTs

\* Time passes while the loop rests, or waits for a miner or for the CLI.
Elapse ==
    /\ phase \in {"sleep", "observe", "cli"}
    /\ \E d \in Delays :
         /\ clock + d <= MaxNow /\ clock' = clock + d
         /\ phase = "sleep" => \E gap \in Gaps : clock + d <= Resting + gap
    /\ UNCHANGED <<now, process, phase, cur, reading, ms, known, threadVars, disk, poller,
                   ghostVars>>

StartTick ==
    /\ phase = "sleep"
    /\ \E gap \in Gaps :
         LET start == Resting + gap
         IN  /\ clock <= start /\ start <= MaxNow /\ clock' = start /\ now' = start
             /\ horizon' = Later(horizon, start - Window[process.qa])
    /\ phase' = "observe" /\ cur' = 1
    /\ signals' = Unseen /\ listed' = {} /\ tickReboots' = {}
    /\ UNCHANGED <<process, reading, ms, known, prevSignals, prevTs, disk, poller,
                   lowRun, saved>>

\* Mutant: one visit too many.
NextMinerPast ==
    /\ IF cur <= N THEN cur' = cur + 1 /\ phase' = "observe"
                   ELSE cur' = cur /\ phase' = "finish"
    /\ reading' = NoAnswer

\* Going on with the next miner, or to the end of the tick.
NextMiner ==
    /\ IF cur < N THEN cur' = cur + 1 /\ phase' = "observe"
                  ELSE cur' = cur /\ phase' = "finish"
    /\ reading' = NoAnswer

\* The end of the loop body adds the status line; a continue statement skips it.
EndBody == NextMiner /\ listed' = listed \cup {cur}
ContinueStmt == NextMiner /\ UNCHANGED listed

Observe ==
    /\ phase = "observe"
    /\ \E r \in Readings :
         LET s == ApplyReading(ms[cur], r, now, Window[process.qa])
         IN  /\ ms' = [ms EXCEPT ![cur] = s] /\ known' = known \cup {cur}
             /\ signals' = [signals EXCEPT ![cur] = SignalOf(r)]
             /\ lowRun' = [lowRun EXCEPT ![cur] =
                             CASE SignalOf(r) # "eligible" -> NoTs
                               [] SignalOf(r) = "eligible" /\ (r.restarted \/ @ = NoTs) -> now
                               [] OTHER -> @]
             /\ IF AllowsEvaluation(s, SignalOf(r))
                THEN /\ phase' = "gate" /\ reading' = r
                     /\ UNCHANGED <<cur, listed>>
                ELSE EndBody
    /\ UNCHANGED <<clock, now, process, prevSignals, prevTs, disk, poller, tickReboots, saved, horizon>>

Me == ms[cur]
StartupGuardActive == now - process.start < StartupGuard
AffectedNow == Affected(cur, signals[cur], prevSignals, prevTs, SnapshotMaxAge[process.qa], now)
Verdict == Interlock(reading, AffectedNow)

AtGate == phase = "gate" /\ UNCHANGED <<clock, now, process, known, signals, prevSignals, prevTs,
                                        disk, poller, ghostVars>>

\* The poller cleared the timer after this tick had found it running.
TimerGone == AtGate /\ Me.low_since_ts = NoTs /\ EndBody /\ UNCHANGED ms

\* ... and the subtraction now_ts - None raises TypeError, which nothing catches.
TimerGoneFatal ==
    /\ phase = "gate" /\ ~StartupGuardActive /\ Me.low_since_ts = NoTs
    /\ Vanish

BlockedByStartup ==
    /\ AtGate /\ Me.low_since_ts # NoTs /\ StartupGuardActive
    /\ EndBody /\ UNCHANGED ms

PastStartup == Me.low_since_ts # NoTs /\ ~StartupGuardActive

BlockedByNotSustained ==
    /\ AtGate /\ PastStartup /\ now - Me.low_since_ts < LowSustained[process.qa]
    /\ EndBody /\ UNCHANGED ms

PastSustained == PastStartup /\ now - Me.low_since_ts >= LowSustained[process.qa]

\* Chains in transition restart the timer, whichever interlock gave the verdict.
BlockedByInterlock ==
    /\ AtGate /\ PastSustained /\ Verdict # "allowed"
    /\ ms' = IF FirmwareGuard /\ reading.transitioning
             THEN [ms EXCEPT ![cur] = RestartTimer(@, now)] ELSE ms
    /\ EndBody

PastInterlocks == PastSustained /\ Verdict = "allowed"
Cooling == Latest(Me) # NoTs /\ now - Latest(Me) < Cooldown[process.qa]

BlockedByCooldown == AtGate /\ PastInterlocks /\ Cooling /\ ContinueStmt /\ UNCHANGED ms

WindowFull == Cardinality(Me.auto_reboot_timestamps) >= MaxReboots

BlockedByWindow ==
    /\ AtGate /\ PastInterlocks /\ ~Cooling /\ WindowFull
    /\ ms' = [ms EXCEPT ![cur] = EnterDegraded(@)]
    /\ ContinueStmt

PastWindow == PastInterlocks /\ ~Cooling /\ ~WindowFull

BlockedByQa == AtGate /\ PastWindow /\ process.qa = "watch" /\ ContinueStmt /\ UNCHANGED ms

\* run_hashcore_cli starts; it returns, or the process dies, later.
SendReboot ==
    /\ AtGate /\ PastWindow /\ process.qa # "watch"
    /\ phase' = "cli"
    /\ UNCHANGED <<cur, reading, listed, ms>>

RebootFails ==
    /\ phase = "cli" /\ EndBody
    /\ UNCHANGED <<clock, now, process, ms, known, signals, prevSignals, prevTs, disk, poller,
                   ghostVars>>

RebootSucceeds ==
    /\ phase = "cli"
    /\ ms' = [ms EXCEPT ![cur] = AfterAutoReboot(@, now)]
    /\ tickReboots' = tickReboots \cup {cur}
    /\ EndBody
    /\ UNCHANGED <<clock, now, process, known, signals, prevSignals, prevTs, disk, poller, lowRun,
                   saved, horizon>>

EndTick ==
    /\ phase = "finish"
    /\ prevSignals' = signals /\ prevTs' = clock
    /\ phase' = "sleep" /\ cur' = 1
    /\ UNCHANGED <<ms, known>> /\ Save
    /\ UNCHANGED <<clock, now, process, reading, signals, listed, poller, lowRun,
                   tickReboots, horizon>>
-------------------------------------------------------------------------------
(* The poller thread.  OperatorControl details the confirmations; here any     *)
(* reboot may be confirmed whenever the poller is free: of one miner, or of     *)
(* several one after the other (/confirm reboot_no_ok).                         *)

mainVars == <<clock, now, process, phase, cur, reading, known, threadVars>>

\* The action time is read before the first CLI call.
ManualStart ==
    /\ phase # "down" /\ poller = Idle /\ process.qa # "watch"
    /\ \E todo \in SUBSET ManualMiners, bulk \in BOOLEAN :
         /\ todo # {} /\ (bulk \/ Cardinality(todo) = 1)
         /\ poller' = [todo |-> todo, ts |-> clock, bulk |-> bulk]
    /\ UNCHANGED <<mainVars, ms, disk, ghostVars>>

\* The miner whose CLI call is running.
ManualTarget == CHOOSE m \in poller.todo : \A k \in poller.todo : m <= k

NextManual ==
    poller' = IF poller.todo = {ManualTarget} THEN Idle
              ELSE [poller EXCEPT !.todo = @ \ {ManualTarget}]

ManualFails ==
    /\ poller # Idle /\ NextManual
    /\ UNCHANGED <<mainVars, ms, disk, ghostVars>>

\* A miner without a MinerState yet gets no mark.  A single confirmation saves
\* state.json; a bulk one leaves that to the tick.
ManualSucceeds ==
    /\ poller # Idle /\ NextManual
    /\ ms' = IF ManualTarget \in known
             THEN [ms EXCEPT ![ManualTarget] = AfterManualReboot(@, poller.ts)] ELSE ms
    /\ UNCHANGED <<mainVars, lowRun, tickReboots, horizon>>
    /\ IF poller.bulk THEN UNCHANGED <<disk, saved>> ELSE Save

\* Every Telegram update is followed by a save of the states as they are.
PollerSave ==
    /\ phase # "down" /\ Updates /\ poller = Idle
    /\ UNCHANGED <<mainVars, ms, poller, lowRun, tickReboots, horizon>> /\ SaveSucceeds
-------------------------------------------------------------------------------
Gate ==
    \/ TimerGone \/ TimerGoneFatal \/ BlockedByStartup \/ BlockedByNotSustained
    \/ BlockedByInterlock \/ BlockedByCooldown \/ BlockedByWindow \/ BlockedByQa
    \/ SendReboot

MainLoop == Elapse \/ StartTick \/ Observe \/ Gate \/ RebootFails \/ RebootSucceeds \/ EndTick
Operator == ManualStart \/ ManualFails \/ ManualSucceeds \/ PollerSave

Next == Boot \/ Crash \/ MainLoop \/ Operator

Spec == Init /\ [][Next]_vars
-------------------------------------------------------------------------------
(* Properties *)

(* An automatic reboot is only sent after the startup guard of this process,   *)
(* to a miner whose every reading for the low_sustained_seconds of its mode     *)
(* was a valid low one taken by this process with no restart in between (lines *)
(* 3942-3983 and 4162-4196: any other signal clears the timer; 1852:           *)
(* state.json does not carry it).                                             *)
AutoRebootEarned ==
    phase = "cli" =>
        /\ now - process.start >= StartupGuard
        /\ lowRun[cur] # NoTs /\ now - lowRun[cur] >= LowSustained[process.qa]

(* Why it holds: a running LOW timer never started before the run it measures. *)
EarnedInv ==
    /\ \A m \in Fleet :
         /\ lowRun[m] <= now
         /\ ms[m].low_since_ts # NoTs =>
              lowRun[m] # NoTs /\ lowRun[m] <= ms[m].low_since_ts
    /\ AutoRebootEarned

(* No automatic reboot is sent within the cooldown of a reboot of the miner,   *)
(* automatic or manual, that some save had put on disk before, whatever        *)
(* crashes, failed saves and confirmations came since (4263-4297, 1853-1862);   *)
(* the cooldown is the one of the mode the process runs in.                     *)
CoolAfterSaved(m) ==
    /\ \A ts \in saved[m].auto : now - ts >= Cooldown[process.qa]
    /\ saved[m].manual # NoTs => now - saved[m].manual >= Cooldown[process.qa]

CooldownSurvivesRestart ==
    [][phase # "cli" /\ phase' = "cli" => CoolAfterSaved(cur)]_vars

(* Why it holds: whoever holds a record, the process or state.json, accounts   *)
(* for every saved reboot that was not too old for a state.json when the        *)
(* process started, and the clock and the single poller only ever move the      *)
(* marks forward.                                                             *)
Accounts(m, s) ==
    /\ \A ts \in saved[m].auto :
          ts <= s.last_auto_reboot_ts \/ process.start - ts > StaleAfter
    /\ \/ saved[m].manual <= s.last_manual_reboot_ts
       \/ process.start - saved[m].manual > StaleAfter

\* The poller marks by the clock, the main loop by the start of its tick.
Dated(s, time, tick) ==
    /\ s.last_manual_reboot_ts <= time /\ s.last_auto_reboot_ts <= tick
    /\ \A ts \in s.auto_reboot_timestamps : ts <= s.last_auto_reboot_ts

CooldownInv ==
    /\ disk.at <= clock
    /\ \A m \in Fleet :
         /\ Dated(ms[m], clock, now) /\ Dated(disk.ms[m], disk.at, disk.at)
         /\ phase # "down" => Accounts(m, ms[m])
         /\ disk.exists => Accounts(m, disk.ms[m])
         /\ ~disk.exists => saved[m] = [auto |-> {}, manual |-> NoTs]
         /\ \A ts \in saved[m].auto : ts <= disk.at
         /\ saved[m].manual <= disk.at
         /\ poller # Idle => ms[m].last_manual_reboot_ts <= poller.ts
    /\ poller # Idle => phase # "down" /\ poller.ts <= clock /\ poller.ts # NoTs

(* A restart of a miner seen in a tick is attributed to an action at least as   *)
(* recent as any reboot of the miner within the attribution window that some    *)
(* save had put on disk: no crash, failed save or stale file makes a restart    *)
(* the monitor caused an unexpected one (restart_intelligence.py:15-56, called  *)
(* at 4013-4019 with the marks of state.json).  The exception is a reboot the   *)
(* operator confirmed further than the tolerance after the tick had started     *)
(* (3447 against 3859): its mark is skipped, and has replaced an earlier one.   *)
RestartIsExplained ==
    phase = "observe" =>
        LET cause == RestartCause(ms[cur], now, Attribution)
            marks == {ts \in saved[cur].auto \cup {saved[cur].manual} :
                        Within(ts, now, Attribution)}
        IN  \A ts \in marks :
              \/ cause.action_ts >= ts
              \/ ts = saved[cur].manual /\ ms[cur].last_manual_reboot_ts > now + Skew

(* Of the automatic reboots a save had put on disk, at most MaxReboots of a     *)
(* miner fall since horizon: in a monitor that is never started in QA mode this *)
(* is the last Window of the running tick; a QA mode prunes with its own,        *)
(* shorter window and saves the pruned list, so that the reboots it forgets no   *)
(* longer count afterwards (lines 3686-3691, 4092-4094 prune, 4298 count, 4361  *)
(* append).                                                                   *)
WindowBound ==
    \A m \in Fleet : Cardinality({ts \in saved[m].auto : ts >= horizon}) <= MaxReboots

(* A tick never reboots as many miners as the fleet interlock calls an         *)
(* incident: every candidate was already affected in the tick before, which    *)
(* the interlock of each of them reads (reboot_safety.py lines 79-117).        *)
NoMassReboot ==
    Cardinality(tickReboots \cup IF phase = "cli" THEN {cur} ELSE {}) < FleetMinAffected
===============================================================================
