------------------------------ MODULE MinerState ------------------------------
(***************************************************************************)
(* What one monitor tick computes about one miner (src/app/miner_monitor.py *)
(* lines 3930-4094 and the pure helpers it calls): streaks, the confirmed   *)
(* state, the auto-reboot signal and the safety interlocks.  No variable    *)
(* is declared here; AutoReboot uses these operators inside its actions.    *)
(*                                                                         *)
(* Times are natural numbers in units of one poll interval; NoTs stands for *)
(* Python's None.  A reading is what read_summary, read_stats_snapshot and  *)
(* the two Vnish normalisers return together for one miner in one tick.     *)
(***************************************************************************)
EXTENDS Integers, FiniteSets

CONSTANTS
    FailsBeforeAlert,     \* config fails_before_alert
    RecoverySuccesses,    \* config recovery_successes
    Skew,                 \* skew_tolerance_seconds of classify_restart
    FleetMinAffected,     \* auto_reboot_fleet_guard_min_affected, at least 2
    FleetGuard,           \* auto_reboot_fleet_guard_enabled
    ThermalGuard,         \* auto_reboot_thermal_guard_enabled
    FirmwareGuard         \* auto_reboot_firmware_transition_guard_enabled

ASSUME MinerStateAssumption ==
    /\ FailsBeforeAlert \in Nat \ {0}
    /\ RecoverySuccesses \in Nat \ {0}
    /\ Skew \in Nat
    /\ FleetMinAffected \in Nat \ {0, 1}
    /\ FleetGuard \in BOOLEAN /\ ThermalGuard \in BOOLEAN /\ FirmwareGuard \in BOOLEAN

NoTs == -1
Times == Nat \cup {NoTs}

States == {"OK", "LOW", "HASHBOARD", "OFFLINE"}
Signals == {"eligible", "not_low", "invalid_signal"}

(***************************************************************************)
(* rate: "low" and "ok" are finite rates below and not below threshold_ths; *)
(* "nan" is a NaN the firmware reported (float("nan") parses); "none" is a  *)
(* missing rate.  boards: "unknown" is active_boards = None.  restarted is  *)
(* reboot_reason # "" (the uptime went backwards).                          *)
(***************************************************************************)
Reading ==
    [responded : BOOLEAN, rate : {"none", "low", "ok", "nan"},
     boards : {"unknown", "short", "full"},
     restarted : BOOLEAN, hot : BOOLEAN, transitioning : BOOLEAN]

\* No answer means no rate, no stats, no elapsed and no telemetry.
NoAnswer ==
    [responded |-> FALSE, rate |-> "none", boards |-> "unknown",
     restarted |-> FALSE, hot |-> FALSE, transitioning |-> FALSE]

Answer(rate, boards) ==
    [NoAnswer EXCEPT !.responded = TRUE, !.rate = rate, !.boards = boards]

(***************************************************************************)
(* The fields of MinerState that take part in confirmation and in the       *)
(* reboot policy.  auto_reboot_timestamps is a set: one tick appends at     *)
(* most one timestamp and the code only filters and counts the list.        *)
(***************************************************************************)
MinerRecord ==
    [low_streak : Nat, offline_streak : Nat, ok_streak : Nat,
     state : States, low_since_ts : Times,
     last_manual_reboot_ts : Times, last_auto_reboot_ts : Times,
     auto_reboot_timestamps : SUBSET Nat, degraded_mode : BOOLEAN]

InitialMiner ==
    [low_streak |-> 0, offline_streak |-> 0, ok_streak |-> 0,
     state |-> "OK", low_since_ts |-> NoTs,
     last_manual_reboot_ts |-> NoTs, last_auto_reboot_ts |-> NoTs,
     auto_reboot_timestamps |-> {}, degraded_mode |-> FALSE]

\* Streaks are only ever compared with their threshold, so they saturate there.
Bump(streak, threshold) == IF streak < threshold THEN streak + 1 ELSE streak

WithStreaks(s, offline, low, ok) ==
    [s EXCEPT !.offline_streak = offline, !.low_streak = low, !.ok_streak = ok]

(* NaN < threshold is false in Python, so a NaN rate takes the last branch. *)
CountReading(s, r) ==
    CASE ~r.responded ->
           WithStreaks(s, Bump(s.offline_streak, FailsBeforeAlert), 0, 0)
      [] r.responded /\ r.rate = "none" -> WithStreaks(s, 0, 0, 0)
      [] r.responded /\ r.rate = "low" ->
           WithStreaks(s, 0, Bump(s.low_streak, FailsBeforeAlert), 0)
      [] r.responded /\ r.rate \in {"ok", "nan"} ->
           WithStreaks(s, 0, 0, Bump(s.ok_streak, RecoverySuccesses))

\* The if/elif chain that confirms a state; otherwise the state is kept.
ConfirmedState(s, r) ==
    CASE ~r.responded /\ s.offline_streak >= FailsBeforeAlert -> "OFFLINE"
      [] r.responded /\ r.boards = "short" -> "HASHBOARD"
      [] r.responded /\ r.boards # "short" /\ r.rate = "low"
           /\ s.low_streak >= FailsBeforeAlert -> "LOW"
      [] r.responded /\ r.boards # "short" /\ r.rate = "ok"
           /\ s.ok_streak >= RecoverySuccesses -> "OK"
      [] OTHER -> s.state

LowTimer(s, new, now) ==
    IF new # "LOW" THEN NoTs ELSE IF s.low_since_ts = NoTs THEN now ELSE s.low_since_ts

\* Assigning the confirmed state resets streaks and starts or stops the LOW timer.
EnterState(s, new, now) ==
    [s EXCEPT
        !.state = new,
        !.low_streak = IF new = "LOW" THEN @ ELSE 0,
        !.offline_streak = IF new = "OK" THEN 0 ELSE @,
        !.low_since_ts = LowTimer(s, new, now)]

\* A detected restart clears the LOW timer before the reading is classified.
ForgetLowOnRestart(s, r) ==
    IF r.restarted THEN [s EXCEPT !.low_since_ts = NoTs] ELSE s

\* Mutant: a reboot exactly one window old is forgotten.
PruneEarly(s, now, window) ==
    [s EXCEPT !.auto_reboot_timestamps = {ts \in @ : now - ts < window}]

PruneWindow(s, now, window) ==
    [s EXCEPT !.auto_reboot_timestamps = {ts \in @ : now - ts <= window}]

\* classify_auto_reboot_signal
SignalOf(r) ==
    CASE ~r.responded \/ r.rate \in {"none", "nan"} -> "invalid_signal"
      [] r.responded /\ r.rate = "ok" -> "not_low"
      [] r.responded /\ r.rate = "low" -> "eligible"

\* auto_reboot_signal_allows_evaluation
AllowsEvaluation(s, signal) ==
    s.state = "LOW" /\ s.low_since_ts # NoTs /\ signal = "eligible"

\* Mutant: a reading at or above the threshold does not stop the timer.
KeepTimer(s, signal) ==
    IF s.state = "LOW" /\ signal = "invalid_signal"
    THEN [s EXCEPT !.low_since_ts = NoTs] ELSE s

\* reset_sustained_low_if_signal_ineligible, called while the state is LOW
ResetIfIneligible(s, signal) ==
    IF s.state = "LOW" /\ signal # "eligible"
    THEN [s EXCEPT !.low_since_ts = NoTs] ELSE s

ApplyReading(s, r, now, window) ==
    LET counted == CountReading(ForgetLowOnRestart(s, r), r)
        entered == EnterState(counted, ConfirmedState(counted, r), now)
    IN  ResetIfIneligible(PruneWindow(entered, now, window), SignalOf(r))

\* Mutant: only automatic reboots start a cooldown.
LatestAuto(s) == s.last_auto_reboot_ts

Latest(s) ==
    IF s.last_manual_reboot_ts >= s.last_auto_reboot_ts
    THEN s.last_manual_reboot_ts ELSE s.last_auto_reboot_ts

\* A mark of the attribution window; one further ahead of the tick than the tolerance is skipped.
Within(mark, ts, window) == mark # NoTs /\ mark <= ts + Skew /\ ts - mark <= window

Cause(class, ts) == [class |-> class, action_ts |-> ts]

\* Mutant: a manual action in the window explains the restart although an automatic one is later.
ManualFirst(s, ts, window) ==
    CASE Within(s.last_manual_reboot_ts, ts, window) -> Cause("expected_manual", s.last_manual_reboot_ts)
      [] ~Within(s.last_manual_reboot_ts, ts, window) /\ Within(s.last_auto_reboot_ts, ts, window) ->
           Cause("expected_auto", s.last_auto_reboot_ts)
      [] OTHER -> Cause("unexpected", NoTs)

\* classify_restart: the later of the two actions that fall into the attribution window.
RestartCause(s, ts, window) ==
    LET manual == Within(s.last_manual_reboot_ts, ts, window)
        auto == Within(s.last_auto_reboot_ts, ts, window)
        manualIsLater == s.last_manual_reboot_ts >= s.last_auto_reboot_ts
    IN  IF manual /\ (auto => manualIsLater) THEN Cause("expected_manual", s.last_manual_reboot_ts)
        ELSE IF auto THEN Cause("expected_auto", s.last_auto_reboot_ts)
        ELSE Cause("unexpected", NoTs)

\* What a successful Hashcore call leaves in the record.
AfterAutoReboot(s, now) ==
    [s EXCEPT !.last_auto_reboot_ts = now,
              !.auto_reboot_timestamps = @ \cup {now},
              !.low_since_ts = NoTs]

AfterManualReboot(s, ts) ==
    [s EXCEPT !.last_manual_reboot_ts = ts, !.low_since_ts = NoTs]

\* The two ways a blocked reboot changes the record.
RestartTimer(s, now) == [s EXCEPT !.low_since_ts = now]
EnterDegraded(s) == [s EXCEPT !.degraded_mode = TRUE]

\* Mutant: the candidate does not count itself among the affected miners.
PeersOnly(candidate, signal, previous, previousTs, maxAge, now) ==
    IF previousTs # NoTs /\ now - previousTs <= maxAge
    THEN {m \in DOMAIN previous \ {candidate} :
            previous[m] \in {"eligible", "invalid_signal"}}
    ELSE {}

(***************************************************************************)
(* evaluate_auto_reboot_interlocks: previous is a function from miners to   *)
(* the signals of the last completed tick ("unseen" where there is none),   *)
(* taken at previousTs and used up to maxAge later; the candidate's own      *)
(* signal is the current one.                                               *)
(***************************************************************************)
Affected(candidate, signal, previous, previousTs, maxAge, now) ==
    LET fresh == previousTs # NoTs /\ now - previousTs <= maxAge
        latest(m) == IF m = candidate THEN signal
                     ELSE IF fresh THEN previous[m] ELSE "unseen"
    IN  {m \in DOMAIN previous : latest(m) \in {"eligible", "invalid_signal"}}

Interlock(r, affected) ==
    CASE ThermalGuard /\ r.hot -> "high_temperature"
      [] ~(ThermalGuard /\ r.hot) /\ FirmwareGuard /\ r.transitioning ->
           "firmware_transition"
      [] ~(ThermalGuard /\ r.hot) /\ ~(FirmwareGuard /\ r.transitioning)
           /\ FleetGuard /\ Cardinality(affected) >= FleetMinAffected ->
           "fleet_incident"
      [] OTHER -> "allowed"
===============================================================================
