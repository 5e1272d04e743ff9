--------------------------- MODULE AutoRebootProofs ---------------------------
(* Theorems about AutoReboot, for every fleet and every configuration, and the *)
(* facts about the operators of MinerState they rest on.                       *)
EXTENDS AutoReboot, FiniteSetTheorems, TLAPS

-------------------------------------------------------------------------------
(* Facts about the operators of MinerState that the proofs of AutoReboot cite. *)

(* A counted reading leaves a well-formed record and does not touch the LOW     *)
(* timer or the confirmed state.                                                *)
LEMMA CountReadingType ==
    ASSUME NEW s \in MinerRecord, NEW r \in Reading
    PROVE  /\ CountReading(s, r) \in MinerRecord
           /\ CountReading(s, r).low_since_ts = s.low_since_ts
           /\ CountReading(s, r).state = s.state
  <1> DEFINE Good(t) == t \in MinerRecord /\ t.low_since_ts = s.low_since_ts
                        /\ t.state = s.state
  <1>1. ASSUME NEW a \in Nat, NEW b \in Nat, NEW c \in Nat
        PROVE  Good(WithStreaks(s, a, b, c))
    BY DEF WithStreaks, MinerRecord
  <1>2. /\ Bump(s.offline_streak, FailsBeforeAlert) \in Nat
        /\ Bump(s.low_streak, FailsBeforeAlert) \in Nat
        /\ Bump(s.ok_streak, RecoverySuccesses) \in Nat
    BY DEF Bump, MinerRecord
  <1>3. CASE ~r.responded
    <2>1. CountReading(s, r) =
            WithStreaks(s, Bump(s.offline_streak, FailsBeforeAlert), 0, 0)
      BY <1>3 DEF CountReading
    <2>2. Good(WithStreaks(s, Bump(s.offline_streak, FailsBeforeAlert), 0, 0))
      BY <1>1, <1>2
    <2>3. QED
      BY <2>1, <2>2
  <1>4. CASE r.responded /\ r.rate = "none"
    <2>1. CountReading(s, r) = WithStreaks(s, 0, 0, 0)
      BY <1>4 DEF CountReading
    <2>2. QED
      BY <2>1, <1>1
  <1>5. CASE r.responded /\ r.rate = "low"
    <2>1. CountReading(s, r) =
            WithStreaks(s, 0, Bump(s.low_streak, FailsBeforeAlert), 0)
      BY <1>5 DEF CountReading
    <2>2. QED
      BY <2>1, <1>1, <1>2
  <1>6. CASE r.responded /\ r.rate \in {"ok", "nan"}
    <2>1. CountReading(s, r) =
            WithStreaks(s, 0, 0, Bump(s.ok_streak, RecoverySuccesses))
      BY <1>6 DEF CountReading
    <2>2. QED
      BY <2>1, <1>1, <1>2
  <1>7. QED
    BY <1>3, <1>4, <1>5, <1>6 DEF Reading

(* The confirmation chain always yields one of the four states.                 *)
LEMMA ConfirmedStateType ==
    ASSUME NEW s \in MinerRecord, NEW r \in Reading
    PROVE  ConfirmedState(s, r) \in States
  BY DEF ConfirmedState, MinerRecord, Reading, States

(* Entering a state runs the LOW timer exactly while the state is LOW: it is    *)
(* kept when it was running and started now when it was not.                    *)
LEMMA EnterStateTimer ==
    ASSUME NEW s \in MinerRecord, NEW new \in States, NEW t \in Nat
    PROVE  /\ EnterState(s, new, t) \in MinerRecord
           /\ EnterState(s, new, t).state = new
           /\ new # "LOW" => EnterState(s, new, t).low_since_ts = NoTs
           /\ new = "LOW" => EnterState(s, new, t).low_since_ts =
                                IF s.low_since_ts = NoTs THEN t ELSE s.low_since_ts
  <1>1. LowTimer(s, new, t) \in Times
    BY DEF LowTimer, MinerRecord, Times
  <1>2. QED
    BY <1>1 DEF EnterState, LowTimer, MinerRecord, States

(* One reading applied to a miner keeps the record well formed.  Its LOW timer  *)
(* runs afterwards only if the reading is eligible, and then since this tick or *)
(* since before, with no restart in this reading.                               *)
LEMMA ApplyReadingTimer ==
    ASSUME NEW s \in MinerRecord, NEW r \in Reading, NEW t \in Nat, NEW w \in Nat
    PROVE  LET u == ApplyReading(s, r, t, w)
           IN  /\ u \in MinerRecord
               /\ u.low_since_ts # NoTs =>
                    /\ SignalOf(r) = "eligible"
                    /\ \/ u.low_since_ts = t
                       \/ u.low_since_ts = s.low_since_ts /\ ~r.restarted
  <1> DEFINE f == ForgetLowOnRestart(s, r)
             c == CountReading(f, r)
             new == ConfirmedState(c, r)
             e == EnterState(c, new, t)
             p == PruneWindow(e, t, w)
             u == ResetIfIneligible(p, SignalOf(r))
  <1>1. /\ f \in MinerRecord
        /\ r.restarted => f.low_since_ts = NoTs
        /\ ~r.restarted => f.low_since_ts = s.low_since_ts
    BY DEF ForgetLowOnRestart, MinerRecord, Times, Reading
  <1>2. c \in MinerRecord /\ c.low_since_ts = f.low_since_ts
    BY <1>1, CountReadingType
  <1>3. new \in States
    BY <1>2, ConfirmedStateType
  <1>4. /\ e \in MinerRecord /\ e.state = new
        /\ new # "LOW" => e.low_since_ts = NoTs
        /\ new = "LOW" /\ c.low_since_ts = NoTs => e.low_since_ts = t
        /\ new = "LOW" /\ c.low_since_ts # NoTs => e.low_since_ts = c.low_since_ts
    BY <1>2, <1>3, EnterStateTimer
  <1>5. p \in MinerRecord /\ p.state = e.state /\ p.low_since_ts = e.low_since_ts
    BY <1>4 DEF PruneWindow, MinerRecord
  <1>6. /\ u \in MinerRecord
        /\ p.state = "LOW" /\ SignalOf(r) # "eligible" => u.low_since_ts = NoTs
        /\ ~(p.state = "LOW" /\ SignalOf(r) # "eligible") => u = p
    BY <1>5 DEF ResetIfIneligible, MinerRecord, Times
  <1>7. ApplyReading(s, r, t, w) = u
    BY DEF ApplyReading
  <1> HIDE DEF f, c, new, e, p, u
  <1>8. u.low_since_ts # NoTs =>
          /\ SignalOf(r) = "eligible"
          /\ \/ u.low_since_ts = t
             \/ u.low_since_ts = s.low_since_ts /\ ~r.restarted
    <2> SUFFICES ASSUME u.low_since_ts # NoTs
                 PROVE  /\ SignalOf(r) = "eligible"
                        /\ \/ u.low_since_ts = t
                           \/ u.low_since_ts = s.low_since_ts /\ ~r.restarted
      OBVIOUS
    <2>1. u = p /\ ~(p.state = "LOW" /\ SignalOf(r) # "eligible")
      BY <1>6
    <2>2. e.low_since_ts # NoTs /\ u.low_since_ts = e.low_since_ts
      BY <2>1, <1>5
    <2>3. new = "LOW" /\ SignalOf(r) = "eligible"
      BY <2>1, <2>2, <1>4, <1>5
    <2>4. CASE c.low_since_ts = NoTs
      BY <2>2, <2>3, <2>4, <1>4
    <2>5. CASE c.low_since_ts # NoTs
      <3>1. u.low_since_ts = f.low_since_ts /\ f.low_since_ts # NoTs
        BY <2>2, <2>3, <2>5, <1>4, <1>2
      <3>2. ~r.restarted
        BY <3>1, <1>1
      <3>3. QED
        BY <3>1, <3>2, <1>1, <2>3
    <2>6. QED
      BY <2>4, <2>5
  <1>9. QED
    BY <1>6, <1>7, <1>8

(* A signal is always one of the three classes.                                 *)
LEMMA SignalType ==
    ASSUME NEW r \in Reading
    PROVE  SignalOf(r) \in Signals
  BY DEF SignalOf, Signals, Reading

(* Each update the gate chain and the confirmations make keeps the record well  *)
(* formed; only the first two leave the LOW timer stopped, and only they and    *)
(* the third touch it.                                                          *)
LEMMA UpdateTypes ==
    ASSUME NEW s \in MinerRecord, NEW t \in Nat
    PROVE  /\ AfterAutoReboot(s, t) \in MinerRecord
           /\ AfterAutoReboot(s, t).low_since_ts = NoTs
           /\ RestartTimer(s, t) \in MinerRecord
           /\ RestartTimer(s, t).low_since_ts = t
           /\ EnterDegraded(s) \in MinerRecord
           /\ EnterDegraded(s).low_since_ts = s.low_since_ts
  <1>1. NoTs \in Times /\ t \in Times
    BY DEF Times
  <1>2. QED
    BY <1>1 DEF AfterAutoReboot, RestartTimer, EnterDegraded, MinerRecord

LEMMA ManualUpdateType ==
    ASSUME NEW s \in MinerRecord, NEW t \in Times
    PROVE  /\ AfterManualReboot(s, t) \in MinerRecord
           /\ AfterManualReboot(s, t).low_since_ts = NoTs
  <1>1. NoTs \in Times
    BY DEF Times
  <1>2. QED
    BY <1>1 DEF AfterManualReboot, MinerRecord

(* A reading never moves the reboot marks of a miner and only drops timestamps  *)
(* of the reboot window, it never adds one.                                     *)
LEMMA ApplyReadingMarks ==
    ASSUME NEW s \in MinerRecord, NEW r \in Reading, NEW t \in Nat, NEW w \in Nat
    PROVE  LET u == ApplyReading(s, r, t, w)
           IN  /\ u.last_manual_reboot_ts = s.last_manual_reboot_ts
               /\ u.last_auto_reboot_ts = s.last_auto_reboot_ts
               /\ u.auto_reboot_timestamps =
                    {ts \in s.auto_reboot_timestamps : t - ts <= w}
  <1> DEFINE Same(u, v) == /\ u.last_manual_reboot_ts = v.last_manual_reboot_ts
                           /\ u.last_auto_reboot_ts = v.last_auto_reboot_ts
                           /\ u.auto_reboot_timestamps = v.auto_reboot_timestamps
             f == ForgetLowOnRestart(s, r)
             c == CountReading(f, r)
             new == ConfirmedState(c, r)
             e == EnterState(c, new, t)
             p == PruneWindow(e, t, w)
             u == ResetIfIneligible(p, SignalOf(r))
  <1>1. f \in MinerRecord /\ Same(f, s)
    BY DEF ForgetLowOnRestart, MinerRecord, Times, Reading
  <1>2. c \in MinerRecord
    BY <1>1, CountReadingType
  <1>3. Same(c, f)
    <2>1. ASSUME NEW x, NEW y, NEW z PROVE Same(WithStreaks(f, x, y, z), f)
      BY <1>1 DEF WithStreaks, MinerRecord
    <2>2. CASE ~r.responded
      BY <2>1, <2>2 DEF CountReading
    <2>3. CASE r.responded /\ r.rate = "none"
      BY <2>1, <2>3 DEF CountReading
    <2>4. CASE r.responded /\ r.rate = "low"
      BY <2>1, <2>4 DEF CountReading
    <2>5. CASE r.responded /\ r.rate \in {"ok", "nan"}
      BY <2>1, <2>5 DEF CountReading
    <2>6. QED
      BY <2>2, <2>3, <2>4, <2>5 DEF Reading
  <1>4. e \in MinerRecord
    BY <1>2, ConfirmedStateType, EnterStateTimer
  <1>5. Same(e, c)
    BY <1>2 DEF EnterState, MinerRecord
  <1>6. /\ p.last_manual_reboot_ts = e.last_manual_reboot_ts
        /\ p.last_auto_reboot_ts = e.last_auto_reboot_ts
        /\ p.auto_reboot_timestamps = {ts \in e.auto_reboot_timestamps : t - ts <= w}
    BY <1>4 DEF PruneWindow, MinerRecord
  <1>7. p \in MinerRecord
    BY <1>4 DEF PruneWindow, MinerRecord
  <1>8. Same(u, p)
    BY <1>7 DEF ResetIfIneligible, MinerRecord
  <1>9. ApplyReading(s, r, t, w) = u
    BY DEF ApplyReading
  <1> HIDE DEF f, c, new, e, p, u
  <1>10. QED
    BY <1>1, <1>3, <1>5, <1>6, <1>8, <1>9

(* What each update of the gate chain and the confirmations does to the marks.  *)
LEMMA UpdateMarks ==
    ASSUME NEW s \in MinerRecord, NEW t
    PROVE  /\ RestartTimer(s, t).last_manual_reboot_ts = s.last_manual_reboot_ts
           /\ RestartTimer(s, t).last_auto_reboot_ts = s.last_auto_reboot_ts
           /\ RestartTimer(s, t).auto_reboot_timestamps = s.auto_reboot_timestamps
           /\ EnterDegraded(s).last_manual_reboot_ts = s.last_manual_reboot_ts
           /\ EnterDegraded(s).last_auto_reboot_ts = s.last_auto_reboot_ts
           /\ EnterDegraded(s).auto_reboot_timestamps = s.auto_reboot_timestamps
           /\ AfterAutoReboot(s, t).last_manual_reboot_ts = s.last_manual_reboot_ts
           /\ AfterAutoReboot(s, t).last_auto_reboot_ts = t
           /\ AfterAutoReboot(s, t).auto_reboot_timestamps =
                s.auto_reboot_timestamps \cup {t}
           /\ AfterManualReboot(s, t).last_manual_reboot_ts = t
           /\ AfterManualReboot(s, t).last_auto_reboot_ts = s.last_auto_reboot_ts
           /\ AfterManualReboot(s, t).auto_reboot_timestamps = s.auto_reboot_timestamps
  BY DEF RestartTimer, EnterDegraded, AfterAutoReboot, AfterManualReboot, MinerRecord

-------------------------------------------------------------------------------
(* Types, and reboots that are earned.                                          *)

LEMMA FleetFacts == Fleet \subseteq Nat \ {0} /\ 1 \in Fleet
  BY AutoRebootAssumption DEF Fleet, AutoRebootAssumption

LEMMA ConstantTypes ==
    /\ InitialMiner \in MinerRecord
    /\ NoAnswer \in Reading
    /\ Unseen \in SignalMap
    /\ NoTs \in Times /\ NoTs \notin Nat
  BY DEF InitialMiner, MinerRecord, NoAnswer, Reading, Unseen, SignalMap, Times, NoTs, States

(* The clock never lies behind the tick, nor the tick behind the process's start. *)
LEMMA TimeTypes ==
    ASSUME TypeOK
    PROVE  /\ clock \in Nat /\ now \in Nat /\ now <= clock
           /\ process.start \in Nat /\ process.start <= now /\ process.qa \in QaStates
           /\ horizon \in Nat
  BY DEF TypeOK

(* What the mode the process runs in sets.                                      *)
LEMMA ModeTypes ==
    ASSUME TypeOK
    PROVE  /\ Window[process.qa] \in Nat /\ Cooldown[process.qa] \in Nat \ {0}
           /\ LowSustained[process.qa] \in Nat \ {0} /\ SnapshotMaxAge[process.qa] \in Nat \ {0}
  BY TimeTypes, AutoRebootAssumption DEF AutoRebootAssumption

LEMMA LaterType ==
    ASSUME NEW a \in Nat, NEW b \in Int
    PROVE  Later(a, b) \in Nat /\ Later(a, b) >= a /\ Later(a, b) >= b
  BY DEF Later

(* What a start of the process and the start of a tick do to the times.         *)
LEMMA BootTimes ==
    ASSUME TypeOK, Boot
    PROVE  /\ now' \in Nat /\ clock' = now' /\ now' >= clock /\ now' >= now
           /\ process' \in [start : 0..now', qa : QaStates] /\ process'.start = now'
           /\ ms' = Loaded(now')
           /\ known' \subseteq Fleet
           /\ horizon' = IF Usable(now') THEN horizon ELSE Later(horizon, now' - StaleAfter)
           /\ horizon' \in Nat /\ horizon' >= horizon
  <1>1. PICK d \in Downtimes, qa \in QaModes :
          /\ clock' = clock + d /\ now' = clock + d /\ process' = [start |-> clock + d, qa |-> qa]
          /\ ms' = Loaded(clock + d)
          /\ known' = IF Usable(clock + d) THEN disk.known ELSE {}
          /\ horizon' = IF Usable(clock + d) THEN horizon
                        ELSE Later(horizon, (clock + d) - StaleAfter)
    BY DEF Boot
  <1>2. clock + d \in Nat /\ clock + d >= clock /\ clock + d >= now /\ qa \in QaStates
        /\ horizon \in Nat /\ (clock + d) - StaleAfter \in Int
    BY TimeTypes, AutoRebootAssumption DEF AutoRebootAssumption
  <1>3. Later(horizon, (clock + d) - StaleAfter) \in Nat
        /\ Later(horizon, (clock + d) - StaleAfter) >= horizon
    BY <1>2, LaterType
  <1>4. disk.known \subseteq Fleet
    BY DEF TypeOK
  <1>5. process' \in [start : 0..now', qa : QaStates] /\ process'.start = now'
    BY <1>1, <1>2
  <1>6. QED
    BY <1>1, <1>2, <1>3, <1>4, <1>5

LEMMA StartTickTimes ==
    ASSUME TypeOK, StartTick
    PROVE  /\ now' \in Nat /\ clock' = now' /\ now' >= clock /\ now' >= now
           /\ horizon' \in Nat /\ horizon' >= horizon /\ horizon' >= now' - Window[process.qa]
           /\ \E gap \in Gaps : now' = Resting + gap
  <1>1. PICK gap \in Gaps :
          /\ clock <= Resting + gap /\ clock' = Resting + gap /\ now' = Resting + gap
          /\ horizon' = Later(horizon, (Resting + gap) - Window[process.qa])
    BY DEF StartTick
  <1>2. Resting \in Nat /\ gap \in Nat
    BY TimeTypes, AutoRebootAssumption DEF Resting, TypeOK, Times, AutoRebootAssumption
  <1>3. Resting + gap \in Nat /\ (Resting + gap) - Window[process.qa] \in Int
    BY <1>2, ModeTypes
  <1>4. QED
    <2>1. LET l == Later(horizon, (Resting + gap) - Window[process.qa])
          IN  l \in Nat /\ l >= horizon /\ l >= (Resting + gap) - Window[process.qa]
      BY <1>3, TimeTypes, LaterType
    <2>2. QED
      BY <1>1, <1>3, <2>1, TimeTypes

(* The rest of a tick, or a call, takes time and changes nothing else.          *)
LEMMA ElapseTimes ==
    ASSUME TypeOK, Elapse
    PROVE  /\ clock' \in Nat /\ clock' >= clock
           /\ UNCHANGED <<now, process, phase, cur, reading, ms, known, signals, prevSignals,
                          prevTs, listed, disk, poller, lowRun, tickReboots, saved, horizon>>
           /\ phase # "down"
  <1>1. PICK d \in Delays : clock' = clock + d
    BY DEF Elapse
  <1>2. d \in Nat
    BY AutoRebootAssumption DEF AutoRebootAssumption
  <1>3. QED
    BY <1>1, <1>2, TimeTypes DEF Elapse, threadVars, ghostVars

LEMMA NextMinerType ==
    ASSUME TypeOK, NextMiner
    PROVE  phase' \in Phases /\ cur' \in Fleet /\ reading' \in Reading
  BY FleetFacts, ConstantTypes, AutoRebootAssumption
     DEF TypeOK, NextMiner, Phases, Fleet, AutoRebootAssumption

LEMMA VanishType ==
    ASSUME TypeOK, Vanish
    PROVE  TypeOK'
  BY FleetFacts, ConstantTypes DEF TypeOK, Vanish, Phases, Idle

LEMMA SaveType ==
    ASSUME TypeOK, Save, clock' = clock, known' \subseteq Fleet, ms' \in [Fleet -> MinerRecord]
    PROVE  /\ disk' \in [exists : BOOLEAN, at : Nat, known : SUBSET Fleet,
                        ms : [Fleet -> MinerRecord]]
           /\ saved' \in [Fleet -> [auto : SUBSET Nat, manual : Times]]
  <1>1. CASE SaveSucceeds
    <2>1. ASSUME NEW m \in Fleet
          PROVE  /\ saved[m].auto \cup ms'[m].auto_reboot_timestamps \in SUBSET Nat
                 /\ ms'[m].last_manual_reboot_ts \in Times /\ saved[m].manual \in Times
      BY DEF TypeOK, MinerRecord
    <2>2. saved' \in [Fleet -> [auto : SUBSET Nat, manual : Times]]
      BY <1>1, <2>1 DEF SaveSucceeds
    <2>3. QED
      BY <1>1, <2>2 DEF SaveSucceeds, TypeOK
  <1>2. CASE UNCHANGED <<disk, saved>>
    BY <1>2 DEF TypeOK
  <1>3. QED
    BY <1>1, <1>2 DEF Save

LEMMA NextManualType ==
    ASSUME TypeOK, NextManual
    PROVE  poller' \in [todo : SUBSET Fleet, ts : Times, bulk : BOOLEAN]
  BY ConstantTypes DEF TypeOK, NextManual, Idle

(* Replacing one miner's record by a well-formed one.                           *)
LEMMA OneMiner ==
    ASSUME TypeOK, NEW m, NEW s, m \in Fleet => s \in MinerRecord
    PROVE  [ms EXCEPT ![m] = s] \in [Fleet -> MinerRecord]
  BY DEF TypeOK

LEMMA LoadedType ==
    ASSUME TypeOK, NEW t \in Nat
    PROVE  Loaded(t) \in [Fleet -> MinerRecord]
  <1>1. ASSUME NEW s \in MinerRecord PROVE Sanitized(s) \in MinerRecord
    BY ConstantTypes DEF Sanitized, MinerRecord
  <1>2. QED
    BY <1>1, ConstantTypes DEF Loaded, TypeOK

(* No LOW timer survives a restart.                                             *)
LEMMA LoadedTimer ==
    ASSUME TypeOK, NEW t
    PROVE  \A m \in Fleet : Loaded(t)[m].low_since_ts = NoTs
  <1>1. ASSUME NEW s \in MinerRecord PROVE Sanitized(s).low_since_ts = NoTs
    BY DEF Sanitized, MinerRecord
  <1>2. QED
    BY <1>1 DEF Loaded, InitialMiner, TypeOK

LEMMA TypeInit == Init => TypeOK
  <1>1. SUFFICES ASSUME Init PROVE TypeOK
    OBVIOUS
  <1>2. now \in 0..clock /\ process \in [start : 0..now, qa : QaStates]
    BY <1>1 DEF Init, QaStates
  <1>3. QED
    BY <1>1, <1>2, FleetFacts, ConstantTypes DEF Init, TypeOK, Phases, NoFile, Idle

LEMMA TypeObserve == TypeOK /\ Observe => TypeOK'
  <1> SUFFICES ASSUME TypeOK, Observe PROVE TypeOK'
    OBVIOUS
  <1>1. PICK r \in Readings :
          LET s == ApplyReading(ms[cur], r, now, Window[process.qa])
          IN  /\ ms' = [ms EXCEPT ![cur] = s]
              /\ signals' = [signals EXCEPT ![cur] = SignalOf(r)]
              /\ lowRun' = [lowRun EXCEPT ![cur] =
                              CASE SignalOf(r) # "eligible" -> NoTs
                                [] SignalOf(r) = "eligible" /\ (r.restarted \/ @ = NoTs) -> now
                                [] OTHER -> @]
              /\ IF AllowsEvaluation(s, SignalOf(r))
                 THEN /\ phase' = "gate" /\ reading' = r
                      /\ UNCHANGED <<cur, listed>>
                 ELSE EndBody
    BY DEF Observe
  <1>2. r \in Reading /\ Window[process.qa] \in Nat
    BY ModeTypes, AutoRebootAssumption DEF AutoRebootAssumption
  <1>3. ApplyReading(ms[cur], r, now, Window[process.qa]) \in MinerRecord
    BY <1>2, ApplyReadingTimer DEF TypeOK
  <1>4. ms' \in [Fleet -> MinerRecord]
    BY <1>1, <1>3 DEF TypeOK
  <1>5. signals' \in SignalMap
    BY <1>1, <1>2, SignalType DEF TypeOK, SignalMap
  <1>6. lowRun' \in [Fleet -> Times]
    BY <1>1, ConstantTypes DEF TypeOK, Times
  <1>7. phase' \in Phases /\ cur' \in Fleet /\ reading' \in Reading /\ listed' \subseteq Fleet
    BY <1>1, <1>2, NextMinerType DEF TypeOK, EndBody, Phases
  <1>8. QED
    BY <1>4, <1>5, <1>6, <1>7 DEF TypeOK, Observe

LEMMA TypeGate == TypeOK /\ Gate => TypeOK'
  <1> SUFFICES ASSUME TypeOK, Gate PROVE TypeOK'
    OBVIOUS
  <1>1. CASE TimerGoneFatal
    BY <1>1, VanishType DEF TimerGoneFatal
  <1>2. CASE TimerGone \/ BlockedByStartup \/ BlockedByNotSustained \/ BlockedByInterlock
    <2>1. AtGate /\ EndBody
      BY <1>2 DEF TimerGone, BlockedByStartup, BlockedByNotSustained, BlockedByInterlock
    <2>2. ms' \in [Fleet -> MinerRecord]
      <3>1. RestartTimer(ms[cur], now) \in MinerRecord
        BY TimeTypes, UpdateTypes DEF TypeOK
      <3>2. CASE UNCHANGED ms
        BY <3>2 DEF TypeOK
      <3>3. CASE ms' = [ms EXCEPT ![cur] = RestartTimer(@, now)]
        BY <3>3, <3>1, OneMiner
      <3>4. CASE BlockedByInterlock
        BY <3>4, <3>2, <3>3 DEF BlockedByInterlock
      <3>5. CASE TimerGone \/ BlockedByStartup \/ BlockedByNotSustained
        BY <3>5, <3>2 DEF TimerGone, BlockedByStartup, BlockedByNotSustained
      <3>6. QED
        BY <1>2, <3>4, <3>5
    <2>3. QED
      BY <2>1, <2>2, NextMinerType DEF TypeOK, AtGate, ghostVars, EndBody
  <1>3. CASE BlockedByCooldown \/ BlockedByWindow \/ BlockedByQa
    <2>1. AtGate /\ ContinueStmt
      BY <1>3 DEF BlockedByCooldown, BlockedByWindow, BlockedByQa
    <2>2. ms' \in [Fleet -> MinerRecord]
      <3>1. EnterDegraded(ms[cur]) \in MinerRecord
        BY TimeTypes, UpdateTypes DEF TypeOK
      <3>2. CASE BlockedByWindow
        BY <3>2, <3>1, OneMiner DEF BlockedByWindow
      <3>3. CASE BlockedByCooldown \/ BlockedByQa
        BY <3>3 DEF BlockedByCooldown, BlockedByQa, TypeOK
      <3>4. QED
        BY <1>3, <3>2, <3>3
    <2>3. QED
      BY <2>1, <2>2, NextMinerType DEF TypeOK, AtGate, ghostVars, ContinueStmt
  <1>4. CASE SendReboot
    BY <1>4 DEF TypeOK, SendReboot, AtGate, ghostVars, Phases
  <1>5. QED
    BY <1>1, <1>2, <1>3, <1>4 DEF Gate

LEMMA TypeStep == TypeOK /\ [Next]_vars => TypeOK'
  <1> SUFFICES ASSUME TypeOK, [Next]_vars PROVE TypeOK'
    OBVIOUS
  <1>1. CASE Boot
    <2>1. ms' \in [Fleet -> MinerRecord]
      BY <1>1, BootTimes, LoadedType
    <2>2. QED
      BY <1>1, <2>1, BootTimes DEF Boot, TypeOK, threadVars, Phases
  <1>2. CASE Crash
    BY <1>2, VanishType DEF Crash
  <1>3. CASE StartTick
    <2>1. now' \in 0..clock' /\ process' \in [start : 0..now', qa : QaStates]
      BY <1>3, StartTickTimes DEF StartTick, TypeOK
    <2>2. QED
      BY <1>3, <2>1, StartTickTimes, FleetFacts, ConstantTypes DEF StartTick, TypeOK, Phases
  <1>4. CASE Observe
    BY <1>4, TypeObserve
  <1>5. CASE Gate
    BY <1>5, TypeGate
  <1>6. CASE RebootFails
    BY <1>6, NextMinerType DEF RebootFails, TypeOK, EndBody, ghostVars
  <1>7. CASE RebootSucceeds
    <2>1. ms' \in [Fleet -> MinerRecord]
      <3>1. AfterAutoReboot(ms[cur], now) \in MinerRecord
        BY TimeTypes, UpdateTypes DEF TypeOK
      <3>2. QED
        BY <1>7, <3>1, OneMiner DEF RebootSucceeds
    <2>2. QED
      BY <1>7, <2>1, NextMinerType DEF RebootSucceeds, TypeOK, EndBody
  <1>8. CASE EndTick
    <2>1. clock' = clock /\ known' \subseteq Fleet /\ ms' \in [Fleet -> MinerRecord] /\ Save
      BY <1>8 DEF EndTick, TypeOK
    <2>2. QED
      BY <1>8, <2>1, SaveType, FleetFacts DEF EndTick, TypeOK, Times, Phases
  <1>9. CASE ManualStart
    BY <1>9, AutoRebootAssumption
       DEF ManualStart, TypeOK, mainVars, threadVars, ghostVars, Times, AutoRebootAssumption
  <1>10. CASE ManualFails
    BY <1>10, NextManualType DEF ManualFails, TypeOK, mainVars, threadVars, ghostVars
  <1>11. CASE ManualSucceeds
    <2>1. ms' \in [Fleet -> MinerRecord]
      <3>1. CASE ManualTarget \notin known
        BY <1>11, <3>1 DEF ManualSucceeds, TypeOK
      <3>2. CASE ManualTarget \in known
        <4>1. ms[ManualTarget] \in MinerRecord /\ poller.ts \in Times
          BY <3>2 DEF TypeOK
        <4>2. AfterManualReboot(ms[ManualTarget], poller.ts) \in MinerRecord
          BY <4>1, ManualUpdateType
        <4>3. QED
          BY <1>11, <3>2, <4>2, OneMiner DEF ManualSucceeds
      <3>3. QED
        BY <3>1, <3>2
    <2>2. clock' = clock /\ known' \subseteq Fleet
      BY <1>11 DEF ManualSucceeds, mainVars, TypeOK
    <2>3. poller' \in [todo : SUBSET Fleet, ts : Times, bulk : BOOLEAN]
      BY <1>11, NextManualType DEF ManualSucceeds
    <2>4. CASE poller.bulk
      BY <1>11, <2>1, <2>3, <2>4 DEF ManualSucceeds, TypeOK, mainVars, threadVars
    <2>5. CASE ~poller.bulk
      BY <1>11, <2>1, <2>2, <2>3, <2>5, SaveType
         DEF ManualSucceeds, TypeOK, mainVars, threadVars
    <2>6. QED
      BY <2>4, <2>5
  <1>12. CASE PollerSave
    <2>1. clock' = clock /\ known' \subseteq Fleet /\ ms' \in [Fleet -> MinerRecord] /\ Save
      BY <1>12 DEF PollerSave, Save, TypeOK, mainVars
    <2>2. QED
      BY <1>12, <2>1, SaveType DEF PollerSave, TypeOK, mainVars, threadVars
  <1>13. CASE UNCHANGED vars
    BY <1>13 DEF TypeOK, vars
  <1>14. CASE Elapse
    <2>1. now' \in 0..clock'
      BY <1>14, ElapseTimes, TimeTypes
    <2>2. QED
      BY <1>14, <2>1, ElapseTimes DEF TypeOK
  <1>15. QED
    BY <1>1, <1>2, <1>3, <1>4, <1>5, <1>6, <1>7, <1>8, <1>9, <1>10, <1>11, <1>12, <1>13, <1>14
       DEF Next, MainLoop, Operator

(* Every variable of the monitor keeps its type.                                *)
THEOREM TypeCorrect == Spec => []TypeOK
  BY TypeInit, TypeStep, PTL DEF Spec
-------------------------------------------------------------------------------
(* The reboot is earned.                                                        *)

LEMMA EarnedInit == Init => EarnedInv
  BY DEF Init, EarnedInv, AutoRebootEarned, InitialMiner, NoTs

(* A step that takes no reading, sends no reboot and starts no LOW timer.       *)
LEMMA EarnedQuiet ==
    ASSUME TypeOK, EarnedInv, lowRun' = lowRun, now' \in Nat, now' >= now,
           \A m \in Fleet : ms'[m].low_since_ts \in {NoTs, ms[m].low_since_ts, now'},
           \A m \in Fleet : ms'[m].low_since_ts # NoTs => ms[m].low_since_ts # NoTs,
           phase' = "cli" => UNCHANGED <<phase, cur, now, process>>
    PROVE  EarnedInv'
  <1>1. ASSUME NEW m \in Fleet
        PROVE  /\ lowRun'[m] <= now'
               /\ ms'[m].low_since_ts # NoTs =>
                    lowRun'[m] # NoTs /\ lowRun'[m] <= ms'[m].low_since_ts
    <2>1. lowRun[m] \in Int /\ lowRun[m] <= now /\ now \in Nat
      BY DEF TypeOK, EarnedInv, Times, NoTs
    <2>2. ms[m].low_since_ts # NoTs => lowRun[m] # NoTs /\ lowRun[m] <= ms[m].low_since_ts
      BY DEF EarnedInv
    <2>3. QED
      BY <2>1, <2>2
  <1>2. AutoRebootEarned'
    BY DEF EarnedInv, AutoRebootEarned
  <1>3. QED
    BY <1>1, <1>2 DEF EarnedInv

LEMMA EarnedVanish ==
    ASSUME TypeOK, Vanish
    PROVE  EarnedInv'
  <1>1. ASSUME NEW m \in Fleet
        PROVE  /\ lowRun'[m] <= now'
               /\ ms'[m].low_since_ts = NoTs
    BY DEF Vanish, TypeOK, InitialMiner, NoTs
  <1>2. QED
    BY <1>1 DEF EarnedInv, AutoRebootEarned, Vanish

LEMMA EarnedObserve == TypeOK /\ EarnedInv /\ Observe => EarnedInv'
  <1> SUFFICES ASSUME TypeOK, EarnedInv, Observe PROVE EarnedInv'
    OBVIOUS
  <1>1. PICK r \in Readings :
          /\ ms' = [ms EXCEPT ![cur] = ApplyReading(ms[cur], r, now, Window[process.qa])]
          /\ lowRun' = [lowRun EXCEPT ![cur] =
                          CASE SignalOf(r) # "eligible" -> NoTs
                            [] SignalOf(r) = "eligible" /\ (r.restarted \/ @ = NoTs) -> now
                            [] OTHER -> @]
          /\ phase' # "cli"
    BY DEF Observe, EndBody, NextMiner
  <1>2. r \in Reading /\ Window[process.qa] \in Nat /\ cur \in Fleet /\ now \in Nat /\ now' = now
    BY TimeTypes, ModeTypes, AutoRebootAssumption DEF AutoRebootAssumption, TypeOK, Observe
  <1> DEFINE u == ApplyReading(ms[cur], r, now, Window[process.qa])
  <1>3. u.low_since_ts # NoTs =>
          /\ SignalOf(r) = "eligible"
          /\ \/ u.low_since_ts = now
             \/ u.low_since_ts = ms[cur].low_since_ts /\ ~r.restarted
    <2>1. ms[cur] \in MinerRecord
      BY <1>2 DEF TypeOK
    <2>2. ASSUME NEW w \in Nat
          PROVE  LET v == ApplyReading(ms[cur], r, now, w)
                 IN  v.low_since_ts # NoTs =>
                       /\ SignalOf(r) = "eligible"
                       /\ \/ v.low_since_ts = now
                          \/ v.low_since_ts = ms[cur].low_since_ts /\ ~r.restarted
      BY <1>2, <2>1, ApplyReadingTimer
    <2>3. QED
      BY <1>2, <2>2
  <1>4. /\ lowRun[cur] \in Int /\ lowRun[cur] <= now
        /\ ms[cur].low_since_ts # NoTs =>
              lowRun[cur] # NoTs /\ lowRun[cur] <= ms[cur].low_since_ts
    BY <1>2 DEF EarnedInv, TypeOK, Times, NoTs
  <1>5. /\ SignalOf(r) # "eligible" => lowRun'[cur] = NoTs
        /\ SignalOf(r) = "eligible" /\ (r.restarted \/ lowRun[cur] = NoTs) =>
              lowRun'[cur] = now
        /\ SignalOf(r) = "eligible" /\ ~r.restarted /\ lowRun[cur] # NoTs =>
              lowRun'[cur] = lowRun[cur]
    BY <1>1, <1>2 DEF TypeOK
  <1>6. ms'[cur] = u
    BY <1>1, <1>2 DEF TypeOK
  <1> HIDE DEF u
  <1>7. /\ lowRun'[cur] <= now'
        /\ u.low_since_ts # NoTs => lowRun'[cur] # NoTs /\ lowRun'[cur] <= u.low_since_ts
    BY <1>2, <1>3, <1>4, <1>5 DEF NoTs
  <1>8. ASSUME NEW m \in Fleet, m # cur
        PROVE  ms'[m] = ms[m] /\ lowRun'[m] = lowRun[m]
    BY <1>1, <1>8 DEF TypeOK
  <1>9. AutoRebootEarned'
    BY <1>1 DEF AutoRebootEarned
  <1>10. QED
    BY <1>2, <1>6, <1>7, <1>8, <1>9 DEF EarnedInv

LEMMA EarnedGate == TypeOK /\ EarnedInv /\ Gate => EarnedInv'
  <1> SUFFICES ASSUME TypeOK, EarnedInv, Gate PROVE EarnedInv'
    OBVIOUS
  <1>1. CASE TimerGoneFatal
    BY <1>1, EarnedVanish DEF TimerGoneFatal
  <1>2. CASE TimerGone \/ BlockedByStartup \/ BlockedByNotSustained
             \/ BlockedByCooldown \/ BlockedByQa
    <2>1. AtGate /\ UNCHANGED ms /\ NextMiner
      BY <1>2 DEF TimerGone, BlockedByStartup, BlockedByNotSustained, BlockedByCooldown,
                  BlockedByQa, EndBody, ContinueStmt
    <2>2. QED
      BY <2>1, TimeTypes, EarnedQuiet DEF AtGate, ghostVars, NextMiner, TypeOK
  <1>3. CASE BlockedByInterlock
    <2>1. AtGate /\ NextMiner /\ ms[cur].low_since_ts # NoTs
      BY <1>3 DEF BlockedByInterlock, EndBody, PastSustained, PastStartup, Me
    <2>2. ms' = ms \/ ms' = [ms EXCEPT ![cur] = RestartTimer(@, now)]
      BY <1>3 DEF BlockedByInterlock
    <2>3. RestartTimer(ms[cur], now).low_since_ts = now
      <3>1. ms[cur] \in MinerRecord
        BY <2>1 DEF TypeOK, AtGate
      <3>2. QED
        BY <3>1 DEF RestartTimer, MinerRecord
    <2>4. ASSUME NEW m \in Fleet
          PROVE  /\ ms'[m].low_since_ts \in {NoTs, ms[m].low_since_ts, now}
                 /\ ms'[m].low_since_ts # NoTs => ms[m].low_since_ts # NoTs
      <3>1. CASE m = cur
        BY <2>1, <2>2, <2>3, <3>1 DEF TypeOK
      <3>2. CASE m # cur
        BY <2>2, <3>2 DEF TypeOK
      <3>3. QED
        BY <3>1, <3>2
    <2>5. UNCHANGED <<now, lowRun>> /\ phase' # "cli" /\ now \in Nat
      BY <2>1, TimeTypes DEF AtGate, ghostVars, NextMiner
    <2>6. QED
      BY <2>4, <2>5, EarnedQuiet
  <1>4. CASE BlockedByWindow
    <2>1. AtGate /\ NextMiner /\ ms' = [ms EXCEPT ![cur] = EnterDegraded(@)]
      BY <1>4 DEF BlockedByWindow, ContinueStmt
    <2>2. EnterDegraded(ms[cur]).low_since_ts = ms[cur].low_since_ts
      BY UpdateTypes DEF TypeOK
    <2>3. QED
      BY <2>1, <2>2, TimeTypes, EarnedQuiet DEF AtGate, ghostVars, NextMiner, TypeOK
  <1>5. CASE SendReboot
    <2>1. /\ UNCHANGED <<now, process, lowRun, ms, cur>> /\ cur \in Fleet
          /\ ms[cur].low_since_ts # NoTs
          /\ now - ms[cur].low_since_ts >= LowSustained[process.qa]
          /\ ~(now - process.start < StartupGuard)
      BY <1>5 DEF SendReboot, AtGate, ghostVars, PastWindow, PastInterlocks, PastSustained,
                  PastStartup, Me, StartupGuardActive, TypeOK
    <2>2. lowRun[cur] # NoTs /\ lowRun[cur] <= ms[cur].low_since_ts
      BY <2>1 DEF EarnedInv
    <2>3. /\ lowRun[cur] \in Int /\ ms[cur].low_since_ts \in Int /\ now \in Int
          /\ process.start \in Int /\ StartupGuard \in Int /\ LowSustained[process.qa] \in Int
      BY <2>1, TimeTypes, ModeTypes, AutoRebootAssumption DEF TypeOK, MinerRecord, Times, NoTs, AutoRebootAssumption
    <2>4. AutoRebootEarned'
      BY <2>1, <2>2, <2>3 DEF AutoRebootEarned
    <2>5. QED
      BY <2>1, <2>4 DEF EarnedInv
  <1>6. QED
    BY <1>1, <1>2, <1>3, <1>4, <1>5 DEF Gate

LEMMA EarnedStep == TypeOK /\ EarnedInv /\ [Next]_vars => EarnedInv'
  <1> SUFFICES ASSUME TypeOK, EarnedInv, [Next]_vars PROVE EarnedInv'
    OBVIOUS
  <1>1. CASE Boot
    <2>1. \A m \in Fleet : ms'[m].low_since_ts = NoTs
      BY <1>1, BootTimes, LoadedTimer
    <2>2. QED
      BY <1>1, <2>1, BootTimes, EarnedQuiet DEF Boot
  <1>2. CASE Crash
    BY <1>2, EarnedVanish DEF Crash
  <1>3. CASE StartTick
    BY <1>3, StartTickTimes, EarnedQuiet DEF StartTick
  <1>4. CASE Observe
    BY <1>4, EarnedObserve
  <1>5. CASE Gate
    BY <1>5, EarnedGate
  <1>6. CASE RebootFails
    BY <1>6, EarnedQuiet DEF RebootFails, EndBody, NextMiner, ghostVars, TypeOK
  <1>7. CASE RebootSucceeds
    <2>1. ms[cur] \in MinerRecord /\ now \in Nat
      BY DEF TypeOK
    <2>2. AfterAutoReboot(ms[cur], now).low_since_ts = NoTs
      BY <2>1, UpdateTypes
    <2>3. QED
      BY <1>7, <2>2, EarnedQuiet DEF RebootSucceeds, EndBody, NextMiner, TypeOK
  <1>8. CASE EndTick
    BY <1>8, EarnedQuiet DEF EndTick, TypeOK
  <1>9. CASE ManualStart \/ ManualFails \/ PollerSave
    <2>1. UNCHANGED <<mainVars, ms, lowRun>>
      BY <1>9 DEF ManualStart, ManualFails, PollerSave, ghostVars
    <2>2. QED
      BY <2>1, EarnedQuiet DEF mainVars, TypeOK
  <1>10. CASE ManualSucceeds
    <2>1. UNCHANGED <<now, process, phase, cur, lowRun>>
      BY <1>10 DEF ManualSucceeds, mainVars
    <2>2. ASSUME NEW m \in Fleet
          PROVE  ms'[m].low_since_ts \in {NoTs, ms[m].low_since_ts}
      <3>1. CASE ms' = ms
        BY <3>1
      <3>2. CASE ManualTarget \in known
        <4>1. ms[ManualTarget] \in MinerRecord /\ poller.ts \in Times
          BY <3>2 DEF TypeOK
        <4>2. AfterManualReboot(ms[ManualTarget], poller.ts).low_since_ts = NoTs
          BY <4>1, ManualUpdateType
        <4>3. QED
          BY <1>10, <3>2, <4>2 DEF ManualSucceeds, TypeOK
      <3>3. QED
        BY <1>10, <3>1, <3>2 DEF ManualSucceeds
    <2>3. now \in Nat
      BY DEF TypeOK
    <2>4. QED
      BY <2>1, <2>2, <2>3, EarnedQuiet
  <1>11. CASE UNCHANGED vars
    BY <1>11, EarnedQuiet DEF vars, TypeOK
  <1>12. CASE Elapse
    BY <1>12, ElapseTimes, TimeTypes, EarnedQuiet
  <1>13. QED
    BY <1>1, <1>2, <1>3, <1>4, <1>5, <1>6, <1>7, <1>8, <1>9, <1>10, <1>11, <1>12
       DEF Next, MainLoop, Operator

(* No automatic reboot is sent before the startup guard of this process is over *)
(* and this process has read the miner low, without a break or a restart, for   *)
(* the LowSustained of its mode: for every fleet, every configuration of the policy, every      *)
(* interleaving with the confirmed manual reboots and every crash.              *)
THEOREM RebootIsEarned == Spec => []AutoRebootEarned
  <1>1. Init => TypeOK /\ EarnedInv
    BY TypeInit, EarnedInit
  <1>2. TypeOK /\ EarnedInv /\ [Next]_vars => (TypeOK /\ EarnedInv)'
    BY TypeStep, EarnedStep
  <1>3. EarnedInv => AutoRebootEarned
    BY DEF EarnedInv
  <1>4. QED
    BY <1>1, <1>2, <1>3, PTL DEF Spec

-------------------------------------------------------------------------------
(* The cooldown outlives crashes, failed saves and confirmed manual reboots:    *)
(* CooldownInv is inductive and sending a reboot under it respects Cooldown.    *)

SameMarks(u, s) ==
    /\ u.last_manual_reboot_ts = s.last_manual_reboot_ts
    /\ u.last_auto_reboot_ts = s.last_auto_reboot_ts
    /\ u.auto_reboot_timestamps \subseteq s.auto_reboot_timestamps

\* Time does not pass in a step that saves.
SavesOrNot == (SaveSucceeds /\ clock' = clock) \/ UNCHANGED <<disk, saved>>

LEMMA CooldownInit == Init => CooldownInv
  BY DEF Init, CooldownInv, Dated, Accounts, InitialMiner, NoFile, NoTs

(* The arithmetic of the invariant, from the types.                             *)
LEMMA MarkTypes ==
    ASSUME TypeOK
    PROVE  /\ now \in Nat /\ clock \in Nat /\ now <= clock
           /\ process.start \in Nat /\ process.start <= now
           /\ disk.at \in Nat /\ poller.ts \in Int
           /\ StaleAfter \in Nat
           /\ \A m \in Fleet :
                /\ ms[m] \in MinerRecord /\ disk.ms[m] \in MinerRecord
                /\ saved[m].auto \subseteq Nat /\ saved[m].manual \in Int
  BY AutoRebootAssumption, RetentionAssumption
     DEF TypeOK, AutoRebootAssumption, RetentionAssumption, Times, NoTs

LEMMA RecordMarkTypes ==
    ASSUME NEW s \in MinerRecord
    PROVE  /\ s.last_manual_reboot_ts \in Int /\ s.last_auto_reboot_ts \in Int
           /\ s.auto_reboot_timestamps \subseteq Nat
  BY DEF MinerRecord, Times, NoTs

(* A step that saves nothing, or saves what memory then holds, keeps the        *)
(* invariant if memory still accounts for what had been saved before.           *)
LEMMA CooldownKept ==
    ASSUME TypeOK, TypeOK', CooldownInv, SavesOrNot, clock' >= clock, process' = process,
           phase' # "down",
           \A m \in Fleet : Dated(ms'[m], clock', now') /\ Accounts(m, ms'[m]),
           poller' # Idle =>
             /\ poller'.ts <= clock' /\ poller'.ts # NoTs
             /\ \A m \in Fleet : ms'[m].last_manual_reboot_ts <= poller'.ts
    PROVE  CooldownInv'
  <1> USE DEF CooldownInv
  <1>1. ASSUME NEW m \in Fleet
        PROVE  /\ ms'[m].last_manual_reboot_ts \in Int /\ ms'[m].last_auto_reboot_ts \in Int
               /\ ms'[m].auto_reboot_timestamps \subseteq Nat
    BY RecordMarkTypes DEF TypeOK
  <1>2. clock' \in Nat /\ now' \in Nat /\ now' <= clock' /\ process.start \in Nat
    BY TimeTypes DEF TypeOK
  <1>3. CASE SaveSucceeds /\ clock' = clock
    <2>1. disk' = [exists |-> TRUE, at |-> clock, known |-> known', ms |-> ms'] /\ clock' = clock
      BY <1>3 DEF SaveSucceeds
    <2>2. ASSUME NEW m \in Fleet
          PROVE  /\ saved'[m].auto = saved[m].auto \cup ms'[m].auto_reboot_timestamps
                 /\ saved'[m].manual = IF ms'[m].last_manual_reboot_ts >= saved[m].manual
                                       THEN ms'[m].last_manual_reboot_ts
                                       ELSE saved[m].manual
      BY <1>3 DEF SaveSucceeds
    <2>3. ASSUME NEW m \in Fleet
          PROVE  /\ Dated(ms'[m], clock', clock') /\ Accounts(m, ms[m])'
                 /\ \A ts \in saved'[m].auto : ts <= clock'
                 /\ saved'[m].manual <= clock'
      <3>1. Dated(ms'[m], clock', now') /\ Accounts(m, ms'[m]) /\ process' = process
        OBVIOUS
      <3>2. /\ \A ts \in saved[m].auto : ts <= disk.at /\ ts \in Nat
            /\ saved[m].manual <= disk.at /\ disk.at <= clock
            /\ disk.at \in Nat /\ clock \in Nat /\ saved[m].manual \in Int /\ StaleAfter \in Nat
        BY MarkTypes
      <3>3. QED
        BY <1>1, <1>2, <2>1, <2>2, <3>1, <3>2 DEF Dated, Accounts
    <2>4. QED
      BY <2>1, <2>3, <1>2
  <1>4. CASE UNCHANGED <<disk, saved>>
    <2>1. ASSUME NEW m \in Fleet
          PROVE  /\ Accounts(m, ms[m])'
                 /\ disk.exists => Accounts(m, disk.ms[m])'
      <3>1. Accounts(m, ms'[m]) /\ (disk.exists => Accounts(m, disk.ms[m]))
        OBVIOUS
      <3>2. QED
        BY <1>2, <1>4, <3>1, MarkTypes DEF Accounts
    <2>2. disk.at <= clock'
      BY <1>2, MarkTypes
    <2>3. QED
      BY <1>4, <2>1, <2>2
  <1>5. QED
    BY <1>3, <1>4 DEF SavesOrNot

(* Memory with the same marks accounts for the same reboots.                    *)
LEMMA SameMarksKept ==
    ASSUME TypeOK, TypeOK', CooldownInv, phase # "down", phase' # "down",
           clock' >= clock, now' >= now, process' = process,
           SavesOrNot, \A m \in Fleet : SameMarks(ms'[m], ms[m]),
           \/ poller' = Idle
           \/ poller # Idle /\ poller'.ts = poller.ts
           \/ poller'.ts = clock /\ clock' = clock
    PROVE  CooldownInv'
  <1>1. ASSUME NEW m \in Fleet
        PROVE  Dated(ms'[m], clock', now') /\ Accounts(m, ms'[m])
    <2>1. Dated(ms[m], clock, now) /\ Accounts(m, ms[m]) /\ SameMarks(ms'[m], ms[m])
      BY DEF CooldownInv
    <2>2. now \in Nat /\ now' \in Nat /\ clock \in Nat /\ clock' \in Nat
      BY DEF TypeOK
    <2>3. ms[m].last_manual_reboot_ts \in Int /\ ms[m].last_auto_reboot_ts \in Int
      BY MarkTypes, RecordMarkTypes
    <2>4. QED
      BY <2>1, <2>2, <2>3 DEF Dated, Accounts, SameMarks
  <1>2. ASSUME poller' # Idle
        PROVE  /\ poller'.ts <= clock' /\ poller'.ts # NoTs
               /\ \A m \in Fleet : ms'[m].last_manual_reboot_ts <= poller'.ts
    <2>1. CASE poller # Idle /\ poller'.ts = poller.ts
      <3>1. poller.ts \in Int /\ clock \in Nat /\ clock' \in Nat
        BY MarkTypes DEF TypeOK
      <3>2. QED
        BY <1>2, <2>1, <3>1 DEF CooldownInv, SameMarks
    <2>2. CASE poller'.ts = clock /\ clock' = clock
      BY <2>2, MarkTypes DEF CooldownInv, SameMarks, Dated, NoTs
    <2>3. QED
      BY <1>2, <2>1, <2>2
  <1>3. QED
    BY <1>1, <1>2, CooldownKept

LEMMA CooldownVanish ==
    ASSUME TypeOK, CooldownInv, Vanish
    PROVE  CooldownInv'
  <1>1. ASSUME NEW m \in Fleet PROVE Dated(ms'[m], clock', now')
    BY MarkTypes DEF Vanish, Dated, InitialMiner, NoTs
  <1>2. UNCHANGED <<clock, process, disk, saved>> /\ phase' = "down" /\ poller' = Idle
    BY DEF Vanish
  <1>3. ASSUME NEW m \in Fleet, disk.exists PROVE Accounts(m, disk.ms[m])'
    BY <1>2, <1>3 DEF CooldownInv, Accounts
  <1>4. QED
    BY <1>1, <1>2, <1>3 DEF CooldownInv

(* A process that ignores a stale state.json forgets reboots of more than       *)
(* StaleAfter ago, which the invariant lets it forget.                          *)
LEMMA CooldownBoot ==
    ASSUME TypeOK, TypeOK', CooldownInv, Boot
    PROVE  CooldownInv'
  <1>1. /\ ms' = Loaded(now') /\ clock' = now' /\ process'.start = now'
        /\ UNCHANGED <<disk, saved, poller>> /\ phase = "down"
    BY BootTimes DEF Boot
  <1>2. /\ now' \in Nat /\ clock \in Nat /\ now' >= clock /\ process.start \in Nat
        /\ now' >= process.start
        /\ UNCHANGED <<disk, saved, poller>> /\ phase = "down"
    BY <1>1, BootTimes, TimeTypes
  <1>3. poller' = Idle
    BY <1>2 DEF CooldownInv
  <1>4. ASSUME NEW m \in Fleet
        PROVE  /\ Dated(ms'[m], clock', now') /\ Accounts(m, ms[m])'
               /\ disk.exists => Accounts(m, disk.ms[m])'
    <2>1. /\ Dated(disk.ms[m], disk.at, disk.at) /\ disk.at <= clock /\ disk.at \in Nat
          /\ disk.exists => Accounts(m, disk.ms[m])
          /\ ~disk.exists => saved[m] = [auto |-> {}, manual |-> NoTs]
          /\ \A ts \in saved[m].auto : ts <= disk.at
          /\ saved[m].manual <= disk.at
          /\ saved[m].auto \subseteq Nat /\ saved[m].manual \in Int
          /\ disk.ms[m] \in MinerRecord
          /\ StaleAfter \in Nat
      BY MarkTypes DEF CooldownInv
    <2>2. /\ disk.ms[m].last_manual_reboot_ts \in Int
          /\ disk.ms[m].last_auto_reboot_ts \in Int
      BY <2>1, RecordMarkTypes
    <2>3. disk.exists => Accounts(m, disk.ms[m])'
      BY <1>1, <1>2, <2>1, <2>2 DEF Accounts
    <2>4. CASE disk.exists /\ now' - disk.at <= StaleAfter
      <3>1. ms'[m] = Sanitized(disk.ms[m])
        BY <1>1, <2>4 DEF Loaded, Usable
      <3>2. SameMarks(ms'[m], disk.ms[m])
        BY <2>1, <3>1 DEF SameMarks, Sanitized, MinerRecord
      <3>3. QED
        BY <1>1, <1>2, <2>1, <2>2, <2>3, <2>4, <3>2 DEF Dated, Accounts, SameMarks
    <2>5. CASE ~(disk.exists /\ now' - disk.at <= StaleAfter)
      <3>1. ms'[m] = InitialMiner
        BY <1>1, <2>5 DEF Loaded, Usable
      <3>2. Dated(ms'[m], clock', now')
        BY <1>1, <1>2, <3>1 DEF Dated, InitialMiner, NoTs
      <3>3. CASE ~disk.exists
        <4>1. saved'[m].auto = {} /\ saved'[m].manual = NoTs /\ ~disk'.exists
          BY <1>2, <2>1, <3>3
        <4>2. ms'[m].last_manual_reboot_ts = NoTs
          BY <3>1 DEF InitialMiner
        <4>3. Accounts(m, ms[m])'
          BY <4>1, <4>2 DEF Accounts, NoTs
        <4>4. QED
          BY <3>2, <3>3, <4>3
      <3>4. CASE now' - disk.at > StaleAfter
        <4>1. /\ \A ts \in saved[m].auto : now' - ts > StaleAfter
              /\ now' - saved[m].manual > StaleAfter
          BY <1>2, <2>1, <3>4
        <4>2. QED
          BY <1>1, <1>2, <2>3, <3>2, <4>1 DEF Accounts
      <3>5. QED
        BY <1>2, <2>1, <2>3, <2>5, <3>2, <3>3, <3>4
    <2>6. QED
      BY <2>4, <2>5
  <1>5. disk.at <= clock'
    BY <1>1, <1>2, MarkTypes DEF CooldownInv
  <1>6. QED
    BY <1>1, <1>2, <1>3, <1>4, <1>5 DEF CooldownInv

LEMMA CooldownObserve ==
    ASSUME TypeOK, TypeOK', CooldownInv, Observe
    PROVE  CooldownInv'
  <1>1. PICK r \in Readings :
          /\ ms' = [ms EXCEPT ![cur] = ApplyReading(ms[cur], r, now, Window[process.qa])]
          /\ phase' # "down"
    BY DEF Observe, EndBody, NextMiner
  <1>2. /\ r \in Reading /\ Window[process.qa] \in Nat /\ cur \in Fleet /\ now \in Nat
        /\ ms[cur] \in MinerRecord
    BY ModeTypes, AutoRebootAssumption DEF AutoRebootAssumption, TypeOK
  <1>3. SameMarks(ApplyReading(ms[cur], r, now, Window[process.qa]), ms[cur])
    BY <1>2, ApplyReadingMarks DEF SameMarks
  <1>4. \A m \in Fleet : SameMarks(ms'[m], ms[m])
    BY <1>1, <1>2, <1>3 DEF TypeOK, SameMarks
  <1>5. /\ UNCHANGED <<clock, now, process, disk, saved, poller>> /\ phase = "observe"
        /\ clock' >= clock /\ now' >= now
    BY TimeTypes DEF Observe
  <1>6. QED
    BY <1>1, <1>2, <1>4, <1>5, SameMarksKept DEF SavesOrNot

LEMMA CooldownGate ==
    ASSUME TypeOK, TypeOK', CooldownInv, Gate
    PROVE  CooldownInv'
  <1>1. CASE TimerGoneFatal
    BY <1>1, CooldownVanish DEF TimerGoneFatal
  <1>2. CASE ~TimerGoneFatal
    <2>1. /\ AtGate /\ phase' # "down"
          /\ \/ ms' = ms
             \/ ms' = [ms EXCEPT ![cur] = RestartTimer(@, now)]
             \/ ms' = [ms EXCEPT ![cur] = EnterDegraded(@)]
      BY <1>2 DEF Gate, TimerGone, BlockedByStartup, BlockedByNotSustained,
                  BlockedByInterlock, BlockedByCooldown, BlockedByWindow, BlockedByQa,
                  SendReboot, EndBody, ContinueStmt, NextMiner
    <2>2. UNCHANGED <<clock, now, process, disk, saved, poller>> /\ phase = "gate"
          /\ cur \in Fleet /\ ms[cur] \in MinerRecord /\ now \in Nat
          /\ clock' >= clock /\ now' >= now
      BY <2>1, TimeTypes DEF AtGate, ghostVars, TypeOK
    <2>3. /\ SameMarks(RestartTimer(ms[cur], now), ms[cur])
          /\ SameMarks(EnterDegraded(ms[cur]), ms[cur])
      BY <2>2, UpdateMarks DEF SameMarks
    <2>4. \A m \in Fleet : SameMarks(ms'[m], ms[m])
      BY <2>1, <2>2, <2>3 DEF TypeOK, SameMarks
    <2>5. QED
      BY <2>1, <2>2, <2>4, SameMarksKept DEF SavesOrNot
  <1>3. QED
    BY <1>1, <1>2

LEMMA CooldownRebootSucceeds ==
    ASSUME TypeOK, TypeOK', CooldownInv, RebootSucceeds
    PROVE  CooldownInv'
  <1>1. /\ ms' = [ms EXCEPT ![cur] = AfterAutoReboot(@, now)]
        /\ UNCHANGED <<clock, now, process, disk, saved, poller>>
        /\ phase # "down" /\ phase' # "down"
        /\ cur \in Fleet /\ ms[cur] \in MinerRecord
    BY DEF RebootSucceeds, EndBody, NextMiner, TypeOK
  <1>2. ASSUME NEW m \in Fleet
        PROVE  /\ Dated(ms'[m], clock', now') /\ Accounts(m, ms'[m])
               /\ ms'[m].last_manual_reboot_ts = ms[m].last_manual_reboot_ts
    <2>1. Dated(ms[m], clock, now) /\ Accounts(m, ms[m])
      BY <1>1 DEF CooldownInv
    <2>2. CASE m # cur
      BY <1>1, <2>1, <2>2 DEF TypeOK
    <2>3. CASE m = cur
      <3>1. /\ ms'[m].last_manual_reboot_ts = ms[m].last_manual_reboot_ts
            /\ ms'[m].last_auto_reboot_ts = now
            /\ ms'[m].auto_reboot_timestamps = ms[m].auto_reboot_timestamps \cup {now}
        BY <1>1, <2>3, UpdateMarks DEF TypeOK
      <3>2. /\ saved[m].auto \subseteq Nat /\ process.start \in Nat /\ StaleAfter \in Nat
            /\ now \in Nat
        BY MarkTypes
      <3>3. /\ ms[m].last_auto_reboot_ts \in Int
            /\ ms[m].auto_reboot_timestamps \subseteq Nat
        BY MarkTypes, RecordMarkTypes
      <3>4. QED
        BY <1>1, <2>1, <3>1, <3>2, <3>3 DEF Dated, Accounts
    <2>4. QED
      BY <2>2, <2>3
  <1>3. clock' >= clock
    BY <1>1, MarkTypes
  <1>4. poller' # Idle =>
          /\ poller'.ts <= clock' /\ poller'.ts # NoTs
          /\ \A m \in Fleet : ms'[m].last_manual_reboot_ts <= poller'.ts
    BY <1>1, <1>2 DEF CooldownInv
  <1>5. QED
    BY <1>1, <1>2, <1>3, <1>4, CooldownKept DEF SavesOrNot

LEMMA CooldownManualSucceeds ==
    ASSUME TypeOK, TypeOK', CooldownInv, ManualSucceeds
    PROVE  CooldownInv'
  <1>1. /\ ms' = IF ManualTarget \in known
                 THEN [ms EXCEPT ![ManualTarget] = AfterManualReboot(@, poller.ts)] ELSE ms
        /\ UNCHANGED <<clock, now, process, phase>> /\ Save /\ poller # Idle
        /\ (poller' = Idle \/ poller'.ts = poller.ts)
    BY DEF ManualSucceeds, mainVars, Save, NextManual, TypeOK
  <1>2. phase # "down" /\ poller.ts <= clock /\ poller.ts \in Int
    BY <1>1, MarkTypes DEF CooldownInv
  <1>3. ASSUME NEW m \in Fleet
        PROVE  /\ Dated(ms'[m], clock', now') /\ Accounts(m, ms'[m])
               /\ ms'[m].last_manual_reboot_ts <= poller.ts
    <2>1. Dated(ms[m], clock, now) /\ Accounts(m, ms[m])
          /\ ms[m].last_manual_reboot_ts <= poller.ts
      BY <1>1, <1>2 DEF CooldownInv
    <2>2. CASE m # ManualTarget \/ ms' = ms
      BY <1>1, <2>1, <2>2 DEF TypeOK
    <2>3. CASE m = ManualTarget /\ ManualTarget \in known
      <3>1. ms[m] \in MinerRecord
        BY MarkTypes
      <3>2. /\ ms'[m].last_manual_reboot_ts = poller.ts
            /\ ms'[m].last_auto_reboot_ts = ms[m].last_auto_reboot_ts
            /\ ms'[m].auto_reboot_timestamps = ms[m].auto_reboot_timestamps
        BY <1>1, <2>3, <3>1, UpdateMarks DEF TypeOK
      <3>3. /\ ms[m].last_manual_reboot_ts \in Int /\ saved[m].manual \in Int
            /\ clock \in Nat
        BY <3>1, MarkTypes, RecordMarkTypes
      <3>4. QED
        BY <1>1, <1>2, <2>1, <3>2, <3>3 DEF Dated, Accounts
    <2>4. QED
      BY <1>1, <2>2, <2>3
  <1>4. clock' >= clock
    BY <1>1, MarkTypes
  <1>5. poller' # Idle =>
          /\ poller'.ts <= clock' /\ poller'.ts # NoTs
          /\ \A m \in Fleet : ms'[m].last_manual_reboot_ts <= poller'.ts
    BY <1>1, <1>2, <1>3 DEF CooldownInv
  <1>6. QED
    BY <1>1, <1>2, <1>3, <1>4, <1>5, CooldownKept DEF Save, SavesOrNot

LEMMA CooldownStep ==
    ASSUME TypeOK, TypeOK', CooldownInv, [Next]_vars
    PROVE  CooldownInv'
  <1>0. now \in Nat /\ clock \in Nat /\ \A m \in Fleet : SameMarks(ms[m], ms[m])
    BY DEF TypeOK, SameMarks
  <1>1. CASE Boot
    BY <1>1, CooldownBoot
  <1>2. CASE Crash
    BY <1>2, CooldownVanish DEF Crash
  <1>3. CASE StartTick
    <2>1. /\ clock' >= clock /\ now' >= now /\ UNCHANGED <<process, ms, disk, saved, poller>>
          /\ phase # "down" /\ phase' # "down"
      BY <1>3, StartTickTimes DEF StartTick
    <2>2. QED
      BY <1>0, <2>1, SameMarksKept DEF SavesOrNot
  <1>4. CASE Observe
    BY <1>4, CooldownObserve
  <1>5. CASE Gate
    BY <1>5, CooldownGate
  <1>6. CASE RebootFails
    <2>1. UNCHANGED <<clock, now, process, ms, disk, saved, poller>>
          /\ phase # "down" /\ phase' # "down"
      BY <1>6 DEF RebootFails, EndBody, NextMiner, ghostVars
    <2>2. QED
      BY <1>0, <2>1, SameMarksKept DEF SavesOrNot
  <1>7. CASE RebootSucceeds
    BY <1>7, CooldownRebootSucceeds
  <1>8. CASE EndTick
    <2>1. UNCHANGED <<clock, now, process, ms, poller>> /\ phase # "down" /\ phase' # "down" /\ Save
      BY <1>8 DEF EndTick
    <2>2. QED
      BY <1>0, <2>1, SameMarksKept DEF Save, SavesOrNot
  <1>9. CASE ManualStart \/ ManualFails \/ PollerSave
    <2>1. UNCHANGED <<clock, now, process, phase, ms>> /\ Save /\ phase # "down"
      BY <1>9 DEF ManualStart, ManualFails, PollerSave, mainVars, ghostVars, Save, CooldownInv
    <2>2. \/ poller' = Idle
          \/ poller # Idle /\ poller'.ts = poller.ts
          \/ poller'.ts = clock /\ clock' = clock
      BY <1>9, <2>1 DEF ManualStart, ManualFails, PollerSave, NextManual, TypeOK
    <2>3. QED
      BY <1>0, <2>1, <2>2, SameMarksKept DEF Save, SavesOrNot
  <1>10. CASE ManualSucceeds
    BY <1>10, CooldownManualSucceeds
  <1>11. CASE UNCHANGED vars
    BY <1>11 DEF vars, CooldownInv, Accounts
  <1>12. CASE Elapse
    <2>1. /\ clock' >= clock /\ now' >= now /\ UNCHANGED <<process, ms, disk, saved, poller>>
          /\ phase # "down" /\ phase' # "down"
      BY <1>0, <1>12, ElapseTimes
    <2>2. QED
      BY <1>0, <2>1, SameMarksKept DEF SavesOrNot
  <1>13. QED
    BY <1>1, <1>2, <1>3, <1>4, <1>5, <1>6, <1>7, <1>8, <1>9, <1>10, <1>11, <1>12
       DEF Next, MainLoop, Operator

(* A step that sends an automatic reboot finds every saved reboot cooled.       *)
LEMMA SendsCooled ==
    ASSUME TypeOK, CooldownInv, [Next]_vars, phase # "cli", phase' = "cli"
    PROVE  CoolAfterSaved(cur)
  <1>1. SendReboot
    BY DEF Next, MainLoop, Operator, Gate, Boot, Crash, Vanish, Elapse, StartTick, Observe,
           TimerGone, TimerGoneFatal, BlockedByStartup, BlockedByNotSustained,
           BlockedByInterlock, BlockedByCooldown, BlockedByWindow, BlockedByQa,
           RebootFails, RebootSucceeds, EndTick, ManualStart, ManualFails,
           ManualSucceeds, PollerSave, EndBody, ContinueStmt, NextMiner, mainVars, vars
  <1>2. /\ phase = "gate" /\ cur \in Fleet
        /\ Latest(ms[cur]) = NoTs \/ ~(now - Latest(ms[cur]) < Cooldown[process.qa])
    BY <1>1 DEF SendReboot, AtGate, PastWindow, Cooling, Me, TypeOK
  <1>3. Accounts(cur, ms[cur])
    BY <1>2 DEF CooldownInv
  <1>4. /\ now \in Nat /\ process.start \in Nat /\ process.start <= now
        /\ Cooldown[process.qa] \in Nat /\ StaleAfter \in Nat /\ StaleAfter >= Cooldown[process.qa]
        /\ saved[cur].auto \subseteq Nat /\ saved[cur].manual \in Int
        /\ ms[cur].last_manual_reboot_ts \in Int /\ ms[cur].last_auto_reboot_ts \in Int
        /\ saved[cur].manual # NoTs => saved[cur].manual >= 0
    <2>1. ms[cur] \in MinerRecord /\ saved[cur].manual \in Times
      BY <1>2 DEF TypeOK
    <2>2. QED
      BY <1>2, <2>1, TimeTypes, ModeTypes, MarkTypes, RecordMarkTypes, RetentionAssumption
         DEF Times, NoTs, RetentionAssumption
  <1>5. QED
    BY <1>2, <1>3, <1>4 DEF CoolAfterSaved, Accounts, Latest, NoTs

(* No automatic reboot is sent within the cooldown of its mode of any reboot a save had put on  *)
(* disk, automatic or manual, whatever crashes, failed saves, restarts and      *)
(* confirmed manual reboots come in between, for every fleet and policy.        *)
THEOREM CooldownHolds == Spec => CooldownSurvivesRestart
  <1>1. Init => TypeOK /\ CooldownInv
    BY TypeInit, CooldownInit
  <1>2. TypeOK /\ CooldownInv /\ [Next]_vars => (TypeOK /\ CooldownInv)'
    BY TypeStep, CooldownStep
  <1>3. TypeOK /\ CooldownInv /\ [Next]_vars =>
          [phase # "cli" /\ phase' = "cli" => CoolAfterSaved(cur)]_vars
    BY SendsCooled
  <1>4. QED
    BY <1>1, <1>2, <1>3, PTL DEF Spec, CooldownSurvivesRestart
(* Whoever accounts for the saved reboots explains a restart by the latest, but   *)
(* for an operator's mark too far ahead of the tick.                             *)
LEMMA Explained == TypeOK /\ CooldownInv => RestartIsExplained
  <1>1. SUFFICES ASSUME TypeOK, CooldownInv, phase = "observe",
                        NEW ts \in saved[cur].auto \cup {saved[cur].manual},
                        Within(ts, now, Attribution)
                 PROVE  \/ RestartCause(ms[cur], now, Attribution).action_ts >= ts
                        \/ ts = saved[cur].manual /\ ms[cur].last_manual_reboot_ts > now + Skew
    BY DEF RestartIsExplained
  <1>2. cur \in Fleet /\ now \in Nat /\ saved[cur].manual \in Times /\ saved[cur].auto \subseteq Nat
    BY <1>1 DEF TypeOK
  <1>3. /\ ms[cur].last_manual_reboot_ts \in Int /\ ms[cur].last_auto_reboot_ts \in Int
        /\ Attribution \in Nat /\ StaleAfter \in Nat /\ StaleAfter >= Attribution /\ Skew \in Nat
        /\ process.start \in Nat /\ process.start <= now
    BY <1>1, <1>2, MarkTypes, RecordMarkTypes, AutoRebootAssumption, RetentionAssumption,
       MinerStateAssumption
       DEF AutoRebootAssumption, RetentionAssumption, MinerStateAssumption
  <1>4. ts \in Nat /\ now - ts <= Attribution
    BY <1>1, <1>2 DEF Within, Times, NoTs
  <1>5. /\ ms[cur].last_auto_reboot_ts <= now
        /\ \/ ts <= ms[cur].last_auto_reboot_ts
           \/ ts = saved[cur].manual /\ ts <= ms[cur].last_manual_reboot_ts
    BY <1>1, <1>2, <1>3, <1>4 DEF CooldownInv, Accounts, Dated
  <1>6. CASE ts <= ms[cur].last_auto_reboot_ts
    BY <1>2, <1>3, <1>4, <1>5, <1>6 DEF RestartCause, Cause, Within, NoTs
  <1>7. CASE ts = saved[cur].manual /\ ts <= ms[cur].last_manual_reboot_ts
    BY <1>2, <1>3, <1>4, <1>5, <1>7 DEF RestartCause, Cause, Within, NoTs
  <1>8. QED
    BY <1>5, <1>6, <1>7

(* No restart within the attribution window of a reboot a save had put on disk  *)
(* is taken for an unexpected one, or for the work of an older action, unless   *)
(* the operator confirmed one further than the tolerance after the start of the *)
(* tick: for every fleet, every interleaving with the operator and every crash. *)
THEOREM RestartExplained == Spec => []RestartIsExplained
  <1>1. Init => TypeOK /\ CooldownInv
    BY TypeInit, CooldownInit
  <1>2. TypeOK /\ CooldownInv /\ [Next]_vars => (TypeOK /\ CooldownInv)'
    BY TypeStep, CooldownStep
  <1>3. QED
    BY <1>1, <1>2, Explained, PTL DEF Spec

-------------------------------------------------------------------------------
(* The window holds across restarts: memory, and state.json once it exists, keep *)
(* every saved automatic reboot since the horizon, and neither ever has more     *)
(* than MaxReboots of them.  No tick forgets by a window that reaches further.   *)

Recent(S, h) == {ts \in S : ts >= h}

Bounded(s, h) ==
    /\ IsFiniteSet(s.auto_reboot_timestamps)
    /\ Cardinality(Recent(s.auto_reboot_timestamps, h)) <= MaxReboots

WindowInv ==
    /\ \A m \in Fleet :
         /\ Bounded(ms[m], horizon) /\ Bounded(disk.ms[m], horizon)
         /\ phase # "down" => Recent(saved[m].auto, horizon) \subseteq ms[m].auto_reboot_timestamps
         /\ disk.exists => Recent(saved[m].auto, horizon) \subseteq disk.ms[m].auto_reboot_timestamps
    /\ phase = "cli" => ~WindowFull
    /\ phase \notin {"down", "sleep"} => horizon >= now - Window[process.qa]

(* What is recent later was recent before, and a record with fewer reboots is    *)
(* bounded when one with more is.                                               *)
LEMMA BoundedLater ==
    ASSUME NEW s, NEW u, NEW t \in Nat, NEW l \in Nat, l >= t, Bounded(s, t),
           s.auto_reboot_timestamps \subseteq Nat,
           u.auto_reboot_timestamps \subseteq s.auto_reboot_timestamps
    PROVE  Bounded(u, l)
  <1>1. MaxReboots \in Nat
    BY AutoRebootAssumption DEF AutoRebootAssumption
  <1>2. IsFiniteSet(s.auto_reboot_timestamps)
    BY DEF Bounded
  <1>3. Recent(s.auto_reboot_timestamps, t) \subseteq s.auto_reboot_timestamps
    BY DEF Recent
  <1>4. Recent(u.auto_reboot_timestamps, l) \subseteq Recent(s.auto_reboot_timestamps, t)
    BY DEF Recent
  <1>5. /\ IsFiniteSet(u.auto_reboot_timestamps)
        /\ IsFiniteSet(Recent(s.auto_reboot_timestamps, t))
    BY <1>2, <1>3, FS_Subset
  <1>6. /\ Cardinality(Recent(u.auto_reboot_timestamps, l))
             <= Cardinality(Recent(s.auto_reboot_timestamps, t))
        /\ IsFiniteSet(Recent(u.auto_reboot_timestamps, l))
    BY <1>4, <1>5, FS_Subset
  <1>7. /\ Cardinality(Recent(u.auto_reboot_timestamps, l)) \in Nat
        /\ Cardinality(Recent(s.auto_reboot_timestamps, t)) \in Nat
    BY <1>5, <1>6, FS_CardinalityType
  <1>8. QED
    BY <1>1, <1>5, <1>6, <1>7 DEF Bounded

(* A record without reboots is bounded.                                         *)
LEMMA BoundedEmpty ==
    ASSUME NEW s, NEW t, s.auto_reboot_timestamps = {}
    PROVE  Bounded(s, t)
  <1>1. Recent(s.auto_reboot_timestamps, t) = {}
    BY DEF Recent
  <1>2. MaxReboots \in Nat
    BY AutoRebootAssumption DEF AutoRebootAssumption
  <1>3. QED
    BY <1>1, <1>2, FS_EmptySet DEF Bounded

(* A miner whose window is not full may be rebooted once more.                  *)
LEMMA BoundedOneMore ==
    ASSUME NEW s, NEW u, NEW t, NEW h, Bounded(s, h),
           Cardinality(s.auto_reboot_timestamps) < MaxReboots,
           u.auto_reboot_timestamps = s.auto_reboot_timestamps \cup {t}
    PROVE  Bounded(u, h)
  <1>1. MaxReboots \in Nat
    BY AutoRebootAssumption DEF AutoRebootAssumption
  <1>2. IsFiniteSet(s.auto_reboot_timestamps) /\ Cardinality(s.auto_reboot_timestamps) \in Nat
    BY FS_CardinalityType DEF Bounded
  <1>3. /\ IsFiniteSet(u.auto_reboot_timestamps)
        /\ Cardinality(u.auto_reboot_timestamps) <= Cardinality(s.auto_reboot_timestamps) + 1
    <2>1. CASE t \in s.auto_reboot_timestamps
      <3>1. u.auto_reboot_timestamps = s.auto_reboot_timestamps
        BY <2>1
      <3>2. /\ IsFiniteSet(u.auto_reboot_timestamps)
            /\ Cardinality(u.auto_reboot_timestamps) = Cardinality(s.auto_reboot_timestamps)
        BY <1>2, <3>1
      <3>3. QED
        BY <1>2, <3>2
    <2>2. CASE t \notin s.auto_reboot_timestamps
      BY <1>2, <2>2, FS_AddElement
    <2>3. QED
      BY <2>1, <2>2
  <1>4. Recent(u.auto_reboot_timestamps, h) \subseteq u.auto_reboot_timestamps
    BY DEF Recent
  <1>5. /\ IsFiniteSet(Recent(u.auto_reboot_timestamps, h))
        /\ Cardinality(Recent(u.auto_reboot_timestamps, h)) <= Cardinality(u.auto_reboot_timestamps)
    BY <1>3, <1>4, FS_Subset
  <1>6. Cardinality(Recent(u.auto_reboot_timestamps, h)) \in Nat /\ Cardinality(u.auto_reboot_timestamps) \in Nat
    BY <1>3, <1>5, FS_CardinalityType
  <1>7. QED
    BY <1>1, <1>2, <1>3, <1>5, <1>6 DEF Bounded

LEMMA WindowInit == Init => WindowInv
  <1>1. SUFFICES ASSUME Init PROVE WindowInv
    OBVIOUS
  <1>2. ASSUME NEW m \in Fleet PROVE Bounded(ms[m], horizon) /\ Bounded(disk.ms[m], horizon)
    <2>1. ms[m].auto_reboot_timestamps = {} /\ disk.ms[m].auto_reboot_timestamps = {}
      BY <1>1 DEF Init, NoFile, InitialMiner
    <2>2. QED
      BY <2>1, BoundedEmpty
  <1>3. phase = "down" /\ ~disk.exists
    BY <1>1 DEF Init, NoFile
  <1>4. QED
    BY <1>2, <1>3 DEF WindowInv

(* What the proofs need to know of one miner.                                   *)
LEMMA WindowTypes ==
    ASSUME TypeOK, NEW m \in Fleet
    PROVE  /\ now \in Nat /\ horizon \in Nat /\ Window[process.qa] \in Nat
           /\ saved[m].auto \subseteq Nat
           /\ ms[m].auto_reboot_timestamps \subseteq Nat
           /\ disk.ms[m].auto_reboot_timestamps \subseteq Nat
  BY TimeTypes, ModeTypes, MarkTypes, RecordMarkTypes

(* A step that saves nothing, or saves what memory then holds, keeps the window  *)
(* if memory is bounded and keeps what was saved before.                        *)
LEMMA WindowKept ==
    ASSUME TypeOK, TypeOK', WindowInv, SavesOrNot, horizon' >= horizon, phase' # "down",
           \A m \in Fleet : /\ Bounded(ms'[m], horizon')
                            /\ Recent(saved[m].auto, horizon') \subseteq ms'[m].auto_reboot_timestamps,
           phase' = "cli" => ~WindowFull',
           phase' \notin {"down", "sleep"} => horizon' >= now' - Window[process'.qa]
    PROVE  WindowInv'
  <1>1. ASSUME NEW m \in Fleet
        PROVE  /\ Bounded(disk'.ms[m], horizon')
               /\ Recent(saved'[m].auto, horizon') \subseteq ms'[m].auto_reboot_timestamps
               /\ disk'.exists => Recent(saved'[m].auto, horizon') \subseteq disk'.ms[m].auto_reboot_timestamps
    <2>1. CASE SaveSucceeds
      <3>1. /\ disk'.ms = ms'
            /\ saved'[m].auto = saved[m].auto \cup ms'[m].auto_reboot_timestamps
        BY <2>1 DEF SaveSucceeds
      <3>2. QED
        BY <3>1 DEF Recent
    <2>2. CASE UNCHANGED <<disk, saved>>
      <3>1. horizon \in Nat /\ horizon' \in Nat /\ saved[m].auto \subseteq Nat
            /\ disk.ms[m].auto_reboot_timestamps \subseteq Nat
        BY WindowTypes DEF TypeOK
      <3>2. Bounded(disk.ms[m], horizon')
        BY <3>1, BoundedLater DEF WindowInv
      <3>3. Recent(saved[m].auto, horizon') \subseteq Recent(saved[m].auto, horizon)
        BY <3>1 DEF Recent
      <3>4. QED
        BY <2>2, <3>2, <3>3 DEF WindowInv
    <2>3. QED
      BY <2>1, <2>2 DEF SavesOrNot
  <1>2. QED
    BY <1>1 DEF WindowInv

(* Memory with the same reboots, or with all but the old ones, is as bounded.    *)
LEMMA SameWindowKept ==
    ASSUME TypeOK, TypeOK', WindowInv, SavesOrNot, horizon' >= horizon,
           phase # "down", phase' # "down",
           \A m \in Fleet :
             /\ ms'[m].auto_reboot_timestamps \subseteq ms[m].auto_reboot_timestamps
             /\ Recent(ms[m].auto_reboot_timestamps, horizon') \subseteq ms'[m].auto_reboot_timestamps,
           phase' = "cli" => ~WindowFull',
           phase' \notin {"down", "sleep"} => horizon' >= now' - Window[process'.qa]
    PROVE  WindowInv'
  <1>1. ASSUME NEW m \in Fleet
        PROVE  /\ Bounded(ms'[m], horizon')
               /\ Recent(saved[m].auto, horizon') \subseteq ms'[m].auto_reboot_timestamps
    <2>1. horizon \in Nat /\ horizon' \in Nat /\ saved[m].auto \subseteq Nat
          /\ ms[m].auto_reboot_timestamps \subseteq Nat
      BY WindowTypes DEF TypeOK
    <2>2. Bounded(ms[m], horizon) /\ Recent(saved[m].auto, horizon) \subseteq ms[m].auto_reboot_timestamps
      BY DEF WindowInv
    <2>3. Bounded(ms'[m], horizon')
      BY <2>1, <2>2, BoundedLater
    <2>4. Recent(saved[m].auto, horizon') \subseteq Recent(ms[m].auto_reboot_timestamps, horizon')
      BY <2>1, <2>2 DEF Recent
    <2>5. QED
      BY <2>3, <2>4
  <1>2. QED
    BY <1>1, WindowKept

LEMMA WindowVanish ==
    ASSUME TypeOK, WindowInv, Vanish
    PROVE  WindowInv'
  <1>1. ASSUME NEW m \in Fleet PROVE Bounded(ms'[m], horizon')
    <2>1. ms'[m].auto_reboot_timestamps = {}
      BY DEF Vanish, InitialMiner
    <2>2. QED
      BY <2>1, BoundedEmpty
  <1>2. UNCHANGED <<horizon, disk, saved>> /\ phase' = "down"
    BY DEF Vanish
  <1>3. QED
    BY <1>1, <1>2 DEF WindowInv

(* A state.json too old to be used holds no reboot of the last Window.          *)
LEMMA WindowBoot ==
    ASSUME TypeOK, TypeOK', CooldownInv, WindowInv, Boot
    PROVE  WindowInv'
  <1>1. /\ ms' = Loaded(now')
        /\ horizon' = IF Usable(now') THEN horizon ELSE Later(horizon, now' - StaleAfter)
    BY BootTimes
  <1>2. /\ now' \in Nat /\ horizon \in Nat /\ horizon' \in Nat /\ horizon' >= horizon
        /\ UNCHANGED <<disk, saved>> /\ phase' = "sleep"
    BY BootTimes, TimeTypes DEF Boot
  <1>3. ASSUME NEW m \in Fleet
        PROVE  /\ Bounded(ms'[m], horizon')
               /\ Recent(saved[m].auto, horizon') \subseteq ms'[m].auto_reboot_timestamps
    <2>1. /\ saved[m].auto \subseteq Nat
          /\ disk.ms[m].auto_reboot_timestamps \subseteq Nat /\ disk.ms[m] \in MinerRecord
      BY WindowTypes, MarkTypes
    <2>2. CASE Usable(now')
      <3>1. ms'[m] = Sanitized(disk.ms[m])
        BY <1>1, <2>2 DEF Loaded
      <3>2. ms'[m].auto_reboot_timestamps = disk.ms[m].auto_reboot_timestamps
        BY <2>1, <3>1 DEF Sanitized, MinerRecord
      <3>3. Bounded(ms'[m], horizon')
        BY <1>2, <2>1, <3>2, BoundedLater DEF WindowInv
      <3>4. Recent(saved[m].auto, horizon') \subseteq Recent(saved[m].auto, horizon)
        BY <1>2, <2>1 DEF Recent
      <3>5. QED
        BY <2>2, <3>2, <3>3, <3>4 DEF WindowInv, Usable
    <2>3. CASE ~Usable(now')
      <3>1. ms'[m].auto_reboot_timestamps = {}
        BY <1>1, <2>3 DEF Loaded, InitialMiner
      <3>2. Recent(saved[m].auto, horizon') = {}
        <4>1. CASE ~disk.exists
          BY <4>1 DEF CooldownInv, Recent
        <4>2. CASE now' - disk.at > StaleAfter
          <5>1. now' - StaleAfter \in Int /\ now' - StaleAfter > disk.at
            BY <1>2, <4>2, MarkTypes
          <5>2. horizon' >= now' - StaleAfter
            BY <1>1, <1>2, <2>3, <5>1, LaterType
          <5>3. \A ts \in saved[m].auto : ts \in Nat /\ ts <= disk.at
            BY <2>1 DEF CooldownInv
          <5>4. QED
            BY <1>2, <5>1, <5>2, <5>3, MarkTypes DEF Recent
        <4>3. now' - disk.at \in Int /\ StaleAfter \in Nat
          BY <1>2, MarkTypes
        <4>4. QED
          BY <2>3, <4>1, <4>2, <4>3 DEF Usable
      <3>3. QED
        BY <3>1, <3>2, BoundedEmpty
    <2>4. QED
      BY <2>2, <2>3
  <1>4. QED
    BY <1>2, <1>3, WindowKept DEF SavesOrNot

LEMMA WindowObserve ==
    ASSUME TypeOK, TypeOK', WindowInv, Observe
    PROVE  WindowInv'
  <1>1. PICK r \in Readings :
          /\ ms' = [ms EXCEPT ![cur] = ApplyReading(ms[cur], r, now, Window[process.qa])]
          /\ phase' # "down" /\ phase' # "cli"
    BY DEF Observe, EndBody, NextMiner
  <1>2. /\ r \in Reading /\ Window[process.qa] \in Nat /\ cur \in Fleet /\ now \in Nat
        /\ ms[cur] \in MinerRecord
    BY ModeTypes, AutoRebootAssumption DEF AutoRebootAssumption, TypeOK
  <1>3. ApplyReading(ms[cur], r, now, Window[process.qa]).auto_reboot_timestamps
          = {ts \in ms[cur].auto_reboot_timestamps : now - ts <= Window[process.qa]}
    BY <1>2, ApplyReadingMarks
  <1>4. ASSUME NEW m \in Fleet
        PROVE  /\ ms'[m].auto_reboot_timestamps \subseteq ms[m].auto_reboot_timestamps
               /\ Recent(ms[m].auto_reboot_timestamps, horizon) \subseteq ms'[m].auto_reboot_timestamps
    <2>1. CASE m = cur
      <3>1. ms[m].auto_reboot_timestamps \subseteq Nat /\ horizon \in Nat
        BY WindowTypes
      <3>2. horizon >= now - Window[process.qa]
        BY DEF WindowInv, Observe
      <3>3. ms'[m].auto_reboot_timestamps
              = {ts \in ms[m].auto_reboot_timestamps : now - ts <= Window[process.qa]}
        BY <1>1, <1>3, <2>1 DEF TypeOK
      <3>4. QED
        BY <1>2, <3>1, <3>2, <3>3 DEF Recent
    <2>2. CASE m # cur
      BY <1>1, <2>2 DEF TypeOK, Recent
    <2>3. QED
      BY <2>1, <2>2
  <1>5. UNCHANGED <<now, process, disk, saved, horizon>> /\ phase = "observe"
        /\ horizon' >= horizon /\ horizon' >= now' - Window[process'.qa]
    BY TimeTypes DEF Observe, WindowInv
  <1>6. QED
    BY <1>1, <1>2, <1>4, <1>5, SameWindowKept DEF SavesOrNot

(* A reboot is sent only when the window of the miner is not full.              *)
LEMMA WindowGate ==
    ASSUME TypeOK, TypeOK', WindowInv, Gate
    PROVE  WindowInv'
  <1>1. CASE TimerGoneFatal
    BY <1>1, WindowVanish DEF TimerGoneFatal
  <1>2. CASE ~TimerGoneFatal
    <2>1. /\ AtGate /\ phase' # "down"
          /\ \/ ms' = ms
             \/ ms' = [ms EXCEPT ![cur] = RestartTimer(@, now)]
             \/ ms' = [ms EXCEPT ![cur] = EnterDegraded(@)]
          /\ phase' = "cli" => ms' = ms /\ cur' = cur /\ ~WindowFull
      BY <1>2 DEF Gate, TimerGone, BlockedByStartup, BlockedByNotSustained,
                  BlockedByInterlock, BlockedByCooldown, BlockedByWindow, BlockedByQa,
                  SendReboot, PastWindow, EndBody, ContinueStmt, NextMiner
    <2>2. UNCHANGED <<now, process, disk, saved, horizon>> /\ phase = "gate" /\ cur \in Fleet
          /\ ms[cur] \in MinerRecord /\ now \in Nat
      BY <2>1 DEF AtGate, ghostVars, TypeOK
    <2>3. /\ RestartTimer(ms[cur], now).auto_reboot_timestamps = ms[cur].auto_reboot_timestamps
          /\ EnterDegraded(ms[cur]).auto_reboot_timestamps = ms[cur].auto_reboot_timestamps
      BY <2>2, UpdateMarks
    <2>4. \A m \in Fleet : ms'[m].auto_reboot_timestamps = ms[m].auto_reboot_timestamps
      BY <2>1, <2>2, <2>3 DEF TypeOK
    <2>5. \A m \in Fleet : Recent(ms[m].auto_reboot_timestamps, horizon') \subseteq ms'[m].auto_reboot_timestamps
      BY <2>4 DEF Recent
    <2>6. phase' = "cli" => ~WindowFull'
      BY <2>1 DEF WindowFull, Me
    <2>7. /\ horizon' >= horizon /\ phase # "down"
          /\ horizon' >= now' - Window[process'.qa]
      BY <2>2, TimeTypes DEF WindowInv
    <2>8. QED
      BY <2>1, <2>2, <2>4, <2>5, <2>6, <2>7, SameWindowKept DEF SavesOrNot
  <1>3. QED
    BY <1>1, <1>2

LEMMA WindowRebootSucceeds ==
    ASSUME TypeOK, TypeOK', WindowInv, RebootSucceeds
    PROVE  WindowInv'
  <1>1. /\ ms' = [ms EXCEPT ![cur] = AfterAutoReboot(@, now)]
        /\ UNCHANGED <<now, process, disk, saved, horizon>> /\ phase = "cli" /\ phase' \notin {"down", "cli"}
        /\ cur \in Fleet /\ ms[cur] \in MinerRecord /\ now \in Nat
    BY DEF RebootSucceeds, EndBody, NextMiner, TypeOK
  <1>2. ASSUME NEW m \in Fleet
        PROVE  /\ Bounded(ms'[m], horizon')
               /\ Recent(saved[m].auto, horizon') \subseteq ms'[m].auto_reboot_timestamps
    <2>1. Bounded(ms[m], horizon) /\ Recent(saved[m].auto, horizon) \subseteq ms[m].auto_reboot_timestamps
      BY <1>1 DEF WindowInv
    <2>2. CASE m # cur
      BY <1>1, <2>1, <2>2 DEF TypeOK
    <2>3. CASE m = cur
      <3>1. ms'[m].auto_reboot_timestamps = ms[m].auto_reboot_timestamps \cup {now}
        BY <1>1, <2>3, UpdateMarks DEF TypeOK
      <3>2. Cardinality(ms[m].auto_reboot_timestamps) \in Nat /\ MaxReboots \in Nat
        BY <2>1, FS_CardinalityType, AutoRebootAssumption DEF Bounded, AutoRebootAssumption
      <3>3. Cardinality(ms[m].auto_reboot_timestamps) < MaxReboots
        BY <1>1, <2>3, <3>2 DEF WindowInv, WindowFull, Me
      <3>4. Bounded(ms'[m], horizon)
        BY <2>1, <3>1, <3>3, BoundedOneMore
      <3>5. QED
        BY <1>1, <2>1, <3>1, <3>4
    <2>4. QED
      BY <2>2, <2>3
  <1>3. horizon' >= horizon /\ horizon' >= now' - Window[process'.qa]
    BY <1>1, TimeTypes DEF WindowInv
  <1>4. QED
    BY <1>1, <1>2, <1>3, WindowKept DEF SavesOrNot

LEMMA WindowManualSucceeds ==
    ASSUME TypeOK, TypeOK', CooldownInv, WindowInv, ManualSucceeds
    PROVE  WindowInv'
  <1>1. /\ ms' = IF ManualTarget \in known
                 THEN [ms EXCEPT ![ManualTarget] = AfterManualReboot(@, poller.ts)] ELSE ms
        /\ UNCHANGED <<clock, now, process, phase, cur, horizon>> /\ Save /\ poller # Idle
    BY DEF ManualSucceeds, mainVars, Save
  <1>2. ASSUME NEW m \in Fleet
        PROVE  ms'[m].auto_reboot_timestamps = ms[m].auto_reboot_timestamps
    <2>1. CASE m # ManualTarget \/ ms' = ms
      BY <1>1, <2>1 DEF TypeOK
    <2>2. CASE m = ManualTarget /\ ManualTarget \in known
      BY <1>1, <2>2, MarkTypes, UpdateMarks DEF TypeOK
    <2>3. QED
      BY <1>1, <2>1, <2>2
  <1>3. \A m \in Fleet : Recent(ms[m].auto_reboot_timestamps, horizon') \subseteq ms'[m].auto_reboot_timestamps
    BY <1>2 DEF Recent
  <1>4. /\ phase # "down" /\ horizon' >= horizon /\ cur \in Fleet
        /\ phase' \notin {"down", "sleep"} => horizon' >= now' - Window[process'.qa]
    BY <1>1, TimeTypes DEF CooldownInv, WindowInv, TypeOK
  <1>5. phase' = "cli" => ~WindowFull'
    BY <1>1, <1>2, <1>4 DEF WindowInv, WindowFull, Me
  <1>6. QED
    BY <1>1, <1>2, <1>3, <1>4, <1>5, SameWindowKept DEF Save, SavesOrNot

LEMMA WindowStep ==
    ASSUME TypeOK, TypeOK', CooldownInv, WindowInv, [Next]_vars
    PROVE  WindowInv'
  <1>1. ASSUME ms' = ms, SavesOrNot, horizon' >= horizon, phase # "down", phase' # "down",
               phase' = "cli" => phase = "cli" /\ cur' = cur,
               phase' \notin {"down", "sleep"} => horizon' >= now' - Window[process'.qa]
        PROVE  WindowInv'
    <2>1. \A m \in Fleet : Recent(ms[m].auto_reboot_timestamps, horizon') \subseteq ms'[m].auto_reboot_timestamps
      BY <1>1 DEF Recent
    <2>2. phase' = "cli" => ~WindowFull'
      BY <1>1 DEF WindowInv, WindowFull, Me
    <2>3. QED
      BY <1>1, <2>1, <2>2, SameWindowKept
  <1>2. /\ horizon \in Nat
        /\ phase \notin {"down", "sleep"} => horizon >= now - Window[process.qa]
    BY TimeTypes DEF WindowInv
  <1>3. CASE Boot
    BY <1>3, WindowBoot
  <1>4. CASE Crash
    BY <1>4, WindowVanish DEF Crash
  <1>5. CASE StartTick
    BY <1>1, <1>5, StartTickTimes DEF StartTick, SavesOrNot
  <1>6. CASE Observe
    BY <1>6, WindowObserve
  <1>7. CASE Gate
    BY <1>7, WindowGate
  <1>8. CASE RebootFails
    BY <1>1, <1>2, <1>8 DEF RebootFails, EndBody, NextMiner, ghostVars, SavesOrNot
  <1>9. CASE RebootSucceeds
    BY <1>9, WindowRebootSucceeds
  <1>10. CASE EndTick
    BY <1>1, <1>2, <1>10 DEF EndTick, Save, SavesOrNot
  <1>11. CASE ManualStart \/ ManualFails \/ PollerSave
    <2>1. UNCHANGED <<clock, now, process, phase, cur, ms, horizon>> /\ Save /\ phase # "down"
      BY <1>11 DEF ManualStart, ManualFails, PollerSave, mainVars, ghostVars, Save, CooldownInv
    <2>2. QED
      BY <1>1, <1>2, <2>1 DEF Save, SavesOrNot
  <1>12. CASE ManualSucceeds
    BY <1>12, WindowManualSucceeds
  <1>13. CASE UNCHANGED vars
    BY <1>13 DEF vars, WindowInv, WindowFull, Me
  <1>14. CASE Elapse
    BY <1>1, <1>2, <1>14, ElapseTimes DEF SavesOrNot
  <1>15. QED
    BY <1>3, <1>4, <1>5, <1>6, <1>7, <1>8, <1>9, <1>10, <1>11, <1>12, <1>13, <1>14
       DEF Next, MainLoop, Operator

(* What a save had put on disk since the horizon is still in state.json, which is *)
(* bounded.                                                                      *)
LEMMA SavedBounded ==
    ASSUME TypeOK, CooldownInv, WindowInv, NEW m \in Fleet
    PROVE  /\ IsFiniteSet(Recent(saved[m].auto, horizon))
           /\ Cardinality(Recent(saved[m].auto, horizon)) \in Nat
           /\ Cardinality(Recent(saved[m].auto, horizon)) <= MaxReboots
  <1>1. MaxReboots \in Nat
    BY AutoRebootAssumption DEF AutoRebootAssumption
  <1>2. CASE ~disk.exists
    <2>1. Recent(saved[m].auto, horizon) = {}
      BY <1>2 DEF CooldownInv, Recent
    <2>2. QED
      BY <1>1, <2>1, FS_EmptySet
  <1>3. CASE disk.exists
    <2>1. PICK S, T : /\ S = Recent(disk.ms[m].auto_reboot_timestamps, horizon)
                      /\ T = Recent(saved[m].auto, horizon)
      OBVIOUS
    <2>2. T \subseteq S /\ S \subseteq disk.ms[m].auto_reboot_timestamps
      BY <1>3, <2>1 DEF WindowInv, Recent
    <2>3. IsFiniteSet(disk.ms[m].auto_reboot_timestamps) /\ Cardinality(S) <= MaxReboots
      BY <2>1 DEF WindowInv, Bounded
    <2>4. IsFiniteSet(S)
      BY <2>2, <2>3, FS_Subset
    <2>5. IsFiniteSet(T) /\ Cardinality(T) <= Cardinality(S)
      BY <2>2, <2>4, FS_Subset
    <2>6. Cardinality(S) \in Nat /\ Cardinality(T) \in Nat
      BY <2>4, <2>5, FS_CardinalityType
    <2>7. QED
      BY <1>1, <2>1, <2>3, <2>5, <2>6
  <1>4. QED
    BY <1>2, <1>3

LEMMA WindowInitAll == Init => TypeOK /\ CooldownInv /\ WindowInv
  BY TypeInit, CooldownInit, WindowInit

LEMMA WindowStepAll ==
    TypeOK /\ CooldownInv /\ WindowInv /\ [Next]_vars => (TypeOK /\ CooldownInv /\ WindowInv)'
  BY TypeStep, CooldownStep, WindowStep

(* Of the automatic reboots of a miner a save had put on disk, at most MaxReboots *)
(* fall since the horizon, whatever crashes, stale or unwritten state files and    *)
(* changes of the mode come in between.                                          *)
THEOREM WindowIsBounded == Spec => []WindowBound
  <1>1. TypeOK /\ CooldownInv /\ WindowInv => WindowBound
    BY SavedBounded DEF WindowBound, Recent
  <1>2. QED
    BY <1>1, WindowInitAll, WindowStepAll, PTL DEF Spec

\* The modes the process is ever started in share one window, and state.json outlives it.
OneWindow(w) == w \in Nat /\ StaleAfter >= w /\ \A qa \in QaModes : Window[qa] = w

(* The horizon of such a monitor is never later than the window of its tick.      *)
HorizonInv(w) ==
    /\ phase # "down" => process.qa \in QaModes
    /\ horizon = 0 \/ horizon <= now - w

LEMMA HorizonStep ==
    ASSUME NEW w, OneWindow(w), TypeOK, CooldownInv, HorizonInv(w), [Next]_vars
    PROVE  HorizonInv(w)'
  <1>0. w \in Nat /\ StaleAfter >= w /\ StaleAfter \in Nat
    BY MarkTypes DEF OneWindow
  <1>1. CASE Boot
    <2>1. process'.qa \in QaModes
      BY <1>1 DEF Boot
    <2>2. now' - StaleAfter \in Int /\ now' - StaleAfter <= now' - w
      BY <1>0, <1>1, BootTimes
    <2>3. /\ now' \in Nat /\ now \in Nat /\ now' >= now /\ horizon \in Nat
          /\ horizon' = horizon \/ horizon' = Later(horizon, now' - StaleAfter)
      BY <1>1, BootTimes, TimeTypes
    <2>4. horizon' = horizon \/ horizon' = now' - StaleAfter
      BY <2>3 DEF Later
    <2>5. QED
      BY <1>0, <2>1, <2>2, <2>3, <2>4 DEF HorizonInv
  <1>2. CASE StartTick
    <2>1. process' = process /\ Window[process.qa] = w
      BY <1>2 DEF StartTick, HorizonInv, OneWindow
    <2>2. PICK gap \in Gaps :
            /\ now' = Resting + gap
            /\ horizon' = Later(horizon, (Resting + gap) - Window[process.qa])
      BY <1>2 DEF StartTick
    <2>3. horizon' = horizon \/ horizon' = now' - w
      BY <2>1, <2>2 DEF Later
    <2>4. now' \in Nat /\ now \in Nat /\ now' >= now /\ horizon \in Nat
      BY <1>2, StartTickTimes, TimeTypes
    <2>5. QED
      BY <1>0, <1>2, <2>1, <2>3, <2>4 DEF HorizonInv, StartTick
  <1>3. CASE UNCHANGED <<now, process, horizon>> /\ (phase' = "down" \/ phase # "down")
    BY <1>3 DEF HorizonInv
  <1>4. CASE Crash \/ TimerGoneFatal
    BY <1>3, <1>4 DEF Crash, TimerGoneFatal, Vanish
  <1>5. CASE Elapse
    BY <1>3, <1>5, ElapseTimes
  <1>6. CASE Gate /\ ~TimerGoneFatal
    BY <1>3, <1>6 DEF Gate, TimerGone, BlockedByStartup, BlockedByNotSustained,
       BlockedByInterlock, BlockedByCooldown, BlockedByWindow, BlockedByQa, SendReboot,
       AtGate, ghostVars
  <1>7. CASE Observe \/ RebootFails \/ RebootSucceeds \/ EndTick
    BY <1>3, <1>7 DEF Observe, RebootFails, RebootSucceeds, EndTick, ghostVars
  <1>8. CASE Operator
    <2>1. UNCHANGED <<mainVars, horizon>>
      BY <1>8 DEF Operator, ManualStart, ManualFails, ManualSucceeds, PollerSave, ghostVars
    <2>2. QED
      BY <2>1 DEF mainVars, HorizonInv
  <1>9. CASE UNCHANGED vars
    BY <1>9 DEF vars, HorizonInv
  <1>10. QED
    BY <1>1, <1>2, <1>4, <1>5, <1>6, <1>7, <1>8, <1>9 DEF Next, MainLoop

LEMMA HorizonBounds ==
    ASSUME NEW w, OneWindow(w), TypeOK, CooldownInv, WindowInv, HorizonInv(w), NEW m \in Fleet
    PROVE  Cardinality({ts \in saved[m].auto : now - ts <= w}) <= MaxReboots
  <1>1. PICK S, T : S = Recent(saved[m].auto, horizon)
                    /\ T = {ts \in saved[m].auto : now - ts <= w}
    OBVIOUS
  <1>2. /\ now \in Nat /\ horizon \in Nat /\ w \in Nat /\ saved[m].auto \subseteq Nat
        /\ MaxReboots \in Nat
    BY WindowTypes, AutoRebootAssumption DEF OneWindow, AutoRebootAssumption
  <1>3. T \subseteq S
    BY <1>1, <1>2 DEF HorizonInv, Recent
  <1>4. IsFiniteSet(S) /\ Cardinality(S) \in Nat /\ Cardinality(S) <= MaxReboots
    BY <1>1, SavedBounded
  <1>5. IsFiniteSet(T) /\ Cardinality(T) <= Cardinality(S)
    BY <1>3, <1>4, FS_Subset
  <1>6. Cardinality(T) \in Nat
    BY <1>5, FS_CardinalityType
  <1>7. QED
    BY <1>1, <1>2, <1>4, <1>5, <1>6

(* In a monitor whose starts all use one window, no more than MaxReboots automatic *)
(* reboots of a miner that a save had put on disk fall within that window of the   *)
(* running tick (lines 4092-4094, 4298): it takes a QA mode to forget one.         *)
THEOREM OneModeKeepsWindow ==
    ASSUME NEW CONSTANT w, OneWindow(w)
    PROVE  Spec => [](\A m \in Fleet :
                        Cardinality({ts \in saved[m].auto : now - ts <= w}) <= MaxReboots)
  <1>1. Init => HorizonInv(w)
    BY DEF Init, HorizonInv
  <1>2. TypeOK /\ CooldownInv /\ HorizonInv(w) /\ [Next]_vars => HorizonInv(w)'
    BY HorizonStep
  <1>3. TypeOK /\ CooldownInv /\ WindowInv /\ HorizonInv(w) =>
          \A m \in Fleet : Cardinality({ts \in saved[m].auto : now - ts <= w}) <= MaxReboots
    BY HorizonBounds
  <1>4. QED
    BY <1>1, <1>2, <1>3, WindowInitAll, WindowStepAll, PTL DEF Spec

-------------------------------------------------------------------------------
(* No tick reboots an incident: whoever is rebooted was read low in the tick     *)
(* before, so the interlock of every candidate counts all of them, as long as    *)
(* the snapshot of the tick before is fresh.                                    *)

\* The fleet guard is on, and no tick starts later than max(60, 2 * poll) after the one before.
FleetGuardApplies ==
    FleetGuard /\ \A gap \in Gaps, qa \in QaStates : gap <= SnapshotMaxAge[qa]

\* Miners whose reading of this tick has been applied.
Visited(m) ==
    \/ phase = "observe" /\ m < cur
    \/ phase \in {"gate", "cli"} /\ m <= cur
    \/ phase = "finish"

Ticking == phase \notin {"down", "sleep"}
WasLow(m) == prevTs # NoTs /\ prevSignals[m] = "eligible"
Rebooting == tickReboots \cup IF phase = "cli" THEN {cur} ELSE {}

(* A running timer was started in this tick or vouches for the tick before.      *)
TimersVouch ==
    \A m \in Fleet : ms[m].low_since_ts # NoTs =>
        /\ Visited(m) => signals[m] = "eligible" /\ (ms[m].low_since_ts = now \/ WasLow(m))
        /\ ~Visited(m) => WasLow(m)

MassInv ==
    /\ Cardinality(Rebooting) < FleetMinAffected
    /\ phase = "down" => prevTs = NoTs
    /\ Ticking /\ prevTs # NoTs => now - prevTs <= SnapshotMaxAge[process.qa]
    /\ Ticking => \A m \in Rebooting : WasLow(m)
    /\ phase # "down" => TimersVouch

LEMMA FleetFinite == IsFiniteSet(Fleet) /\ N \in Nat /\ FleetMinAffected \in Nat \ {0, 1}
  <1>1. N \in Nat /\ FleetMinAffected \in Nat \ {0, 1}
    BY AutoRebootAssumption, MinerStateAssumption DEF AutoRebootAssumption, MinerStateAssumption
  <1>2. QED
    BY <1>1, FS_Interval DEF Fleet

(* The miners rebooted in this tick, and fewer of them.                         *)
LEMMA FewerReboots ==
    ASSUME NEW S \in SUBSET Fleet, NEW T \in SUBSET S, Cardinality(S) < FleetMinAffected
    PROVE  Cardinality(T) < FleetMinAffected
  <1>1. IsFiniteSet(S)
    BY FleetFinite, FS_Subset
  <1>2. IsFiniteSet(T) /\ Cardinality(T) <= Cardinality(S)
    BY <1>1, FS_Subset
  <1>3. Cardinality(S) \in Nat /\ Cardinality(T) \in Nat
    BY <1>1, <1>2, FS_CardinalityType
  <1>4. QED
    BY <1>2, <1>3, FleetFinite

LEMMA NoReboots ==
    ASSUME tickReboots = {}, phase # "cli"
    PROVE  Rebooting = {} /\ Cardinality(Rebooting) < FleetMinAffected
  <1>1. Rebooting = {}
    BY DEF Rebooting
  <1>2. QED
    BY <1>1, FS_EmptySet, FleetFinite

(* A timer that runs after a reading began with it or was running before.        *)
LEMMA ReadingVouches ==
    ASSUME TypeOK, NEW r \in Reading,
           ApplyReading(ms[cur], r, now, Window[process.qa]).low_since_ts # NoTs
    PROVE  /\ SignalOf(r) = "eligible"
           /\ \/ ApplyReading(ms[cur], r, now, Window[process.qa]).low_since_ts = now
              \/ ms[cur].low_since_ts # NoTs
  <1>1. ms[cur] \in MinerRecord /\ now \in Nat /\ Window[process.qa] \in Nat
    BY ModeTypes DEF TypeOK
  <1>2. QED
    BY <1>1, ApplyReadingTimer

LEMMA MassInit == Init => MassInv
  <1>1. SUFFICES ASSUME Init PROVE MassInv
    OBVIOUS
  <1>2. phase = "down" /\ tickReboots = {} /\ prevTs = NoTs
    BY <1>1 DEF Init
  <1>3. QED
    BY <1>2, NoReboots DEF MassInv, Ticking

LEMMA MassVanish ==
    ASSUME Vanish
    PROVE  MassInv'
  <1>1. phase' = "down" /\ tickReboots' = {} /\ prevTs' = NoTs
    BY DEF Vanish
  <1>2. Rebooting' = {}
    BY <1>1 DEF Rebooting
  <1>3. Cardinality(Rebooting') < FleetMinAffected
    BY <1>2, FS_EmptySet, FleetFinite
  <1>4. QED
    BY <1>1, <1>3 DEF MassInv, Ticking

(* A step that leaves the signals and the clock alone, moves on at most from the  *)
(* miner in hand, and starts no timer that was not running.                      *)
LEMMA MassQuiet ==
    ASSUME TypeOK, MassInv, phase # "down", phase' # "down", Ticking' <=> Ticking,
           UNCHANGED <<now, process, signals, prevSignals, prevTs>>,
           Rebooting' \subseteq Rebooting,
           \A m \in Fleet : Visited(m)' <=> Visited(m),
           \A m \in Fleet : ms'[m].low_since_ts # NoTs =>
              /\ ms[m].low_since_ts # NoTs
              /\ \/ ms'[m].low_since_ts = ms[m].low_since_ts
                 \/ ms'[m].low_since_ts = now /\ Visited(m)
    PROVE  MassInv'
  <1>1. Rebooting \subseteq Fleet
    BY DEF Rebooting, TypeOK
  <1>2. Cardinality(Rebooting') < FleetMinAffected
    BY <1>1, FewerReboots DEF MassInv
  <1>3. \A m \in Fleet : WasLow(m)' <=> WasLow(m)
    BY DEF WasLow
  <1>4. Ticking' => \A m \in Rebooting' : WasLow(m)'
    BY <1>1, <1>3 DEF MassInv
  <1>5. TimersVouch'
    BY <1>3 DEF MassInv, TimersVouch
  <1>6. Ticking' /\ prevTs' # NoTs => now' - prevTs' <= SnapshotMaxAge[process'.qa]
    BY DEF MassInv, Ticking
  <1>7. QED
    BY <1>2, <1>4, <1>5, <1>6 DEF MassInv

(* Going on with the next miner leaves exactly those visited that are.           *)
LEMMA NextVisited ==
    ASSUME TypeOK, phase \in {"gate", "cli"}, NextMiner
    PROVE  /\ \A m \in Fleet : Visited(m)' <=> Visited(m)
           /\ Ticking' /\ Ticking /\ phase' \notin {"down", "cli"}
  <1>1. N \in Nat /\ cur \in 1..N
    BY FleetFinite DEF TypeOK, Fleet
  <1>2. CASE cur < N /\ cur' = cur + 1 /\ phase' = "observe"
    <2>1. ASSUME NEW m \in 1..N PROVE m < cur + 1 <=> m <= cur
      BY <1>1
    <2>2. QED
      BY <1>2, <2>1 DEF Visited, Ticking, Fleet
  <1>3. CASE cur = N /\ cur' = cur /\ phase' = "finish"
    <2>1. ASSUME NEW m \in 1..N PROVE m <= cur
      BY <1>1, <1>3
    <2>2. QED
      BY <1>3, <2>1 DEF Visited, Ticking, Fleet
  <1>4. QED
    BY <1>1, <1>2, <1>3 DEF NextMiner

LEMMA MassObserve ==
    ASSUME TypeOK, MassInv, Observe
    PROVE  MassInv'
  <1>1. PICK r \in Readings :
          /\ ms' = [ms EXCEPT ![cur] = ApplyReading(ms[cur], r, now, Window[process.qa])]
          /\ signals' = [signals EXCEPT ![cur] = SignalOf(r)]
          /\ (phase' = "gate" /\ cur' = cur) \/ NextMiner
    BY DEF Observe, EndBody
  <1>2. /\ UNCHANGED <<now, process, prevSignals, prevTs, tickReboots>> /\ phase = "observe"
        /\ r \in Reading /\ cur \in 1..N /\ N \in Nat
    BY FleetFinite, AutoRebootAssumption DEF Observe, TypeOK, Fleet, AutoRebootAssumption
  <1>3. \A m \in Fleet : Visited(m)' <=> m <= cur
    <2>1. ASSUME NEW m \in 1..N PROVE (m < cur + 1 <=> m <= cur) /\ (cur = N => m <= cur)
      BY <1>2
    <2>2. QED
      BY <1>1, <1>2, <2>1 DEF NextMiner, Visited, Fleet
  <1>4. phase' \notin {"down", "sleep", "cli"} /\ Ticking' /\ Ticking
    BY <1>1, <1>2 DEF NextMiner, Ticking
  <1>5. \A m \in Fleet : WasLow(m)' <=> WasLow(m)
    BY <1>2 DEF WasLow
  <1>6. ASSUME NEW m \in Fleet, ms'[m].low_since_ts # NoTs
        PROVE  /\ Visited(m)' => signals'[m] = "eligible" /\ (ms'[m].low_since_ts = now' \/ WasLow(m)')
               /\ ~(Visited(m)') => WasLow(m)'
    <2>1. CASE m = cur
      <3>1. ms'[m] = ApplyReading(ms[cur], r, now, Window[process.qa]) /\ signals'[m] = SignalOf(r)
        <4>1. m \in DOMAIN ms /\ m \in DOMAIN signals
          BY <1>6 DEF TypeOK, SignalMap
        <4>2. QED
          BY <1>1, <2>1, <4>1
      <3>2. SignalOf(r) = "eligible" /\ (ms'[m].low_since_ts = now \/ ms[m].low_since_ts # NoTs)
        BY <1>2, <1>6, <2>1, <3>1, ReadingVouches
      <3>3. ~Visited(m)
        BY <1>2, <2>1 DEF Visited
      <3>4. ms[m].low_since_ts # NoTs => WasLow(m)
        BY <1>2, <3>3 DEF MassInv, TimersVouch
      <3>5. Visited(m)'
        BY <1>2, <1>3, <2>1
      <3>6. QED
        BY <1>2, <1>5, <3>1, <3>2, <3>4, <3>5
    <2>2. CASE m # cur
      <3>1. ms'[m] = ms[m] /\ signals'[m] = signals[m]
        BY <1>1, <2>2 DEF TypeOK
      <3>2. m < cur <=> m <= cur
        BY <1>2, <2>2 DEF Fleet
      <3>3. Visited(m)' <=> Visited(m)
        BY <1>2, <1>3, <3>2 DEF Visited
      <3>4. QED
        BY <1>2, <1>5, <1>6, <3>1, <3>3 DEF MassInv, TimersVouch
    <2>3. QED
      BY <2>1, <2>2
  <1>7. Rebooting' = Rebooting
    BY <1>2, <1>4 DEF Rebooting
  <1>8. \A m \in Rebooting : WasLow(m)'
    BY <1>4, <1>2 DEF MassInv, WasLow
  <1>9. TimersVouch'
    BY <1>6 DEF TimersVouch
  <1>10. QED
    BY <1>2, <1>4, <1>7, <1>8, <1>9 DEF MassInv

(* A candidate the interlock lets through is one of fewer than FleetMinAffected   *)
(* miners, all of which were read low in the tick before.                        *)
LEMMA MassSend ==
    ASSUME FleetGuardApplies, TypeOK, MassInv, SendReboot
    PROVE  MassInv'
  <1>1. /\ UNCHANGED <<now, process, cur, ms, signals, prevSignals, prevTs, tickReboots>>
        /\ phase = "gate" /\ phase' = "cli" /\ PastSustained /\ Verdict = "allowed"
    BY DEF SendReboot, AtGate, ghostVars, PastWindow, PastInterlocks
  <1>2. cur \in Fleet /\ now \in Nat /\ LowSustained[process.qa] \in Nat \ {0} /\ cur \in Int
    BY FleetFacts, ModeTypes DEF TypeOK
  <1>3. Visited(cur) /\ ms[cur].low_since_ts # NoTs /\ ms[cur].low_since_ts # now
    BY <1>1, <1>2 DEF Visited, PastSustained, PastStartup, Me
  <1>4. signals[cur] = "eligible" /\ WasLow(cur)
    BY <1>1, <1>2, <1>3 DEF MassInv, TimersVouch
  <1>5. Cardinality(AffectedNow) < FleetMinAffected
    <2>1. AffectedNow \subseteq Fleet
      BY DEF AffectedNow, Affected, TypeOK, SignalMap
    <2>2. Cardinality(AffectedNow) \in Nat
      BY <2>1, FleetFinite, FS_Subset, FS_CardinalityType
    <2>3. ~(Cardinality(AffectedNow) >= FleetMinAffected)
      BY <1>1 DEF FleetGuardApplies, Verdict, Interlock
    <2>4. QED
      BY <2>2, <2>3, FleetFinite
  <1>6. tickReboots \cup {cur} \subseteq AffectedNow
    <2>1. prevTs # NoTs /\ now - prevTs <= SnapshotMaxAge[process.qa]
      BY <1>1, <1>4 DEF MassInv, Ticking, WasLow
    <2>2. tickReboots \subseteq Fleet /\ DOMAIN prevSignals = Fleet
      BY DEF TypeOK, SignalMap
    <2>3. \A m \in tickReboots : prevSignals[m] = "eligible"
      BY <1>1 DEF MassInv, Ticking, Rebooting, WasLow
    <2>4. QED
      BY <1>2, <1>4, <2>1, <2>2, <2>3 DEF AffectedNow, Affected
  <1>7. AffectedNow \subseteq Fleet
    BY DEF AffectedNow, Affected, TypeOK, SignalMap
  <1>8. Rebooting' = tickReboots \cup {cur} /\ Cardinality(Rebooting') < FleetMinAffected
    BY <1>1, <1>5, <1>6, <1>7, FewerReboots DEF Rebooting
  <1>9. \A m \in Fleet : (WasLow(m)' <=> WasLow(m)) /\ (Visited(m)' <=> Visited(m))
    BY <1>1 DEF WasLow, Visited
  <1>10. \A m \in tickReboots \cup {cur} : WasLow(m)'
    BY <1>1, <1>4 DEF MassInv, Ticking, Rebooting, WasLow
  <1>11. TimersVouch'
    BY <1>1, <1>9 DEF MassInv, TimersVouch
  <1>12. now' - prevTs' <= SnapshotMaxAge[process'.qa]
    BY <1>1, <1>4 DEF MassInv, Ticking, WasLow
  <1>13. QED
    BY <1>1, <1>8, <1>10, <1>11, <1>12 DEF MassInv, Ticking

LEMMA MassGate ==
    ASSUME FleetGuardApplies, TypeOK, MassInv, Gate
    PROVE  MassInv'
  <1>1. CASE TimerGoneFatal
    BY <1>1, MassVanish DEF TimerGoneFatal
  <1>2. CASE SendReboot
    BY <1>2, MassSend
  <1>3. CASE ~TimerGoneFatal /\ ~SendReboot
    <2>1. /\ AtGate /\ NextMiner
          /\ \/ ms' = ms
             \/ ms' = [ms EXCEPT ![cur] = RestartTimer(@, now)] /\ ms[cur].low_since_ts # NoTs
             \/ ms' = [ms EXCEPT ![cur] = EnterDegraded(@)]
      BY <1>3 DEF Gate, TimerGone, BlockedByStartup, BlockedByNotSustained,
                  BlockedByInterlock, BlockedByCooldown, BlockedByWindow, BlockedByQa,
                  PastSustained, PastStartup, Me, EndBody, ContinueStmt
    <2>2. /\ UNCHANGED <<now, process, signals, prevSignals, prevTs, tickReboots>> /\ phase = "gate"
          /\ cur \in Fleet /\ ms[cur] \in MinerRecord /\ now \in Nat /\ cur \in Int
      BY <2>1, FleetFacts DEF AtGate, ghostVars, TypeOK
    <2>3. /\ RestartTimer(ms[cur], now).low_since_ts = now
          /\ EnterDegraded(ms[cur]).low_since_ts = ms[cur].low_since_ts
      BY <2>2, UpdateTypes
    <2>4. Visited(cur)
      BY <2>2 DEF Visited
    <2>5. \A m \in Fleet : ms'[m].low_since_ts # NoTs =>
              /\ ms[m].low_since_ts # NoTs
              /\ \/ ms'[m].low_since_ts = ms[m].low_since_ts
                 \/ ms'[m].low_since_ts = now /\ Visited(m)
      BY <2>1, <2>2, <2>3, <2>4 DEF TypeOK
    <2>6. /\ \A m \in Fleet : Visited(m)' <=> Visited(m)
          /\ Ticking' /\ Ticking /\ phase' \notin {"down", "cli"}
      BY <2>1, <2>2, NextVisited
    <2>7. Rebooting' \subseteq Rebooting
      BY <2>2, <2>6 DEF Rebooting
    <2>8. QED
      BY <2>2, <2>5, <2>6, <2>7, MassQuiet
  <1>4. QED
    BY <1>1, <1>2, <1>3

(* The call to the miner returns, and it is one of those rebooted in this tick.   *)
LEMMA MassReturn ==
    ASSUME TypeOK, MassInv, RebootFails \/ RebootSucceeds
    PROVE  MassInv'
  <1>1. /\ UNCHANGED <<now, process, signals, prevSignals, prevTs>> /\ phase = "cli" /\ NextMiner
        /\ tickReboots' \subseteq tickReboots \cup {cur}
        /\ ms' = ms \/ ms' = [ms EXCEPT ![cur] = AfterAutoReboot(@, now)]
        /\ cur \in Fleet /\ ms[cur] \in MinerRecord /\ now \in Nat
    BY DEF RebootFails, RebootSucceeds, EndBody, ghostVars, TypeOK
  <1>2. AfterAutoReboot(ms[cur], now).low_since_ts = NoTs
    BY <1>1, UpdateTypes
  <1>3. \A m \in Fleet : ms'[m].low_since_ts # NoTs => ms'[m].low_since_ts = ms[m].low_since_ts
    BY <1>1, <1>2 DEF TypeOK
  <1>4. /\ \A m \in Fleet : Visited(m)' <=> Visited(m)
        /\ Ticking' /\ Ticking /\ phase' \notin {"down", "cli"}
    BY <1>1, NextVisited
  <1>5. Rebooting' \subseteq Rebooting
    BY <1>1, <1>4 DEF Rebooting
  <1>6. QED
    BY <1>1, <1>3, <1>4, <1>5, MassQuiet

LEMMA MassStep ==
    ASSUME FleetGuardApplies, TypeOK, TypeOK', CooldownInv, MassInv, [Next]_vars
    PROVE  MassInv'
  <1>1. CASE Boot
    <2>2. \A m \in Fleet : ms'[m].low_since_ts = NoTs
      BY <1>1, BootTimes, LoadedTimer
    <2>3. /\ UNCHANGED <<prevTs, tickReboots>> /\ phase = "down" /\ phase' = "sleep"
      BY <1>1 DEF Boot, threadVars, ghostVars
    <2>4. Rebooting' = Rebooting /\ ~(Ticking') /\ prevTs' = NoTs
      BY <2>3 DEF Rebooting, Ticking, MassInv
    <2>5. QED
      BY <2>2, <2>3, <2>4 DEF MassInv, TimersVouch
  <1>2. CASE Crash
    BY <1>2, MassVanish DEF Crash
  <1>3. CASE StartTick
    <2>1. PICK gap \in Gaps : now' = Resting + gap
      BY <1>3, StartTickTimes
    <2>2. /\ gap <= SnapshotMaxAge[process.qa] /\ gap \in Nat
          /\ SnapshotMaxAge[process.qa] \in Nat /\ prevTs \in Int
      BY TimeTypes, ModeTypes, AutoRebootAssumption
         DEF AutoRebootAssumption, FleetGuardApplies, TypeOK, Times, NoTs
    <2>3. /\ UNCHANGED <<process, ms, prevSignals, prevTs>> /\ tickReboots' = {} /\ cur' = 1
          /\ phase = "sleep" /\ phase' = "observe"
      BY <1>3 DEF StartTick
    <2>4. Rebooting' = {} /\ Cardinality(Rebooting') < FleetMinAffected
      BY <2>3, FS_EmptySet, FleetFinite DEF Rebooting
    <2>5. \A m \in Fleet : ~Visited(m) /\ ~(Visited(m)') /\ (WasLow(m)' <=> WasLow(m))
      BY <2>3, FleetFacts DEF Visited, WasLow
    <2>6. TimersVouch'
      BY <2>3, <2>5 DEF MassInv, TimersVouch
    <2>7. prevTs' # NoTs => now' - prevTs' <= SnapshotMaxAge[process'.qa]
      BY <2>1, <2>2, <2>3 DEF Resting
    <2>8. QED
      BY <2>3, <2>4, <2>6, <2>7 DEF MassInv
  <1>4. CASE Observe
    BY <1>4, MassObserve
  <1>5. CASE Gate
    BY <1>5, MassGate
  <1>6. CASE RebootFails \/ RebootSucceeds
    BY <1>6, MassReturn
  <1>7. CASE EndTick
    <2>1. /\ UNCHANGED <<now, ms, tickReboots>> /\ prevSignals' = signals /\ prevTs' = clock
          /\ phase = "finish" /\ phase' = "sleep"
      BY <1>7 DEF EndTick
    <2>2. clock # NoTs
      BY TimeTypes DEF NoTs
    <2>3. \A m \in Fleet : Visited(m) /\ ~(Visited(m)')
      BY <2>1 DEF Visited
    <2>4. TimersVouch'
      BY <2>1, <2>2, <2>3 DEF MassInv, TimersVouch, WasLow
    <2>5. Rebooting' = Rebooting /\ ~(Ticking')
      BY <2>1 DEF Rebooting, Ticking
    <2>6. QED
      BY <2>1, <2>4, <2>5 DEF MassInv
  <1>8. CASE ManualStart \/ ManualFails \/ PollerSave
    <2>1. UNCHANGED <<now, process, phase, cur, ms, signals, prevSignals, prevTs, tickReboots>>
          /\ phase # "down"
      BY <1>8 DEF ManualStart, ManualFails, PollerSave, mainVars, threadVars, ghostVars, CooldownInv
    <2>2. QED
      BY <2>1, MassQuiet DEF Visited, Ticking, Rebooting
  <1>9. CASE ManualSucceeds
    <2>1. /\ UNCHANGED <<now, process, phase, cur, signals, prevSignals, prevTs, tickReboots>>
          /\ phase # "down"
      BY <1>9 DEF ManualSucceeds, mainVars, threadVars, CooldownInv
    <2>2. ASSUME NEW m \in Fleet, ms'[m].low_since_ts # NoTs
          PROVE  ms'[m].low_since_ts = ms[m].low_since_ts
      <3>1. CASE ms' = ms
        BY <3>1
      <3>2. CASE ManualTarget \in known
        <4>1. ms[ManualTarget] \in MinerRecord /\ poller.ts \in Times
          BY <3>2 DEF TypeOK
        <4>2. AfterManualReboot(ms[ManualTarget], poller.ts).low_since_ts = NoTs
          BY <4>1, ManualUpdateType
        <4>3. QED
          BY <1>9, <2>2, <3>2, <4>2 DEF ManualSucceeds, TypeOK
      <3>3. QED
        BY <1>9, <3>1, <3>2 DEF ManualSucceeds
    <2>3. QED
      BY <2>1, <2>2, MassQuiet DEF Visited, Ticking, Rebooting
  <1>10. CASE UNCHANGED vars
    BY <1>10 DEF vars, MassInv, Rebooting, Ticking, TimersVouch, Visited, WasLow
  <1>11. CASE Elapse
    <2>1. /\ UNCHANGED <<now, process, phase, cur, ms, signals, prevSignals, prevTs, tickReboots>>
          /\ phase # "down"
      BY <1>11, ElapseTimes
    <2>2. QED
      BY <2>1, MassQuiet DEF Visited, Ticking, Rebooting
  <1>12. QED
    BY <1>1, <1>2, <1>3, <1>4, <1>5, <1>6, <1>7, <1>8, <1>9, <1>10, <1>11
       DEF Next, MainLoop, Operator

(* Under a fleet guard that is on, and ticks close enough for its snapshot to be   *)
(* fresh, no tick reboots as many miners as make an incident: for every fleet,     *)
(* policy, reading, manual reboot and crash.                                      *)
THEOREM IncidentsAreLeftAlone == FleetGuardApplies => (Spec => []NoMassReboot)
  <1> SUFFICES ASSUME FleetGuardApplies PROVE Spec => []NoMassReboot
    OBVIOUS
  <1>1. Init => TypeOK /\ CooldownInv /\ MassInv
    BY TypeInit, CooldownInit, MassInit
  <1>2. TypeOK /\ CooldownInv /\ MassInv /\ [Next]_vars => (TypeOK /\ CooldownInv /\ MassInv)'
    BY TypeStep, CooldownStep, MassStep
  <1>3. MassInv => NoMassReboot
    BY DEF MassInv, NoMassReboot, Rebooting
  <1>4. QED
    BY <1>1, <1>2, <1>3, PTL DEF Spec

-------------------------------------------------------------------------------
(* What the streak resets of lines 3975-3984 mean for fails_before_alert: from  *)
(* two readings on, as in config.example.json, no miner is ever confirmed LOW   *)
(* and the automatic reboot is never reached, whatever the miners answer.       *)

NeverLow(s) == s.state # "LOW" /\ s.low_streak = 0

NeverLowInv ==
    /\ phase \notin {"gate", "cli"}
    /\ \A m \in Fleet : NeverLow(ms[m]) /\ NeverLow(disk.ms[m])

(* One reading counts at most one low tick, and every tick that does not        *)
(* confirm LOW starts counting again from zero.                                 *)
LEMMA ReadingNeverLow ==
    ASSUME FailsBeforeAlert >= 2, NEW s \in MinerRecord, NeverLow(s),
           NEW r \in Reading, NEW t \in Nat, NEW w \in Nat
    PROVE  NeverLow(ApplyReading(s, r, t, w))
  <1> DEFINE f == ForgetLowOnRestart(s, r)
             c == CountReading(f, r)
             new == ConfirmedState(c, r)
             e == EnterState(c, new, t)
             p == PruneWindow(e, t, w)
  <1>1. f \in MinerRecord /\ NeverLow(f)
    BY DEF ForgetLowOnRestart, NeverLow, MinerRecord, Times, Reading
  <1>2. c \in MinerRecord /\ c.state # "LOW"
    BY <1>1, CountReadingType DEF NeverLow
  <1>3. c.low_streak < FailsBeforeAlert
    <2>1. ASSUME NEW x, NEW y, NEW z PROVE WithStreaks(f, x, y, z).low_streak = y
      BY <1>1 DEF WithStreaks, MinerRecord
    <2>2. Bump(f.low_streak, FailsBeforeAlert) = 1 /\ FailsBeforeAlert \in Nat
      BY <1>1, MinerStateAssumption DEF Bump, NeverLow, MinerStateAssumption
    <2>3. CASE ~r.responded
      BY <2>1, <2>2, <2>3 DEF CountReading
    <2>4. CASE r.responded /\ r.rate = "none"
      BY <2>1, <2>2, <2>4 DEF CountReading
    <2>5. CASE r.responded /\ r.rate = "low"
      BY <2>1, <2>2, <2>5 DEF CountReading
    <2>6. CASE r.responded /\ r.rate \in {"ok", "nan"}
      BY <2>1, <2>2, <2>6 DEF CountReading
    <2>7. QED
      BY <2>3, <2>4, <2>5, <2>6 DEF Reading
  <1>4. new # "LOW" /\ new \in States
    <2>1. ~(c.low_streak >= FailsBeforeAlert)
      BY <1>2, <1>3, MinerStateAssumption DEF MinerRecord, MinerStateAssumption
    <2>2. QED
      BY <1>2, <2>1, ConfirmedStateType DEF ConfirmedState
  <1>5. e \in MinerRecord
    BY <1>2, <1>4, EnterStateTimer
  <1>6. NeverLow(e)
    BY <1>2, <1>4 DEF EnterState, NeverLow, MinerRecord
  <1>7. NeverLow(p)
    BY <1>5, <1>6 DEF PruneWindow, NeverLow, MinerRecord
  <1>8. ApplyReading(s, r, t, w) = ResetIfIneligible(p, SignalOf(r))
    BY DEF ApplyReading
  <1> HIDE DEF p
  <1>9. QED
    BY <1>7, <1>8 DEF ResetIfIneligible, NeverLow

(* What else is written into a record leaves state and low_streak alone.        *)
LEMMA UpdateNeverLow ==
    ASSUME NEW s \in MinerRecord, NeverLow(s), NEW t
    PROVE  NeverLow(AfterManualReboot(s, t)) /\ NeverLow(Sanitized(s))
  BY DEF AfterManualReboot, Sanitized, NeverLow, MinerRecord

LEMMA NeverLowInit == Init => NeverLowInv
  BY DEF Init, NeverLowInv, NeverLow, InitialMiner, NoFile

LEMMA NeverLowObserve ==
    ASSUME FailsBeforeAlert >= 2, TypeOK, NeverLowInv, Observe
    PROVE  NeverLowInv'
  <1>1. PICK r \in Readings :
          LET s == ApplyReading(ms[cur], r, now, Window[process.qa])
          IN  /\ ms' = [ms EXCEPT ![cur] = s]
              /\ phase' \in {"gate", "cli"} => AllowsEvaluation(s, SignalOf(r))
    BY DEF Observe, EndBody, NextMiner
  <1>2. /\ r \in Reading /\ Window[process.qa] \in Nat /\ cur \in Fleet /\ now \in Nat
        /\ ms[cur] \in MinerRecord
    BY ModeTypes, AutoRebootAssumption DEF AutoRebootAssumption, TypeOK
  <1>3. NeverLow(ApplyReading(ms[cur], r, now, Window[process.qa]))
    BY <1>2, ReadingNeverLow DEF NeverLowInv
  <1>4. phase' \notin {"gate", "cli"}
    BY <1>1, <1>3 DEF AllowsEvaluation, NeverLow
  <1>5. disk' = disk
    BY DEF Observe
  <1>6. \A m \in Fleet : NeverLow(ms'[m])
    BY <1>1, <1>2, <1>3 DEF TypeOK, NeverLowInv
  <1>7. QED
    BY <1>4, <1>5, <1>6 DEF NeverLowInv

LEMMA NeverLowSave ==
    ASSUME NeverLowInv, Save, \A m \in Fleet : NeverLow(ms'[m]),
           phase' \notin {"gate", "cli"}
    PROVE  NeverLowInv'
  BY DEF Save, SaveSucceeds, NeverLowInv

LEMMA NeverLowVanish ==
    ASSUME NeverLowInv, Vanish
    PROVE  NeverLowInv'
  BY DEF Vanish, NeverLowInv, NeverLow, InitialMiner

LEMMA NeverLowStep ==
    ASSUME FailsBeforeAlert >= 2, TypeOK, NeverLowInv, [Next]_vars
    PROVE  NeverLowInv'
  <1>1. CASE Boot
    <2>1. ms' = Loaded(now')
      BY <1>1, BootTimes
    <2>2. ASSUME NEW m \in Fleet PROVE NeverLow(ms'[m])
      <3>1. disk.ms[m] \in MinerRecord /\ NeverLow(disk.ms[m]) /\ NeverLow(InitialMiner)
        BY DEF TypeOK, NeverLowInv, NeverLow, InitialMiner
      <3>2. NeverLow(Sanitized(disk.ms[m]))
        BY <3>1, UpdateNeverLow
      <3>3. QED
        BY <2>1, <3>1, <3>2 DEF Loaded
    <2>3. disk' = disk /\ phase' = "sleep"
      BY <1>1 DEF Boot
    <2>4. QED
      BY <2>2, <2>3 DEF NeverLowInv
  <1>2. CASE Crash
    BY <1>2, NeverLowVanish DEF Crash
  <1>3. CASE StartTick
    BY <1>3 DEF StartTick, NeverLowInv
  <1>4. CASE Observe
    BY <1>4, NeverLowObserve
  <1>5. CASE Gate \/ RebootFails \/ RebootSucceeds
    <2>1. phase \in {"gate", "cli"}
      BY <1>5 DEF Gate, TimerGone, TimerGoneFatal, BlockedByStartup, BlockedByNotSustained,
                  BlockedByInterlock, BlockedByCooldown, BlockedByWindow, BlockedByQa,
                  SendReboot, AtGate, RebootFails, RebootSucceeds
    <2>2. QED
      BY <2>1 DEF NeverLowInv
  <1>6. CASE EndTick
    BY <1>6, NeverLowSave DEF EndTick, NeverLowInv
  <1>7. CASE ManualStart \/ ManualFails \/ PollerSave
    <2>1. UNCHANGED <<ms, phase>> /\ Save
      BY <1>7 DEF ManualStart, ManualFails, PollerSave, Save, mainVars, ghostVars
    <2>2. QED
      BY <2>1, NeverLowSave DEF NeverLowInv
  <1>8. CASE ManualSucceeds
    <2>1. UNCHANGED phase /\ Save
          /\ ms' = IF ManualTarget \in known
                   THEN [ms EXCEPT ![ManualTarget] = AfterManualReboot(@, poller.ts)] ELSE ms
      BY <1>8 DEF ManualSucceeds, Save, mainVars
    <2>2. ASSUME NEW m \in Fleet PROVE NeverLow(ms'[m])
      <3>1. ms[m] \in MinerRecord /\ NeverLow(ms[m])
        BY DEF TypeOK, NeverLowInv
      <3>2. NeverLow(AfterManualReboot(ms[m], poller.ts))
        BY <3>1, UpdateNeverLow
      <3>3. QED
        BY <2>1, <3>1, <3>2 DEF TypeOK
    <2>3. QED
      BY <2>1, <2>2, NeverLowSave DEF NeverLowInv
  <1>9. CASE UNCHANGED vars
    BY <1>9 DEF vars, NeverLowInv
  <1>10. CASE Elapse
    BY <1>10, ElapseTimes DEF NeverLowInv
  <1>11. QED
    BY <1>1, <1>2, <1>3, <1>4, <1>5, <1>6, <1>7, <1>8, <1>9, <1>10
       DEF Next, MainLoop, Operator

(* With fails_before_alert of 2 or more (the code's default and the example      *)
(* configuration use 3) no run of the monitor ever sends an automatic reboot:    *)
(* lines 3975-3984 reset low_streak on every tick that does not confirm LOW.     *)
THEOREM DefaultNeverReboots ==
    FailsBeforeAlert >= 2 => (Spec => [](phase # "cli"))
  <1> SUFFICES ASSUME FailsBeforeAlert >= 2 PROVE Spec => [](phase # "cli")
    OBVIOUS
  <1>1. Init => TypeOK /\ NeverLowInv
    BY TypeInit, NeverLowInit
  <1>2. TypeOK /\ NeverLowInv /\ [Next]_vars => (TypeOK /\ NeverLowInv)'
    BY TypeStep, NeverLowStep
  <1>3. NeverLowInv => phase # "cli"
    BY DEF NeverLowInv
  <1>4. QED
    BY <1>1, <1>2, <1>3, PTL DEF Spec
===============================================================================
