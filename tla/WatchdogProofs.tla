----------------------------- MODULE WatchdogProofs -----------------------------
(* Theorems about Watchdog: what the operator is told of a dead monitor, and   *)
(* when, for every schedule, threshold and number of faults.                   *)
EXTENDS Watchdog, TLAPS

(* A run ends in the unit it began in, so that the clock only moves while the   *)
(* task is idle, and the last run was at dueAt - Period.                       *)
ClockInv ==
    /\ ticked <= now /\ disturbed <= now /\ file.notified <= now
    /\ dueAt <= now + Period
    /\ heartbeat = NoHeartbeat \/ heartbeat.tick = ticked
    /\ lease <= quiet

(* What the message in hand says, and what the state file will say of it.      *)
MessageInv ==
    /\ run.at = "sending" =>
        /\ run.event # "none"
        /\ run.event = "recovery" => ~run.new.open /\ now <= ticked + Stale
        /\ run.event # "recovery" => run.new.open /\ run.new.notified = now
    /\ run.at # "idle" => run.new.notified <= now

(* Record is what the state file holds, or will hold once the run is over.     *)
Record == IF run.at = "writing" THEN run.new ELSE file

(* Unless the last message is unknown to it, the record says what was told, and *)
(* since when; a record that does not know the last message was left as it was. *)
MemoryInv ==
    /\ ~diverged => (told.down <=> Record.open)
    /\ ~diverged /\ told.down => Record.notified = told.at
    /\ diverged => Record = file /\ file.notified <= disturbed

Deadline == Later(Later(ticked + Stale, quiet), disturbed + IF diverged THEN LastGap ELSE 0)

(* At the end of the last run the alarm was told or not yet owed.              *)
AlarmInv ==
    /\ run.at = "idle" => told.down \/ dueAt - Period <= Deadline
    /\ run.at = "writing" => told.down \/ now <= Deadline

(* At the end of the last run the reminder was sent, not yet due or excused.   *)
ReminderInv ==
    ~diverged /\ told.down =>
        /\ run.at = "idle" => \/ dueAt - Period <= Later(quiet, disturbed)
                              \/ dueAt - Period - told.at < LastGap
        /\ run.at = "writing" => \/ now <= Later(quiet, disturbed)
                                 \/ now - told.at < LastGap

WatchdogInv == TypeOK /\ ClockInv /\ MessageInv /\ MemoryInv /\ AlarmInv /\ ReminderInv
-------------------------------------------------------------------------------
(* Facts about the operators                                                  *)

LEMMA LastGapIsLongest ==
    /\ LastGap \in Nat \ {0}
    /\ \A count \in Nat : Gap(count) \in Nat /\ Gap(count) <= LastGap
  <1>1. PICK n \in Nat \ {0} : n = Len(Schedule) /\ Schedule \in [1..n -> Nat \ {0}]
    BY WatchdogAssumption DEF WatchdogAssumption
  <1>2. LastGap = Schedule[n]
    BY <1>1 DEF LastGap
  <1>3. ASSUME NEW i \in 1..n PROVE Schedule[i] \in Nat \ {0} /\ Schedule[i] <= Schedule[n]
    <2>1. \A j \in DOMAIN Schedule, k \in DOMAIN Schedule : j < k => Schedule[j] < Schedule[k]
      BY WatchdogAssumption DEF WatchdogAssumption
    <2>2. i < n => Schedule[i] < Schedule[n]
      BY <1>1, <2>1
    <2>3. QED
      BY <1>1, <2>2
  <1>4. ASSUME NEW count \in Nat
        PROVE  (IF count > Len(Schedule) THEN Len(Schedule) ELSE Later(count, 1)) \in 1..n
    BY <1>1 DEF Later
  <1>5. QED
    BY <1>2, <1>3, <1>4 DEF Gap

(* A monitor without reasons has left a heartbeat that is not stale.           *)
LEMMA NoReasonMeansFresh ==
    ASSUME TypeOK, NEW answered \in BOOLEAN, Reasons(answered) = {}
    PROVE  heartbeat # NoHeartbeat /\ now - heartbeat.tick <= Stale
  <1>1. "heartbeat_missing" \in Reason /\ "tick_stale" \in Reason
    BY DEF Reason
  <1>2. heartbeat # NoHeartbeat
    BY <1>1 DEF Reasons
  <1>3. ~(now - heartbeat.tick > Stale)
    BY <1>1, <1>2 DEF Reasons
  <1>4. now \in Int /\ heartbeat.tick \in Int /\ Stale \in Int
    BY WatchdogAssumption DEF TypeOK, Heartbeat, Ts, NoTs, WatchdogAssumption
  <1>5. QED
    BY <1>2, <1>3, <1>4

(* The three outcomes of decide_notification and the reasons for each.         *)
LEMMA DecisionCases ==
    ASSUME TypeOK, NEW reasons \in SUBSET Reason
    PROVE  LET d == Decision(reasons) IN
           \/ /\ d.event = "none" /\ d.new = file
              /\ \/ MaintenanceActive
                 \/ reasons = {} /\ ~file.open
                 \/ file.open /\ now - file.notified < Gap(file.count)
           \/ d.event = "recovery" /\ d.new = Closed /\ reasons = {}
           \/ /\ d.event \in {"open", "update", "reminder"}
              /\ d.new \in Incident /\ d.new.open /\ d.new.notified = now
  <1>1. /\ file \in Incident /\ file.count \in Nat /\ file.notified \in Int /\ now \in Nat /\ now \in Ts
        /\ Gap(file.count) \in Int
    BY LastGapIsLongest DEF TypeOK, Incident, Ts, NoTs
  <1>2. ASSUME NEW event \in {"open", "update", "reminder"}, NEW count \in Nat
        PROVE  /\ Noticed(event, reasons, count).event = event
               /\ Noticed(event, reasons, count).new \in Incident
               /\ Noticed(event, reasons, count).new.open
               /\ Noticed(event, reasons, count).new.notified = now
    BY <1>1 DEF Noticed, Incident
  <1>3. Leave(file).event = "none" /\ Leave(file).new = file
    BY DEF Leave
  <1>4. CASE reasons # {} /\ MaintenanceActive
    BY <1>3, <1>4 DEF Decision
  <1>5. CASE reasons = {}
    BY <1>3, <1>5 DEF Decision
  <1>6. CASE reasons # {} /\ ~MaintenanceActive
    <2>1. CASE ~file.open
      <3>1. Decision(reasons) = Noticed("open", reasons, 1)
        BY <1>6, <2>1 DEF Decision
      <3>2. QED
        BY <1>2, <3>1
    <2>2. CASE file.open /\ reasons # file.reasons
      <3>1. Decision(reasons) = Noticed("update", reasons, file.count + 1)
        BY <1>6, <2>2 DEF Decision
      <3>2. QED
        BY <1>1, <1>2, <3>1
    <2>3. CASE file.open /\ reasons = file.reasons /\ now - file.notified >= Gap(file.count)
      <3>1. Decision(reasons) = Noticed("reminder", reasons, file.count + 1)
        BY <1>6, <2>3 DEF Decision
      <3>2. QED
        BY <1>1, <1>2, <3>1
    <2>4. CASE file.open /\ reasons = file.reasons /\ ~(now - file.notified >= Gap(file.count))
      <3>1. Decision(reasons) = Leave(file)
        BY <1>6, <2>4 DEF Decision
      <3>2. now - file.notified < Gap(file.count)
        BY <1>1, <2>4
      <3>3. QED
        BY <1>3, <2>4, <3>1, <3>2
    <2>5. QED
      BY <2>1, <2>2, <2>3, <2>4
  <1>7. QED
    BY <1>4, <1>5, <1>6
-------------------------------------------------------------------------------
(* Types                                                                      *)

Numbers ==
    /\ now \in Nat /\ ticked \in Nat /\ dueAt \in Nat
    /\ quiet \in Int /\ disturbed \in Int /\ lease \in Int
    /\ file.notified \in Int /\ run.new.notified \in Int /\ told.at \in Int
    /\ Stale \in Nat /\ Period \in Nat \ {0} /\ MaxLease \in Nat /\ LastGap \in Nat \ {0}

LatestOfFour ==
    /\ Deadline \in Int
    /\ Deadline >= ticked + Stale /\ Deadline >= quiet /\ Deadline >= disturbed
    /\ diverged => Deadline >= disturbed + LastGap
    /\ \/ Deadline = ticked + Stale \/ Deadline = quiet
       \/ Deadline = disturbed + (IF diverged THEN LastGap ELSE 0)

LEMMA TypesOfNumbers == TypeOK => Numbers
  <1> SUFFICES ASSUME TypeOK PROVE Numbers
    OBVIOUS
  <1>1. /\ now \in Nat /\ ticked \in Nat /\ dueAt \in Nat
        /\ quiet \in Int /\ disturbed \in Int /\ lease \in Int /\ told.at \in Int
    BY DEF TypeOK, Ts, NoTs
  <1>2. file \in Incident /\ run.new \in Incident
    BY DEF TypeOK
  <1>3. file.notified \in Int /\ run.new.notified \in Int
    BY <1>2 DEF Incident, Ts, NoTs
  <1>4. QED
    BY <1>1, <1>3, WatchdogAssumption, LastGapIsLongest DEF Numbers, WatchdogAssumption

LEMMA DeadlineIsLatest == TypeOK => LatestOfFour
  <1> SUFFICES ASSUME TypeOK PROVE LatestOfFour
    OBVIOUS
  <1>1. PICK slack \in Nat : slack = IF diverged THEN LastGap ELSE 0
    BY TypesOfNumbers DEF Numbers
  <1>2. Deadline = Later(Later(ticked + Stale, quiet), disturbed + slack)
    BY <1>1 DEF Deadline
  <1>3. QED
    BY <1>1, <1>2, TypesOfNumbers DEF Numbers, LatestOfFour, Later

LEMMA NextNumbers == TypeOK' => Numbers' /\ LatestOfFour'
  <1>1. QED
    BY TypesOfNumbers, DeadlineIsLatest, PTL

LEMMA InitTypes == Init => TypeOK
  <1> SUFFICES ASSUME Init PROVE TypeOK
    OBVIOUS
  <1>1. Closed \in Incident /\ NoHeartbeat \in Heartbeat
    BY DEF Closed, Incident, NoHeartbeat, Heartbeat, Ts, NoTs
  <1>2. seen \in [Workers -> Ts] /\ run = Resting /\ file = Closed /\ heartbeat = NoHeartbeat
    BY DEF Init, Ts
  <1>3. run \in [at : {"idle", "sending", "writing"},
                event : {"none", "open", "update", "reminder", "recovery"}, new : Incident]
    BY <1>1, <1>2 DEF Resting
  <1>4. told \in [down : BOOLEAN, at : Ts] /\ quiet \in Ts /\ disturbed \in Ts /\ lease \in Ts
    BY DEF Init, Ts
  <1>5. stuck \subseteq Workers \cup {"tick"}
    BY DEF Init
  <1>6. QED
    BY <1>1, <1>2, <1>3, <1>4, <1>5 DEF Init, TypeOK

LEMMA StepTypes ==
    ASSUME TypeOK, [Next]_vars
    PROVE  TypeOK'
  <1> USE DEF Ts, NoTs
  <1>1. CASE Advance
    <2>1. seen' \in [Workers -> Ts] /\ now' \in Nat
      BY <1>1 DEF Advance, TypeOK
    <2>2. heartbeat' \in Heartbeat
      BY <1>1, <2>1 DEF Advance, TypeOK, Heartbeat, Workers
    <2>3. QED
      BY <1>1, <2>1, <2>2 DEF Advance, TypeOK, task
  <1>2. ASSUME NEW t \in Workers \cup {"tick"}, Hang(t) PROVE TypeOK'
    BY <1>2 DEF Hang, Fault, TypeOK, task
  <1>3. CASE Resume
    BY <1>3 DEF Resume, TypeOK, task
  <1>4. CASE Die
    <2>1. stuck' \subseteq Workers \cup {"tick"} /\ faults' \in Nat
      BY <1>4 DEF Die, Fault, TypeOK
    <2>2. QED
      BY <1>4, <2>1 DEF Die, TypeOK, task
  <1>5. CASE Start
    BY <1>5 DEF Start, TypeOK, task
  <1>6. CASE SetMaintenance
    <2>1. \A d \in {1, MaxLease + 3} : now + Bounded(d) \in Nat /\ (now + IF d > MaxLease THEN MaxLease ELSE d) \in Nat
      BY TypesOfNumbers DEF Numbers, Bounded
    <2>2. lease' \in Ts /\ quiet' \in Ts
      BY <1>6, <2>1 DEF SetMaintenance, TypeOK, Later
    <2>3. QED
      BY <1>6, <2>2 DEF SetMaintenance, TypeOK, monitor, task
  <1>7. CASE ClearMaintenance
    BY <1>7 DEF ClearMaintenance, TypeOK, monitor, task
  <1>8. CASE Check
    <2>1. PICK answered \in BOOLEAN :
            /\ IF answered THEN UNCHANGED faults ELSE Fault
            /\ run' = [at |-> IF Decision(Reasons(answered)).event = "none" THEN "writing" ELSE "sending",
                       event |-> Decision(Reasons(answered)).event, new |-> Decision(Reasons(answered)).new]
      BY <1>8 DEF Check
    <2>2. Reasons(answered) \in SUBSET Reason
      BY DEF Reasons
    <2>3. /\ Decision(Reasons(answered)).event \in {"none", "open", "update", "reminder", "recovery"}
          /\ Decision(Reasons(answered)).new \in Incident
      <3>1. file \in Incident /\ Closed \in Incident
        BY DEF TypeOK, Closed, Incident
      <3>2. QED
        BY <2>2, <3>1, DecisionCases
    <2>4. faults' \in Nat
      BY <2>1 DEF Fault, TypeOK
    <2>5. QED
      BY <1>8, <2>1, <2>3, <2>4 DEF Check, TypeOK, monitor
  <1>9. CASE Sent
    BY <1>9 DEF Sent, Arrives, TypeOK, monitor
  <1>10. CASE SendFails
    <2>1. faults' \in Nat /\ disturbed' \in Ts
      BY <1>10 DEF SendFails, Fault, TypeOK
    <2>2. diverged' \in BOOLEAN
      <3>1. diverged' = diverged \/ diverged' = TRUE
        BY <1>10 DEF SendFails
      <3>2. QED
        BY <3>1 DEF TypeOK
    <2>3. run' \in [at : {"idle", "sending", "writing"},
                    event : {"none", "open", "update", "reminder", "recovery"}, new : Incident]
      <3>1. run' = [at |-> "writing", event |-> run.event, new |-> file]
        BY <1>10 DEF SendFails, Unsent, TypeOK
      <3>2. QED
        BY <3>1 DEF TypeOK
    <2>4. told' \in [down : BOOLEAN, at : Ts]
      <3>1. told' = told \/ told' = [down |-> run.event # "recovery", at |-> now]
        BY <1>10 DEF SendFails, Arrives
      <3>2. now \in Ts
        BY DEF TypeOK
      <3>3. [down |-> run.event # "recovery", at |-> now] \in [down : BOOLEAN, at : Ts]
        BY <3>2
      <3>4. told \in [down : BOOLEAN, at : Ts]
        BY DEF TypeOK
      <3>5. QED
        BY <3>1, <3>3, <3>4
    <2>5. QED
      BY <1>10, <2>1, <2>2, <2>3, <2>4 DEF SendFails, TypeOK, monitor
  <1>11. CASE Write
    BY <1>11, TypesOfNumbers DEF Numbers, Write, Resting, Closed, Incident, TypeOK, monitor
  <1>12. CASE Killed
    BY <1>12, TypesOfNumbers DEF Numbers, Killed, Fault, Resting, Closed, Incident, TypeOK, monitor
  <1>13. CASE UNCHANGED vars
    BY <1>13 DEF vars, monitor, task, TypeOK
  <1>14. QED
    BY <1>1, <1>2, <1>3, <1>4, <1>5, <1>6, <1>7, <1>8, <1>9, <1>10, <1>11, <1>12, <1>13 DEF Next

(* Every variable of the monitor, of the task and of the operator keeps its type. *)
THEOREM WatchdogTypeCorrect == Spec => []TypeOK
  <1>1. QED
    BY InitTypes, StepTypes, PTL DEF Spec
-------------------------------------------------------------------------------
(* The invariant                                                              *)

LEMMA InitWatchdogInv == Init => WatchdogInv
  <1> SUFFICES ASSUME Init PROVE WatchdogInv
    OBVIOUS
  <1>1. TypeOK
    BY InitTypes
  <1>2. Deadline >= ticked + Stale
    BY <1>1, DeadlineIsLatest DEF LatestOfFour
  <1>3. /\ now = 1 /\ ticked = 1 /\ dueAt = 2 /\ disturbed = NoTs /\ lease = NoTs /\ quiet = NoTs
        /\ file = Closed /\ run = Resting /\ heartbeat = NoHeartbeat
        /\ told.down = FALSE /\ diverged = FALSE
    BY DEF Init
  <1>4. dueAt - Period <= Deadline
    BY <1>1, <1>2, <1>3, TypesOfNumbers, DeadlineIsLatest DEF Numbers, LatestOfFour
  <1>5. QED
    BY <1>1, <1>3, <1>4, TypesOfNumbers
       DEF Numbers, WatchdogInv, ClockInv, MessageInv, MemoryInv, AlarmInv, ReminderInv, Record, Resting, Closed, NoTs

(* What does not touch the task and only lets the observed times grow.        *)
LEMMA Elsewhere ==
    ASSUME WatchdogInv, TypeOK', UNCHANGED <<run, file, dueAt, told, disturbed, diverged>>,
           now <= now', ticked <= ticked', quiet <= quiet', run.at # "idle" => now' = now,
           ClockInv'
    PROVE  WatchdogInv'
  <1>1. Deadline' >= Deadline
    BY TypesOfNumbers, DeadlineIsLatest, NextNumbers DEF Numbers, LatestOfFour, WatchdogInv
  <1>2. MessageInv' /\ MemoryInv'
    BY TypesOfNumbers, NextNumbers DEF Numbers, LatestOfFour, WatchdogInv, MessageInv, MemoryInv, Record, ClockInv
  <1>3. AlarmInv'
    BY <1>1, TypesOfNumbers, DeadlineIsLatest, NextNumbers DEF Numbers, LatestOfFour, WatchdogInv, AlarmInv
  <1>4. ReminderInv'
    BY TypesOfNumbers, NextNumbers DEF Numbers, LatestOfFour, WatchdogInv, ReminderInv, Later
  <1>5. QED
    BY <1>2, <1>3, <1>4 DEF WatchdogInv

LEMMA StepWatchdogInv ==
    ASSUME WatchdogInv, [Next]_vars
    PROVE  WatchdogInv'
  <1>1. TypeOK /\ TypeOK'
    BY StepTypes DEF WatchdogInv
  <1> USE <1>1
  <1>2. CASE Advance
    <2>1. /\ UNCHANGED <<run, file, dueAt, told, disturbed, diverged, quiet, lease>>
          /\ now' = now + 1 /\ ticked' \in {ticked, now'} /\ run.at = "idle"
      BY <1>2 DEF Advance, task
    <2>2. heartbeat' = NoHeartbeat \/ heartbeat'.tick = ticked'
      BY <1>2 DEF Advance, WatchdogInv, ClockInv
    <2>3. ClockInv' /\ now <= now' /\ ticked <= ticked' /\ quiet <= quiet'
      BY <2>1, <2>2, TypesOfNumbers, NextNumbers DEF Numbers, LatestOfFour, WatchdogInv, ClockInv
    <2>4. QED
      BY <2>1, <2>3, Elsewhere
  <1>3. CASE (\E t \in Workers \cup {"tick"} : Hang(t)) \/ Resume \/ Die \/ Start \/ UNCHANGED vars
    <2>1. UNCHANGED <<run, file, dueAt, told, disturbed, diverged, quiet, lease, now, ticked, heartbeat>>
      BY <1>3 DEF Hang, Resume, Die, Start, vars, monitor, task
    <2>2. ClockInv' /\ now <= now' /\ ticked <= ticked' /\ quiet <= quiet'
      BY <2>1, TypesOfNumbers DEF Numbers, WatchdogInv, ClockInv
    <2>3. QED
      BY <2>1, <2>2, Elsewhere
  <1>4. CASE SetMaintenance
    <2>1. UNCHANGED <<run, file, dueAt, told, disturbed, diverged, now, ticked, heartbeat>>
      BY <1>4 DEF SetMaintenance, monitor, task
    <2>2. PICK d \in {1, MaxLease + 3} :
            lease' = now + Bounded(d) /\ quiet' = Later(quiet, now + IF d > MaxLease THEN MaxLease ELSE d)
      BY <1>4 DEF SetMaintenance
    <2>3. quiet' >= quiet /\ quiet' >= lease'
      BY <2>2, TypesOfNumbers DEF Numbers, Bounded, Later
    <2>4. ClockInv' /\ now <= now' /\ ticked <= ticked' /\ quiet <= quiet'
      BY <2>1, <2>3, TypesOfNumbers DEF Numbers, WatchdogInv, ClockInv
    <2>5. QED
      BY <2>1, <2>4, Elsewhere
  <1>5. CASE ClearMaintenance
    <2>1. UNCHANGED <<run, file, dueAt, told, disturbed, diverged, now, ticked, quiet, heartbeat>>
      BY <1>5 DEF ClearMaintenance, monitor, task
    <2>2. lease' <= quiet'
      BY <1>5, TypesOfNumbers DEF Numbers, ClearMaintenance, TypeOK, Ts, NoTs
    <2>3. ClockInv' /\ now <= now' /\ ticked <= ticked' /\ quiet <= quiet'
      BY <2>1, <2>2, TypesOfNumbers DEF Numbers, WatchdogInv, ClockInv
    <2>4. QED
      BY <2>1, <2>3, Elsewhere
  <1>6. CASE Check
    <2>1. PICK answered \in BOOLEAN :
            run' = [at |-> IF Decision(Reasons(answered)).event = "none" THEN "writing" ELSE "sending",
                    event |-> Decision(Reasons(answered)).event, new |-> Decision(Reasons(answered)).new]
      BY <1>6 DEF Check
    <2> DEFINE reasons == Reasons(answered)
    <2>2. /\ UNCHANGED <<now, ticked, heartbeat, lease, file, dueAt, told, quiet, disturbed, diverged>>
          /\ run.at = "idle"
      BY <1>6 DEF Check, monitor, Due
    <2>3. reasons = {} => now <= ticked + Stale
      <3>1. reasons = {} => heartbeat # NoHeartbeat /\ now - heartbeat.tick <= Stale
        BY NoReasonMeansFresh
      <3>2. QED
        BY <3>1, TypesOfNumbers DEF Numbers, WatchdogInv, ClockInv
    <2>4. MaintenanceActive => now <= quiet
      BY TypesOfNumbers DEF Numbers, MaintenanceActive, WatchdogInv, ClockInv
    <2>5. Reasons(answered) \in SUBSET Reason
      BY DEF Reasons
    <2>6. Deadline' = Deadline
      BY <2>2 DEF Deadline
    <2>7. ClockInv'
      BY <2>2 DEF WatchdogInv, ClockInv
    <2>8. CASE /\ run'.at = "writing" /\ run'.new = file
               /\ \/ MaintenanceActive
                  \/ reasons = {} /\ ~file.open
                  \/ file.open /\ now - file.notified < Gap(file.count)
      <3>1. MessageInv' /\ MemoryInv'
        BY <2>2, <2>8 DEF WatchdogInv, ClockInv, MessageInv, MemoryInv, Record
      <3>2. file.open /\ now - file.notified < Gap(file.count) => now - file.notified < LastGap
        BY LastGapIsLongest, TypesOfNumbers DEF Numbers, TypeOK, Incident
      <3>3. ~diverged => (told.down <=> file.open)
        BY <2>2 DEF WatchdogInv, MemoryInv, Record
      <3>4. ~diverged /\ told.down => file.notified = told.at
        BY <2>2 DEF WatchdogInv, MemoryInv, Record
      <3>5. diverged => file.notified <= disturbed
        BY DEF WatchdogInv, MemoryInv
      <3>6. told.down \/ now <= Deadline
        BY <2>3, <2>4, <2>8, <3>2, <3>3, <3>5, TypesOfNumbers, DeadlineIsLatest DEF Numbers, LatestOfFour
      <3>7. AlarmInv'
        BY <2>2, <2>6, <2>8, <3>6 DEF AlarmInv
      <3>8. ~diverged /\ told.down => now <= Later(quiet, disturbed) \/ now - told.at < LastGap
        BY <2>4, <2>8, <3>2, <3>3, <3>4, TypesOfNumbers DEF Numbers, Later
      <3>9. ReminderInv'
        BY <2>2, <2>8, <3>8 DEF ReminderInv
      <3>10. QED
        BY <1>1, <2>7, <3>1, <3>7, <3>9 DEF WatchdogInv
    <2>9. CASE /\ run'.at = "sending" /\ run'.event # "none"
               /\ run'.new.notified <= now
               /\ run'.event = "recovery" => ~run'.new.open /\ reasons = {}
               /\ run'.event # "recovery" => run'.new.open /\ run'.new.notified = now
      <3>1. MessageInv'
        BY <2>2, <2>3, <2>9 DEF MessageInv
      <3>2. MemoryInv'
        BY <2>2, <2>9 DEF WatchdogInv, MemoryInv, Record
      <3>3. AlarmInv' /\ ReminderInv'
        BY <2>9 DEF AlarmInv, ReminderInv
      <3>4. QED
        BY <1>1, <2>7, <3>1, <3>2, <3>3 DEF WatchdogInv
    <2>10. QED
      <3> DEFINE d == Decision(reasons)
      <3>1. \/ /\ d.event = "none" /\ d.new = file
               /\ \/ MaintenanceActive
                  \/ reasons = {} /\ ~file.open
                  \/ file.open /\ now - file.notified < Gap(file.count)
            \/ d.event = "recovery" /\ d.new = Closed /\ reasons = {}
            \/ /\ d.event \in {"open", "update", "reminder"}
               /\ d.new \in Incident /\ d.new.open /\ d.new.notified = now
        BY <2>5, DecisionCases
      <3>2. run' = [at |-> IF d.event = "none" THEN "writing" ELSE "sending", event |-> d.event, new |-> d.new]
        BY <2>1
      <3>3. ~Closed.open /\ Closed.notified <= now
        BY TypesOfNumbers DEF Numbers, Closed, NoTs
      <3>4. now <= now
        BY TypesOfNumbers DEF Numbers
      <3> HIDE DEF d
      <3>5. QED
        BY <2>8, <2>9, <3>1, <3>2, <3>3, <3>4
  <1>7. CASE Sent
    <2>1. /\ UNCHANGED <<now, ticked, heartbeat, lease, file, dueAt, quiet, disturbed>>
          /\ run.at = "sending" /\ run'.at = "writing" /\ run'.new = run.new /\ diverged' = FALSE
          /\ (told'.down <=> run.event # "recovery") /\ told'.at = now
      BY <1>7 DEF Sent, Arrives, monitor, TypeOK
    <2>2. ClockInv'
      BY <2>1 DEF WatchdogInv, ClockInv
    <2>3. MessageInv'
      BY <2>1 DEF WatchdogInv, MessageInv
    <2>4. MemoryInv'
      BY <2>1 DEF WatchdogInv, MessageInv, MemoryInv, Record
    <2>5. AlarmInv'
      BY <2>1, TypesOfNumbers, NextNumbers DEF Numbers, LatestOfFour, WatchdogInv, MessageInv, AlarmInv
    <2>6. ReminderInv'
      BY <2>1, TypesOfNumbers DEF Numbers, ReminderInv
    <2>7. QED
      BY <1>1, <2>2, <2>3, <2>4, <2>5, <2>6 DEF WatchdogInv
  <1>8. CASE SendFails
    <2>1. /\ UNCHANGED <<now, ticked, heartbeat, lease, file, dueAt, quiet>>
          /\ run.at = "sending" /\ run'.at = "writing" /\ run'.new = file /\ disturbed' = now
          /\ UNCHANGED <<told, diverged>> \/ diverged' = TRUE
      BY <1>8 DEF SendFails, Unsent, monitor, TypeOK
    <2>2. ClockInv'
      BY <2>1, TypesOfNumbers DEF Numbers, WatchdogInv, ClockInv
    <2>3. MessageInv'
      BY <2>1 DEF WatchdogInv, ClockInv, MessageInv
    <2>4. MemoryInv'
      BY <2>1 DEF WatchdogInv, ClockInv, MemoryInv, Record
    <2>5. AlarmInv'
      BY <2>1, TypesOfNumbers, NextNumbers DEF Numbers, LatestOfFour, AlarmInv
    <2>6. ReminderInv'
      BY <2>1, TypesOfNumbers DEF Numbers, ReminderInv, Later
    <2>7. QED
      BY <1>1, <2>2, <2>3, <2>4, <2>5, <2>6 DEF WatchdogInv
  <1>9. CASE Write
    <2>1. /\ UNCHANGED <<now, ticked, heartbeat, lease, told, quiet, disturbed, diverged>>
          /\ run.at = "writing" /\ file' = run.new /\ run'.at = "idle" /\ dueAt' = now + Period
      BY <1>9 DEF Write, Resting, monitor
    <2>2. ClockInv' /\ MessageInv'
      BY <2>1, TypesOfNumbers DEF Numbers, WatchdogInv, ClockInv, MessageInv
    <2>3. MemoryInv'
      BY <2>1 DEF WatchdogInv, MemoryInv, Record
    <2>4. Deadline' = Deadline
      BY <2>1 DEF Deadline
    <2>5. AlarmInv'
      BY <2>1, <2>4, TypesOfNumbers DEF Numbers, WatchdogInv, AlarmInv
    <2>6. ReminderInv'
      BY <2>1, TypesOfNumbers DEF Numbers, WatchdogInv, ReminderInv
    <2>7. QED
      BY <1>1, <2>2, <2>3, <2>5, <2>6 DEF WatchdogInv
  <1>10. CASE Killed
    <2>1. /\ UNCHANGED <<now, ticked, heartbeat, lease, file, told, quiet>>
          /\ run.at # "idle" /\ run'.at = "idle" /\ dueAt' = now + Period /\ disturbed' = now
          /\ diverged' = (diverged \/ (run.at = "writing" /\ run.new # file))
      BY <1>10 DEF Killed, Resting, monitor
    <2>2. ClockInv' /\ MessageInv'
      BY <2>1, TypesOfNumbers DEF Numbers, WatchdogInv, ClockInv, MessageInv
    <2>3. MemoryInv'
      BY <2>1, TypesOfNumbers DEF Numbers, WatchdogInv, ClockInv, MemoryInv, Record
    <2>4. AlarmInv'
      BY <2>1, TypesOfNumbers, NextNumbers DEF Numbers, LatestOfFour, AlarmInv
    <2>5. ReminderInv'
      BY <2>1, TypesOfNumbers DEF Numbers, ReminderInv, Later
    <2>6. QED
      BY <1>1, <2>2, <2>3, <2>4, <2>5 DEF WatchdogInv
  <1>11. QED
    BY <1>2, <1>3, <1>4, <1>5, <1>6, <1>7, <1>8, <1>9, <1>10 DEF Next, WatchdogInv

LEMMA WatchdogInvariant == Spec => []WatchdogInv
  <1>1. QED
    BY InitWatchdogInv, StepWatchdogInv, PTL DEF Spec
-------------------------------------------------------------------------------
(* The operator is never left with an alarm the watchdog has forgotten.        *)
THEOREM AlarmsAreRemembered == Spec => []AlarmIsRemembered
  <1>1. WatchdogInv => AlarmIsRemembered
    BY DEF WatchdogInv, MemoryInv, Record, AlarmIsRemembered, AfterRun
  <1>2. QED
    BY <1>1, WatchdogInvariant, PTL

(* A monitor that completes no tick is reported within one run of its heartbeat *)
(* going stale, of the end of maintenance or of the last failure, whichever is  *)
(* last.                                                                      *)
THEOREM AlarmsAreInTime == Spec => []AlarmInTime
  <1>1. WatchdogInv => AlarmInTime
    <2> SUFFICES ASSUME WatchdogInv, AfterRun, now > Deadline + Period PROVE told.down
      BY DEF AlarmInTime, Deadline
    <2>1. TypeOK /\ now < dueAt /\ run.at = "idle"
      BY TypesOfNumbers DEF Numbers, WatchdogInv, AfterRun, Due
    <2>2. QED
      BY <2>1, TypesOfNumbers, DeadlineIsLatest DEF Numbers, LatestOfFour, WatchdogInv, AlarmInv
  <1>2. QED
    BY <1>1, WatchdogInvariant, PTL

(* An announced outage is repeated at the latest at the last interval of the    *)
(* schedule.                                                                  *)
THEOREM RemindersAreInTime == Spec => []RemindedInTime
  <1>1. WatchdogInv => RemindedInTime
    <2> SUFFICES ASSUME WatchdogInv, AfterRun, told.down, ~diverged, now > Later(quiet, disturbed) + Period
                 PROVE  now - told.at < LastGap + Period
      BY DEF RemindedInTime
    <2>1. TypeOK /\ now < dueAt /\ run.at = "idle"
      BY TypesOfNumbers DEF Numbers, WatchdogInv, AfterRun, Due
    <2>2. QED
      BY <2>1, TypesOfNumbers DEF Numbers, WatchdogInv, ReminderInv, Later
  <1>2. QED
    BY <1>1, WatchdogInvariant, PTL
===============================================================================
