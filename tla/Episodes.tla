-------------------------------- MODULE Episodes -------------------------------
(***************************************************************************)
(* What the operator is told about irregular miners: the coordinator of     *)
(* src/app/alert_episodes.py and the part of main in                        *)
(* src/app/miner_monitor.py that feeds it (lines 4465-4492) and sends what   *)
(* it returns (4535-4564).                                                  *)
(*                                                                         *)
(* The coordinator belongs to the main thread and a tick works with a        *)
(* single now_ts, so a tick is one step.  It lives in memory only: a crash   *)
(* forgets it, not what the operator has read.  Left out: labels, history    *)
(* and event ids (text of the messages) and the visits that a continue       *)
(* statement of the reboot policy skips, which only concern miners whose     *)
(* episode is already open and stays as it is.                              *)
(***************************************************************************)
EXTENDS Integers, Sequences, FiniteSets

CONSTANTS
    Miners,
    Coalesce,          \* state_change_coalesce_seconds
    Schedule,          \* reminder ages, persistent_outage_schedule_seconds
    Repeat,            \* persistent_outage_repeat_seconds
    NotifyStartup,     \* notify_startup
    NotifyPersistent,  \* notify_persistent_outage
    Muted,             \* qa_mode and not qa_notify
    Restarting,        \* the miners that may restart
    Gaps,              \* how far apart two ticks may be
    MaxNow             \* bound: the clock stops here

ASSUME EpisodesAssumption ==
    /\ Coalesce \in Nat
    /\ Schedule \in Seq(Nat \ {0}) /\ Schedule # <<>>
    /\ \A i, j \in DOMAIN Schedule : i < j => Schedule[i] < Schedule[j]
    /\ Repeat \in Nat \ {0}
    /\ NotifyStartup \in BOOLEAN /\ NotifyPersistent \in BOOLEAN /\ Muted \in BOOLEAN
    /\ Restarting \subseteq Miners /\ Gaps \subseteq Nat \ {0} /\ MaxNow \in Nat

NoTs == -1
Times == Nat \cup {NoTs}
-------------------------------------------------------------------------------
(* IrregularEpisode.  started is NoTs for a miner with no active episode.      *)
Episode == [started : Times, initialDue : Nat, sent : BOOLEAN, updateDue : Times,
            reminderIndex : 0..Len(Schedule), repeatIndex : Nat]

Opening(t) == [started |-> t, initialDue |-> t + Coalesce, sent |-> FALSE,
               updateDue |-> NoTs, reminderIndex |-> 0, repeatIndex |-> 1]

NoEpisode == [Opening(0) EXCEPT !.started = NoTs]
Active(e) == e.started # NoTs

\* A closed episode that waits in _recovered to be reported.
Closed == [miner : Miners, at : Nat, due : Nat]

Later(a, b) == IF a >= b THEN a ELSE b

\* observe, up to the point where the state decides whether the episode closes.
Observed(e, restarted, t) ==
    LET opened == IF Active(e) THEN e ELSE Opening(t)
    IN  IF restarted /\ opened.sent THEN [opened EXCEPT !.updateDue = t + Coalesce]
        ELSE opened

RecoveryDue(e, t) == Later(e.initialDue, t + IF e.sent THEN Coalesce ELSE 0)

\* Mutant: the reminder after the missed ones is skipped too.
AdvancePast(e, age) ==
    [e EXCEPT !.reminderIndex =
        Later(@, 1 + Cardinality({i \in DOMAIN Schedule : Schedule[i] <= age}))]

\* _advance_missed_schedule
AdvanceMissed(e, age) ==
    [e EXCEPT !.reminderIndex =
        Later(@, Cardinality({i \in DOMAIN Schedule : Schedule[i] <= age}))]

InSchedule(e) == e.reminderIndex < Len(Schedule)

\* _next_reminder_due_ts
NextReminderDue(e) ==
    CASE ~e.sent \/ e.updateDue # NoTs -> NoTs
      [] e.sent /\ e.updateDue = NoTs /\ InSchedule(e) ->
           e.started + Schedule[e.reminderIndex + 1]
      [] e.sent /\ e.updateDue = NoTs /\ ~InSchedule(e) ->
           e.started + Schedule[Len(Schedule)] + Repeat * e.repeatIndex

\* Mutant: the steady phase never moves to its next repetition.
SameRepeat(e, age) ==
    IF InSchedule(e) THEN AdvanceMissed([e EXCEPT !.reminderIndex = @ + 1], age) ELSE e

AfterReminder(e, age) ==
    IF InSchedule(e)
    THEN AdvanceMissed([e EXCEPT !.reminderIndex = @ + 1], age)
    ELSE [e EXCEPT !.repeatIndex = @ + 1]

AfterAnnouncement(e, age) ==
    AdvanceMissed([e EXCEPT !.sent = TRUE, !.updateDue = NoTs], age)

\* Mutants: what is due in this very tick waits for the next one.
UpdateOverdue(e, t) == e.updateDue # NoTs /\ t > e.updateDue
InitialOverdue(e, t) == Active(e) /\ ~e.sent /\ t > e.initialDue
ReminderOverdue(e, t) == NextReminderDue(e) # NoTs /\ t > NextReminderDue(e)

UpdateIsDue(e, t) == e.updateDue # NoTs /\ t >= e.updateDue
InitialIsDue(e, t) == Active(e) /\ ~e.sent /\ t >= e.initialDue
ReminderIsDue(e, t) == NextReminderDue(e) # NoTs /\ t >= NextReminderDue(e)

(***************************************************************************)
(* pop_due.  One due item makes its whole section due; initial notices then  *)
(* join unconditionally, reminders and recoveries up to Coalesce early.      *)
(***************************************************************************)

OpeningBatchDue(eps, t) == \E m \in Miners : InitialIsDue(eps[m], t) \/ UpdateIsDue(eps[m], t)
PersistentBatchDue(eps, t) == \E m \in Miners : ReminderIsDue(eps[m], t)
RecoveryBatchDue(closed, t) == \E c \in closed : t >= c.due

ToAnnounce(eps, t) ==
    {m \in Miners : \/ Active(eps[m]) /\ ~eps[m].sent /\ OpeningBatchDue(eps, t)
                    \/ UpdateIsDue(eps[m], t)}

ToRemind(eps, t) ==
    {m \in Miners \ ToAnnounce(eps, t) :
        /\ PersistentBatchDue(eps, t) /\ NextReminderDue(eps[m]) # NoTs
        /\ NextReminderDue(eps[m]) <= t + Coalesce}

\* Mutant: a recovery due in this very tick waits for the next one.
ToReportLate(closed, t) == {c \in closed : t > c.due}

ToReport(closed, t) ==
    {c \in closed : RecoveryBatchDue(closed, t) /\ c.due <= t + Coalesce}

\* Mutant: what was reported early stays.
KeepEarly(closed, t) == {c \in closed : c.due > t}

StillWaiting(closed, t) == closed \ ToReport(closed, t)

Popped(eps, t) ==
    [m \in Miners |->
       CASE m \in ToAnnounce(eps, t) -> AfterAnnouncement(eps[m], t - eps[m].started)
         [] m \in ToRemind(eps, t) -> AfterReminder(eps[m], t - eps[m].started)
         [] OTHER -> eps[m]]

Acknowledged(eps) ==
    [m \in Miners |-> IF Active(eps[m]) THEN [eps[m] EXCEPT !.sent = TRUE] ELSE eps[m]]
-------------------------------------------------------------------------------
VARIABLES
    now,        \* now_ts of the last tick
    phase,      \* "down"; "first" until the first tick has ended; "running"
    active,     \* coordinator.active
    recovered,  \* coordinator._recovered
    message,    \* what the last tick handed to send_telegram
    (* observation variables, read by properties only *)
    since,      \* tick that began the current irregular run of a miner, or NoTs
    okSince,    \* tick that began its current run of OK observations, or NoTs
    restartAt,  \* last restart seen within the run that owes a message, or NoTs
    toldAt,     \* last tick whose message presents the miner as affected
    lastWord,   \* what the last mention of the miner says; "unconfirmed" when there was none, or
                \* it labelled a reading that no state confirms
    reported    \* last tick whose message presents the miner as recovered

coordinator == <<active, recovered>>
ghosts == <<since, okSince, restartAt, toldAt, lastWord, reported>>
vars == <<now, phase, coordinator, message, ghosts>>

Message == [startup : BOOLEAN, opened : SUBSET Miners, persistent : SUBSET Miners,
            recovered : SUBSET Closed]
Nothing == [startup |-> FALSE, opened |-> {}, persistent |-> {}, recovered |-> {}]

TypeOK ==
    /\ now \in Nat /\ phase \in {"down", "first", "running"}
    /\ active \in [Miners -> Episode] /\ recovered \subseteq Closed
    /\ message \in Message
    /\ since \in [Miners -> Times] /\ okSince \in [Miners -> Times]
    /\ restartAt \in [Miners -> Times]
    /\ toldAt \in [Miners -> Times] /\ reported \in [Miners -> Times]
    /\ lastWord \in [Miners -> {"unconfirmed", "affected", "ok"}]

Never == [m \in Miners |-> NoTs]

Init ==
    /\ now = 0 /\ phase = "down"
    /\ active = [m \in Miners |-> NoEpisode] /\ recovered = {}
    /\ message = Nothing
    /\ since = Never /\ okSince = Never /\ restartAt = Never
    /\ toldAt = Never /\ reported = Never
    /\ lastWord = [m \in Miners |-> "unconfirmed"]

\* The monitor starts with an empty coordinator.
Boot ==
    /\ phase = "down" /\ phase' = "first"
    /\ active' = [m \in Miners |-> NoEpisode] /\ recovered' = {}
    /\ UNCHANGED <<now, message, ghosts>>

Crash ==
    /\ phase # "down" /\ phase' = "down"
    /\ message' = Nothing
    /\ since' = Never /\ okSince' = Never /\ restartAt' = Never
    /\ UNCHANGED <<now, coordinator, toldAt, lastWord, reported>>

SendsStartup == phase = "first" /\ NotifyStartup /\ ~Muted

Batch(eps, closed, t) ==
    [startup |-> FALSE, opened |-> ToAnnounce(eps, t),
     persistent |-> IF NotifyPersistent THEN ToRemind(eps, t) ELSE {},
     recovered |-> ToReport(closed, t)]

\* The first tick sends STARTUP or nothing: its batch is popped and dropped.
Sent(eps, closed, t) ==
    CASE SendsStartup -> [Nothing EXCEPT !.startup = TRUE]
      [] phase = "running" /\ ~Muted -> Batch(eps, closed, t)
      [] OTHER -> Nothing

\* STARTUP lists every miner by its signal of this tick, which may be a first bad reading that no
\* state confirms yet; a batch ends with the recovered ones.
LastWord(m, msg, affected, healthy) ==
    CASE msg.startup -> IF m \in affected THEN "affected"
                        ELSE IF m \in healthy THEN "ok" ELSE "unconfirmed"
      [] ~msg.startup /\ (\E c \in msg.recovered : c.miner = m) -> "ok"
      [] ~msg.startup /\ (\A c \in msg.recovered : c.miner # m)
           /\ m \in msg.opened \cup msg.persistent -> "affected"
      [] OTHER -> lastWord[m]

\* STARTUP swallows the restarts that the first tick detects: acknowledge_active_initials
\* (338-340) takes their episodes for announced.
Watch(affected, restarted, healthy, msg, t) ==
    /\ since' = [m \in Miners |->
         IF m \notin affected THEN NoTs ELSE IF since[m] = NoTs THEN t ELSE since[m]]
    /\ okSince' = [m \in Miners |->
         IF m \in affected THEN NoTs ELSE IF okSince[m] = NoTs THEN t ELSE okSince[m]]
    /\ restartAt' = [m \in Miners |->
         IF m \notin affected \/ m \in msg.opened \/ msg.startup THEN NoTs
         ELSE IF m \in restarted THEN t ELSE restartAt[m]]
    /\ toldAt' = [m \in Miners |->
         IF m \in msg.opened \cup msg.persistent \/ (msg.startup /\ m \in affected)
         THEN t ELSE toldAt[m]]
    /\ lastWord' = [m \in Miners |-> LastWord(m, msg, affected, healthy)]
    /\ reported' = [m \in Miners |->
         IF \E c \in msg.recovered : c.miner = m THEN t ELSE reported[m]]

\* The episodes after observe, and those that wait for their recovery notice.
Seen(restarted, t) == [m \in Miners |-> Observed(active[m], m \in restarted, t)]

Open(affected, restarted, t) ==
    [m \in Miners |-> IF m \in affected THEN Seen(restarted, t)[m] ELSE NoEpisode]

Ended(affected, restarted) ==
    {m \in Miners \ affected : Active(active[m]) \/ m \in restarted}

Waiting(affected, restarted, t) ==
    recovered \cup
        {[miner |-> m, at |-> t, due |-> RecoveryDue(Seen(restarted, t)[m], t)] :
            m \in Ended(affected, restarted)}

\* One tick with the miners it sees irregular, those whose restart is notified and those whose
\* signal is healthy.
Coordinate(affected, restarted, healthy, t) ==
    LET eps == Open(affected, restarted, t)
        closed == Waiting(affected, restarted, t)
    IN  /\ message' = Sent(eps, closed, t)
        /\ active' = IF SendsStartup THEN Acknowledged(Popped(eps, t)) ELSE Popped(eps, t)
        /\ recovered' = StillWaiting(closed, t)
        /\ Watch(affected, restarted, healthy, message', t)

\* A healthy signal hides persisted hysteresis, in the first tick only, the one whose signals
\* are told; no other is looked at.
Tick ==
    /\ phase # "down" /\ phase' = "running"
    /\ \E gap \in Gaps, irregular \in SUBSET Miners, restarted \in SUBSET Restarting,
          healthy \in IF phase = "first" THEN SUBSET Miners ELSE {{}} :
         /\ now + gap <= MaxNow /\ now' = now + gap
         /\ Coordinate(irregular \ healthy, restarted, healthy, now + gap)

Next == Boot \/ Crash \/ Tick

Spec == Init /\ [][Next]_vars
-------------------------------------------------------------------------------
(* Properties.  They speak about the state a tick leaves behind.               *)

Settled == phase = "running" /\ ~Muted

(* Why the first three hold.  In the steady state an episode follows the run of *)
(* its miner, nothing overdue is left behind by a tick, and whatever is pending *)
(* is due at most Coalesce after what it reports.                               *)
Tracked(m) ==
    /\ active[m].started = since[m] /\ since[m] <= now
    /\ Active(active[m]) => active[m].initialDue = since[m] + Coalesce
    /\ ~active[m].sent => active[m].updateDue = NoTs
    /\ Active(active[m]) /\ ~active[m].sent => now < active[m].initialDue
    /\ active[m].updateDue # NoTs => now < active[m].updateDue
    /\ okSince[m] = NoTs <=> since[m] # NoTs

EpisodeInv ==
    /\ \A m \in Miners : reported[m] <= now
    /\ \A c \in recovered :
         c.at <= now /\ c.due <= c.at + Coalesce /\ c.at > reported[c.miner]
    /\ phase # "running" => since = Never /\ okSince = Never /\ restartAt = Never
    /\ phase = "first" => active = [m \in Miners |-> NoEpisode] /\ recovered = {}
    /\ phase = "running" =>
         (\A c \in recovered : now < c.due) /\ \A m \in Miners : Tracked(m)

\* What a sent episode, a pending restart and a pending recovery account for.
ToldInv ==
    Settled => \A m \in Miners :
        Active(active[m]) /\ active[m].sent => toldAt[m] >= since[m]

\* The ages at which an announced episode was last recalled and will be recalled next.
LastAge(e) == IF InSchedule(e) THEN Schedule[e.reminderIndex]
              ELSE Schedule[Len(Schedule)] + Repeat * (e.repeatIndex - 1)
NextAge(e) == IF InSchedule(e) THEN Schedule[e.reminderIndex + 1]
              ELSE Schedule[Len(Schedule)] + Repeat * e.repeatIndex

\* Both indices count what the operator has read.
CountsReminders(e) ==
    /\ e.repeatIndex >= 1 /\ (InSchedule(e) => e.repeatIndex = 1)
    /\ ~e.sent => e.reminderIndex = 0

Recalled(m) ==
    /\ CountsReminders(active[m])
    /\ active[m].updateDue # NoTs => restartAt[m] # NoTs
    /\ active[m].sent /\ active[m].reminderIndex > 0 =>
         toldAt[m] >= since[m] + LastAge(active[m]) - Coalesce
    /\ active[m].sent /\ restartAt[m] = NoTs =>
         now - since[m] < NextAge(active[m]) \/ toldAt[m] = now

ReminderInv ==
    /\ \A m \in Miners : toldAt[m] <= now
    /\ Settled /\ NotifyPersistent => \A m \in Miners : Active(active[m]) => Recalled(m)

RestartInv ==
    Settled => \A m \in Miners : restartAt[m] # NoTs =>
        /\ since[m] # NoTs /\ since[m] <= restartAt[m]
        /\ active[m].sent => active[m].updateDue = restartAt[m] + Coalesce

WordInv ==
    Settled => \A m \in Miners : okSince[m] # NoTs /\ lastWord[m] = "affected" =>
        \E c \in recovered : c.miner = m /\ c.due <= okSince[m] + Coalesce

(* A miner that has been irregular for Coalesce when a tick ends has been       *)
(* presented as affected to the operator since it became so, by STARTUP or by   *)
(* an alert (alert_episodes.py 392-416; acknowledge_active_initials, 338).      *)
AnnouncedInTime ==
    Settled => \A m \in Miners :
        since[m] # NoTs /\ now - since[m] >= Coalesce => toldAt[m] >= since[m]

\* The ages at which an episode that has reached the given age must have been recalled.
ReminderAges(age) ==
    {Schedule[i] : i \in {j \in DOMAIN Schedule : Schedule[j] <= age}} \cup
    {a \in {Schedule[Len(Schedule)] + Repeat * k : k \in 1..age} : a <= age}

(* No reminder age passes in silence: when a tick ends, the operator has been   *)
(* told about a miner that is past its grouping window at the last age it       *)
(* reached, or up to Coalesce earlier when it joined a batch, or it waits for   *)
(* the notice of a restart, which replaces the reminder (lines 353-368 and      *)
(* 403-443).                                                                    *)
RemindedOnSchedule ==
    Settled /\ NotifyPersistent => \A m \in Miners :
        since[m] # NoTs /\ now - since[m] >= Coalesce /\ restartAt[m] = NoTs =>
            \A a \in ReminderAges(now - since[m]) : toldAt[m] >= since[m] + a - Coalesce

(* A restart inside an episode, unless STARTUP swallowed it, has been in a       *)
(* message at most Coalesce later (lines 298-299 and 419-423).                  *)
RestartVisible ==
    Settled => \A m \in Miners : restartAt[m] # NoTs => now - restartAt[m] < Coalesce

(* The operator is not left believing that a miner is affected which was told   *)
(* to be: once it has been OK for Coalesce, the last mention of it does not say  *)
(* so (328-335; the recovered section is rendered last, 522-526).  A miner that   *)
(* is only labelled in STARTUP by a bad reading, and whose state stays OK, is      *)
(* set apart: no episode opens for it and no message comes back to it.            *)
RecoveryHasLastWord ==
    Settled => \A m \in Miners :
        okSince[m] # NoTs /\ now - okSince[m] >= Coalesce => lastWord[m] # "affected"

(* An episode is reported recovered once: what a batch holds back in _recovered *)
(* has not been in a message, and what it reports does not come back (374-389). *)
RecoveriesReportedOnce ==
    [][now' # now => \A c \in message'.recovered : c.at > reported[c.miner]]_vars

(* A reminder is never repeated in the next tick (353-368, 403-443), so long as *)
(* the reminder ages lie further apart than two ticks and Coalesce, and no      *)
(* notices of restarts hold the repetitions back until several are overdue.     *)
NoPollingTickSpam ==
    [][now' # now => message.persistent \cap message'.persistent = {}]_vars
===============================================================================
