# Formal models of miner-alerts

TLA+ modules about the miner-alerts monitor: the process that polls a small
fleet of ASIC miners, decides when one of them is LOW, OFFLINE or degraded,
reboots it when the policy allows, and talks to an operator over Telegram,
together with the tasks that run beside it.  The modules are translated from the
Python source; the line numbers in their comments and in `PROJECT.json` refer to
it.

## 1. The system

`app/miner_monitor.py` is one process with three threads:

* the **main loop** (`main`, 3556-4697) visits the miners in configuration
  order, every `poll_seconds`;
* the **poller** (`telegram_polling_worker`, 1913-3548) long-polls Telegram,
  executes commands and confirmed reboots;
* the **sender** (`telegram_sender_worker`, 1130-1271) drains a queue of 200
  messages;

and, when the adaptive acquisition is on, the worker threads of its pool.

They share `states` (one `MinerState` per miner; the poller takes `state_lock`,
the main loop only for the save), `last_update_id_ref`, `snapshot_ref`,
`pending_reboots`, the message queue and the SQLite event store.  `state.json`
is replaced at the end of every tick and after every Telegram update.  The
watchdog, the backup tool, the Vnish collector, the metrics exporter and the
dashboard are separate processes that meet the monitor in files, SQLite or the
scheduler.

| Component | State it keeps | Operations | What is hard | What makes it correct |
|---|---|---|---|---|
| Miner state machine and auto-reboot policy (`miner_monitor.py`, `reboot_safety.py`) | `MinerState`, tick signals | observe, confirm, gate chain, reboot | another thread writes the same record; a crash between acting and saving | a reboot is earned, cooled, bounded per window of its mode, never a mass reboot |
| Restart classification (`restart_intelligence.py`) | none of its own: the marks of `MinerState` | classify | marks that are lost, stale or another thread's | a restart the monitor caused is attributed to it |
| `state.json` (`load_state`, `save_state`) | file | load, save | stale or lost file, save not ordered with actions | what the policy remembers survives a restart |
| Operator control (`telegram_polling_worker`) | `pending_reboots`, offset | request, confirm, bulk, poll | redelivery, expiry, stale targets, two writers of the offset | one confirmation gives at most one action on the miners shown; no command is passed over |
| Irregular episodes (`alert_episodes.py`) | one episode per miner | observe, pop_due, acknowledge | coalescing, reminders, flapping, restart of the process | every episode is announced once, reminded on schedule and closed |
| Telegram queue and sender | queue, last hash, last time per type | send_telegram, get, post | full queue, exceptions, parts, two threads that post | an answer to a command is always attempted; coalescing keeps the newest of a type |
| Adaptive acquisition (`acquisition.py`) | leases, futures, worker pool, envelopes | collect, execute, cancel, close | late answers, leases of dead jobs, hung peers | one request per miner at a time and per epoch; a result belongs to its epoch; a tick ends |
| Watchdog and liveness (`monitor_watchdog.py`, `liveness.py`) | heartbeat, maintenance lease, incident file | assess, alert, remind, recover | it is killed between sending and saving; maintenance | a dead monitor is reported in time, and the alarm is not forgotten |
| Event store (`event_store.py`) | SQLite tables | record, list, reconstruct, prune | refused writes, changes nobody recorded | an id names one event; the history of what the main loop recorded is that of its outage |
| Event store backup (`event_store_backup.py`) | lock file, generations | copy, check, promote, retain, restore drill | lock left behind, retention racing a backup | no generation is a candidate before it is verified; retention keeps what it protects |
| Vnish log collector (`vnish_log_collector.py`, `vnish_logs.py`) | rows, record of the run | collect, store, date, count | overlapping logs, interruption, changed offsets | counts that add up mean stored, but for a text never parsed; a date never moves |
| Mining quality (`mining_quality.py`) | none: judges stored samples | normalize, delta, judge | counters that start over or are missing | reported rejects happened; a restart passes for stable work only where the samples cannot show it |
| Stability, fusion; metrics, dashboard, reports; installers | files | read, score, write | partial files | readers see a complete file |

## 2. Modules

| Module | Contents |
|---|---|
| `MinerState` | pure operators: what one tick computes about one miner; no variables |
| `AutoReboot` | the monitor process with respect to automatic reboots: main loop, confirmed manual reboots of the poller, the cause given to a restart, `state.json`, crash and restart |
| `Episodes` | the coordinator of `alert_episodes.py` and the part of `main` that feeds it and sends its batches |
| `OperatorControl` | the poller: update ids, previews, confirmations and their CLI calls, beside the main loop's saves, crashes and redelivery |
| `Acquisition` | `BoundedAcquirer`: lease registry, futures, worker threads, deadline, cancellation, closing, and the tick that uses it |
| `EpochPolling` | what the acquisition promises, abstractly: the specification that `Acquisition` is shown to implement |
| `TelegramQueue` | `send_telegram`, the bounded queue, the sender thread, the direct fallback |
| `Watchdog` | heartbeat, assessment, incident state machine, maintenance and the runs of the watchdog task |
| `Backup` | backup runs under the lock file, retention without it, the restore drill |
| `EventLog` | the operational events: records, ids, retention, `/events` and `/event` |
| `LogCollector` | a run of the firmware log collector beside the retention of the monitor |
| `MiningQuality` | samples, intervals and the judgement, beside a miner that works and restarts |
| `MC*` | for each of these the values of the constants, symmetry and, where the clock has a horizon, the bounded specification for TLC |
| `AutoRebootProofs` | proved facts about the operators of `MinerState` and theorems about `AutoReboot` |
| `EpisodesProofs`, `OperatorProofs`, `TelegramProofs`, `WatchdogProofs` | theorems about `Episodes`, `OperatorControl`, `TelegramQueue`, `Watchdog` |
| `EventStoreProofs` | theorems about `Backup` and `EventLog`; it extends both, which is why `EventLog` names its specification apart (`EventsSpec`) |
| `TelemetryProofs` | theorems about `LogCollector` and `MiningQuality` (`QualitySpec`), likewise |
| `AcquisitionProofs` | theorems about `Acquisition`, among them that it implements `EpochPolling` |

### How state and actions correspond to the code

**`MinerState` / `AutoReboot`.**  `ms[m]` is the `MinerState` of a miner with the
fields the policy reads, `known` the domain of `states`; `signals`,
`prevSignals` and `prevTs` are `current_tick_signals`, `previous_tick_signals`
and its time stamp; `listed` is the set of miners in the snapshot `/status`
shows; `disk` is `state.json`.  A visit of the main loop is cut exactly where
another thread can come in between: `Observe` applies a reading (3881-4119), one
action per outcome of the gate chain reads the record again (4162-4341), and the
CLI call is a phase of its own, from `SendReboot` to `RebootSucceeds` or
`RebootFails` (4342-4403).  The poller appears as `ManualStart`,
`ManualSucceeds`, `ManualFails` and `PollerSave`.  `RestartCause` is
`classify_restart`, with its tolerance (`Skew`) of marks that are ahead of the
tick.  There are two times: `clock` is `time.time()`, which moves on while the
loop rests or waits for a miner or the CLI (`Elapse`), and `now` is the `now_ts`
of the running tick.  The main loop marks and compares by `now`, the poller marks
by `clock`.  Each start of the process picks a mode, `off`, or QA without
(`watch`) or with (`act`) real actions, and with it the LOW time, the cooldown, the
window and the age of the snapshot (3686-3692): the constants that the mode
replaces are functions of it.  The gates of a visit and the start of the call are one
step.  A reading is abstracted to
what the code compares: no answer, no rate, low, ok, NaN; boards unknown, full
or short; hot; chains in transition; restarted.  `float` time is a natural
number; thresholds on time keep their order but not their size.

**`Episodes`.**  The coordinator belongs to the main thread and a tick uses one
`now_ts`, so a tick is one step: `observe` for every miner, `pop_due`, and the
message that is sent, if any.  `active[m]` is an `IrregularEpisode`, `recovered`
the list `_recovered`.  `since`, `okSince`, `restartAt`, `toldAt`, `lastWord` and
`reported` are observation variables: what was true of the miner and what the
chat has said of it.  What the chat has said survives a crash, the coordinator
does not.  STARTUP lists the miners by their signal of the first tick, so
`LastWord` says `ok` of a healthy signal and `affected` of a miner whose state is
irregular as well; what it says of a bad reading of a miner whose state is OK is
`unconfirmed`.

**`OperatorControl`.**  `ref` is `last_update_id_ref`, `file` is `state.json`,
`batch` the rest of the `getUpdates` response, `job` the command in hand;
`mainId` is the update id the main loop has read (4598) and not yet saved (4600).
`forgotten` is what `getUpdates` with an offset makes Telegram drop.  `offers`,
`done`, `dropped` and `settled` are observation variables.  A code is the number
of its offer (two random codes are never equal; a wrong code is an old one or
one of another miner); a restart is a reboot; the QA refusals and the resolution
of names are left out, and a command that only reads is one that leaves no
trace.  `/c<code>` and `/confirm reboot_no_ok <code>` are one command: they
differ in their answers and in when an expired entry is dropped, and an expired
entry is refused either way.

**`Acquisition` / `EpochPolling`.**  A job is a future with the lease it was
submitted with; `lease` is `_leases` of the registry, `jobs` the queue and the
futures, `worker` the threads of the pool, `undone` the futures still to be
cancelled, `envelopes` what the epoch has collected.  The main thread is cut at
`try_acquire`, `submit`, the waiting, each `cancel` and the read of each
envelope; a worker at the start of the job, each of its two requests, the release
of the lease and the end of the future, which the executor does one after the
other.  `EpochPolling` knows only who was asked, who is still in a conversation
and what each miner has got; the refinement mapping is at the end of
`Acquisition`.

**`TelegramQueue`.**  `queue`, `lastEnqueued`, `lastHash` and `lastSent` are the
globals of the same names; `sender` and `direct` are the part each of the two
threads is posting.  `Offer` is the whole of `send_telegram` (982-1066), which
splits the text, puts the parts in the queue or falls back; `Get` is the decision
of the sender about one part, `PostQueued` the end of the post.  `lastEnqueued` is
kept by type, for notifications and answers alike, as `_LAST_ENQUEUED` is.

**`Watchdog`.**  One unit is the period of a tick.  A run is `Start`, `Check`,
`Sent` or `SendFails`, `Write`, and may be `Killed` anywhere.  `Check` is
`assess_liveness` and `decide_notification` together: both are pure.  `told`,
`ticked`, `quiet`, `disturbed` and `diverged` are observations: what the operator
believes, and what excuses a delay.

**`Backup`.**  A step is a call of the operating system or of SQLite.  `writer[w]`
is a backup run with its directory under `temporary/`; `verified` the directories
under `verified/`; `doomed` the list a retention works off; `drill` and `target`
the restore drill.  A file is a token of what hash, integrity check and counts
tell apart.

**`EventLog`, `LogCollector`, `MiningQuality`.**  `rows`, in the last `samples`, is
the table each is about.  An operation of the store is one transaction and one step.

A row of `EventLog` has the time its caller gives it: the main loop that of the start
of its tick (`StartTick`, `tick`), with which it dates changes, restarts and
automatic actions; the poller that of the confirmation, although it records the
`Outcome` after the CLI calls, up to `CallTime` later.  So rows are not written in the
order of their times.

A run of the collector is cut where a stream is read (`Collect`), where its text is
parsed and counted (`Parse`), at every line it stores (`StoreEvent`) and where the counts
are added (`AddUp`).  Between any two of them it may be interrupted (`finally` still
records the run) or killed (it does not).  `received` is what the run was given, `cut`
the lines of a text it was interrupted in parsing.

A sample keeps the state of the chains, the age of the miner and two counters; `Gaps`
are the sets of values an answer may come without, each on its own: uptime and
counters are read from different fields.

The specifications share facts and not variables; each leaves open what its
neighbour decides.  `AutoReboot` lets the operator confirm any reboot at any time,
which covers whatever `OperatorControl` lets through; `Episodes` takes any
sequence of states and restarts of the miners, which covers whatever `AutoReboot`
confirms; `TelegramQueue` takes any sequence of messages, which covers what
`Episodes` and `OperatorControl` send; `AutoReboot` takes any reading, which
covers what `Acquisition` hands over; `EventLog` records any change of state, and
`Watchdog` looks at a monitor that hangs or dies at any time.

## 3. What the runs check

| Run | Bounds | What it shows |
|---|---|---|
| `policy` | 1 miner, 6 time units, every reading that changes the path through the gates, rests and calls of one unit, manual reboots; each start in the normal or in either QA mode, which have a window and a cooldown of 2 for 4 and 3; `Skew` 0 | `TypeOK`, `AutoRebootEarned`, `WindowBound`, `CooldownSurvivesRestart`, `RestartIsExplained` under crashes, failed saves, saves of the poller and a `state.json` that goes stale |
| `fleet` | 2 miners, `FleetMinAffected` 2, 6 units, modes `off` and `watch` | `NoMassReboot`: a tick never reboots as many miners as the interlock calls an incident |
| `episodes` | 2 miners, one of which may restart, ticks one or two units apart, one staged reminder, steady repetition of 5, 8 units | `TypeOK`, `AnnouncedInTime`, `RemindedOnSchedule`, `RecoveryHasLastWord`, `RestartVisible`, `RecoveriesReportedOnce`, `NoPollingTickSpam` |
| `operator` | 2 miners, 3 updates, 1 crash, fairness | `TypeOK`, `ActsOnValidOffer`, `NothingPassedOver`, `ConfirmationUsedUp`, `EveryCommandTaken` |
| `acquisition` | 2 miners, one of which may hold its connection for ever, 2 workers, 2 ticks, fairness | `OneRequestPerMiner`, `LeaseHasOwner`, `RequestBudget`; `KeepsPollingPromises`: `Acquisition` implements `EpochPolling`; `EpochEnds` |
| `telegram` | a queue of 2, 3 messages of 2 types and of one or two parts, posts that succeed or raise, 1 restart, 3 units, fairness | `CommandsAttempted`, `PostedInOrder`, `NewestSurvives`, `QueueDrains` |
| `watchdog` | a run every unit, staleness 1, reminders after 1 and then every 2, maintenance of 1, 2 faults (a thread that hangs, a process that dies, a message that fails, a run that is killed), 8 units | `AlarmInTime`, `AlarmIsRemembered`, `RemindedInTime` |
| `backup` | 2 writers, 3 generations, 3 days, 2 faults; kept are the last day and the last two pairs of days | `OneWriter`, `RestoreCandidatesAreWhole`, `RetentionKeeps`, `DrillFindsDamage` |
| `events` | 2 miners, 3 rows ever written, 4 units, calls of up to 1, 1 refused write or restart, window 2, limit 3 | `IdsNameOneEvent`, `EpisodeIsOneOutage` |
| `collector` | 2 streams of one line, 3 days, 2 runs, 2 faults, offsets 0, 1 or none | `AccountedMeansStored`, `EpochStable` |
| `quality` | 4 units, 3 shares, 1 restart of the miner, 2 intervals wanted of 4 samples; a sample tells all, all but the rejected shares, all but the uptime, or nothing | `RejectsAreReal`, `RestartCannotHide` |
| `claim_cooldown` | 1 miner, 4 updates | a sentence of the documentation the code does not keep (section 5) |

Each property says what it means, and what it leaves out, in the comment above it.

Why the bounds are enough.  In `policy` the clock goes past either reboot window
after the first reboot, so the run sees the window fill, block and open again, a
QA start forget a reboot the normal window still counts,
a cooldown crossed by a restart, a confirmation ahead of the tick that compares it, and
a state file exactly at and beyond the
staleness limit; the cooldown is longer than the guards, so that every gate
decides somewhere.  Two miners are what the fleet interlock needs to tell one
miner's trouble from an incident; the interlock's threshold is that of the code's
minimum, 2.  Nothing in `Episodes` relates two miners except the grouping of due
announcements and recoveries, so two are enough, and one restart beside a miner that
has none is where the grouping shows.  `events` and `collector` use the symmetry of
their miners and streams; no property of theirs is a liveness property.  Eight
time units reach the reminder, a repetition, a recovery and a second episode.
Three updates are a preview, its confirmation and a repeated confirmation, which
with one crash may each be delivered twice; a confirmation that expires within
the second is what `Expiry` 0 says.  In `acquisition` a job of the first tick can
be queued, running, cancelled or late in the second, beside a hung one that
takes one of the two workers away for good.  Three messages into a queue of two
are one more than it holds, and with two parts half a message more; the window of
coalescing, the age of a repetition and the restart each fall between any two of
them.  Three generations are one more than either bucket policy keeps of three days;
a second writer shows what the lock is for, and two faults are a run that dies and
one that meets what it left.  In `events` three rows are an outage with something in
it or two changes of one and the beginning of another; the retention is as long as
the window, so it cuts into what a history would show.
The proofs remove the bounds for what they cover.

Fairness.  Three runs assume it, the others are safety only.

* `operator`: weak fairness of `Boot` (the service is restarted by its scheduled
  task), of `Poll` and `Take` (the poller thread runs, and a long poll returns
  within `poll_timeout_seconds + 5`, or raises and is repeated after a back-off of
  at most 5 s) and of `Handler` (a CLI call is killed after 30 s).  Nothing is asked
  of the main loop, of the clock or of the operator, and crashes are finitely many.
* `acquisition`: the main thread and the workers run, the deadline passes, and a
  connection to a miner that is not `Hung` ends, because every receive has a
  timeout.  A hung peer sends a byte before each timeout and is asked nothing.
* `telegram`: the sender thread takes from a queue that is not empty, and every
  post ends, because `requests` is called with timeouts.  How it ends is open.

`CHECK_DEADLOCK` is off in `backup`, `events`, `collector` and `quality`: their
actions are operations that somebody may start as long as ids, rows, days or faults
are left, and at the bound nothing has to happen.  Elsewhere it is on: the MC
modules add one stutter, enabled only when the clock (or the inbox, or the ticks)
has reached its bound.

## 4. What is proved

For every fleet, every configuration of the constants and every execution, from
the named assumptions of the modules.  `MinerStateAssumption`,
`AutoRebootAssumption`, `OperatorAssumption`, `AcquisitionAssumption`,
`TelegramAssumption`, `BackupAssumption`, `LogCollectorAssumption`,
`EventLogAssumption` and `MiningQualityAssumption` give the constants their types;
`EpisodesAssumption` and `WatchdogAssumption` add that a schedule ascends, as its
loader sorts it; `RetentionAssumption` says that the cooldown of every mode and the attribution
window are not longer than the 48 hours `load_state` accepts.  Some theorems have a further condition, which is part of their statement:
`FleetGuardApplies` for `NoMassReboot`, `OneWindow` for `OneModeKeepsWindow`, `SpacedAges` without restarts for
`NoPollingTickSpam`, and STARTUP or a grouping window for others of `Episodes`.  Each is
necessary (section 6).

State machine and policy (`AutoRebootProofs`):

* `RebootIsEarned` (`AutoRebootEarned`): the property is not inductive, because
  it speaks about the moment of the call only.  `EarnedInv` adds that a running
  LOW timer never started before the run of eligible readings it measures
  (`lowRun[m] <= low_since_ts`), which every action keeps: the timer starts in a
  visit with an eligible reading, the interlock only moves it forward, the
  poller and a crash only clear it.
* `CooldownHolds` (`CooldownSurvivesRestart`) and `RestartExplained`
  (`RestartIsExplained`): `CooldownInv` says that whoever holds a record, the
  process or `state.json`, *accounts* for every reboot a save ever put on disk, or
  that reboot is older than the limit of staleness, and so than the cooldown and
  the attribution window (`RetentionAssumption`).  It also needs that a mark of the main
  loop is never later than its tick nor one of the poller later than the clock, and that
  the one poller's action time is never before the mark it overwrites.
  `RestartIsExplained` sets one case apart: an operator's reboot that was confirmed further
  than the tolerance after the start of the tick is skipped by `classify_restart`, and has
  replaced the mark of an earlier one.
* `WindowIsBounded` (`WindowBound`): the bound counts from `horizon`, the time
  since which no tick has pruned a mark and no file was discarded as stale: older reboots
  may be forgotten.  `WindowInv` says
  that every record, in memory and on disk, is *bounded* on its own, that the reboots of
  the last save since the horizon are in it, and that a CLI call is
  only under way for a miner whose window is not full.
* `OneModeKeepsWindow`: for a monitor whose modes all use one window (`OneWindow`), not
  longer than the limit of staleness, the horizon is never inside the window of the running
  tick (`HorizonInv`), so at most `MaxReboots` reboots fall into it.  With a QA mode in
  between this does not hold: it prunes and saves by its own, shorter window (section 6).
* `IncidentsAreLeftAlone` (`NoMassReboot`), when the fleet guard is on and no tick
  starts later than the age the interlock accepts for its snapshot: `MassInv` says that
  a running LOW timer vouches for a low reading of the tick before
  (`TimersVouch`), so every candidate of a tick finds the miners rebooted before it
  among those the interlock counts.
* `DefaultNeverReboots`: with `fails_before_alert` of 2 or more no execution ever
  sends an automatic reboot.  This is what the streak resets at 3976 and 3984
  mean (section 6); the invariant is that no LOW state, in memory or on disk,
  can come to be.

Episodes (`EpisodesProofs`):

* `ReportedOnce` (`RecoveriesReportedOnce`), `AlwaysAnnounced`
  (`AnnouncedInTime`, if STARTUP is on or the window is not empty),
  `RestartReported` (`RestartVisible`, with a window) and `LastWordIsRecovery`
  (`RecoveryHasLastWord`, with STARTUP).  The common invariant `EpisodeInv` ties an
  episode to the observed run (`Tracked`: it is due exactly one window after the
  run began, an unsent one is not yet due, no restart notice is overdue).
  `ToldInv`, `RestartInv` and `WordInv` add what a sent episode, a pending restart
  and a pending recovery account for.
* `RemindersAreOnSchedule` (`RemindedOnSchedule`, under the condition of
  `AlwaysAnnounced`): `ReminderInv` ties the two indices of an episode to ages.  The
  operator has been told since the last age they count (`LastAge`), and the next
  one (`NextAge`) is not yet reached or is recalled in this tick.  `pop_due`
  advances the indices by as many reminders as were missed, which
  `MissedIsReached` and `ReminderRecalls` connect to the ages.
* `RemindersAreSpaced` (`NoPollingTickSpam`), when any two reminder ages lie further
  apart than two ticks and the grouping window (`SpacedAges`) and no miner restarts; with
  restarts the same for each miner that does not (`SteadyRemindersAreSpaced`).
  `AheadInv` says that the next age of an announced episode is still to come, and that
  after a reminder it is too far ahead to be due, or to join others, in the next tick.

Operator (`OperatorProofs`):

* `OnlyValidOffersAct` (`ActsOnValidOffer`): `OfferInv` adds that every pending
  entry is *backed*: it is the offer recorded under its code, made by this process,
  `Expiry` before it expires.  Only `Confirm` and `ConfirmBulk` start a call, from
  such an entry.
* `ConfirmationsAreUsedUp` (`ConfirmationUsedUp`): `UsedInv` says that what is
  pending, or in the hands of a handler, has not been carried out, and that a bulk
  entry and a single one never share a code.  A bulk entry is removed before its
  calls, a single one after its call: the two halves of `InHandUnused`.
* `NoneIsPassedOver` (`NothingPassedOver`): `OrderInv` says that each copy of an
  update id (the poller's, the main loop's, that of `state.json` and Telegram's)
  has only covered updates behind it, and that what is left of a response is the
  interval that begins right after the poller's position, so that the next update
  taken is the next one there is (`TakesNext`).  An older id saved by the main loop
  is still covered, which is why it can only repeat updates.

Telegram (`TelegramProofs`; the invariant is `QueueInv`):

* `PostsAreInOrder` (`PostedInOrder`): `OrderInv` puts what was posted, what the sender
  is posting and what waits in one order, in which only an answer to a command may
  overtake, and never a part of itself; while the fallback posts an answer, no part of
  it is in the queue or with the sender.
* `AnswersAreAttempted` (`CommandsAttempted`): `AnswerInv` says where each part of an
  answer is (waiting, with the sender, with the fallback or posted), or that a post
  of it failed.  A full queue turns the remaining parts over to the fallback.
* `NewestIsKept` (`NewestSurvives`): `NewestInv` says that a waiting part is skipped as
  old only when a newer message of its type was accepted after it and within the window of
  the type (`Displaced`), and that the
  remembered hash is that of a text this process has posted.  What displaces a
  notification may be an answer to a command (section 6).

Watchdog (`WatchdogProofs`; the invariant is `WatchdogInv`):

* `AlarmsAreRemembered` (`AlarmIsRemembered`): `MemoryInv` says that the *record*, the
  state file or what the run is about to write to it, agrees with what was told,
  unless the last message is unknown to it.
* `AlarmsAreInTime` (`AlarmInTime`) and `RemindersAreInTime` (`RemindedInTime`) bound
  the time of the last run (`dueAt - Period`) by the deadline (`AlarmInv`,
  `ReminderInv`); `LastGapIsLongest` needs the schedule to ascend.

Acquisition (`AcquisitionProofs`):

* `InFlightExclusion` (`OneRequestPerMiner`) and `NoLeaseLost` (`LeaseHasOwner`):
  `OwnerInv` says that a job that is queued or in a worker's hands holds the lease
  of its miner, that a worker's job is no one else's, and that a lease is the lease
  of such a job.  The exclusion follows because a miner has one lease.
* `BudgetKept` (`RequestBudget`): `BudgetInv` adds that a miner has at most one job
  in an epoch, that jobs of an epoch are submitted after its beginning, and that a
  worker that has not asked yet has not spent the request of its job, because a job
  that starts after its epoch asks nothing.
* `PollingRefined` (`KeepsPollingPromises`): every step of `Acquisition` is a step of
  `EpochPolling` or a stutter of it under the mapping.  `ResultInv` says what the
  collected envelopes and those of finished jobs stand for: an answer was asked for
  in its epoch, an epoch that is collected has an envelope or a job for each miner
  submitted, and once the acquirer is closed no conversation is left.

Backup (`EventStoreProofs`):

* `OnlyOneWriter` (`OneWriter`) and `CandidatesAreWhole`
  (`RestoreCandidatesAreWhole`): `RunInv` says that a run past the creation of the
  lock is the one that created the file that is there, `MadeSoFar` how much of its
  directory a run has made at each point, `Whole` that a promoted directory is a
  checked copy with its hash until a retention takes a file from it or the disk
  damages it.
* `DrillsFindDamage` (`DrillFindsDamage`): `NumbersInv` says that no number is given
  twice, so that the generation a drill began with is never written again
  (`Drilling`); `LearntSoFar` says what the drill knows at each of its steps.
* `ProtectedGenerationsStay` (`RetentionKeeps`): `Filled` goes through the generations
  from the newest on, a loop of `MaxId` turns.  `FilledByTurns` says what each turn
  adds, `OneForABucket` that a bucket is filled once, `KeptForGood` that what is kept
  stays kept, and `ProtectedIsFilled` that the loop, at the turn of a protected
  generation, finds its bucket free and a place for it.  That needs `OrderInv`:
  generations are promoted in the order of their numbers and of their dates, which is
  what the lock is for.  `RetentionInv` says that a list of what to delete names only
  generations that are *given up for good*: a later one of the same bucket, or enough
  later buckets, are verified, and no later promotion undoes that.  So the list may be
  worked off, or taken up by nobody, however old it is.

Events (`EventStoreProofs`; the invariant is `EventInv`):

* `IdsNeverNameAnother` (`IdsNameOneEvent`): `IdInv` says that the sequence counts the
  rows ever written, so that the id of a row is the number of its event.
* `HistoriesAreOfOneOutage` (`EpisodeIsOneOutage`): `LifeInv` ties the rows of a miner to
  the outage it is in and its times to the running tick, `FollowInv` says that its outages follow one another in time,
  each between the row that opens it and the one that closes it, and `RemainsInv` that
  retention, which takes the oldest first, leaves for each row the end of its outage and
  the beginnings of all later ones.  With them no row of another outage is between the
  two bounds (`OnlyThisOutage`), and every row of this one is (`AllOfThisOutage`).
  `RemainsInv` is the part that one unrecorded change destroys.  Rows of the poller have
  no outage here: their times come from another clock, and where they fall is left open.  `OldestOnes`, that a
  limit cuts a set of rows off at exactly that many, is the pigeonhole principle: the
  ranks of the rows are all different.

Collector (`TelemetryProofs`; the invariant is `CollectorInv`):

* `AccountsAreTrue` (`AccountedMeansStored`): `AccountInv` says that what a run has
  counted, with the lines still in hand, never exceeds what it parsed, and that while
  the two are equal every line received is stored, in hand, not yet parsed or of a text
  whose parsing was broken off.  A line that is lost to
  an error leaves the counts behind for good.  `CutInv` says that there is one such text
  at most, because the run collects nothing after it.
* `EpochsAreStable` (`EpochStable`): a line has one row (`OneRowEach`).

Quality (`TelemetryProofs`; the invariant is `QualityInv`):

* `ReportedRejectsAreReal` (`RejectsAreReal`) and `StableHidesNoRestart`
  (`RestartCannotHide`): a sample of the present run of the miner agrees with its
  counters on when the miner started and what it had rejected by then; one of an
  earlier run is older than that start (`Past`).  What two samples then say of each
  other (`Follows`) is kept whatever lies between them, because it does not depend on
  the present.  Where one of them lacks the uptime, nothing is left of that but the order of
  the two: a restart hides if the counters have caught up.  `DeltaSays` is the judgement on an interval, `JudgedIntervals` that the
  intervals a miner is called stable by all come before the first broken one.

The type invariants are theorems of their own (`TypeCorrect`, `EpisodesTypeCorrect`,
`OperatorTypeCorrect`, `TelegramTypeCorrect`, `WatchdogTypeCorrect`,
`AcquisitionTypeCorrect`, `BackupTypeCorrect`, `CollectorTypeCorrect`).
`OperatorTypeCorrect` needs `HoldsInv` beside it: the command in hand is one that has
arrived, so its miner is a miner.

The proofs found two properties that do not hold in every configuration, although they
did in the instances of the runs.  `AlarmInTime` did not allow for a recovery that
arrives and is not written, and `RemindedOnSchedule` not for a reminder age inside the
grouping window.  Both now say what the code keeps (section 6); the actions are as they
were.

Only model-checked are `EveryCommandTaken`, `EpochEnds` and `QueueDrains`: liveness under
fairness, which needs ENABLED and is beyond the prover.  Every safety property the runs
check has its theorem.

Two loops of the code are recursive functions, or choices of a least element, whose
value is proved by induction over numbers.  The prover cannot instantiate the induction
theorems of its library, which take a predicate; `CountUp` and `LeastNat` state the
induction for sets of numbers instead, from the well-foundedness of the order.

The inductive invariants were checked by TLC on the instances of the runs before
they were proved, so far as those can evaluate them.

## 5. Where code and documentation disagree

One disagreement has a run that TLC refutes.

* `claim_cooldown`: only the request of a manual reboot looks at the ten-minute
  cooldown (miner_monitor.py:3266), not its confirmation (3446-3486), so that a bulk
  reboot between the two is followed at once by the single one; README.md:250 of
  the program says "cooldown 10 min".

## 6. Observations without a run of their own

Seen while modelling; they delimit the properties above.

State machine and policy:

* `fails_before_alert` is documented as consecutive readings (README.md:42), but
  every tick that does not confirm LOW resets the streak, so a threshold above one
  is never reached from OK.  `DefaultNeverReboots` proves the consequence.
* A manual reboot that clears `low_since_ts` between 4162 and 4196 makes
  `now_ts - None`, which ends the process (`TimerGoneFatal`; README.md:79).
* A firmware transition before the LOW is sustained does not restart the timer
  (specs/015, spec.md:46).  The timer runs on the wall clock (4197).
* A miner blocked by cooldown, window or QA (`continue` at 4297, 4323, 4341) has no
  line in `/status`, "Snapshot actual de todos los mineros" (293).
* The interlock ignores a snapshot older than two polls (3692; specs/010, spec.md:27)
  and then counts the candidate alone, so that after a long tick miners that went low
  together are rebooted together.  `NoMassReboot` is proved for ticks that are closer.
* A crash between the CLI call and the save of the tick forgets the reboot, so
  the cooldown starts from what was saved, and the restart it causes is unexpected.
  A call that times out is counted as failed and leaves no mark, although the miner may
  reboot (1763): the next tick calls again.
* A QA mode replaces the window (default 600 s), prunes with it (4092-4094) and saves the
  list: after normal, QA and normal again, reboots inside the normal window are forgotten.
* The poller marks an action by the time of its confirmation (3447), the tick compares by
  its start (3859): in a tick that takes more than ten seconds a restart by an action
  confirmed that late is "unexpected" (restart_intelligence.py:32-33).
* The cooldown is checked (4265-4281) without a lock before the call (4342); the mark of a
  manual reboot that falls in between is missed, as one whose CLI call still runs is.
* The main loop may reboot a miner whose confirmed manual reboot is still running.
* NaN compares false with the threshold: it is not LOW, and counts as a good
  reading for the recovery (3957).
* The metrics writer of `main` reads a name that does not exist (4643); the
  `NameError` is swallowed, so the snapshot is never written.

Episodes and operator:

* After a pause longer than the repetition interval the steady reminders come one
  per tick until `repeat_index` has caught up (alert_episodes.py:443; specs/020,
  SC-001).  A miner that restarts again and again makes such a pause by itself: each
  restart puts its notice off by the grouping window (298-299), and while one is pending
  there are no reminders (357-358).
* The grouping window may be 300 s and a staged reminder 60 s
  (miner_monitor.py:3607-3622): a reminder age then lies before the announcement, and
  is counted without a message of its own.  `RemindedOnSchedule` speaks of miners
  irregular for at least the window.
* STARTUP labels a miner by its signal: one missed or low reading in the first tick is
  told as OFFLINE or LOW although the state is OK and stays so; no episode opens, and no
  message takes the label back (miner_monitor.py:4509-4521; alert_episodes.py:528-553).
* A restart seen in the first tick is swallowed by the acknowledgement of STARTUP
  (338-340); with `notify_startup` off, a miner that recovered while the process
  was down is never reported, and with a window of 0 as well the first batch is
  popped and not sent (main, 4535-4553).
* A save that raises after a successful single reboot leaves the confirmation
  pending: it may be repeated within its minute.
* The handler of `/reboot-confirm` reads an entry nobody writes (3016).

Telegram:

* There is no retry: a post that raises loses its message, one that is refused is
  remembered as sent, the parts after a failed one are posted all the same, and the
  queue is lost when the process stops.
* A notification refused by a full queue is lost while the coordinator counts it as
  sent; a `STATE_CHANGE` with the text of the last one, as that of a miner that is
  degraded for the second time, is not sent, however long ago the last one was.
* `_LAST_ENQUEUED` does not tell notifications from answers (1040): the answer to
  `/status` displaces a STATUS notification that waits (4580), which is then skipped
  (1171-1178).

Acquisition and watchdog:

* `close()` waits for ever for a peer that keeps sending bytes; a late envelope with
  an answer is applied like any other (docs, integration-map.md:143); `PollHealth`
  counts a failing fleet as LATE; the epoch ids repeat when the heartbeat is off.
* A hung monitor is reported when the threshold and then the period of the task have
  passed, 120 s and 60 s in the example configuration and its installer;
  "within 120 seconds" (specs/021, SC-001) is stricter than that.
* A watchdog killed between sending and writing sends the alert again.  If it was the
  recovery that it sent, the incident stays open: an outage for the same reasons that
  begins before the next run passes for the old one, and is only reported as its
  reminder, so as much as the last interval of the schedule later.  `AlarmInTime`
  grants it that interval.

Event store, backup, collector:

* The first tick after a start records no change of state; `list_episode_events`
  mixes other miners in and its limit keeps the oldest rows, so a noisy fleet hides
  the end of an outage.  `EpisodeIsOneOutage` speaks of the rows of the miner.
* The outcome of a manual reboot is dated by its confirmation (3447) and written after
  the call (3489), beside rows of the main loop dated by the start of the tick (4022,
  4350, 4407): it may lie behind the end of the outage that it was meant for, and so be
  missing from its history, or within the next one.
* `/diagnose` saves its assessment under a constant digest; the digest of the
  evidence depends on the order of rows that the documentation excludes; the
  rendered assessment may exceed `max_chars`.
* A backup that dies leaves the lock file, and every later run answers
  `skipped_locked`, as any `OSError` of its creation does
  (contracts/backup-restore.md:8); its directory under `temporary/` is never
  removed.  Retention takes no lock (specs/028, FR-006): `RetentionKeeps` shows that
  the protected generations stay all the same.
* A collector run that was interrupted is recorded as ok.  If it was interrupted in the
  parsing of a text (264-275; Ctrl+C, or an `OSError` of `astimezone`, vnish_logs.py:131),
  the counts add up as well and the lines of the text are in none of them.  A line the
  retention has removed is inserted again while the miner still has it.
* A sample without uptime is compared by the times of the samples
  (mining_quality.py:271-272): a miner that restarted and whose counters have caught up is
  "stable".  specs/013, FR-005, asks for samples of the same uptime epoch.

## 7. Not modelled, and what is left

Not modelled: the wording of messages; the parsers of the miners' replies and logs;
stability and evidence fusion (pure scoring of stored samples without state of its
own; the monitor calls the fusion with empty facts); the metrics snapshot, the
exporter and the dashboard (readers and writers of one replaced file); reports and
command-line tools; PowerShell installers; SQLite itself, which is taken to be
transactional.

Partly modelled: of the acquisition, `PollHealth`, `EpochScheduler` and
`collect_diagnostic` decide nothing in the monitor and are left out; of the
watchdog, the collector as one more worker and `observe_liveness.py`; of the event
store, assessments, the diagnostics export and the migrations; of the quality, scores
and reason codes; of the operator control, QA mode, names and reading commands; of
`state.json`, a corrupt file, which is logged and taken for none.  `PROJECT.json` lists every component with its status
and, under `hazards`, what is hard to test in it, with a note for those no property
covers.

What would come next is the composition of `Episodes` with `TelegramQueue`: what a lost
post means for `AnnouncedInTime`.
