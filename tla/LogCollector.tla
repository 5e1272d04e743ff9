------------------------------- MODULE LogCollector -----------------------------
(***************************************************************************)
(* The collector of firmware logs, src/tools/vnish_log_collector.py: a task    *)
(* that reads the log of every miner and tab, keeps what                     *)
(* src/app/vnish_logs.py recognises in it and writes one row per line and one   *)
(* row per run into src/app/event_store.py, whose retention runs in another     *)
(* process, the monitor.                                                   *)
(*                                                                         *)
(* A stream is a tab of a miner; its recognised lines are numbered, and what    *)
(* the miner still has of them is an interval.  The task is never started      *)
(* while an instance of it runs (install_vnish_collector_task.ps1).            *)
(***************************************************************************)
EXTENDS Integers, FiniteSets

CONSTANTS
    Streams,
    MaxEvents,   \* max_events: what is kept of one stream
    Retention,   \* event_retention_days
    Offsets,     \* the offsets vnish_log_utc_offset_hours may be set to
    MaxLine, MaxDay, MaxRuns, MaxFaults   \* bounds

ASSUME LogCollectorAssumption ==
    /\ IsFiniteSet(Streams) /\ Streams # {}
    /\ MaxEvents \in Nat \ {0} /\ Retention \in Nat \ {0} /\ Offsets \subseteq Nat
    /\ MaxLine \in Nat /\ MaxDay \in Nat /\ MaxRuns \in Nat /\ MaxFaults \in Nat

\* source_ts_epoch IS NULL: the offset is no number.
NoEpoch == -1
Epochs == Offsets \cup {NoEpoch}

Line == [stream : Streams, number : 1..MaxLine]
Row == [line : Line, collected : 0..MaxDay, epoch : Epochs]

Zero == [inserted |-> 0, duplicate |-> 0, failed |-> 0]
NoTotals == [attempted |-> 0, succeeded |-> 0, failures |-> 0, parsed |-> 0,
             inserted |-> 0, duplicate |-> 0, failed |-> 0]
NoRun == [status |-> "none", completed |-> 0, totals |-> NoTotals, received |-> {}, cut |-> {}]
-------------------------------------------------------------------------------
VARIABLES
    day,
    log,     \* the lines a stream still has: [first, last]
    offset,  \* the configured offset
    rows,    \* firmware_events
    latest,  \* latest_collector_run
    run,     \* the run in progress: [at, offset, todo, collected, text, lines, part, totals]
    (* observation variables *)
    received, \* the lines the run has received and the retention has not removed since
    cut,      \* those of a text that was never parsed
    runs, faults

vars == <<day, log, offset, rows, latest, run, received, cut, runs, faults>>

Idle == [at |-> "idle", offset |-> NoEpoch, todo |-> {}, collected |-> 0, text |-> {},
         lines |-> {}, part |-> Zero, totals |-> NoTotals]

Init ==
    /\ day = 0 /\ log = [s \in Streams |-> [first |-> 1, last |-> 0]] /\ offset \in Epochs
    /\ rows = {} /\ latest = NoRun /\ run = Idle
    /\ received = {} /\ cut = {} /\ runs = 0 /\ faults = 0

Fault == faults < MaxFaults /\ faults' = faults + 1

\* The miner, the configuration and the clock.
Environment ==
    /\ \/ \E s \in Streams :
             \/ log[s].last < MaxLine /\ log' = [log EXCEPT ![s].last = @ + 1]
             \/ log[s].first <= log[s].last /\ log' = [log EXCEPT ![s].first = @ + 1]
          /\ UNCHANGED <<day, offset>>
       \/ run = Idle /\ offset' \in Epochs \ {offset} /\ UNCHANGED <<day, log>>
       \/ day < MaxDay /\ day' = day + 1 /\ UNCHANGED <<log, offset>>
    /\ UNCHANGED <<rows, latest, run, received, cut, runs, faults>>

Keep == UNCHANGED <<day, log, offset>>

StartRun ==
    /\ run.at = "idle" /\ runs < MaxRuns /\ runs' = runs + 1
    /\ run' = [Idle EXCEPT !.at = "collect", !.offset = offset, !.todo = Streams]
    /\ received' = {} /\ cut' = {}
    /\ Keep /\ UNCHANGED <<rows, latest, faults>>

\* What parse_vnish_log_text keeps of the text up to line k: the last max_events lines.
Parsed(s, k) ==
    {[stream |-> s, number |-> n] : n \in {n \in log[s].first..k : n > k - MaxEvents}}

\* collect_vnish_tab gives up on an error, and nothing that came before it is used; a peer that
\* is silent for idle_timeout, or that exceeds max_bytes, has given all that is used.  Ctrl+C is no
\* Exception: it leaves the loop, and the tab counts as attempted.
Collect(s) ==
    /\ run.at = "collect" /\ s \in run.todo
    /\ \/ /\ Fault
          /\ \/ run' = [run EXCEPT !.todo = @ \ {s},
                                   !.totals.attempted = @ + 1, !.totals.failures = @ + 1]
             \/ run' = [run EXCEPT !.todo = {}, !.totals.attempted = @ + 1]
          /\ UNCHANGED received
       \/ \E k \in log[s].first - 1..log[s].last :
             /\ run' = [run EXCEPT !.at = "parse", !.todo = @ \ {s}, !.collected = day,
                                   !.text = Parsed(s, k),
                                   !.totals.attempted = @ + 1, !.totals.succeeded = @ + 1]
             /\ received' = received \cup Parsed(s, k) /\ UNCHANGED faults
    /\ Keep /\ UNCHANGED <<rows, latest, cut, runs>>

\* parse_vnish_log_text returns, and what it found is counted.
Parse ==
    /\ run.at = "parse"
    /\ run' = [run EXCEPT !.at = "store", !.text = {}, !.lines = run.text,
                          !.totals.parsed = @ + Cardinality(run.text)]
    /\ Keep /\ UNCHANGED <<rows, latest, received, cut, runs, faults>>

New(l) == [line |-> l, collected |-> run.collected, epoch |-> run.offset]

\* Mutant: a line seen again is dated again.
LatestEpoch(old) == [old EXCEPT !.epoch = IF run.offset = NoEpoch THEN @ ELSE run.offset]
FirstEpoch(old) == [old EXCEPT !.epoch = IF @ = NoEpoch THEN run.offset ELSE @]

\* Mutant: a write that failed counts as a line known already.
AsDuplicate == "duplicate"

\* How _store_events counts an event the store could not write: result is None, not 0.
AsFailed == "failed"

\* record_firmware_event: INSERT OR IGNORE, and the epoch of a row that has none.
StoreEvent(l) ==
    /\ run.at = "store" /\ l \in run.lines
    /\ LET old == {r \in rows : r.line = l}
           Count(counter) == run' = [run EXCEPT !.lines = @ \ {l}, !.part[counter] = @ + 1]
       IN  \/ old = {} /\ rows' = rows \cup {New(l)} /\ Count("inserted") /\ UNCHANGED faults
           \/ /\ old # {} /\ rows' = (rows \ old) \cup {FirstEpoch(r) : r \in old}
              /\ Count("duplicate") /\ UNCHANGED faults
           \/ Fault /\ Count(AsFailed) /\ UNCHANGED rows
    /\ Keep /\ UNCHANGED <<latest, received, cut, runs>>

\* _store_events returns, and its counts are added to those of the run.
AddUp ==
    /\ run.at = "store" /\ run.lines = {}
    /\ run' = [run EXCEPT !.at = "collect", !.part = Zero,
                          !.totals.inserted = @ + run.part.inserted,
                          !.totals.duplicate = @ + run.part.duplicate,
                          !.totals.failed = @ + run.part.failed,
                          !.totals.failures = @ + run.part.failed]
    /\ Keep /\ UNCHANGED <<rows, latest, received, cut, runs, faults>>

\* An exception of the loop (Ctrl+C, an output that is closed, a date the system cannot place in
\* its time zone) goes through the finally, which records the run as if it had been complete.
Interrupt ==
    /\ run.at \in {"collect", "parse", "store"} /\ Fault
    /\ run' = [run EXCEPT !.todo = {}, !.text = {}, !.lines = {}, !.part = Zero, !.at = "collect"]
    /\ cut' = cut \cup run.text
    /\ Keep /\ UNCHANGED <<rows, latest, received, runs>>

Status(totals) ==
    IF totals.failures = 0 THEN "ok" ELSE IF totals.succeeded = 0 THEN "failed" ELSE "partial"

\* record_collector_run, and the end.
RecordRun ==
    /\ run.at = "collect" /\ run.todo = {} /\ run' = Idle
    /\ \/ /\ latest' = [status |-> Status(run.totals), completed |-> day, totals |-> run.totals,
                        received |-> received, cut |-> cut]
          /\ UNCHANGED faults
       \/ Fault /\ UNCHANGED latest
    /\ Keep /\ UNCHANGED <<rows, received, cut, runs>>

\* The scheduler stops a run after ten minutes, and no finally is reached.
Kill ==
    /\ run.at # "idle" /\ Fault /\ run' = Idle
    /\ Keep /\ UNCHANGED <<rows, latest, received, cut, runs>>

Expired(ts) == ts < day - Retention

\* The monitor prunes the store: rows by when they were collected, whatever the miner still has.
Prune ==
    /\ \E r \in rows : Expired(r.collected)
    /\ rows' = {r \in rows : ~Expired(r.collected)}
    /\ LET removed == {r.line : r \in rows \ rows'}
       IN  /\ received' = received \ removed
           /\ latest' = IF Expired(latest.completed) THEN NoRun ELSE [latest EXCEPT !.received = @ \ removed]
    /\ Keep /\ UNCHANGED <<run, cut, runs, faults>>
-------------------------------------------------------------------------------
Next ==
    \/ Environment \/ StartRun \/ Parse \/ AddUp \/ Interrupt \/ RecordRun \/ Kill \/ Prune
    \/ \E s \in Streams : Collect(s)
    \/ \E l \in run.lines : StoreEvent(l)

Spec == Init /\ [][Next]_vars
-------------------------------------------------------------------------------
(* A run that says ok and whose counts add up (parsed = inserted + duplicate) has left a row for
   every line it received, but for those the retention has taken since and those of the one text
   whose parsing an exception broke off: they are in no count.  The status alone says less: a run
   that was interrupted half way says ok too (vnish_log_collector.py:264-321). *)
AccountedMeansStored ==
    latest.status = "ok" /\ latest.totals.parsed = latest.totals.inserted + latest.totals.duplicate
        => /\ latest.received \subseteq {r.line : r \in rows} \cup latest.cut
           /\ \A l, m \in latest.cut : l.stream = m.stream

(* The moment a line is dated to never moves once it is known, whatever offset later runs are
   configured with, as long as the row lives (event_store.py:748-766). *)
EpochStable ==
    [][\A r \in rows, s \in rows' : r.line = s.line /\ r.epoch # NoEpoch => s.epoch = r.epoch]_vars
===============================================================================
