---------------------------- MODULE TelemetryProofs ----------------------------
(* Theorems about what the monitor is told of a miner, for any streams, limits,   *)
(* constants and faults.  LogCollector: what the counts of a run say of the rows  *)
(* it leaves, and the epoch of a row.  MiningQuality, whose samples are the other *)
(* table the telemetry fills: what a judgement says of the miner it judges.       *)
EXTENDS LogCollector, MiningQuality, FiniteSetTheorems, SequenceTheorems, WellFoundedInduction, TLAPS

Counts == [inserted : Nat, duplicate : Nat, failed : Nat]
Totals == [attempted : Nat, succeeded : Nat, failures : Nat, parsed : Nat,
           inserted : Nat, duplicate : Nat, failed : Nat]
Run == [at : {"idle", "collect", "parse", "store"}, offset : Epochs, todo : SUBSET Streams,
        collected : 0..MaxDay, text : SUBSET Line, lines : SUBSET Line, part : Counts, totals : Totals]
Record == [status : {"none", "ok", "failed", "partial"}, completed : 0..MaxDay, totals : Totals,
           received : SUBSET Line, cut : SUBSET Line]

TypeOK ==
    /\ day \in 0..MaxDay /\ offset \in Epochs
    /\ log \in [Streams -> [first : Nat \ {0}, last : 0..MaxLine]]
    /\ rows \subseteq Row /\ latest \in Record /\ run \in Run
    /\ received \subseteq Line /\ cut \subseteq Line

Stored == {r.line : r \in rows}

(* A line has one row at most: its identity is a UNIQUE key of the table.       *)
OneRowEach == \A r, s \in rows : r.line = s.line => r = s

(* No line is in hand but in the text, while it is parsed, and while _store_events *)
(* has it.                                                                     *)
InHand ==
    /\ IsFiniteSet(run.lines) /\ IsFiniteSet(run.text)
    /\ run.at # "store" => run.lines = {} /\ run.part = Zero
    /\ run.at # "parse" => run.text = {}

(* A text is of one stream, and a run whose parsing was broken off collects no more. *)
OneStream(text) == \A l, m \in text : l.stream = m.stream

CutInv ==
    /\ OneStream(run.text) /\ OneStream(cut) /\ OneStream(latest.cut)
    /\ run.at # "idle" /\ cut # {} => run.at = "collect" /\ run.todo = {}

(* The lines of the run that were counted, or still will be.                   *)
Accounted ==
    run.totals.inserted + run.totals.duplicate + run.part.inserted + run.part.duplicate
      + Cardinality(run.lines)

(* The counts never exceed what was parsed; while they have not fallen behind,   *)
(* every line received is in the table or in hand, unless its text was cut off.    *)
AccountInv ==
    run.at # "idle" =>
        /\ Accounted <= run.totals.parsed
        /\ Accounted = run.totals.parsed => received \subseteq Stored \cup run.lines \cup run.text \cup cut

LatestInv ==
    latest.totals.parsed = latest.totals.inserted + latest.totals.duplicate
        => latest.received \subseteq Stored \cup latest.cut

CollectorInv == TypeOK /\ OneRowEach /\ InHand /\ CutInv /\ AccountInv /\ LatestInv
-------------------------------------------------------------------------------
(* Finite sets of lines *)

LEMMA Constants ==
    /\ MaxDay \in Nat /\ MaxLine \in Nat /\ Retention \in Nat \ {0} /\ 0 \in 0..MaxDay
    /\ Zero \in Counts /\ Zero.inserted = 0 /\ Zero.duplicate = 0
    /\ NoTotals \in Totals /\ NoRun \in Record /\ NoRun.received = {} /\ NoRun.cut = {}
    /\ NoEpoch \in Epochs /\ Idle \in Run /\ Idle.at = "idle" /\ Idle.lines = {} /\ Idle.text = {} /\ Idle.part = Zero
  <1>1. /\ MaxDay \in Nat /\ MaxLine \in Nat /\ Retention \in Nat \ {0} /\ 0 \in 0..MaxDay
    BY LogCollectorAssumption DEF LogCollectorAssumption
  <1>2. /\ Zero \in Counts /\ Zero.inserted = 0 /\ Zero.duplicate = 0
        /\ NoTotals \in Totals /\ NoEpoch \in Epochs
    BY DEF Zero, Counts, NoTotals, Totals, NoEpoch, Epochs
  <1>3. NoRun \in Record /\ NoRun.received = {} /\ NoRun.cut = {}
    BY <1>1, <1>2 DEF NoRun, Record
  <1>4. Idle \in Run /\ Idle.at = "idle" /\ Idle.lines = {} /\ Idle.text = {} /\ Idle.part = Zero
    BY <1>1, <1>2 DEF Idle, Run
  <1>5. QED
    BY <1>1, <1>2, <1>3, <1>4

(* What is parsed of a text is a finite set of lines of the stream.             *)
LEMMA ParsedLines ==
    ASSUME TypeOK, NEW s \in Streams, NEW k \in log[s].first - 1..log[s].last
    PROVE  /\ Parsed(s, k) \subseteq Line /\ IsFiniteSet(Parsed(s, k)) /\ Cardinality(Parsed(s, k)) \in Nat
           /\ OneStream(Parsed(s, k))
  <1>1. log[s].first \in Nat \ {0} /\ log[s].last \in 0..MaxLine /\ MaxLine \in Nat
    BY Constants DEF TypeOK
  <1>2. \A l \in Parsed(s, k) : /\ l \in Line /\ l.stream = s /\ l.number \in 1..MaxLine
                                /\ l = [stream |-> s, number |-> l.number]
    BY <1>1 DEF Parsed, Line
  <1>3. IsFiniteSet(1..MaxLine)
    BY <1>1, FS_Interval
  <1> DEFINE f == [l \in Parsed(s, k) |-> l.number]
  <1>4. f \in [Parsed(s, k) -> 1..MaxLine]
    BY <1>2
  <1>5. \A a, b \in Parsed(s, k) : f[a] = f[b] => a = b
    BY <1>2
  <1>6. f \in Injection(Parsed(s, k), 1..MaxLine)
    BY <1>4, <1>5 DEF Injection, IsInjective
  <1> HIDE DEF f
  <1>7. IsFiniteSet(Parsed(s, k))
    BY <1>3, <1>6, FS_Injection
  <1>8. QED
    BY <1>2, <1>7, FS_CardinalityType DEF OneStream

(* The totals of a run when a counter that no line is counted in goes up, and when   *)
(* n lines are parsed.                                                          *)
LEMMA Grown ==
    ASSUME NEW t \in Totals, NEW n \in Nat, NEW counter \in {"attempted", "succeeded", "failures"}
    PROVE  /\ [t EXCEPT ![counter] = @ + 1] \in Totals
           /\ [t EXCEPT ![counter] = @ + 1].parsed = t.parsed
           /\ [t EXCEPT ![counter] = @ + 1].inserted = t.inserted
           /\ [t EXCEPT ![counter] = @ + 1].duplicate = t.duplicate
           /\ [t EXCEPT !.parsed = @ + n] \in Totals
           /\ [t EXCEPT !.parsed = @ + n].parsed = t.parsed + n
           /\ [t EXCEPT !.parsed = @ + n].inserted = t.inserted
           /\ [t EXCEPT !.parsed = @ + n].duplicate = t.duplicate
  <1>1. t.attempted \in Nat /\ t.succeeded \in Nat /\ t.failures \in Nat /\ t.parsed + n \in Nat
    BY DEF Totals
  <1>2. [t EXCEPT !.parsed = @ + n] \in Totals /\ [t EXCEPT !.parsed = @ + n].parsed = t.parsed + n
    BY <1>1 DEF Totals
  <1>3. CASE counter = "attempted"
    BY <1>1, <1>3 DEF Totals
  <1>4. CASE counter = "succeeded"
    BY <1>1, <1>4 DEF Totals
  <1>5. CASE counter = "failures"
    BY <1>1, <1>5 DEF Totals
  <1>6. /\ [t EXCEPT !.parsed = @ + n].inserted = t.inserted
        /\ [t EXCEPT !.parsed = @ + n].duplicate = t.duplicate
    BY DEF Totals
  <1>7. QED
    BY <1>2, <1>3, <1>4, <1>5, <1>6

(* A run that has attempted a stream: it came, it failed, or the run was broken off. *)
LEMMA Attempted ==
    ASSUME NEW t \in Totals
    PROVE  \A u \in {[t EXCEPT !.attempted = @ + 1],
                     [t EXCEPT !.attempted = @ + 1, !.failures = @ + 1],
                     [t EXCEPT !.attempted = @ + 1, !.succeeded = @ + 1]} :
              u \in Totals /\ u.parsed = t.parsed /\ u.inserted = t.inserted /\ u.duplicate = t.duplicate
  <1>1. PICK u : u = [t EXCEPT !.attempted = @ + 1]
    OBVIOUS
  <1>2. u \in Totals /\ u.parsed = t.parsed /\ u.inserted = t.inserted /\ u.duplicate = t.duplicate
    <2>1. u = [t EXCEPT !["attempted"] = @ + 1]
      BY <1>1
    <2>2. QED
      BY <2>1, Grown
  <1>3. PICK v : v = [u EXCEPT !.failures = @ + 1]
    OBVIOUS
  <1>4. v \in Totals /\ v.parsed = t.parsed /\ v.inserted = t.inserted /\ v.duplicate = t.duplicate
    <2>1. v = [u EXCEPT !["failures"] = @ + 1]
      BY <1>3
    <2>2. QED
      BY <1>2, <2>1, Grown
  <1>5. PICK w : w = [u EXCEPT !.succeeded = @ + 1]
    OBVIOUS
  <1>6. w \in Totals /\ w.parsed = t.parsed /\ w.inserted = t.inserted /\ w.duplicate = t.duplicate
    <2>1. w = [u EXCEPT !["succeeded"] = @ + 1]
      BY <1>5
    <2>2. QED
      BY <1>2, <2>1, Grown
  <1>7. /\ v = [t EXCEPT !.attempted = @ + 1, !.failures = @ + 1]
        /\ w = [t EXCEPT !.attempted = @ + 1, !.succeeded = @ + 1]
    BY <1>1, <1>3, <1>5 DEF Totals
  <1>8. QED
    BY <1>1, <1>2, <1>4, <1>6, <1>7

(* What the invariant says when a line is in hand and when none is.             *)
LEMMA Sizes ==
    ASSUME CollectorInv
    PROVE  /\ run \in Run /\ run.totals \in Totals /\ run.part \in Counts /\ Cardinality(run.lines) \in Nat
           /\ IsFiniteSet(run.lines) /\ run.lines \subseteq Line
           /\ IsFiniteSet(run.text) /\ run.text \subseteq Line /\ Cardinality(run.text) \in Nat
           /\ run.at # "store" => run.lines = {} /\ run.part = Zero /\ Cardinality(run.lines) = 0
           /\ run.at # "parse" => run.text = {}
  <1>1. run \in Run
    BY DEF CollectorInv, TypeOK
  <1>2. run.totals \in Totals /\ run.part \in Counts /\ run.lines \subseteq Line /\ run.text \subseteq Line
    BY <1>1 DEF Run
  <1>3. QED
    BY <1>1, <1>2, FS_EmptySet, FS_CardinalityType DEF CollectorInv, InHand

LEMMA CollectorInit == Init => CollectorInv
  <1>1. SUFFICES ASSUME Init PROVE CollectorInv
    OBVIOUS
  <1>2. TypeOK
    <2>1. log \in [Streams -> [first : Nat \ {0}, last : 0..MaxLine]]
      BY <1>1, Constants DEF Init
    <2>2. QED
      BY <1>1, <2>1, Constants DEF Init, TypeOK
  <1>3. OneRowEach /\ InHand /\ CutInv /\ AccountInv
    BY <1>1, Constants, FS_EmptySet DEF Init, OneRowEach, InHand, CutInv, OneStream, AccountInv
  <1>4. LatestInv
    BY <1>1, Constants DEF Init, LatestInv
  <1>5. QED
    BY <1>2, <1>3, <1>4 DEF CollectorInv

(* The miner, the configuration and the clock; or nothing at all.               *)
LEMMA EnvironmentStep == CollectorInv /\ (Environment \/ UNCHANGED vars) => CollectorInv'
  <1>1. SUFFICES ASSUME CollectorInv, Environment \/ UNCHANGED vars PROVE CollectorInv'
    OBVIOUS
  <1>2. rows' = rows /\ latest' = latest /\ run' = run /\ received' = received /\ cut' = cut
    BY <1>1 DEF Environment, vars
  <1>3. offset' \in Epochs /\ day' \in 0..MaxDay
    BY <1>1, Constants DEF Environment, vars, CollectorInv, TypeOK
  <1>4. log' \in [Streams -> [first : Nat \ {0}, last : 0..MaxLine]]
    <2>1. log \in [Streams -> [first : Nat \ {0}, last : 0..MaxLine]]
      BY <1>1 DEF CollectorInv, TypeOK
    <2>2. CASE log' = log
      BY <2>1, <2>2
    <2>3. CASE \E s \in Streams : log[s].last < MaxLine /\ log' = [log EXCEPT ![s].last = @ + 1]
      BY <2>1, <2>3, Constants
    <2>4. CASE \E s \in Streams : log' = [log EXCEPT ![s].first = @ + 1]
      BY <2>1, <2>4
    <2>5. QED
      BY <1>1, <2>2, <2>3, <2>4 DEF Environment, vars
  <1>5. TypeOK'
    BY <1>1, <1>2, <1>3, <1>4 DEF CollectorInv, TypeOK
  <1>6. OneRowEach' /\ InHand' /\ CutInv' /\ AccountInv' /\ LatestInv'
    BY <1>1, <1>2
       DEF CollectorInv, OneRowEach, InHand, CutInv, OneStream, AccountInv, Accounted, LatestInv, Stored
  <1>7. QED
    BY <1>5, <1>6 DEF CollectorInv

LEMMA StartStep == CollectorInv /\ StartRun => CollectorInv'
  <1>1. SUFFICES ASSUME CollectorInv, StartRun PROVE CollectorInv'
    OBVIOUS
  <1>2. /\ run' = [Idle EXCEPT !.at = "collect", !.offset = offset, !.todo = Streams]
        /\ received' = {} /\ cut' = {} /\ UNCHANGED <<day, log, offset, rows, latest>>
    BY <1>1 DEF StartRun, Keep
  <1>3. /\ run' \in Run /\ run'.at = "collect" /\ run'.lines = {} /\ run'.text = {} /\ run'.part = Zero
        /\ run'.totals = NoTotals
    <2>1. run' = [at |-> "collect", offset |-> offset, todo |-> Streams, collected |-> 0, text |-> {},
                  lines |-> {}, part |-> Zero, totals |-> NoTotals]
      BY <1>2 DEF Idle
    <2>2. offset \in Epochs
      BY <1>1 DEF CollectorInv, TypeOK
    <2>3. QED
      BY <2>1, <2>2, Constants DEF Run
  <1>4. TypeOK'
    <2>1. TypeOK
      BY <1>1 DEF CollectorInv
    <2>2. received' \subseteq Line /\ cut' \subseteq Line
      BY <1>2
    <2>3. QED
      BY <1>2, <1>3, <2>1, <2>2 DEF TypeOK
  <1>5. InHand' /\ AccountInv'
    <2>1. IsFiniteSet({}) /\ Cardinality({}) = 0
      BY FS_EmptySet
    <2>2. /\ NoTotals.inserted = 0 /\ NoTotals.duplicate = 0 /\ NoTotals.parsed = 0
          /\ Zero.inserted = 0 /\ Zero.duplicate = 0
      BY DEF NoTotals, Zero
    <2>3. Accounted' = 0 /\ run'.totals.parsed = 0
      BY <1>3, <2>1, <2>2 DEF Accounted
    <2>4. QED
      BY <1>2, <1>3, <2>1, <2>3 DEF InHand, AccountInv
  <1>6. OneRowEach' /\ LatestInv'
    BY <1>1, <1>2 DEF CollectorInv, OneRowEach, LatestInv, Stored
  <1>8. CutInv'
    BY <1>1, <1>2, <1>3 DEF CollectorInv, CutInv, OneStream
  <1>7. QED
    BY <1>4, <1>5, <1>6, <1>8 DEF CollectorInv

(* A tab is attempted: its text comes, it fails, or the run is broken off.          *)
LEMMA CollectStep == CollectorInv /\ (\E s \in Streams : Collect(s)) => CollectorInv'
  <1>1. SUFFICES ASSUME CollectorInv, NEW s \in Streams, Collect(s) PROVE CollectorInv'
    OBVIOUS
  <1>2. /\ run \in Run /\ run.totals \in Totals /\ run.lines = {} /\ run.part = Zero
        /\ Cardinality(run.lines) = 0 /\ run.at = "collect" /\ s \in run.todo
        /\ run.text = {} /\ cut = {}
    BY <1>1, Sizes DEF Collect, CollectorInv, CutInv
  <1>3. UNCHANGED <<day, log, offset, rows, latest, cut>> /\ run.todo \subseteq Streams /\ day \in 0..MaxDay
    BY <1>1, <1>2 DEF Collect, Keep, CollectorInv, TypeOK, Run
  <1>4. OneRowEach' /\ LatestInv'
    BY <1>1, <1>3 DEF CollectorInv, OneRowEach, LatestInv, Stored
  <1>5. ASSUME NEW t \in Totals, NEW todo, todo \subseteq Streams,
               t.parsed = run.totals.parsed, t.inserted = run.totals.inserted,
               t.duplicate = run.totals.duplicate,
               run' = [run EXCEPT !.todo = todo, !.totals = t], received' = received
        PROVE  CollectorInv'
    <2>1. /\ run' \in Run /\ run'.at = run.at /\ run'.lines = run.lines /\ run'.part = run.part
          /\ run'.text = run.text /\ run'.totals = t
      BY <1>2, <1>5 DEF Run
    <2>2. TypeOK'
      BY <1>1, <1>3, <1>5, <2>1 DEF CollectorInv, TypeOK
    <2>3. InHand' /\ AccountInv'
      BY <1>1, <1>3, <1>5, <2>1 DEF CollectorInv, InHand, AccountInv, Accounted, Stored
    <2>4. CutInv'
      BY <1>1, <1>2, <1>3, <2>1 DEF CollectorInv, CutInv, OneStream
    <2>5. QED
      BY <1>4, <2>2, <2>3, <2>4 DEF CollectorInv
  <1>6. CASE run' = [run EXCEPT !.todo = @ \ {s}, !.totals.attempted = @ + 1, !.totals.failures = @ + 1]
             /\ received' = received
    <2>1. PICK t : t = [run.totals EXCEPT !.attempted = @ + 1, !.failures = @ + 1]
      OBVIOUS
    <2>2. run' = [run EXCEPT !.todo = run.todo \ {s}, !.totals = t]
      BY <1>2, <1>6, <2>1 DEF Run
    <2>3. /\ t \in Totals /\ t.parsed = run.totals.parsed /\ t.inserted = run.totals.inserted
          /\ t.duplicate = run.totals.duplicate
      BY <1>2, <2>1, Attempted
    <2>4. PICK todo : todo = run.todo \ {s}
      OBVIOUS
    <2>5. todo \subseteq Streams /\ run' = [run EXCEPT !.todo = todo, !.totals = t]
      BY <1>3, <2>2, <2>4
    <2>6. QED
      BY <1>5, <1>6, <2>3, <2>5
  <1>7. CASE run' = [run EXCEPT !.todo = {}, !.totals.attempted = @ + 1] /\ received' = received
    <2>1. PICK t : t = [run.totals EXCEPT !.attempted = @ + 1]
      OBVIOUS
    <2>2. run' = [run EXCEPT !.todo = {}, !.totals = t]
      BY <1>2, <1>7, <2>1 DEF Run
    <2>3. QED
      BY <1>2, <1>5, <1>7, <2>1, <2>2, Attempted
  <1>8. ASSUME NEW k \in log[s].first - 1..log[s].last,
               run' = [run EXCEPT !.at = "parse", !.todo = @ \ {s}, !.collected = day,
                                  !.text = Parsed(s, k),
                                  !.totals.attempted = @ + 1, !.totals.succeeded = @ + 1],
               received' = received \cup Parsed(s, k)
        PROVE  CollectorInv'
    <2>1. PICK text : text = Parsed(s, k)
      OBVIOUS
    <2>2. text \subseteq Line /\ IsFiniteSet(text) /\ OneStream(text)
      BY <1>1, <2>1, ParsedLines DEF CollectorInv
    <2>3. PICK t : t = [run.totals EXCEPT !.attempted = @ + 1, !.succeeded = @ + 1]
      OBVIOUS
    <2>4. /\ t \in Totals /\ t.parsed = run.totals.parsed /\ t.inserted = run.totals.inserted
          /\ t.duplicate = run.totals.duplicate
      BY <1>2, <2>3, Attempted
    <2>5. run' = [run EXCEPT !.at = "parse", !.todo = run.todo \ {s}, !.collected = day, !.text = text,
                            !.totals = t]
      BY <1>2, <1>8, <2>1, <2>3 DEF Run, Totals
    <2>6. /\ run' \in Run /\ run'.at = "parse" /\ run'.lines = run.lines /\ run'.part = run.part
          /\ run'.text = text /\ run'.totals = t
      BY <1>2, <1>3, <2>2, <2>4, <2>5 DEF Run
    <2>7. TypeOK'
      BY <1>1, <1>3, <1>8, <2>1, <2>2, <2>6 DEF CollectorInv, TypeOK
    <2>8. InHand'
      BY <1>1, <1>2, <2>2, <2>6 DEF CollectorInv, InHand
    <2>9. AccountInv'
      BY <1>1, <1>2, <1>3, <1>8, <2>1, <2>4, <2>6 DEF CollectorInv, AccountInv, Accounted, Stored
    <2>10. CutInv'
      BY <1>1, <1>2, <1>3, <2>2, <2>6 DEF CollectorInv, CutInv, OneStream
    <2>11. QED
      BY <1>4, <2>7, <2>8, <2>9, <2>10 DEF CollectorInv
  <1>9. QED
    BY <1>1, <1>6, <1>7, <1>8 DEF Collect

(* What was received is counted, and in hand.                                    *)
LEMMA ParseStep == CollectorInv /\ Parse => CollectorInv'
  <1>1. SUFFICES ASSUME CollectorInv, Parse PROVE CollectorInv'
    OBVIOUS
  <1>2. /\ run \in Run /\ run.totals \in Totals /\ run.lines = {} /\ run.part = Zero
        /\ Cardinality(run.lines) = 0 /\ run.at = "parse" /\ cut = {}
        /\ IsFiniteSet(run.text) /\ run.text \subseteq Line
    BY <1>1, Sizes DEF Parse, CollectorInv, CutInv
  <1>3. UNCHANGED <<day, log, offset, rows, latest, received, cut>>
    BY <1>1 DEF Parse, Keep
  <1>4. PICK lines, n : lines = run.text /\ n = Cardinality(lines)
    OBVIOUS
  <1>5. lines \subseteq Line /\ IsFiniteSet(lines) /\ n \in Nat
    BY <1>2, <1>4, FS_CardinalityType
  <1>6. PICK t : t = [run.totals EXCEPT !.parsed = @ + n]
    OBVIOUS
  <1>7. /\ t \in Totals /\ t.parsed = run.totals.parsed + n /\ t.inserted = run.totals.inserted
        /\ t.duplicate = run.totals.duplicate
    BY <1>2, <1>5, <1>6, Grown
  <1>8. run' = [run EXCEPT !.at = "store", !.text = {}, !.lines = lines, !.totals = t]
    BY <1>1, <1>2, <1>4, <1>6 DEF Parse, Run, Totals
  <1>9. /\ run' \in Run /\ run'.at = "store" /\ run'.lines = lines /\ run'.part = run.part
        /\ run'.text = {} /\ run'.totals = t
    BY <1>2, <1>5, <1>7, <1>8 DEF Run
  <1>10. TypeOK'
    BY <1>1, <1>3, <1>9 DEF CollectorInv, TypeOK
  <1>11. run.totals.parsed \in Nat /\ run.totals.inserted \in Nat /\ run.totals.duplicate \in Nat
    BY <1>2 DEF Totals
  <1>12. /\ run.totals.inserted + run.totals.duplicate <= run.totals.parsed
         /\ run.totals.inserted + run.totals.duplicate = run.totals.parsed
                => received \subseteq Stored \cup run.text
    BY <1>1, <1>2, <1>11, Constants DEF CollectorInv, AccountInv, Accounted
  <1>13. Accounted' = run.totals.inserted + run.totals.duplicate + n /\ run'.totals.parsed = run.totals.parsed + n
    BY <1>2, <1>4, <1>5, <1>7, <1>9, <1>11, Constants DEF Accounted
  <1>14. AccountInv'
    <2>1. /\ Accounted' <= run'.totals.parsed
          /\ Accounted' = run'.totals.parsed => received \subseteq Stored \cup lines
      BY <1>4, <1>5, <1>11, <1>12, <1>13
    <2>2. Stored' = Stored /\ received' = received
      BY <1>3 DEF Stored
    <2>3. QED
      BY <1>9, <2>1, <2>2 DEF AccountInv
  <1>15. InHand'
    BY <1>5, <1>9, FS_EmptySet DEF InHand
  <1>16. CutInv'
    BY <1>1, <1>2, <1>3, <1>9 DEF CollectorInv, CutInv, OneStream
  <1>17. OneRowEach' /\ LatestInv'
    BY <1>1, <1>3 DEF CollectorInv, OneRowEach, LatestInv, Stored
  <1>18. QED
    BY <1>10, <1>14, <1>15, <1>16, <1>17 DEF CollectorInv

(* A line counted is no longer in hand: the sum moves only when the write failed. *)
LEMMA Counted ==
    ASSUME CollectorInv, NEW l \in run.lines, NEW counter \in {"inserted", "duplicate", "failed"},
           run' = [run EXCEPT !.lines = @ \ {l}, !.part[counter] = @ + 1]
    PROVE  /\ run' \in Run /\ run'.at = run.at /\ run'.lines = run.lines \ {l} /\ run'.totals = run.totals
           /\ run'.text = run.text /\ run'.todo = run.todo
           /\ IsFiniteSet(run'.lines) /\ Accounted \in Nat /\ Accounted' \in Nat
           /\ Accounted' = IF counter = "failed" THEN Accounted - 1 ELSE Accounted
  <1>1. /\ run \in Run /\ run.totals \in Totals /\ run.part \in Counts /\ Cardinality(run.lines) \in Nat
        /\ IsFiniteSet(run.lines) /\ run.lines \subseteq Line
    BY Sizes
  <1>2. PICK part \in Counts : /\ part = [run.part EXCEPT ![counter] = @ + 1]
                               /\ part.inserted + part.duplicate
                                    = run.part.inserted + run.part.duplicate + IF counter = "failed" THEN 0 ELSE 1
    <2>1. /\ run.part.inserted \in Nat /\ run.part.duplicate \in Nat /\ run.part.failed \in Nat
      BY <1>1 DEF Counts
    <2>2. [run.part EXCEPT ![counter] = @ + 1] \in Counts
      BY <1>1, <2>1 DEF Counts
    <2>3. CASE counter = "inserted"
      BY <1>1, <2>1, <2>2, <2>3 DEF Counts
    <2>4. CASE counter = "duplicate"
      BY <1>1, <2>1, <2>2, <2>4 DEF Counts
    <2>5. CASE counter = "failed"
      BY <1>1, <2>1, <2>2, <2>5 DEF Counts
    <2>6. QED
      BY <2>3, <2>4, <2>5
  <1>3. run' = [run EXCEPT !.lines = run.lines \ {l}, !.part = part]
    BY <1>1, <1>2 DEF Run
  <1>4. /\ run' \in Run /\ run'.at = run.at /\ run'.lines = run.lines \ {l} /\ run'.totals = run.totals
        /\ run'.part = part /\ run'.text = run.text /\ run'.todo = run.todo
    <2>1. run.lines \ {l} \subseteq Line
      BY <1>1
    <2>2. PICK lines : lines = run.lines \ {l}
      OBVIOUS
    <2>3. run' = [run EXCEPT !.lines = lines, !.part = part]
      BY <1>3, <2>2
    <2>4. QED
      BY <1>1, <1>2, <2>1, <2>2, <2>3 DEF Run
  <1>5. IsFiniteSet(run'.lines) /\ Cardinality(run'.lines) = Cardinality(run.lines) - 1
    BY <1>1, <1>4, FS_RemoveElement
  <1>6. Cardinality(run'.lines) \in Nat
    BY <1>5, FS_CardinalityType
  <1>7. /\ run.totals.inserted \in Nat /\ run.totals.duplicate \in Nat
        /\ run.part.inserted \in Nat /\ run.part.duplicate \in Nat
        /\ part.inserted \in Nat /\ part.duplicate \in Nat
    BY <1>1, <1>2 DEF Totals, Counts
  <1>8. QED
    BY <1>1, <1>2, <1>4, <1>5, <1>6, <1>7 DEF Accounted

(* A row that is dated keeps its line, and an epoch it has.                    *)
LEMMA Dated ==
    ASSUME CollectorInv, NEW r \in rows
    PROVE  /\ FirstEpoch(r) \in Row /\ FirstEpoch(r).line = r.line
           /\ r.epoch # NoEpoch => FirstEpoch(r).epoch = r.epoch
  <1>1. r \in Row /\ run \in Run
    BY DEF CollectorInv, TypeOK
  <1>2. r.epoch \in Epochs /\ run.offset \in Epochs
    BY <1>1 DEF Row, Run
  <1>3. QED
    BY <1>1, <1>2 DEF FirstEpoch, Row

(* What one event does to the table: every row stays, with its line and with     *)
(* the epoch it has, and a line that is counted as stored has a row.            *)
LEMMA StoredRows ==
    ASSUME CollectorInv, NEW l \in run.lines, StoreEvent(l)
    PROVE  /\ rows' \subseteq Row /\ OneRowEach' /\ Stored \subseteq Stored'
           /\ \/ run' = [run EXCEPT !.lines = @ \ {l}, !.part["inserted"] = @ + 1] /\ l \in Stored'
              \/ run' = [run EXCEPT !.lines = @ \ {l}, !.part["duplicate"] = @ + 1] /\ l \in Stored'
              \/ run' = [run EXCEPT !.lines = @ \ {l}, !.part["failed"] = @ + 1]
           /\ \A r \in rows, s \in rows' : r.line = s.line /\ r.epoch # NoEpoch => s.epoch = r.epoch
  <1> DEFINE old == {r \in rows : r.line = l}
  <1>1. rows \subseteq Row /\ OneRowEach /\ l \in Line
    BY Sizes DEF CollectorInv, TypeOK
  <1>2. CASE /\ old = {} /\ rows' = rows \cup {New(l)}
             /\ run' = [run EXCEPT !.lines = @ \ {l}, !.part["inserted"] = @ + 1]
    <2>1. run \in Run
      BY Sizes
    <2>2. run.collected \in 0..MaxDay /\ run.offset \in Epochs
      BY <2>1 DEF Run
    <2>3. New(l) \in Row /\ New(l).line = l
      BY <1>1, <2>2 DEF New, Row
    <2>4. OneRowEach'
      BY <1>1, <1>2, <2>3 DEF OneRowEach
    <2>5. Stored \subseteq Stored' /\ l \in Stored'
      BY <1>2, <2>3 DEF Stored
    <2>6. QED
      BY <1>1, <1>2, <2>3, <2>4, <2>5 DEF OneRowEach
  <1>3. CASE /\ old # {} /\ rows' = (rows \ old) \cup {FirstEpoch(r) : r \in old}
             /\ run' = [run EXCEPT !.lines = @ \ {l}, !.part["duplicate"] = @ + 1]
    <2>1. PICK o \in rows : o.line = l
      BY <1>3
    <2>2. old = {o}
      BY <1>1, <2>1 DEF OneRowEach
    <2>3. rows' = (rows \ {o}) \cup {FirstEpoch(o)}
      BY <1>3, <2>2
    <2>4. /\ FirstEpoch(o) \in Row /\ FirstEpoch(o).line = o.line
          /\ o.epoch # NoEpoch => FirstEpoch(o).epoch = o.epoch
      BY <2>1, Dated
    <2>5. rows' \subseteq Row /\ OneRowEach'
      BY <1>1, <2>1, <2>3, <2>4 DEF OneRowEach
    <2>6. Stored \subseteq Stored' /\ l \in Stored'
      BY <2>1, <2>3, <2>4 DEF Stored
    <2>7. \A r \in rows, s \in rows' : r.line = s.line /\ r.epoch # NoEpoch => s.epoch = r.epoch
      BY <1>1, <2>1, <2>3, <2>4 DEF OneRowEach
    <2>8. QED
      BY <1>3, <2>5, <2>6, <2>7
  <1>4. CASE rows' = rows /\ run' = [run EXCEPT !.lines = @ \ {l}, !.part["failed"] = @ + 1]
    BY <1>1, <1>4 DEF OneRowEach, Stored
  <1>5. QED
    BY <1>2, <1>3, <1>4 DEF StoreEvent, AsFailed

LEMMA StoreStep == CollectorInv /\ (\E l \in run.lines : StoreEvent(l)) => CollectorInv'
  <1>1. SUFFICES ASSUME CollectorInv, NEW l \in run.lines, StoreEvent(l) PROVE CollectorInv'
    OBVIOUS
  <1>2. /\ UNCHANGED <<day, log, offset, latest, received, cut>> /\ run.at = "store" /\ run.text = {}
    BY <1>1, Sizes DEF StoreEvent, Keep
  <1>3. /\ rows' \subseteq Row /\ OneRowEach' /\ Stored \subseteq Stored'
    BY <1>1, StoredRows
  <1>4. /\ run' \in Run /\ run'.at = run.at /\ run'.lines = run.lines \ {l} /\ run'.totals = run.totals
        /\ run'.text = run.text /\ run'.todo = run.todo
        /\ IsFiniteSet(run'.lines) /\ Accounted \in Nat /\ Accounted' \in Nat
        /\ (Accounted' = Accounted /\ l \in Stored') \/ Accounted' = Accounted - 1
    <2>1. CASE run' = [run EXCEPT !.lines = @ \ {l}, !.part["inserted"] = @ + 1] /\ l \in Stored'
      BY <1>1, <2>1, Counted
    <2>2. CASE run' = [run EXCEPT !.lines = @ \ {l}, !.part["duplicate"] = @ + 1] /\ l \in Stored'
      BY <1>1, <2>2, Counted
    <2>3. CASE run' = [run EXCEPT !.lines = @ \ {l}, !.part["failed"] = @ + 1]
      BY <1>1, <2>3, Counted
    <2>4. QED
      BY <1>1, <2>1, <2>2, <2>3, StoredRows
  <1>5. TypeOK'
    BY <1>1, <1>2, <1>3, <1>4 DEF CollectorInv, TypeOK
  <1>6. InHand' /\ CutInv'
    BY <1>1, <1>2, <1>4, FS_EmptySet DEF CollectorInv, InHand, CutInv, OneStream
  <1>7. LatestInv'
    BY <1>1, <1>2, <1>3 DEF CollectorInv, LatestInv
  <1>8. run.totals.parsed \in Nat
    BY <1>1, Sizes DEF Totals
  <1>9. /\ Accounted <= run.totals.parsed
        /\ Accounted = run.totals.parsed => received \subseteq Stored \cup run.lines \cup run.text \cup cut
    BY <1>1, <1>2 DEF CollectorInv, AccountInv
  <1>10. AccountInv'
    BY <1>2, <1>3, <1>4, <1>8, <1>9 DEF AccountInv
  <1>11. QED
    BY <1>3, <1>5, <1>6, <1>7, <1>10 DEF CollectorInv

LEMMA AddUpStep == CollectorInv /\ AddUp => CollectorInv'
  <1>1. SUFFICES ASSUME CollectorInv, AddUp PROVE CollectorInv'
    OBVIOUS
  <1>2. /\ UNCHANGED <<day, log, offset, rows, latest, received, cut>>
        /\ run.at = "store" /\ run.lines = {} /\ run.text = {} /\ cut = {}
    BY <1>1, Sizes DEF AddUp, Keep, CollectorInv, CutInv
  <1>3. run \in Run /\ run.totals \in Totals /\ run.part \in Counts
    BY <1>1, Sizes
  <1>4. PICK t : t = [run.totals EXCEPT !.inserted = @ + run.part.inserted,
                                        !.duplicate = @ + run.part.duplicate,
                                        !.failed = @ + run.part.failed,
                                        !.failures = @ + run.part.failed]
    OBVIOUS
  <1>5. /\ run.part.inserted \in Nat /\ run.part.duplicate \in Nat /\ run.part.failed \in Nat
        /\ run.totals.inserted \in Nat /\ run.totals.duplicate \in Nat /\ run.totals.parsed \in Nat
        /\ run.totals.failed \in Nat /\ run.totals.failures \in Nat
    BY <1>3 DEF Counts, Totals
  <1>6. /\ t \in Totals /\ t.inserted = run.totals.inserted + run.part.inserted
        /\ t.duplicate = run.totals.duplicate + run.part.duplicate /\ t.parsed = run.totals.parsed
    <2>1. PICK i \in Nat : i = run.totals.inserted + run.part.inserted
      BY <1>5
    <2>2. PICK d \in Nat : d = run.totals.duplicate + run.part.duplicate
      BY <1>5
    <2>3. PICK f \in Nat : f = run.totals.failed + run.part.failed
      BY <1>5
    <2>4. PICK e \in Nat : e = run.totals.failures + run.part.failed
      BY <1>5
    <2>5. t = [run.totals EXCEPT !.inserted = i, !.duplicate = d, !.failed = f, !.failures = e]
      BY <1>3, <1>4, <2>1, <2>2, <2>3, <2>4
    <2>6. t = [attempted |-> run.totals.attempted, succeeded |-> run.totals.succeeded, failures |-> e,
               parsed |-> run.totals.parsed, inserted |-> i, duplicate |-> d, failed |-> f]
      BY <1>3, <2>5 DEF Totals
    <2>7. run.totals.attempted \in Nat /\ run.totals.succeeded \in Nat
      BY <1>3 DEF Totals
    <2>8. t \in Totals /\ t.inserted = i /\ t.duplicate = d /\ t.parsed = run.totals.parsed
      BY <1>5, <2>6, <2>7 DEF Totals
    <2>9. QED
      BY <2>1, <2>2, <2>3, <2>4, <2>8
  <1>7. run' = [run EXCEPT !.at = "collect", !.part = Zero, !.totals = t]
    BY <1>1, <1>3, <1>4 DEF AddUp, Run, Totals
  <1>8. /\ run' \in Run /\ run'.at = "collect" /\ run'.lines = {} /\ run'.text = run.text
        /\ run'.part = Zero /\ run'.totals = t
    BY <1>2, <1>3, <1>6, <1>7, Constants DEF Run
  <1>9. Accounted' = Accounted /\ run'.totals.parsed = run.totals.parsed
    BY <1>2, <1>5, <1>6, <1>8, Constants, FS_EmptySet DEF Accounted
  <1>10. TypeOK'
    BY <1>1, <1>2, <1>8 DEF CollectorInv, TypeOK
  <1>11. InHand' /\ CutInv'
    BY <1>1, <1>2, <1>8, FS_EmptySet DEF CollectorInv, InHand, CutInv, OneStream
  <1>12. AccountInv'
    BY <1>1, <1>2, <1>8, <1>9 DEF CollectorInv, AccountInv, Stored
  <1>13. OneRowEach' /\ LatestInv'
    BY <1>1, <1>2 DEF CollectorInv, OneRowEach, LatestInv, Stored
  <1>14. QED
    BY <1>10, <1>11, <1>12, <1>13 DEF CollectorInv

(* An interrupted run leaves its counts behind what it parsed, unless nothing was in hand. *)
LEMMA InterruptStep == CollectorInv /\ Interrupt => CollectorInv'
  <1>1. SUFFICES ASSUME CollectorInv, Interrupt PROVE CollectorInv'
    OBVIOUS
  <1>2. /\ run' = [run EXCEPT !.todo = {}, !.text = {}, !.lines = {}, !.part = Zero, !.at = "collect"]
        /\ UNCHANGED <<day, log, offset, rows, latest, received>> /\ run.at # "idle"
        /\ cut' = cut \cup run.text
    BY <1>1 DEF Interrupt, Keep
  <1>3. /\ run \in Run /\ run.text \subseteq Line /\ run.totals \in Totals /\ run.part \in Counts
        /\ IsFiniteSet(run.lines) /\ Cardinality(run.lines) \in Nat
    BY <1>1, Sizes
  <1>4. /\ run' \in Run /\ run'.at = "collect" /\ run'.lines = {} /\ run'.text = {} /\ run'.todo = {}
        /\ run'.part = Zero /\ run'.totals = run.totals
    BY <1>2, <1>3, Constants DEF Run
  <1>5. /\ run.part.inserted \in Nat /\ run.part.duplicate \in Nat
        /\ run.totals.inserted \in Nat /\ run.totals.duplicate \in Nat /\ run.totals.parsed \in Nat
    BY <1>3 DEF Counts, Totals
  <1>6. Accounted' = run.totals.inserted + run.totals.duplicate
    BY <1>4, <1>5, Constants, FS_EmptySet DEF Accounted
  <1>7. Accounted = Accounted' + run.part.inserted + run.part.duplicate + Cardinality(run.lines)
    BY <1>3, <1>5, <1>6 DEF Accounted
  <1>8. /\ Accounted <= run.totals.parsed
        /\ Accounted = run.totals.parsed => received \subseteq Stored \cup run.lines \cup run.text \cup cut
    BY <1>1, <1>2 DEF CollectorInv, AccountInv
  <1>9. Accounted' = run.totals.parsed => Accounted = run.totals.parsed /\ Cardinality(run.lines) = 0
    <2>1. PICK a, b, c \in Nat : a = Accounted' /\ b = run.part.inserted + run.part.duplicate
                                 /\ c = Cardinality(run.lines)
      BY <1>3, <1>5, <1>6
    <2>2. Accounted = a + b + c /\ a + b + c <= run.totals.parsed
      BY <1>3, <1>5, <1>6, <1>7, <1>8, <2>1
    <2>3. QED
      BY <1>5, <2>1, <2>2
  <1>10. Cardinality(run.lines) = 0 => run.lines = {}
    BY <1>3, FS_EmptySet
  <1>11. Accounted' <= run.totals.parsed
    BY <1>3, <1>5, <1>6, <1>7, <1>8
  <1>12. AccountInv'
    BY <1>2, <1>4, <1>8, <1>9, <1>10, <1>11 DEF AccountInv, Stored
  <1>13. TypeOK'
    BY <1>1, <1>2, <1>3, <1>4 DEF CollectorInv, TypeOK
  <1>14. InHand' /\ CutInv'
    <2>1. run.text = {} \/ cut = {}
      BY <1>1, <1>2, Sizes DEF CollectorInv, CutInv
    <2>2. QED
      BY <1>1, <1>2, <1>4, <2>1, FS_EmptySet DEF CollectorInv, InHand, CutInv, OneStream
  <1>15. OneRowEach' /\ LatestInv'
    BY <1>1, <1>2 DEF CollectorInv, OneRowEach, LatestInv, Stored
  <1>16. QED
    BY <1>12, <1>13, <1>14, <1>15 DEF CollectorInv

(* A run that ends, recorded or not, or that is killed.                        *)
LEMMA EndStep == CollectorInv /\ (RecordRun \/ Kill) => CollectorInv'
  <1>1. SUFFICES ASSUME CollectorInv, RecordRun \/ Kill PROVE CollectorInv'
    OBVIOUS
  <1>2. run' = Idle /\ UNCHANGED <<day, log, offset, rows, received, cut>>
    BY <1>1 DEF RecordRun, Kill, Keep
  <1>3. OneRowEach' /\ InHand' /\ AccountInv'
    BY <1>1, <1>2, Constants, FS_EmptySet DEF CollectorInv, OneRowEach, InHand, AccountInv
  <1>4. CASE latest' = latest
    <2>1. TypeOK'
      BY <1>1, <1>2, <1>4, Constants DEF CollectorInv, TypeOK
    <2>2. LatestInv' /\ CutInv'
      BY <1>1, <1>2, <1>4, Constants DEF CollectorInv, LatestInv, Stored, CutInv, OneStream
    <2>3. QED
      BY <1>3, <2>1, <2>2 DEF CollectorInv
  <1>5. CASE /\ run.at = "collect"
             /\ latest' = [status |-> Status(run.totals), completed |-> day, totals |-> run.totals,
                           received |-> received, cut |-> cut]
    <2>1. /\ run.totals \in Totals /\ run.lines = {} /\ run.part = Zero /\ Cardinality(run.lines) = 0
          /\ run.text = {}
      BY <1>1, <1>5, Sizes
    <2>2. Status(run.totals) \in {"ok", "failed", "partial"}
      BY DEF Status
    <2>3. day \in 0..MaxDay /\ received \subseteq Line /\ cut \subseteq Line
      BY <1>1 DEF CollectorInv, TypeOK
    <2>4. latest' \in Record
      BY <1>5, <2>1, <2>2, <2>3 DEF Record
    <2>5. TypeOK'
      BY <1>1, <1>2, <2>4, Constants DEF CollectorInv, TypeOK
    <2>6. run.totals.inserted \in Nat /\ run.totals.duplicate \in Nat /\ run.totals.parsed \in Nat
      BY <2>1 DEF Totals
    <2>7. Accounted = run.totals.inserted + run.totals.duplicate
      BY <2>1, <2>6, Constants DEF Accounted
    <2>8. Accounted = run.totals.parsed => received \subseteq Stored \cup cut
      BY <1>1, <1>5, <2>1 DEF CollectorInv, AccountInv
    <2>9. LatestInv'
      BY <1>2, <1>5, <2>7, <2>8 DEF LatestInv, Stored
    <2>10. CutInv'
      BY <1>1, <1>2, <1>5, Constants DEF CollectorInv, CutInv, OneStream
    <2>11. QED
      BY <1>3, <2>5, <2>9, <2>10 DEF CollectorInv
  <1>6. QED
    BY <1>1, <1>4, <1>5 DEF RecordRun, Kill

(* The retention takes a row and, from what is said of the runs, its line.       *)
LEMMA PruneStep == CollectorInv /\ Prune => CollectorInv'
  <1>1. SUFFICES ASSUME CollectorInv, Prune PROVE CollectorInv'
    OBVIOUS
  <1>2. PICK removed : removed = {r.line : r \in rows \ rows'}
    OBVIOUS
  <1>3. /\ rows' \subseteq rows /\ received' = received \ removed
        /\ latest' = NoRun \/ latest' = [latest EXCEPT !.received = @ \ removed]
        /\ UNCHANGED <<day, log, offset, run, cut>>
    BY <1>1, <1>2 DEF Prune, Keep
  <1>4. Stored \ removed \subseteq Stored'
    BY <1>2, <1>3 DEF Stored
  <1>5. latest \in Record
    BY <1>1 DEF CollectorInv, TypeOK
  <1>6. latest' = NoRun => latest' \in Record /\ LatestInv' /\ latest'.cut = {}
    BY Constants DEF LatestInv
  <1>7. ASSUME latest' = [latest EXCEPT !.received = @ \ removed]
        PROVE  latest' \in Record /\ LatestInv' /\ latest'.cut = latest.cut
    <2>1. /\ latest' \in Record /\ latest'.totals = latest.totals /\ latest'.cut = latest.cut
          /\ latest'.received = latest.received \ removed
      BY <1>5, <1>7 DEF Record
    <2>2. LatestInv'
      BY <1>1, <1>4, <2>1 DEF CollectorInv, LatestInv
    <2>3. QED
      BY <2>1, <2>2
  <1>8. latest' \in Record /\ LatestInv' /\ (latest'.cut = {} \/ latest'.cut = latest.cut)
    BY <1>3, <1>6, <1>7
  <1>9. TypeOK'
    BY <1>1, <1>3, <1>8 DEF CollectorInv, TypeOK
  <1>10. OneRowEach' /\ InHand' /\ CutInv'
    BY <1>1, <1>3, <1>8 DEF CollectorInv, OneRowEach, InHand, CutInv, OneStream
  <1>11. AccountInv'
    BY <1>1, <1>3, <1>4 DEF CollectorInv, AccountInv, Accounted
  <1>12. QED
    BY <1>8, <1>9, <1>10, <1>11 DEF CollectorInv

LEMMA CollectorInductive == Spec => []CollectorInv
  <1>1. CollectorInv /\ [Next]_vars => CollectorInv'
    BY EnvironmentStep, StartStep, CollectStep, ParseStep, StoreStep, AddUpStep, InterruptStep, EndStep, PruneStep DEF Next
  <1>2. QED
    BY <1>1, CollectorInit, PTL DEF Spec
-------------------------------------------------------------------------------
(* Every variable keeps its type.                                             *)
THEOREM CollectorTypeCorrect == Spec => []TypeOK
  <1>1. CollectorInv => TypeOK
    BY DEF CollectorInv
  <1>2. QED
    BY <1>1, CollectorInductive, PTL

(* A run that says ok, and whose counts add up, has left a row for every line it   *)
(* received, but for those the retention has taken since and those of the one text  *)
(* whose parsing an exception broke off.                                        *)
THEOREM AccountsAreTrue == Spec => []AccountedMeansStored
  <1>1. CollectorInv => AccountedMeansStored
    BY DEF CollectorInv, LatestInv, CutInv, OneStream, AccountedMeansStored, Stored
  <1>2. QED
    BY <1>1, CollectorInductive, PTL

(* The moment a line is dated to never moves once it is known: a line has one row,  *)
(* and a row that is seen again is dated only when it was not.                    *)
THEOREM EpochsAreStable == Spec => EpochStable
  <1> DEFINE Stable == \A r \in rows, s \in rows' : r.line = s.line /\ r.epoch # NoEpoch => s.epoch = r.epoch
  <1>1. CollectorInv /\ [Next]_vars => [Stable]_vars
    <2>1. SUFFICES ASSUME CollectorInv, Next PROVE Stable
      OBVIOUS
    <2>2. CASE rows' \subseteq rows
      BY <2>1, <2>2 DEF CollectorInv, OneRowEach
    <2>3. CASE \E l \in run.lines : StoreEvent(l)
      BY <2>1, <2>3, StoredRows
    <2>4. QED
      BY <2>1, <2>2, <2>3
         DEF Next, Environment, StartRun, Collect, Parse, AddUp, Interrupt, RecordRun, Kill, Prune
  <1>2. QED
    BY <1>1, CollectorInductive, PTL DEF Spec, EpochStable
-------------------------------------------------------------------------------
(* Mining quality: the samples, the newest first, and the life of the miner they    *)
(* were taken from                                                               *)

\* A row of telemetry_samples, as it was when it was recorded.
Sample == [ts : Nat, elapsed : Counter, accepted : Counter, rejected : Counter,
           chains : {"mining", "transition", "not mining"}, boot : Nat, truth : Nat]

QualityTypes ==
    /\ now \in Nat /\ boot \in Nat /\ truth \in Nat
    /\ miner \in [elapsed : Nat, accepted : Nat, rejected : Nat]
    /\ samples \in Seq(Sample)

\* When the miner last started, and how many shares it had rejected by then.
StartedAt == now - miner.elapsed
TruthAtStart == truth - miner.rejected

\* What a row says of the miner as it is now.
Past(r) ==
    /\ r.ts <= now /\ r.boot <= boot /\ r.truth <= truth
    /\ r.boot # boot => r.truth <= TruthAtStart /\ r.ts <= StartedAt
    /\ r.boot = boot /\ r.rejected # None => r.truth - r.rejected = TruthAtStart

\* What a row says of an earlier one.
Follows(new, old) ==
    /\ old.ts <= new.ts
    /\ new.rejected # None /\ old.rejected # None
          => new.rejected - old.rejected <= new.truth - old.truth
    /\ new.boot # old.boot => new.elapsed <= new.ts - old.ts

(* The counters of the miner go back to its last start, and so do those of a row. *)
QualityInv ==
    /\ QualityTypes
    /\ TruthAtStart \in Nat /\ StartedAt \in Nat
    /\ \A i \in 1..Len(samples) :
          /\ Past(samples[i])
          /\ \A j \in i + 1..Len(samples) : Follows(samples[i], samples[j])

LEMMA CounterTypes ==
    /\ None = -1 /\ None \in Counter /\ Nat \subseteq Counter
    /\ \A c \in Counter : c \in Int /\ c >= -1
  BY DEF Counter, None

LEMMA RowTypes ==
    ASSUME QualityInv
    PROVE  QualityTypes /\ samples \in Seq(Sample) /\ Len(samples) \in Nat
  <1>1. QualityTypes
    BY DEF QualityInv
  <1>2. samples \in Seq(Sample)
    BY <1>1 DEF QualityTypes
  <1>3. QED
    BY <1>1, <1>2

LEMMA SampleTypes ==
    ASSUME QualityTypes, NEW i \in 1..Len(samples)
    PROVE  /\ samples[i] \in Sample /\ samples[i].ts \in Nat /\ samples[i].boot \in Nat /\ samples[i].truth \in Nat
           /\ samples[i].elapsed \in Int /\ samples[i].accepted \in Int /\ samples[i].rejected \in Int
           /\ samples[i].rejected >= None /\ samples[i].elapsed >= None
  <1>1. samples[i] \in Sample
    BY DEF QualityTypes
  <1>2. /\ samples[i].ts \in Nat /\ samples[i].boot \in Nat /\ samples[i].truth \in Nat
        /\ samples[i].elapsed \in Counter /\ samples[i].accepted \in Counter
        /\ samples[i].rejected \in Counter
    BY <1>1 DEF Sample
  <1>3. QED
    BY <1>1, <1>2, CounterTypes

LEMMA SampleRecord ==
    ASSUME NEW t \in Nat, NEW e \in Counter, NEW a \in Counter, NEW r \in Counter,
           NEW c \in {"mining", "transition", "not mining"}, NEW b \in Nat, NEW u \in Nat
    PROVE  [ts |-> t, elapsed |-> e, accepted |-> a, rejected |-> r, chains |-> c,
            boot |-> b, truth |-> u] \in Sample
  BY DEF Sample

LEMMA QualityStart == QualityInit => QualityInv
  BY DEF QualityInit, Started, QualityInv, QualityTypes, StartedAt, TruthAtStart

(* The samples stay; the miner goes on, or starts again.                            *)
LEMMA PastStays ==
    ASSUME QualityInv, samples' = samples, QualityTypes', TruthAtStart' \in Nat, StartedAt' \in Nat,
           now <= now', truth <= truth',
           \/ boot' = boot /\ TruthAtStart' = TruthAtStart /\ StartedAt' = StartedAt
           \/ boot' = boot + 1 /\ TruthAtStart' = truth /\ StartedAt' = now'
    PROVE  QualityInv'
  <1>0. /\ now \in Nat /\ now' \in Nat /\ truth \in Nat /\ truth' \in Nat /\ boot \in Nat
        /\ TruthAtStart \in Nat /\ StartedAt \in Nat
    BY DEF QualityInv, QualityTypes
  <1>1. ASSUME NEW i \in 1..Len(samples) PROVE Past(samples[i])'
    <2>1. /\ Past(samples[i]) /\ samples[i].ts \in Nat /\ samples[i].boot \in Nat /\ samples[i].truth \in Nat
          /\ samples[i].rejected \in Int /\ samples'[i] = samples[i]
      BY SampleTypes DEF QualityInv
    <2>2. CASE boot' = boot /\ TruthAtStart' = TruthAtStart /\ StartedAt' = StartedAt
      BY <1>0, <2>1, <2>2 DEF Past
    <2>3. CASE boot' = boot + 1 /\ TruthAtStart' = truth /\ StartedAt' = now'
      <3>1. samples[i].boot < boot' /\ samples[i].ts <= now' /\ samples[i].truth <= truth
        BY <1>0, <2>1, <2>3 DEF Past
      <3>2. samples[i].boot # boot' /\ samples[i].boot <= boot' /\ samples[i].truth <= truth'
        BY <1>0, <2>1, <2>3, <3>1
      <3>3. QED
        BY <2>1, <2>3, <3>1, <3>2 DEF Past
    <2>4. QED
      BY <2>2, <2>3
  <1>2. QED
    BY <1>1 DEF QualityInv, Follows

LEMMA MinerGoesOn ==
    ASSUME QualityInv, (\E accepted, rejected \in 0..1 : Work(accepted, rejected)) \/ Restart
    PROVE  QualityInv'
  <1>0. /\ now \in Nat /\ truth \in Nat /\ boot \in Nat /\ miner \in [elapsed : Nat, accepted : Nat, rejected : Nat]
        /\ miner.elapsed \in Nat /\ miner.accepted \in Nat /\ miner.rejected \in Nat
        /\ truth - miner.rejected \in Nat /\ now - miner.elapsed \in Nat
    BY DEF QualityInv, QualityTypes, TruthAtStart, StartedAt
  <1>1. CASE \E accepted, rejected \in 0..1 : Work(accepted, rejected)
    <2>1. PICK accepted, rejected \in 0..1 : Work(accepted, rejected)
      BY <1>1
    <2>2. /\ now' = now + 1 /\ truth' = truth + rejected /\ boot' = boot /\ samples' = samples
          /\ miner' = [elapsed |-> miner.elapsed + 1, accepted |-> miner.accepted + accepted,
                       rejected |-> miner.rejected + rejected]
      BY <2>1 DEF Work
    <2>3. miner'.elapsed = miner.elapsed + 1 /\ miner'.rejected = miner.rejected + rejected
      BY <2>2
    <2>4. StartedAt' = StartedAt /\ TruthAtStart' = TruthAtStart
      BY <1>0, <2>2, <2>3 DEF StartedAt, TruthAtStart
    <2>5. QualityTypes'
      <3>1. samples \in Seq(Sample)
        BY RowTypes
      <3>2. now' \in Nat /\ boot' \in Nat /\ truth' \in Nat /\ truth <= truth' /\ now <= now'
        BY <1>0, <2>2
      <3>3. miner' \in [elapsed : Nat, accepted : Nat, rejected : Nat]
        BY <1>0, <2>2
      <3>4. QED
        BY <2>2, <3>1, <3>2, <3>3 DEF QualityTypes
    <2>6. TruthAtStart' \in Nat /\ StartedAt' \in Nat /\ now <= now' /\ truth <= truth'
      BY <1>0, <2>2, <2>4 DEF TruthAtStart, StartedAt
    <2>7. QED
      BY <2>2, <2>4, <2>5, <2>6, PastStays
  <1>2. CASE Restart
    <2>1. now' = now + 1 /\ miner' = Started /\ boot' = boot + 1 /\ truth' = truth /\ samples' = samples
      BY <1>2 DEF Restart
    <2>2. miner'.elapsed = 0 /\ miner'.rejected = 0 /\ miner' \in [elapsed : Nat, accepted : Nat, rejected : Nat]
      BY <2>1 DEF Started
    <2>3. StartedAt' = now' /\ TruthAtStart' = truth
      BY <1>0, <2>1, <2>2 DEF StartedAt, TruthAtStart
    <2>4. QualityTypes'
      BY <1>0, <2>1, <2>2 DEF QualityInv, QualityTypes
    <2>5. QED
      BY <1>0, <2>1, <2>3, <2>4, PastStays
  <1>3. QED
    BY <1>1, <1>2

(* A sample of now, in full or in part, and what it says of the samples before it.   *)
LEMMA NewSample ==
    ASSUME QualityInv, NEW chains \in Chains, NEW gap, NEW row, row = Told(gap, chains)
    PROVE  /\ row \in Sample /\ Past(row)
           /\ \A i \in 1..Len(samples) : Follows(row, samples[i])
  <1>0. /\ now \in Nat /\ truth \in Nat /\ boot \in Nat
        /\ miner.elapsed \in Nat /\ miner.accepted \in Nat /\ miner.rejected \in Nat
    BY RowTypes DEF QualityTypes
  <1>1. PICK e, a, r :
          /\ row = [ts |-> now, elapsed |-> e, accepted |-> a, rejected |-> r, chains |-> chains,
                    boot |-> boot, truth |-> truth]
          /\ e \in {miner.elapsed, None} /\ a \in {miner.accepted, None}
          /\ r \in {miner.rejected, None}
    BY DEF Told
  <1>2. /\ row.ts = now /\ row.boot = boot /\ row.truth = truth
        /\ row.elapsed \in {miner.elapsed, None} /\ row.rejected \in {miner.rejected, None}
        /\ row.elapsed \in Int /\ row.rejected \in Int
    BY <1>0, <1>1, CounterTypes
  <1>6. row \in Sample
    <2>1. e \in Counter /\ a \in Counter /\ r \in Counter
      BY <1>0, <1>1, CounterTypes
    <2>2. chains \in {"mining", "transition", "not mining"}
      BY MiningQualityAssumption
    <2>3. row = [ts |-> now, elapsed |-> e, accepted |-> a, rejected |-> r, chains |-> chains,
                 boot |-> boot, truth |-> truth]
      BY <1>1
    <2>4. [ts |-> now, elapsed |-> e, accepted |-> a, rejected |-> r, chains |-> chains,
           boot |-> boot, truth |-> truth] \in Sample
      BY <1>0, <2>1, <2>2, Zenon DEF Sample
    <2>5. QED
      BY <2>3, <2>4
  <1>3. Past(row)
    BY <1>0, <1>2 DEF Past, TruthAtStart
  <1>4. ASSUME NEW i \in 1..Len(samples) PROVE Follows(row, samples[i])
    <2>1. /\ Past(samples[i]) /\ samples[i].ts \in Nat /\ samples[i].boot \in Nat /\ samples[i].truth \in Nat
          /\ samples[i].rejected \in Int /\ samples[i].rejected >= -1
      BY RowTypes, SampleTypes, CounterTypes DEF QualityInv
    <2>2. samples[i].ts <= row.ts
      BY <1>2, <2>1 DEF Past
    <2>3. ASSUME row.rejected # None, samples[i].rejected # None
          PROVE  row.rejected - samples[i].rejected <= row.truth - samples[i].truth
      <3>1. row.rejected = miner.rejected /\ samples[i].rejected >= 0
        BY <1>0, <1>2, <2>1, <2>3, CounterTypes
      <3>2. CASE samples[i].boot = boot
        <4>1. samples[i].truth - samples[i].rejected = truth - miner.rejected
          BY <2>1, <2>3, <3>2 DEF Past, TruthAtStart
        <4>2. \A w, x, y, z \in Int : w - x = y - z => z - x <= y - w
          OBVIOUS
        <4>3. miner.rejected - samples[i].rejected <= truth - samples[i].truth
          BY <1>0, <2>1, <4>1, <4>2
        <4>4. QED
          BY <1>2, <3>1, <4>3
      <3>3. CASE samples[i].boot # boot
        <4>1. samples[i].truth <= truth - miner.rejected
          BY <2>1, <3>3 DEF Past, TruthAtStart
        <4>2. QED
          BY <1>0, <1>2, <2>1, <3>1, <4>1
      <3>4. QED
        BY <3>2, <3>3
    <2>4. ASSUME row.boot # samples[i].boot PROVE row.elapsed <= row.ts - samples[i].ts
      <3>1. samples[i].ts <= now - miner.elapsed
        BY <1>2, <2>1, <2>4 DEF Past, StartedAt
      <3>2. row.elapsed <= miner.elapsed
        BY <1>0, <1>2, CounterTypes
      <3>3. row.elapsed <= now - samples[i].ts
        BY <1>0, <1>2, <2>1, <3>1, <3>2
      <3>4. QED
        BY <1>2, <3>3
    <2>5. QED
      BY <2>2, <2>3, <2>4 DEF Follows
  <1>5. QED
    BY <1>2, <1>3, <1>4, <1>6

LEMMA QualityStep ==
    ASSUME QualityInv, [QualityNext]_qualityVars
    PROVE  QualityInv'
  <1>1. CASE RecordSample
    <2>0. PICK chains \in Chains :
            \E gap \in Gaps :
                samples' = <<Told(gap, chains)>> \o SubSeq(samples, 1,
                    IF Len(samples) < MaxSamples THEN Len(samples) ELSE MaxSamples - 1)
      BY <1>1 DEF RecordSample
    <2>12. PICK gap \in Gaps :
            samples' = <<Told(gap, chains)>> \o SubSeq(samples, 1,
                    IF Len(samples) < MaxSamples THEN Len(samples) ELSE MaxSamples - 1)
      BY <2>0
    <2>1. PICK row : row = Told(gap, chains) /\
            samples' = <<row>> \o SubSeq(samples, 1,
                    IF Len(samples) < MaxSamples THEN Len(samples) ELSE MaxSamples - 1)
      BY <2>12
    <2>2. UNCHANGED <<now, miner, boot, truth>>
      BY <1>1 DEF RecordSample
    <2>3. /\ row \in Sample /\ Past(row)
          /\ \A i \in 1..Len(samples) : Follows(row, samples[i])
      BY <2>1, NewSample
    <2> DEFINE n == IF Len(samples) < MaxSamples THEN Len(samples) ELSE MaxSamples - 1
               kept == SubSeq(samples, 1, n)
    <2>4. samples \in Seq(Sample) /\ Len(samples) \in Nat /\ n \in 0..Len(samples)
      <3>1. MaxSamples \in Nat \ {0}
        BY MiningQualityAssumption
      <3>2. QED
        BY <3>1, RowTypes
    <2>5. samples' = <<row>> \o kept
      BY <2>1
    <2> HIDE DEF n
    <2>6. kept \in Seq(Sample) /\ Len(kept) = n /\ \A i \in 1..n : kept[i] = samples[i]
      BY <2>4, SubSeqProperties
    <2> HIDE DEF kept
    <2>7. <<row>> \in Seq(Sample) /\ Len(<<row>>) = 1 /\ <<row>>[1] = row
      BY <2>3
    <2>8. /\ samples' \in Seq(Sample) /\ Len(samples') = n + 1
          /\ \A i \in 1..n + 1 : samples'[i] = IF i = 1 THEN row ELSE samples[i - 1]
      <3>1. /\ <<row>> \o kept \in Seq(Sample) /\ Len(<<row>> \o kept) = 1 + n
            /\ \A i \in 1..1 + n : (<<row>> \o kept)[i] = IF i <= 1 THEN <<row>>[1] ELSE kept[i - 1]
        BY <2>4, <2>6, <2>7, ConcatProperties
      <3>2. QED
        BY <2>4, <2>5, <2>6, <2>7, <3>1
    <2>9. ASSUME NEW i \in 1..Len(samples')
          PROVE  /\ Past(samples'[i])
                 /\ \A j \in i + 1..Len(samples') : Follows(samples'[i], samples'[j])
      <3>1. CASE i = 1
        <4>1. \A j \in i + 1..Len(samples') : samples'[j] = samples[j - 1] /\ j - 1 \in 1..Len(samples)
          BY <2>4, <2>8, <3>1
        <4>2. QED
          BY <2>3, <2>4, <2>8, <3>1, <4>1
      <3>2. CASE i # 1
        <4>1. i - 1 \in 1..Len(samples) /\ samples'[i] = samples[i - 1]
          BY <2>4, <2>8, <3>2
        <4>2. \A j \in i + 1..Len(samples') : samples'[j] = samples[j - 1] /\ j - 1 \in (i - 1) + 1..Len(samples)
          BY <2>4, <2>8, <3>2
        <4>3. QED
          BY <4>1, <4>2 DEF QualityInv
      <3>3. QED
        BY <3>1, <3>2
    <2>10. TruthAtStart' = TruthAtStart /\ StartedAt' = StartedAt /\ QualityTypes'
      BY <2>2, <2>8 DEF QualityInv, QualityTypes, TruthAtStart, StartedAt
    <2>11. QED
      BY <2>2, <2>9, <2>10 DEF QualityInv, Past
  <1>2. CASE UNCHANGED qualityVars
    BY <1>2 DEF qualityVars, QualityInv, QualityTypes, Past, Follows, TruthAtStart, StartedAt
  <1>3. QED
    BY <1>1, <1>2, MinerGoesOn DEF QualityNext

(* What a delta says that is one.                                               *)
Hidden(new, old) ==
    /\ new.accepted >= old.accepted /\ new.rejected >= old.rejected
    /\ None \in {new.elapsed, old.elapsed} \/ old.elapsed <= new.ts - old.ts

LEMMA DeltaSays ==
    ASSUME QualityInv, NEW i \in 1..Len(samples) - 1
    PROVE  /\ Delta(i).accepted # None =>
                /\ Delta(i).rejected = samples[i].rejected - samples[i + 1].rejected
                /\ samples[i].rejected # None /\ samples[i + 1].rejected # None
           /\ IsComparable(Delta(i)) =>
                samples[i].boot = samples[i + 1].boot \/ Hidden(samples[i], samples[i + 1])
  <1> DEFINE new == samples[i]
             old == samples[i + 1]
  <1>1. /\ i \in 1..Len(samples) /\ i + 1 \in 1..Len(samples) /\ i + 1 \in i + 1..Len(samples)
    BY RowTypes
  <1>2. /\ Follows(new, old) /\ new.rejected \in Int /\ old.rejected \in Int /\ new.elapsed \in Int
        /\ old.elapsed \in Int /\ new.ts \in Nat /\ old.ts \in Nat /\ None = -1
        /\ new.accepted \in Int /\ old.accepted \in Int
    BY <1>1, RowTypes, SampleTypes, CounterTypes DEF QualityInv
  <1>3. Delta(i) = PairDelta(new, old)
    BY DEF Delta
  <1> HIDE DEF new, old
  <1>4. CASE CounterReset(new, old)
    <2>1. Delta(i).reset = TRUE /\ Delta(i).accepted = None
      BY <1>3, <1>4 DEF PairDelta, NoDelta
    <2>2. QED
      BY <2>1 DEF IsComparable
  <1>5. CASE ~CounterReset(new, old) /\ CountersMissing(new, old)
    <2>1. Delta(i).accepted = None
      BY <1>3, <1>5 DEF PairDelta, NoDelta
    <2>2. QED
      BY <2>1 DEF IsComparable
  <1>6. CASE ~CounterReset(new, old) /\ ~CountersMissing(new, old)
    <2>1. /\ new.rejected # None /\ old.rejected # None /\ new.accepted # None
          /\ old.accepted # None
      BY <1>6 DEF CountersMissing
    <2>2. Delta(i).rejected = AsZero(new.rejected) - AsZero(old.rejected)
      BY <1>3, <1>6 DEF PairDelta
    <2>3. Delta(i).rejected = new.rejected - old.rejected
      BY <2>1, <2>2 DEF AsZero
    <2>4. ASSUME new.boot # old.boot PROVE Hidden(new, old)
      <3>1. new.accepted >= old.accepted /\ new.rejected >= old.rejected
        BY <1>2, <1>6, <2>1 DEF CounterReset, CountersReset, Less
      <3>2. ASSUME new.elapsed # None, old.elapsed # None PROVE old.elapsed <= new.ts - old.ts
        <4>1. old.elapsed <= new.elapsed
          BY <1>2, <1>6, <3>2 DEF CounterReset, Less
        <4>2. QED
          BY <1>2, <2>4, <4>1 DEF Follows
      <3>3. QED
        BY <3>1, <3>2 DEF Hidden
    <2>5. QED
      BY <2>1, <2>3, <2>4 DEF new, old
  <1>7. QED
    BY <1>4, <1>5, <1>6

(* A growth of bad work that is reported has happened: between no two samples    *)
(* does the interval show more rejected shares than the miner rejected, whenever  *)
(* it started over and whatever the samples left out (mining_quality.py:234-284). *)
THEOREM ReportedRejectsAreReal == QualitySpec => []RejectsAreReal
  <1>1. ASSUME QualityInv PROVE RejectsAreReal
    <2>1. ASSUME LatestDelta.accepted # None
          PROVE  LatestDelta.rejected <= samples[1].truth - samples[2].truth
      <3>1. Len(samples) > 1 /\ LatestDelta = Delta(1)
        BY <2>1 DEF LatestDelta, NoDelta
      <3>2. 1 \in 1..Len(samples) - 1 /\ 1 \in 1..Len(samples) /\ 2 \in 1 + 1..Len(samples)
        BY <1>1, <3>1, RowTypes
      <3>3. Follows(samples[1], samples[2])
        BY <1>1, <3>2 DEF QualityInv
      <3>4. QED
        BY <1>1, <2>1, <3>1, <3>2, <3>3, DeltaSays DEF Follows
    <2>2. QED
      BY <2>1 DEF RejectsAreReal
  <1>2. QED
    BY <1>1, QualityStart, QualityStep, PTL DEF QualitySpec

\* The least of a set of numbers.
LEMMA LeastNat ==
    ASSUME NEW T, T \subseteq Nat, T # {}
    PROVE  \E x \in T : \A y \in T : x <= y
  <1> DEFINE R == OpToRel(<, Nat)
  <1>1. IsWellFoundedOn(R, Nat)
    BY NatLessThanWellFounded
  <1>2. \A a, b \in Nat : a < b => <<a, b>> \in R
    BY DEF OpToRel
  <1> HIDE DEF R
  <1>3. PICK x \in T : \A y \in T : ~(<<y, x>> \in R)
    BY <1>1, WFMin
  <1>4. ASSUME NEW y \in T PROVE x <= y
    <2>1. x \in Nat /\ y \in Nat
      OBVIOUS
    <2>2. ~(y < x)
      BY <1>2, <1>3, <2>1
    <2>3. QED
      BY <2>1, <2>2
  <1>5. QED
    BY <1>4


(* The intervals a miner is judged by: all before the first that is broken.      *)
LEMMA JudgedIntervals ==
    ASSUME QualityInv, Judgement = "stable"
    PROVE  /\ Len(samples) > MinIntervals
           /\ \A i \in 1..MinIntervals : IsComparable(Delta(i))
  <1>1. Len(samples) \in Nat /\ MinIntervals \in Nat \ {0}
    BY MiningQualityAssumption, RowTypes
  <1>2. ~(ComparableIntervals < MinIntervals)
    BY DEF Judgement
  <1>3. CASE Broken = {}
    <2>1. ComparableIntervals = Len(samples) - 1
      BY <1>3 DEF ComparableIntervals
    <2>2. Len(samples) > MinIntervals
      BY <1>1, <1>2, <2>1
    <2>3. \A i \in 1..Len(samples) - 1 : IsComparable(Delta(i))
      BY <1>3 DEF Broken
    <2>4. QED
      BY <1>1, <2>2, <2>3
  <1>4. CASE Broken # {}
    <2> DEFINE first == CHOOSE i \in Broken : \A j \in Broken : i <= j
    <2>1. Broken \subseteq Nat /\ Broken \subseteq 1..Len(samples) - 1
      BY <1>1 DEF Broken
    <2>2. \E i \in Broken : \A j \in Broken : i <= j
      BY <1>4, <2>1, LeastNat
    <2>3. first \in Broken /\ \A j \in Broken : first <= j
      BY <2>2
    <2>4. ComparableIntervals = first - 1
      BY <1>4 DEF ComparableIntervals
    <2> HIDE DEF first
    <2>5. first \in 1..Len(samples) - 1 /\ first > MinIntervals
      BY <1>1, <1>2, <2>1, <2>3, <2>4
    <2>6. \A i \in 1..MinIntervals : i \in 1..Len(samples) - 1 /\ i \notin Broken
      BY <1>1, <2>1, <2>3, <2>5
    <2>7. QED
      BY <1>1, <2>5, <2>6 DEF Broken
  <1>5. QED
    BY <1>3, <1>4

(* A restart hides in the intervals a miner is called stable by only when the miner  *)
(* has since made as many shares of each kind as before it, and, when both samples   *)
(* tell how long it was up, had been up no longer than the interval is.             *)
THEOREM StableHidesNoRestart == QualitySpec => []RestartCannotHide
  <1>1. ASSUME QualityInv PROVE RestartCannotHide
    <2>1. ASSUME Judgement = "stable", NEW i \in 1..MinIntervals
          PROVE  samples[i].boot = samples[i + 1].boot \/ Hidden(samples[i], samples[i + 1])
      <3>1. Len(samples) > MinIntervals /\ IsComparable(Delta(i))
        BY <1>1, <2>1, JudgedIntervals
      <3>2. Len(samples) \in Nat /\ MinIntervals \in Nat
        BY <1>1, MiningQualityAssumption, RowTypes
      <3>3. i \in 1..Len(samples) - 1
        BY <3>1, <3>2
      <3>4. QED
        BY <1>1, <3>1, <3>3, DeltaSays
    <2>2. QED
      BY <1>1, <2>1, JudgedIntervals DEF RestartCannotHide, Hidden
  <1>2. QED
    BY <1>1, QualityStart, QualityStep, PTL DEF QualitySpec
===============================================================================
