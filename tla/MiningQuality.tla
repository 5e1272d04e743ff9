------------------------------ MODULE MiningQuality -----------------------------
(***************************************************************************)
(* The quality of a miner's work, as src/app/mining_quality.py judges it by    *)
(* the samples the monitor records on every tick (src/app/event_store.py).     *)
(* The miner counts shares from its last start on; the samples come when the    *)
(* monitor runs and the miner answers, and the judgement must not take the      *)
(* loss of a sample or a restart for bad work, nor the reverse.               *)
(*                                                                         *)
(* Two counters stand for all: accepted, and rejected, which stale shares and   *)
(* hardware errors are treated like.                                        *)
(***************************************************************************)
EXTENDS Integers, Sequences, FiniteSets

CONSTANTS
    MinIntervals,     \* quality_min_intervals
    RejectWarning,    \* percent
    NoShareWarning,   \* time without a share
    MaxSamples,       \* rows a judgement looks at
    Chains,           \* what the samples may tell of the chains
    Gaps,             \* the sets of values an answer may come without
    MaxNow, MaxShares, MaxRestarts   \* bounds

ASSUME MiningQualityAssumption ==
    /\ MinIntervals \in Nat \ {0} /\ RejectWarning \in Nat /\ NoShareWarning \in Nat
    /\ MaxSamples \in Nat \ {0} /\ Chains \subseteq {"mining", "transition", "not mining"}
    /\ Gaps \subseteq SUBSET {"elapsed", "accepted", "rejected"}
    /\ MaxNow \in Nat /\ MaxShares \in Nat /\ MaxRestarts \in Nat

None == -1
Counter == Nat \cup {None}
-------------------------------------------------------------------------------
VARIABLES
    now,
    miner,    \* [elapsed, accepted, rejected]: since its last start
    samples,  \* telemetry_samples, the newest first
    (* observation variables *)
    boot,     \* starts of the miner
    truth     \* shares it ever rejected

qualityVars == <<now, miner, samples, boot, truth>>

Started == [elapsed |-> 0, accepted |-> 0, rejected |-> 0]

QualityInit == now = 0 /\ miner = Started /\ samples = <<>> /\ boot = 1 /\ truth = 0

\* Time passes, and the miner works.
Work(accepted, rejected) ==
    /\ now < MaxNow /\ now' = now + 1
    /\ miner.accepted + miner.rejected + accepted + rejected <= MaxShares
    /\ miner' = [elapsed |-> miner.elapsed + 1, accepted |-> miner.accepted + accepted,
                 rejected |-> miner.rejected + rejected]
    /\ truth' = truth + rejected
    /\ UNCHANGED <<samples, boot>>

\* The miner starts again, and counts from zero.
Restart ==
    /\ now < MaxNow /\ now' = now + 1 /\ boot <= MaxRestarts
    /\ miner' = Started /\ boot' = boot + 1
    /\ UNCHANGED <<samples, truth>>

\* normalize_mining_quality: a counter that is no whole number is none at all, each on its own.
Told(gap, chains) ==
    LET Value(name, value) == IF name \in gap THEN None ELSE value
    IN  [ts |-> now, elapsed |-> Value("elapsed", miner.elapsed),
         accepted |-> Value("accepted", miner.accepted),
         rejected |-> Value("rejected", miner.rejected),
         chains |-> chains, boot |-> boot, truth |-> truth]

\* record_sample: the miner has answered in full, with some of its counters, or not at all.  A tick
\* whose sample was refused, or that was late, has no row.
RecordSample ==
    /\ \A i \in DOMAIN samples : samples[i].ts < now
    /\ \E chains \in Chains, gap \in Gaps :
          samples' = <<Told(gap, chains)>> \o
                     SubSeq(samples, 1,
                            IF Len(samples) < MaxSamples THEN Len(samples) ELSE MaxSamples - 1)
    /\ UNCHANGED <<now, miner, boot, truth>>
-------------------------------------------------------------------------------
(* The judgement *)

Less(a, b) == a # None /\ b # None /\ a < b

CountersReset(new, old) == Less(new.accepted, old.accepted) \/ Less(new.rejected, old.rejected)
CounterReset(new, old) == Less(new.elapsed, old.elapsed) \/ CountersReset(new, old)

AsZero(counter) == IF counter = None THEN 0 ELSE counter

\* Mutant: an absent counter is read as zero.
NeverMissing(new, old) == FALSE

CountersMissing(new, old) == None \in {new.accepted, new.rejected, old.accepted, old.rejected}

\* _pair_delta; None in accepted for a delta that says nothing.
NoDelta == [reset |-> FALSE, accepted |-> None, rejected |-> None, interval |-> None]

PairDelta(new, old) ==
    IF CounterReset(new, old) THEN [NoDelta EXCEPT !.reset = TRUE]
    ELSE IF CountersMissing(new, old) THEN NoDelta
    ELSE [reset |-> FALSE,
          accepted |-> AsZero(new.accepted) - AsZero(old.accepted),
          rejected |-> AsZero(new.rejected) - AsZero(old.rejected),
          interval |-> IF new.elapsed # None /\ old.elapsed # None
                       THEN new.elapsed - old.elapsed ELSE new.ts - old.ts]

IsComparable(delta) == ~delta.reset /\ delta.accepted # None /\ delta.interval > 0

Delta(i) == PairDelta(samples[i], samples[i + 1])
LatestDelta == IF Len(samples) > 1 THEN Delta(1) ELSE NoDelta

Broken == {i \in 1..Len(samples) - 1 : ~IsComparable(Delta(i))}

\* Mutant: an interval counts whether its counters can be compared or not.
AllComparable == Len(samples) - 1 - Cardinality(Broken)

\* The intervals before the first that cannot be compared.
ComparableIntervals ==
    IF Broken = {} THEN Len(samples) - 1
    ELSE (CHOOSE i \in Broken : \A j \in Broken : i <= j) - 1

Shares(delta) == delta.accepted + delta.rejected

Watch ==
    \/ samples[1].chains = "transition"
    \/ /\ LatestDelta.accepted # None
       /\ \/ Shares(LatestDelta) > 0 /\ LatestDelta.rejected * 100 >= RejectWarning * Shares(LatestDelta)
          \/ Shares(LatestDelta) = 0 /\ LatestDelta.interval >= NoShareWarning

\* analyze_mining_quality.
Judgement ==
    IF samples = <<>> THEN "learning"
    ELSE IF samples[1].chains = "not mining" THEN "critical"
    ELSE IF Watch THEN "watch"
    ELSE IF ~IsComparable(LatestDelta) \/ ComparableIntervals < MinIntervals THEN "learning"
    ELSE "stable"
-------------------------------------------------------------------------------
QualityNext ==
    \/ \E accepted, rejected \in 0..1 : Work(accepted, rejected)
    \/ Restart \/ RecordSample

QualitySpec == QualityInit /\ [][QualityNext]_qualityVars
-------------------------------------------------------------------------------
(* A growth of bad work that is reported has happened: the interval never shows more rejected
   shares than the miner rejected between its two samples, though counters start over and
   samples arrive without them (mining_quality.py:234-284). *)
RejectsAreReal ==
    LatestDelta.accepted # None => LatestDelta.rejected <= samples[1].truth - samples[2].truth

(* A restart hides in an interval a miner is called stable by only when the miner has since made
   as many shares of each kind as before it, and was up before it no longer than the interval is;
   the second only when both samples tell how long the miner was up: without that the length of
   the interval is taken from the times of the samples, which no restart shortens
   (mining_quality.py:249-272, 332-339, 439-450). *)
RestartCannotHide ==
    Judgement = "stable" =>
        /\ Len(samples) > MinIntervals
        /\ \A i \in 1..MinIntervals :
              LET new == samples[i]
                  old == samples[i + 1]
              IN  \/ new.boot = old.boot
                  \/ /\ new.accepted >= old.accepted /\ new.rejected >= old.rejected
                     /\ None \in {new.elapsed, old.elapsed} \/ old.elapsed <= new.ts - old.ts
===============================================================================
