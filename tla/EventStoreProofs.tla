---------------------------- MODULE EventStoreProofs ---------------------------
(* Theorems about what src/app/event_store.py and its backup keep, for any number  *)
(* of processes, generations, miners and rows, any policy and every fault.        *)
(* Backup: the lock keeps backup runs apart, what they promote is whole, and       *)
(* retention takes none of what its policy protects.  EventLog: an id names one    *)
(* event, and the history of an event is that of its outage.                      *)
EXTENDS Backup, EventLog, FiniteSetTheorems, TLAPS

LEMMA Constants ==
    /\ MaxId \in Nat /\ MaxDay \in Nat /\ MaxFaults \in Nat
    /\ NoId \notin Ids /\ NoDir \in Dir /\ NoManifest \in Manifest
  <1>1. MaxId \in Nat /\ MaxDay \in Nat /\ MaxFaults \in Nat
    BY BackupAssumption DEF BackupAssumption
  <1>2. QED
    BY <1>1 DEF Ids, NoId, NoDir, Dir, NoManifest, Manifest, File

Run == [at : {"idle", "create"} \cup Holding, id : Ids \cup {NoId}, dir : Dir,
        answer : {"none", "verified", "failed", "skipped_locked", "raised"}]

Drill == [at : {"idle", "hash", "db", "manifest", "verdict"}, id : Ids \cup {NoId},
          manifest : Manifest, answer : {"none", "passed", "failed"}, sound : BOOLEAN]

LEMMA BackupInit == Init => TypeOK
  <1>1. SUFFICES ASSUME Init PROVE TypeOK
    OBVIOUS
  <1>2. Asleep \in Run /\ AtEase \in Drill /\ Asleep.at \notin Holding
    BY Constants DEF Asleep, AtEase, Run, Drill, Holding
  <1>3. /\ writer \in [Writers -> Run] /\ drill \in Drill /\ verified \in [Ids -> Dir]
        /\ \A w \in Writers : writer[w].at \notin Holding
    BY <1>1, <1>2, Constants DEF Init
  <1>4. /\ day \in 0..MaxDay /\ nextId \in 1..MaxId + 1 /\ faults \in 0..MaxFaults
        /\ lock \in Writers \cup {NoOne} /\ doomed \subseteq Ids /\ target \in Dir
        /\ promoted \subseteq [id : Ids, completed : 0..MaxDay]
        /\ rotted \subseteq Ids /\ touched \subseteq Ids
    BY <1>1, Constants DEF Init
  <1>5. QED
    BY <1>3, <1>4 DEF TypeOK, Run, Drill

-------------------------------------------------------------------------------
(* The runs and their lock                                                      *)

Working == {"copy", "check", "manifest", "promote"}

\* What a run has made of its temporary directory when it comes to the next stage.
MadeSoFar(r) ==
    /\ r.at \in Working => r.id \in Ids
    /\ r.at \in {"check", "manifest", "promote"} => r.dir.db = "whole"
    /\ r.at = "promote" => r.dir.manifest.sha = "whole" /\ r.dir.manifest.completed \in 0..MaxDay

RunInv == \A w \in Writers : MadeSoFar(writer[w])

\* A drill in progress has a generation.
DrillInv == drill.at # "idle" => drill.id \in Ids

HasLock(w) == writer[w].at \in Holding => lock = w

LEMMA RunTypes ==
    ASSUME TypeOK
    PROVE  writer \in [Writers -> Run] /\ \A w \in Writers : HasLock(w)
  BY DEF TypeOK, Run, HasLock

(* One run moves; the lock is its own, or free of the others, if it changes.     *)
LEMMA OneRunMoves ==
    ASSUME TypeOK, RunInv, NEW w \in Writers, NEW r \in Run,
           writer' = [writer EXCEPT ![w] = r],
           MadeSoFar(r), r.at \in Holding => lock' = w,
           lock' = lock \/ lock \in {w, NoOne}
    PROVE  /\ writer' \in [Writers -> Run] /\ RunInv'
           /\ \A v \in Writers : HasLock(v)'
  <1>1. writer' \in [Writers -> Run] /\ \A v \in Writers : writer'[v] = IF v = w THEN r ELSE writer[v]
    BY RunTypes
  <1>2. ASSUME NEW v \in Writers PROVE HasLock(v)'
    <2>1. HasLock(v) /\ v # NoOne
      BY RunTypes, BackupAssumption DEF BackupAssumption, NoOne
    <2>2. QED
      BY <1>1, <2>1 DEF HasLock
  <1>3. RunInv'
    BY <1>1 DEF RunInv, MadeSoFar
  <1>4. QED
    BY <1>1, <1>2, <1>3

\* The actions of a run.
RunOf(w) ==
    \/ Look(w) \/ Create(w) \/ Copy(w) \/ CheckCopy(w) \/ WriteManifest(w) \/ Promote(w)
    \/ Unlock(w) \/ Breaks(w) \/ Kill(w)

(* A run that answers forgets its generation.                                    *)
LEMMA Answered ==
    ASSUME TypeOK, NEW w \in Writers, NEW at \in {"idle", "create", "unlock"},
           NEW answer \in {"none", "verified", "failed", "skipped_locked", "raised"}
    PROVE  /\ [Asleep EXCEPT !.at = at, !.answer = answer] \in Run
           /\ [Asleep EXCEPT !.at = at, !.answer = answer].at = at
           /\ MadeSoFar([Asleep EXCEPT !.at = at, !.answer = answer])
  BY Constants DEF Run, Asleep, MadeSoFar, Working, Holding

LEMMA RunMoves ==
    ASSUME TypeOK, RunInv, NEW w \in Writers, RunOf(w)
    PROVE  \E r \in Run :
              /\ writer' = [writer EXCEPT ![w] = r]
              /\ MadeSoFar(r) /\ (r.at \in Holding => lock' = w)
              /\ lock' = lock \/ lock \in {w, NoOne}
  <1>0. /\ writer[w] \in Run /\ HasLock(w) /\ MadeSoFar(writer[w]) /\ writer \in [Writers -> Run]
    BY RunTypes DEF RunInv
  <1>1. CASE Look(w)
    BY <1>1, Answered DEF Look, Answers, Holding
  <1>2. CASE Create(w)
    <2>1. CASE Exclusive
      <3> DEFINE r == [writer[w] EXCEPT !.at = "copy", !.id = nextId, !.dir.db = "partial"]
      <3>1. nextId \in Ids
        BY <1>2 DEF Create, TypeOK, Ids
      <3>2. r \in Run /\ r.at = "copy" /\ r.id = nextId
        BY <1>0, <3>1 DEF Run, Holding, Dir, File
      <3>3. writer' = [writer EXCEPT ![w] = r] /\ lock' = w /\ lock = NoOne
        BY <1>0, <1>2, <2>1 DEF Create, Exclusive
      <3>4. MadeSoFar(r)
        BY <3>1, <3>2 DEF MadeSoFar
      <3>5. QED
        BY <3>2, <3>3, <3>4
    <2>2. CASE ~Exclusive
      BY <1>2, <2>2, Answered DEF Create, Answers, Holding
    <2>3. QED
      BY <2>1, <2>2
  <1>3. CASE Copy(w)
    <2> DEFINE r == [writer[w] EXCEPT !.at = "check", !.dir.db = "whole"]
    <2>1. r \in Run /\ r.at = "check" /\ r.id = writer[w].id /\ r.dir.db = "whole"
      BY <1>0 DEF Run, Holding, Dir, File
    <2>2. writer' = [writer EXCEPT ![w] = r] /\ lock' = lock /\ writer[w].at = "copy"
      BY <1>0, <1>3 DEF Copy
    <2>3. MadeSoFar(r) /\ lock = w
      BY <1>0, <2>1, <2>2 DEF MadeSoFar, HasLock, Holding, Working
    <2>4. QED
      BY <2>1, <2>2, <2>3
  <1>4. CASE CheckCopy(w)
    <2>1. writer[w].at = "check" /\ lock' = lock /\ lock = w
      BY <1>0, <1>4 DEF CheckCopy, HasLock, Holding
    <2>2. CASE Goes(w, "manifest")
      <3> DEFINE r == [writer[w] EXCEPT !.at = "manifest"]
      <3>1. r \in Run /\ r.at = "manifest" /\ r.id = writer[w].id /\ r.dir = writer[w].dir
        BY <1>0 DEF Run, Holding
      <3>2. MadeSoFar(r) /\ writer' = [writer EXCEPT ![w] = r]
        BY <1>0, <2>1, <2>2, <3>1 DEF MadeSoFar, Working, Goes
      <3>3. QED
        BY <2>1, <3>1, <3>2
    <2>3. CASE Answers(w, "failed", "unlock")
      BY <2>1, <2>3, Answered DEF Answers
    <2>4. QED
      BY <1>4, <2>2, <2>3 DEF CheckCopy
  <1>5. CASE WriteManifest(w)
    <2> DEFINE r == [writer[w] EXCEPT !.at = "promote", !.dir = Described(writer[w].dir)]
    <2>1. writer[w].at = "manifest" /\ lock' = lock /\ lock = w /\ writer' = [writer EXCEPT ![w] = r]
      BY <1>0, <1>5 DEF WriteManifest, HasLock, Holding
    <2>2. writer[w].dir \in Dir /\ writer[w].dir.db = "whole" /\ writer[w].id \in Ids /\ day \in 0..MaxDay
      BY <1>0, <2>1 DEF MadeSoFar, Working, Run, TypeOK
    <2>3. /\ Described(writer[w].dir) \in Dir
          /\ Described(writer[w].dir).db = "whole"
          /\ Described(writer[w].dir).manifest = [completed |-> day, sha |-> "whole"]
      BY <2>2, Constants DEF Described, Dir, Manifest, File
    <2>4. r \in Run /\ r.at = "promote" /\ r.id = writer[w].id /\ r.dir = Described(writer[w].dir)
      BY <1>0, <2>3 DEF Run, Holding
    <2>5. MadeSoFar(r)
      BY <2>2, <2>3, <2>4 DEF MadeSoFar
    <2>6. QED
      BY <2>1, <2>4, <2>5
  <1>6. CASE Promote(w)
    <2>1. lock' = lock /\ lock = w
      BY <1>0, <1>6 DEF Promote, Finished, HasLock, Holding
    <2>2. QED
      BY <1>6, <2>1, Answered DEF Promote, Answers
  <1>7. CASE Unlock(w)
    <2> DEFINE r == [writer[w] EXCEPT !.at = "idle"]
    <2>1. r \in Run /\ r.at = "idle"
      BY <1>0 DEF Run
    <2>2. writer' = [writer EXCEPT ![w] = r] /\ lock = w
      BY <1>0, <1>7 DEF Unlock, Goes, HasLock, Holding
    <2>3. MadeSoFar(r) /\ r.at \notin Holding
      BY <2>1 DEF MadeSoFar, Working, Holding
    <2>4. QED
      BY <2>1, <2>2, <2>3
  <1>8. CASE Breaks(w)
    <2>1. lock' = lock /\ lock = w
      BY <1>0, <1>8 DEF Breaks, HasLock
    <2>2. PICK answer \in {"skipped_locked", "raised"} :
            writer' = [writer EXCEPT ![w] = [Asleep EXCEPT !.at = "unlock", !.answer = answer]]
      BY <1>8 DEF Breaks, Answers
    <2>3. QED
      BY <2>1, <2>2, Answered
  <1>9. CASE Kill(w)
    <2>1. Asleep \in Run /\ MadeSoFar(Asleep) /\ Asleep.at \notin Holding
      BY Constants DEF Asleep, Run, MadeSoFar, Working, Holding
    <2>2. QED
      BY <1>9, <2>1 DEF Kill
  <1>10. QED
    BY <1>1, <1>2, <1>3, <1>4, <1>5, <1>6, <1>7, <1>8, <1>9 DEF RunOf
(* What a run does to the types of everything else.                              *)
LEMMA RunStep ==
    ASSUME TypeOK, RunInv, NEW w \in Writers, RunOf(w)
    PROVE  TypeOK' /\ RunInv'
  <1>1. PICK r \in Run :
          /\ writer' = [writer EXCEPT ![w] = r]
          /\ MadeSoFar(r) /\ (r.at \in Holding => lock' = w)
          /\ lock' = lock \/ lock \in {w, NoOne}
    BY RunMoves
  <1>2. /\ writer' \in [Writers -> Run] /\ RunInv' /\ \A v \in Writers : HasLock(v)'
    BY <1>1, OneRunMoves
  <1>3. UNCHANGED <<day, doomed, drill, target, rotted, touched>>
    BY DEF RunOf, Look, Create, Copy, CheckCopy, WriteManifest, Promote, Unlock, Breaks, Kill, KeepRest
  <1>4. lock' \in Writers \cup {NoOne}
    BY DEF RunOf, Look, Create, Copy, CheckCopy, WriteManifest, Promote, Unlock, Breaks, Kill, TypeOK
  <1>5. nextId' \in 1..MaxId + 1
    BY Constants DEF RunOf, Look, Create, Copy, CheckCopy, WriteManifest, Promote, Unlock, Breaks, Kill, TypeOK
  <1>6. faults' \in 0..MaxFaults
    BY Constants DEF RunOf, Look, Create, Copy, CheckCopy, WriteManifest, Promote, Unlock, Breaks, Kill,
                     Fault, TypeOK
  <1>7. verified' \in [Ids -> Dir] /\ promoted' \subseteq [id : Ids, completed : 0..MaxDay]
    <2>1. CASE Promote(w)
      <3>1. /\ writer[w] \in Run /\ MadeSoFar(writer[w]) /\ writer[w].at = "promote"
        BY <2>1, RunTypes DEF Promote, Finished, RunInv
      <3>2. writer[w].id \in Ids /\ writer[w].dir \in Dir /\ writer[w].dir.manifest.completed \in 0..MaxDay
        BY <3>1 DEF MadeSoFar, Working, Run
      <3>3. QED
        BY <2>1, <3>2 DEF Promote, TypeOK
    <2>2. CASE ~Promote(w)
      <3>1. UNCHANGED <<verified, promoted>>
        BY <2>2 DEF RunOf, Look, Create, Copy, CheckCopy, WriteManifest, Unlock, Breaks, Kill
      <3>2. QED
        BY <3>1 DEF TypeOK
    <2>3. QED
      BY <2>1, <2>2
  <1>8. QED
    BY <1>2, <1>3, <1>4, <1>5, <1>6, <1>7 DEF TypeOK, Run, HasLock

-------------------------------------------------------------------------------
(* Retention, drills, the disk and the clock leave the runs alone.               *)

Elsewhere ==
    \/ NextDay \/ ListGenerations \/ Delete \/ KillRetention
    \/ HashDb \/ CopyDb \/ CopyManifest \/ Verdict \/ ClearTarget
    \/ \E g \in Ids : StartDrill(g) \/ Rot(g)

LEMMA RetentionTypes ==
    ASSUME TypeOK
    PROVE  /\ Selected \subseteq Ids
           /\ \A g \in Ids : Emptied(verified[g]) \subseteq Dir
  <1>1. \A g \in Records : g.id \in Ids
    BY DEF Records
  <1>2. Selected \subseteq Ids
    BY <1>1 DEF Selected
  <1>3. ASSUME NEW g \in Ids, NEW dir \in Emptied(verified[g]) PROVE dir \in Dir
    <2>1. verified[g] \in Dir /\ "absent" \in File
      BY DEF TypeOK, File
    <2>2. dir = [verified[g] EXCEPT !.db = "absent"] \/ dir = [verified[g] EXCEPT !.manifest = NoManifest]
      BY <1>3 DEF Emptied
    <2>3. QED
      BY <2>1, <2>2, Constants DEF Dir
  <1>4. QED
    BY <1>2, <1>3

LEMMA ElsewhereStep ==
    ASSUME TypeOK, RunInv, DrillInv, Elsewhere
    PROVE  TypeOK' /\ RunInv' /\ DrillInv'
  <1>1. UNCHANGED <<nextId, lock, writer, promoted>>
    BY DEF Elsewhere, NextDay, ListGenerations, Delete, KillRetention, HashDb, CopyDb, CopyManifest,
           Verdict, ClearTarget, StartDrill, Rot, KeepRun, KeepBackups
  <1>2. RunInv' /\ writer' \in [Writers -> Run] /\ \A v \in Writers : HasLock(v)'
    BY <1>1, RunTypes DEF RunInv, HasLock
  <1>3. day' \in 0..MaxDay /\ faults' \in 0..MaxFaults
    BY Constants DEF Elsewhere, NextDay, ListGenerations, Delete, KillRetention, HashDb, CopyDb, CopyManifest,
           Verdict, ClearTarget, StartDrill, Rot, KeepRun, KeepBackups, Fault, TypeOK
  <1>4. doomed' \subseteq Ids /\ touched' \subseteq Ids /\ rotted' \subseteq Ids
    BY RetentionTypes DEF Elsewhere, NextDay, ListGenerations, Delete, KillRetention, HashDb, CopyDb,
           CopyManifest, Verdict, ClearTarget, StartDrill, Rot, KeepRun, KeepBackups, TypeOK
  <1>5. verified' \in [Ids -> Dir]
    <2>1. CASE Delete
      <3>1. CASE UNCHANGED verified
        BY <3>1 DEF TypeOK
      <3>2. CASE \E g \in doomed : \E dir \in Emptied(verified[g]) : verified' = [verified EXCEPT ![g] = dir]
        BY <3>2, RetentionTypes DEF TypeOK
      <3>3. QED
        BY <2>1, <3>1, <3>2 DEF Delete
    <2>2. CASE \E g \in Ids : Rot(g)
      <3>1. PICK g \in Ids : verified' = [verified EXCEPT ![g].db = "rotten"]
        BY <2>2 DEF Rot
      <3>2. [verified[g] EXCEPT !.db = "rotten"] \in Dir /\ verified \in [Ids -> Dir]
        BY DEF TypeOK, Dir, File
      <3>3. QED
        BY <3>1, <3>2
    <2>3. CASE ~Delete /\ ~\E g \in Ids : Rot(g)
      <3>1. UNCHANGED verified
        BY <2>3 DEF Elsewhere, NextDay, ListGenerations, KillRetention, HashDb, CopyDb, CopyManifest,
               Verdict, ClearTarget, StartDrill, KeepRun
      <3>2. QED
        BY <3>1 DEF TypeOK
    <2>4. QED
      BY <2>1, <2>2, <2>3
  <1>6. drill' \in Drill
    <2>1. drill \in Drill /\ AtEase \in Drill
      BY Constants DEF TypeOK, Drill, AtEase
    <2>2. /\ \A at \in {"db", "manifest", "verdict"} : [drill EXCEPT !.at = at] \in Drill
          /\ \A answer \in {"none", "passed", "failed"} : [drill EXCEPT !.at = "idle", !.answer = answer] \in Drill
      BY <2>1 DEF Drill
    <2>3. CASE \E g \in Ids : StartDrill(g)
      <3>1. PICK g \in Ids : StartDrill(g)
        BY <2>3
      <3>2. verified[g].manifest \in Manifest
        BY DEF TypeOK, Dir
      <3>3. QED
        BY <3>1, <3>2 DEF StartDrill, Drill
    <2>4. CASE ~\E g \in Ids : StartDrill(g)
      BY <2>1, <2>2, <2>4 DEF Elsewhere, NextDay, ListGenerations, Delete, KillRetention, HashDb, CopyDb,
         CopyManifest, Verdict, ClearTarget, Rot, KeepRun, Ends
    <2>5. QED
      BY <2>3, <2>4
  <1>7. target' \in Dir
    <2>1. target \in Dir /\ \A g \in Ids : verified[g].db \in File /\ verified[g].manifest \in Manifest
      BY DEF TypeOK, Dir
    <2>2. CASE CopyDb \/ CopyManifest
      <3>1. UNCHANGED target \/ drill.id \in Ids
        BY <2>2 DEF CopyDb, CopyManifest, DrillInv
      <3>2. QED
        BY <2>1, <2>2, <3>1 DEF CopyDb, CopyManifest, Dir
    <2>3. CASE ~(CopyDb \/ CopyManifest)
      BY <2>1, <2>3, Constants DEF Elsewhere, NextDay, ListGenerations, Delete, KillRetention, HashDb,
         Verdict, ClearTarget, StartDrill, Rot, KeepRun
    <2>4. QED
      BY <2>2, <2>3
  <1>8. DrillInv'
    <2>1. CASE \E g \in Ids : StartDrill(g)
      BY <2>1 DEF StartDrill, DrillInv
    <2>2. CASE ~\E g \in Ids : StartDrill(g)
      <3>1. drill \in Drill
        BY DEF TypeOK, Drill
      <3>2. CASE HashDb \/ CopyDb \/ CopyManifest \/ Verdict
        <4>1. drill.at # "idle" /\ drill'.id = drill.id
          BY <3>1, <3>2 DEF HashDb, CopyDb, CopyManifest, Verdict, Ends, Drill
        <4>2. QED
          BY <4>1 DEF DrillInv
      <3>3. CASE ClearTarget
        BY <3>3 DEF ClearTarget, AtEase, DrillInv
      <3>4. CASE UNCHANGED drill
        BY <3>4 DEF DrillInv
      <3>5. QED
        BY <2>2, <3>2, <3>3, <3>4 DEF Elsewhere, NextDay, ListGenerations, Delete, KillRetention, Rot, KeepRun
    <2>3. QED
      BY <2>1, <2>2
  <1>9. QED
    BY <1>1, <1>2, <1>3, <1>4, <1>5, <1>6, <1>7, <1>8 DEF TypeOK, Run, Drill, HasLock
-------------------------------------------------------------------------------
(* What lies under verified/                                                    *)

Whole == RestoreCandidatesAreWhole

LEMMA CandidatesStep ==
    ASSUME TypeOK, RunInv, Whole, [Next]_vars
    PROVE  Whole'
  <1>0. verified \in [Ids -> Dir] /\ writer \in [Writers -> Run]
    BY RunTypes DEF TypeOK
  <1>1. CASE \E w \in Writers : Promote(w)
    <2>1. PICK w \in Writers : Promote(w)
      BY <1>1
    <2>2. /\ writer[w].dir.db = "whole" /\ writer[w].dir.manifest.sha = "whole"
          /\ verified' = [verified EXCEPT ![writer[w].id] = writer[w].dir]
          /\ UNCHANGED <<touched, rotted>>
      BY <2>1 DEF Promote, Finished, RunInv, MadeSoFar, KeepRest
    <2>3. QED
      BY <1>0, <2>2 DEF Whole, RestoreCandidatesAreWhole
  <1>2. CASE Delete
    <2>1. CASE UNCHANGED <<verified, touched, rotted>>
      BY <2>1 DEF Whole, RestoreCandidatesAreWhole
    <2>2. CASE \E g \in doomed : \E dir \in Emptied(verified[g]) :
                 verified' = [verified EXCEPT ![g] = dir] /\ touched' = touched \cup {g} /\ UNCHANGED rotted
      BY <1>0, <2>2 DEF Whole, RestoreCandidatesAreWhole
    <2>3. QED
      BY <1>2, <2>1, <2>2 DEF Delete, KeepRun
  <1>3. CASE \E g \in Ids : Rot(g)
    <2>1. PICK g \in Ids : /\ verified[g].db = "whole" /\ rotted' = rotted \cup {g} /\ UNCHANGED touched
                           /\ verified' = [verified EXCEPT ![g].db = "rotten"]
      BY <1>3 DEF Rot, KeepBackups
    <2>2. ASSUME NEW h \in Ids
          PROVE  verified'[h].manifest = verified[h].manifest /\ (h # g => verified'[h] = verified[h])
      BY <1>0, <2>1 DEF Dir
    <2>3. verified[g] # NoDir
      BY <2>1 DEF NoDir
    <2>4. QED
      BY <2>1, <2>2, <2>3 DEF Whole, RestoreCandidatesAreWhole
  <1>4. CASE ~(\E w \in Writers : Promote(w)) /\ ~Delete /\ ~\E g \in Ids : Rot(g)
    <2>1. UNCHANGED <<verified, touched, rotted>>
      BY <1>4 DEF Next, NextDay, Look, Create, Copy, CheckCopy, WriteManifest, Unlock, Breaks, Kill,
         ListGenerations, KillRetention, HashDb, CopyDb, CopyManifest, Verdict, ClearTarget, StartDrill,
         KeepRest, KeepRun, KeepBackups, vars
    <2>2. QED
      BY <2>1 DEF Whole, RestoreCandidatesAreWhole
  <1>5. QED
    BY <1>1, <1>2, <1>3, <1>4

-------------------------------------------------------------------------------
(* The numbers of the generations and the drill                                 *)

(* A number is drawn once: a run at work has one that no directory under         *)
(* verified/ ever had, and a manifest that is there names the hash of a whole file. *)
NumbersInv ==
    /\ \A w \in Writers : writer[w].at \in Working => /\ writer[w].id < nextId
                                                   /\ verified[writer[w].id] = NoDir
    /\ \A g \in Ids : g >= nextId => verified[g] = NoDir
    /\ \A g \in Ids : verified[g].manifest # NoManifest => verified[g].manifest.sha = "whole"

(* What the drill has read is of the one generation it began with, which may     *)
(* be damaged or deleted under it but is never written again.                   *)
Drilling ==
    drill.at # "idle" =>
        /\ drill.answer = "none" /\ drill.id \in Ids /\ drill.id < nextId
        /\ drill.manifest.sha = "whole"
        /\ verified[drill.id].manifest \in {NoManifest, drill.manifest}
        /\ \A w \in Writers : writer[w].at \in Working => writer[w].id # drill.id

(* How much the drill knows at each of its steps.                              *)
LearntSoFar ==
    /\ drill.at = "hash" /\ verified[drill.id].db = "whole" => drill.sound
    /\ drill.at \in {"db", "manifest", "verdict"} => drill.sound
    /\ drill.at \in {"manifest", "verdict"} => target.db # "absent"
    /\ drill.at = "verdict" => target.manifest = drill.manifest
    /\ DrillFindsDamage

(* One run moves, with the number it had or with the next one.                   *)
LEMMA RunNumbers ==
    ASSUME TypeOK, RunInv, NEW w \in Writers, RunOf(w)
    PROVE  /\ \A v \in Writers : v # w => writer'[v] = writer[v]
           /\ \/ writer'[w].at \notin Working /\ nextId' = nextId
              \/ writer[w].at \in Working /\ writer'[w].id = writer[w].id /\ nextId' = nextId
              \/ writer'[w].id = nextId /\ nextId \in Ids /\ nextId' = nextId + 1
           /\ verified' = verified \/ Promote(w)
           /\ UNCHANGED <<drill, target>>
  <1>1. writer \in [Writers -> Run] /\ writer[w] \in Run
    BY RunTypes
  <1>2. \A v \in Writers : v # w => writer'[v] = writer[v]
    <2>1. PICK r \in Run : writer' = [writer EXCEPT ![w] = r]
      BY RunMoves
    <2>2. QED
      BY <1>1, <2>1
  <1>3. UNCHANGED <<drill, target>> /\ (verified' = verified \/ Promote(w))
    BY DEF RunOf, Look, Create, Copy, CheckCopy, WriteManifest, Promote, Unlock, Breaks, Kill, KeepRest
  <1>4. ASSUME NEW at \in {"idle", "create", "unlock"}, NEW answer, Answers(w, answer, at)
        PROVE  writer'[w].at \notin Working
    <2>1. writer'[w] = [Asleep EXCEPT !.at = at, !.answer = answer]
      BY <1>1, <1>4 DEF Answers
    <2>2. writer'[w].at = at
      BY <2>1 DEF Asleep
    <2>3. QED
      BY <2>2 DEF Working
  <1>5. CASE Look(w) \/ Promote(w) \/ Breaks(w) \/ Kill(w) \/ Unlock(w)
    <2>1. writer'[w].at \notin Working
      <3>1. CASE Unlock(w)
        BY <1>1, <3>1 DEF Unlock, Goes, Run, Working
      <3>2. CASE Kill(w)
        BY <1>1, <3>2 DEF Kill, Asleep, Working
      <3>3. CASE Look(w) \/ Promote(w) \/ Breaks(w)
        BY <1>4, <3>3 DEF Look, Promote, Breaks
      <3>4. QED
        BY <1>5, <3>1, <3>2, <3>3
    <2>2. nextId' = nextId
      BY <1>5 DEF Look, Promote, Breaks, Kill, Unlock
    <2>3. QED
      BY <1>2, <1>3, <2>1, <2>2
  <1>6. CASE Create(w)
    <2>1. CASE Exclusive
      <3>1. writer'[w].id = nextId /\ nextId' = nextId + 1 /\ nextId \in Ids
        BY <1>1, <1>6, <2>1 DEF Create, Run, TypeOK, Ids
      <3>2. QED
        BY <1>2, <1>3, <3>1
    <2>2. CASE ~Exclusive
      <3>1. writer'[w].at \notin Working /\ nextId' = nextId
        BY <1>4, <1>6, <2>2 DEF Create
      <3>2. QED
        BY <1>2, <1>3, <3>1
    <2>3. QED
      BY <2>1, <2>2
  <1>7. CASE Copy(w) \/ CheckCopy(w) \/ WriteManifest(w)
    <2>1. writer[w].at \in Working /\ nextId' = nextId
      BY <1>7 DEF Copy, CheckCopy, WriteManifest, Working
    <2>2. writer'[w].id = writer[w].id \/ writer'[w].at \notin Working
      <3>1. CASE Copy(w) \/ WriteManifest(w) \/ (CheckCopy(w) /\ Goes(w, "manifest"))
        BY <1>1, <3>1 DEF Copy, WriteManifest, Goes, Run
      <3>2. CASE Answers(w, "failed", "unlock")
        BY <1>4, <3>2
      <3>3. QED
        BY <1>7, <3>1, <3>2 DEF CheckCopy
    <2>3. QED
      BY <1>2, <1>3, <2>1, <2>2
  <1>8. QED
    BY <1>5, <1>6, <1>7 DEF RunOf

(* What a run that is promoted finds under verified/: its own place, empty, and   *)
(* no other run at work.                                                       *)
LEMMA Promotes ==
    ASSUME TypeOK, RunInv, NEW w \in Writers, Promote(w)
    PROVE  /\ writer[w].at \in Working /\ writer[w].id \in Ids
           /\ \A v \in Writers : v # w => writer[v].at \notin Working
           /\ verified' = [verified EXCEPT ![writer[w].id] = writer[w].dir]
           /\ writer[w].dir.db = "whole" /\ writer[w].dir.manifest.sha = "whole"
  <1>1. writer[w].at = "promote" /\ MadeSoFar(writer[w])
    BY DEF Promote, Finished, RunInv
  <1>2. \A v \in Writers : v # w => writer[v].at \notin Working
    BY <1>1, RunTypes DEF HasLock, Holding, Working
  <1>3. QED
    BY <1>1, <1>2 DEF Promote, MadeSoFar, Working

(* Without a run nothing under verified/ grows: directories lose files, files rot. *)
LEMMA Decays ==
    ASSUME TypeOK, Elsewhere, NEW g \in Ids
    PROVE  /\ verified[g] = NoDir => verified'[g] = NoDir
           /\ verified'[g].manifest \in {NoManifest, verified[g].manifest}
           /\ verified'[g].db = "whole" => verified[g].db = "whole"
  <1>1. verified \in [Ids -> Dir] /\ verified[g] \in Dir
    BY DEF TypeOK
  <1>2. CASE UNCHANGED verified
    BY <1>2
  <1>3. CASE Delete
    <2>1. CASE UNCHANGED verified
      BY <2>1
    <2>2. CASE \E h \in doomed : \E dir \in Emptied(verified[h]) : verified' = [verified EXCEPT ![h] = dir]
      <3>1. PICK h \in doomed : \E dir \in Emptied(verified[h]) : verified' = [verified EXCEPT ![h] = dir]
        BY <2>2
      <3>2. PICK dir \in Emptied(verified[h]) : verified' = [verified EXCEPT ![h] = dir]
        BY <3>1
      <3>3. CASE h # g
        BY <1>1, <3>2, <3>3
      <3>4. CASE h = g
        <4>1. verified'[g] = dir /\ dir # verified[g]
          BY <1>1, <3>2, <3>4 DEF Emptied
        <4>2. dir = [verified[g] EXCEPT !.db = "absent"] \/ dir = [verified[g] EXCEPT !.manifest = NoManifest]
          BY <3>2, <3>4 DEF Emptied
        <4>3. [NoDir EXCEPT !.db = "absent"] = NoDir /\ [NoDir EXCEPT !.manifest = NoManifest] = NoDir
          BY DEF NoDir
        <4>4. verified[g] # NoDir
          BY <4>1, <4>2, <4>3
        <4>5. dir.manifest \in {NoManifest, verified[g].manifest} /\ dir.db \in {"absent", verified[g].db}
          BY <1>1, <4>2 DEF Dir
        <4>6. QED
          BY <4>1, <4>4, <4>5
      <3>5. QED
        BY <3>3, <3>4
    <2>3. QED
      BY <1>3, <2>1, <2>2 DEF Delete
  <1>4. CASE \E h \in Ids : Rot(h)
    <2>1. PICK h \in Ids : verified[h].db = "whole" /\ verified' = [verified EXCEPT ![h].db = "rotten"]
      BY <1>4 DEF Rot
    <2>2. verified[h] # NoDir
      BY <2>1 DEF NoDir
    <2>3. QED
      BY <1>1, <2>1, <2>2 DEF Dir
  <1>5. QED
    BY <1>2, <1>3, <1>4 DEF Elsewhere, NextDay, ListGenerations, KillRetention, HashDb, CopyDb, CopyManifest,
       Verdict, ClearTarget, StartDrill, KeepRun

LEMMA NumbersStep ==
    ASSUME TypeOK, RunInv, NumbersInv, (\E w \in Writers : RunOf(w)) \/ Elsewhere
    PROVE  NumbersInv'
  <1>1. nextId \in Nat
    BY Constants DEF TypeOK
  <1>2. ASSUME NEW w \in Writers, RunOf(w) PROVE NumbersInv'
    <2>1. /\ \A v \in Writers : v # w => writer'[v] = writer[v]
          /\ \/ writer'[w].at \notin Working /\ nextId' = nextId
             \/ writer[w].at \in Working /\ writer'[w].id = writer[w].id /\ nextId' = nextId
             \/ writer'[w].id = nextId /\ nextId \in Ids /\ nextId' = nextId + 1
          /\ verified' = verified \/ Promote(w)
      BY <1>2, RunNumbers
    <2>2. \A v \in Writers : writer'[v].at \in Working => /\ writer'[v].id < nextId'
                                                      /\ verified[writer'[v].id] = NoDir
      <3>1. ASSUME NEW v \in Writers, writer'[v].at \in Working
            PROVE  writer'[v].id < nextId' /\ verified[writer'[v].id] = NoDir
        <4>1. nextId' = nextId \/ nextId' = nextId + 1
          BY <2>1
        <4>2. CASE writer'[v].id = writer[v].id /\ writer[v].at \in Working
          <5>1. writer[v] \in Run /\ MadeSoFar(writer[v])
            BY RunTypes DEF RunInv
          <5>2. writer[v].id \in Nat
            BY <4>2, <5>1 DEF MadeSoFar, Ids
          <5>3. QED
            BY <1>1, <4>1, <4>2, <5>2 DEF NumbersInv
        <4>3. CASE writer'[v].id = nextId /\ nextId \in Ids /\ nextId' = nextId + 1
          BY <1>1, <4>3 DEF NumbersInv
        <4>4. QED
          BY <2>1, <3>1, <4>2, <4>3
      <3>2. QED
        BY <3>1
    <2>3. CASE verified' = verified
      <3>1. \A g \in Ids : g >= nextId' => g >= nextId
        BY <1>1, <2>1 DEF Ids
      <3>2. QED
        BY <2>2, <2>3, <3>1 DEF NumbersInv
    <2>4. CASE Promote(w)
      <3>1. /\ writer[w].at \in Working /\ writer[w].id \in Ids
            /\ \A v \in Writers : v # w => writer[v].at \notin Working
            /\ verified' = [verified EXCEPT ![writer[w].id] = writer[w].dir]
            /\ writer[w].dir.manifest.sha = "whole"
        BY <2>4, Promotes
      <3>2. writer'[w].at \notin Working /\ nextId' = nextId
        BY <2>4, RunTypes DEF Promote, Answers, Asleep, Working
      <3>3. \A v \in Writers : writer'[v].at \notin Working
        BY <2>1, <3>1, <3>2
      <3>4. verified \in [Ids -> Dir] /\ writer[w].id < nextId
        BY <3>1 DEF TypeOK, NumbersInv
      <3>5. \A g \in Ids : g >= nextId => g # writer[w].id
        BY <1>1, <3>1, <3>4 DEF Ids
      <3>6. QED
        BY <3>1, <3>2, <3>3, <3>4, <3>5 DEF NumbersInv
    <2>5. QED
      BY <2>1, <2>3, <2>4
  <1>3. ASSUME Elsewhere PROVE NumbersInv'
    <2>1. UNCHANGED <<writer, nextId>>
      BY <1>3 DEF Elsewhere, NextDay, ListGenerations, Delete, KillRetention, HashDb, CopyDb, CopyManifest,
             Verdict, ClearTarget, StartDrill, Rot, KeepRun, KeepBackups
    <2>2. \A w \in Writers : writer[w].at \in Working => writer[w].id \in Ids
      BY DEF RunInv, MadeSoFar
    <2>3. QED
      BY <1>3, <2>1, <2>2, Decays DEF NumbersInv
  <1>4. QED
    BY <1>2, <1>3

(* A step of a run leaves the drill and what it reads alone.                      *)
LEMMA DrillAndRuns ==
    ASSUME TypeOK, RunInv, NumbersInv, Drilling, LearntSoFar, NEW w \in Writers, RunOf(w)
    PROVE  Drilling' /\ LearntSoFar'
  <1>1. /\ \A v \in Writers : v # w => writer'[v] = writer[v]
        /\ \/ writer'[w].at \notin Working /\ nextId' = nextId
           \/ writer[w].at \in Working /\ writer'[w].id = writer[w].id /\ nextId' = nextId
           \/ writer'[w].id = nextId /\ nextId \in Ids /\ nextId' = nextId + 1
        /\ verified' = verified \/ Promote(w)
        /\ drill' = drill /\ target' = target
    BY RunNumbers
  <1>2. CASE drill.at = "idle"
    BY <1>1, <1>2 DEF Drilling, LearntSoFar, DrillFindsDamage
  <1>3. CASE drill.at # "idle"
    <2>1. drill.id \in Ids /\ drill.id \in Nat /\ nextId \in Nat /\ drill.id < nextId
      BY <1>3, Constants DEF Drilling, Ids, TypeOK
    <2>2. verified'[drill.id] = verified[drill.id]
      <3>1. CASE Promote(w)
        <4>1. writer[w].id # drill.id /\ verified' = [verified EXCEPT ![writer[w].id] = writer[w].dir]
          BY <1>3, <3>1, Promotes DEF Drilling
        <4>2. QED
          BY <2>1, <4>1 DEF TypeOK
      <3>2. QED
        BY <1>1, <3>1
    <2>3. drill.id < nextId' /\ \A v \in Writers : writer'[v].at \in Working => writer'[v].id # drill.id
      BY <1>1, <1>3, <2>1 DEF Drilling
    <2>4. Drilling'
      BY <1>1, <1>3, <2>1, <2>2, <2>3 DEF Drilling
    <2>5. LearntSoFar'
      BY <1>1, <2>2 DEF LearntSoFar, DrillFindsDamage
    <2>6. QED
      BY <2>4, <2>5
  <1>4. QED
    BY <1>2, <1>3

LEMMA DrillElsewhere ==
    ASSUME TypeOK, RunInv, NumbersInv, Drilling, LearntSoFar, Elsewhere
    PROVE  Drilling' /\ LearntSoFar'
  <1>1. UNCHANGED <<writer, nextId>> /\ nextId \in Nat
    BY Constants DEF Elsewhere, NextDay, ListGenerations, Delete, KillRetention, HashDb, CopyDb, CopyManifest,
           Verdict, ClearTarget, StartDrill, Rot, KeepRun, KeepBackups, TypeOK
  <1>2. drill \in Drill /\ target \in Dir /\ verified \in [Ids -> Dir]
    BY DEF TypeOK, Drill
  <1>3. CASE \E g \in Ids : StartDrill(g)
    <2>1. PICK g \in Ids : StartDrill(g)
      BY <1>3
    <2>2. /\ verified' = verified /\ target' = target /\ verified[g].db # "absent"
          /\ verified[g].manifest # NoManifest
          /\ drill' = [at |-> "hash", id |-> g, manifest |-> verified[g].manifest, answer |-> "none",
                       sound |-> verified[g].db = verified[g].manifest.sha]
      BY <2>1 DEF StartDrill
    <2>3. verified[g] # NoDir /\ verified[g].manifest.sha = "whole"
      BY <2>2 DEF NoDir, NumbersInv
    <2>4. \A w \in Writers : writer[w].at \in Working => writer[w].id # g
      BY <2>3 DEF NumbersInv
    <2>5. g < nextId
      BY <1>1, <2>3 DEF NumbersInv, Ids
    <2>6. /\ drill'.at = "hash" /\ drill'.id = g /\ drill'.manifest = verified[g].manifest
          /\ drill'.answer = "none" /\ (drill'.sound <=> verified[g].db = verified[g].manifest.sha)
      BY <2>2
    <2>7. Drilling'
      BY <1>1, <2>2, <2>3, <2>4, <2>5, <2>6 DEF Drilling
    <2>8. LearntSoFar'
      BY <2>2, <2>3, <2>6 DEF LearntSoFar, DrillFindsDamage
    <2>9. QED
      BY <2>7, <2>8
  <1>4. CASE UNCHANGED drill /\ UNCHANGED target
    <2>1. CASE drill.at = "idle"
      BY <1>4, <2>1 DEF Drilling, LearntSoFar, DrillFindsDamage
    <2>2. CASE drill.at # "idle"
      <3>1. /\ drill.id \in Ids
            /\ verified'[drill.id].manifest \in {NoManifest, verified[drill.id].manifest}
            /\ verified'[drill.id].db = "whole" => verified[drill.id].db = "whole"
        BY <2>2, Decays DEF Drilling
      <3>2. QED
        BY <1>1, <1>4, <2>2, <3>1 DEF Drilling, LearntSoFar, DrillFindsDamage
    <2>3. QED
      BY <2>1, <2>2
  <1>5. CASE ClearTarget
    <2>1. drill'.at = "idle" /\ drill'.answer = "none"
      BY <1>5 DEF ClearTarget, AtEase
    <2>2. QED
      BY <2>1 DEF Drilling, LearntSoFar, DrillFindsDamage
  <1>6. CASE HashDb \/ CopyDb \/ CopyManifest \/ Verdict
    <2>1. /\ verified' = verified /\ drill.at # "idle" /\ drill.answer = "none" /\ drill.id \in Ids
          /\ drill.manifest.sha = "whole"
      BY <1>6 DEF HashDb, CopyDb, CopyManifest, Verdict, Drilling
    <2>2. drill'.id = drill.id /\ drill'.manifest = drill.manifest /\ (drill'.sound <=> drill.sound)
      BY <1>2, <1>6 DEF HashDb, CopyDb, CopyManifest, Verdict, Ends, Drill
    <2>3. CASE HashDb
      <3>1. CASE SameHash
        <4>1. drill'.at = "db" /\ drill'.answer = "none" /\ drill.at = "hash"
          BY <1>2, <2>1, <2>3, <3>1 DEF HashDb, Drill
        <4>2. drill.sound
          BY <2>1, <3>1, <4>1 DEF LearntSoFar, SameHash
        <4>3. QED
          BY <1>1, <2>1, <2>2, <4>1, <4>2 DEF Drilling, LearntSoFar, DrillFindsDamage
      <3>2. CASE ~SameHash
        <4>1. drill'.at = "idle" /\ drill'.answer # "passed"
          BY <1>2, <2>3, <3>2 DEF HashDb, Ends, Drill
        <4>2. QED
          BY <4>1 DEF Drilling, LearntSoFar, DrillFindsDamage
      <3>3. QED
        BY <3>1, <3>2
    <2>4. CASE CopyDb
      <3>1. CASE verified[drill.id].db # "absent"
        <4>1. drill'.at = "manifest" /\ drill'.answer = "none" /\ drill.sound /\ target'.db = verified[drill.id].db
          BY <1>2, <2>1, <2>4, <3>1 DEF CopyDb, Drill, Dir, LearntSoFar
        <4>2. QED
          BY <1>1, <2>1, <2>2, <3>1, <4>1 DEF Drilling, LearntSoFar, DrillFindsDamage
      <3>2. CASE ~(verified[drill.id].db # "absent")
        <4>1. drill'.at = "idle" /\ drill'.answer # "passed"
          BY <1>2, <2>4, <3>2 DEF CopyDb, Ends, Drill
        <4>2. QED
          BY <4>1 DEF Drilling, LearntSoFar, DrillFindsDamage
      <3>3. QED
        BY <3>1, <3>2
    <2>5. CASE CopyManifest
      <3>1. CASE verified[drill.id].manifest # NoManifest
        <4>1. /\ drill'.at = "verdict" /\ drill'.answer = "none" /\ drill.sound
              /\ target'.db = target.db /\ target.db # "absent"
              /\ target'.manifest = verified[drill.id].manifest
          BY <1>2, <2>1, <2>5, <3>1 DEF CopyManifest, Drill, Dir, LearntSoFar
        <4>2. verified[drill.id].manifest = drill.manifest
          BY <2>1, <3>1 DEF Drilling
        <4>3. QED
          BY <1>1, <2>1, <2>2, <4>1, <4>2 DEF Drilling, LearntSoFar, DrillFindsDamage
      <3>2. CASE ~(verified[drill.id].manifest # NoManifest)
        <4>1. drill'.at = "idle" /\ drill'.answer # "passed"
          BY <1>2, <2>5, <3>2 DEF CopyManifest, Ends, Drill
        <4>2. QED
          BY <4>1 DEF Drilling, LearntSoFar, DrillFindsDamage
      <3>3. QED
        BY <3>1, <3>2
    <2>6. CASE Verdict
      <3>1. drill'.at = "idle" /\ target' = target /\ drill.at = "verdict"
        BY <1>2, <2>6 DEF Verdict, Ends, Drill
      <3>2. drill.sound /\ target.db # "absent" /\ target.manifest = drill.manifest
        BY <3>1 DEF LearntSoFar
      <3>3. QED
        BY <2>2, <3>1, <3>2 DEF Drilling, LearntSoFar, DrillFindsDamage
    <2>7. QED
      BY <1>6, <2>3, <2>4, <2>5, <2>6
  <1>7. QED
    BY <1>3, <1>4, <1>5, <1>6 DEF Elsewhere, NextDay, ListGenerations, Delete, KillRetention, Rot, KeepRun

-------------------------------------------------------------------------------
(* Counting up: induction over the naturals, as a fact about sets               *)

LEMMA LeastNat ==
    ASSUME NEW T, T \subseteq Nat, T # {}
    PROVE  \E x \in T : \A y \in T : x <= y
  <1> DEFINE R == OpToRel(<, Nat)
  <1>1. IsWellFoundedOn(R, Nat)
    BY NatLessThanWellFounded
  <1>2. \A a, b \in Nat : a < b => <<a, b>> \in R
    BY DEF OpToRel
  <1> HIDE DEF R
  <1>3. PICK x \in T : \A y \in T : ~(<<y, x>> \in R)
    BY <1>1, WFMin
  <1>4. ASSUME NEW y \in T PROVE x <= y
    <2>1. x \in Nat /\ y \in Nat
      OBVIOUS
    <2>2. ~(y < x)
      BY <1>2, <1>3, <2>1
    <2>3. QED
      BY <2>1, <2>2
  <1>5. QED
    BY <1>4

LEMMA CountUp ==
    ASSUME NEW S, 0 \in S, \A n \in Nat : n \in S => n + 1 \in S
    PROVE  Nat \subseteq S
  <1> SUFFICES ASSUME ~(Nat \subseteq S) PROVE FALSE
    OBVIOUS
  <1>1. Nat \ S \subseteq Nat /\ Nat \ S # {}
    OBVIOUS
  <1>2. PICK x \in Nat \ S : \A y \in Nat \ S : x <= y
    BY <1>1, LeastNat
  <1>3. x # 0 /\ x - 1 \in Nat
    BY <1>2
  <1>4. x - 1 \in S
    BY <1>2, <1>3
  <1>5. x - 1 + 1 = x
    BY <1>2
  <1>6. QED
    BY <1>2, <1>3, <1>4, <1>5

-------------------------------------------------------------------------------
(* What the loop of select_generations keeps                                    *)

\* One turn of the loop.
After(before, i, p, records) ==
    before \cup {g \in records : g.id = NewestFirst(i) /\ Opens(g, p, before)}

\* The loop over the first n ids.
IsLoop(f, n, p, records) ==
    f = [i \in 0..n |-> IF i = 0 THEN {} ELSE After(f[i - 1], i, p, records)]

LEMMA LoopRuns ==
    ASSUME NEW p, NEW records, NEW n \in Nat
    PROVE  \E f : IsLoop(f, n, p, records)
  <1> DEFINE S == {k \in Nat : \E f : IsLoop(f, k, p, records)}
  <1>1. 0 \in S
    <2>1. IsLoop([i \in 0..0 |-> {}], 0, p, records)
      BY DEF IsLoop
    <2>2. QED
      BY <2>1
  <1>2. ASSUME NEW k \in Nat, k \in S PROVE k + 1 \in S
    <2>1. PICK f : IsLoop(f, k, p, records)
      BY <1>2
    <2> DEFINE g == [i \in 0..k + 1 |-> IF i <= k THEN f[i] ELSE After(f[k], k + 1, p, records)]
    <2>2. ASSUME NEW i \in 0..k + 1 PROVE g[i] = IF i = 0 THEN {} ELSE After(g[i - 1], i, p, records)
      <3>1. CASE i <= k
        <4>1. i \in 0..k /\ (i # 0 => i - 1 \in 0..k /\ i - 1 \in 0..k + 1 /\ i - 1 <= k)
          BY <3>1
        <4>2. f[i] = IF i = 0 THEN {} ELSE After(f[i - 1], i, p, records)
          BY <2>1, <4>1 DEF IsLoop
        <4>3. g[i] = f[i] /\ (i # 0 => g[i - 1] = f[i - 1])
          BY <3>1, <4>1
        <4>4. QED
          BY <4>2, <4>3
      <3>2. CASE i = k + 1
        <4>1. i # 0 /\ i - 1 = k /\ k \in 0..k + 1 /\ ~(i <= k)
          BY <3>2
        <4>2. g[i - 1] = f[k] /\ g[i] = After(f[k], k + 1, p, records)
          BY <4>1
        <4>3. QED
          BY <3>2, <4>1, <4>2
      <3>3. QED
        BY <3>1, <3>2
    <2>3. IsLoop(g, k + 1, p, records)
      BY <2>2 DEF IsLoop
    <2>4. QED
      BY <2>3
  <1> HIDE DEF S
  <1>3. n \in S
    BY <1>1, <1>2, CountUp
  <1>4. QED
    BY <1>3 DEF S

(* The states of the loop, turn by turn.                                         *)
LEMMA FilledByTurns ==
    ASSUME NEW p, NEW records
    PROVE  \E f : /\ f[0] = {} /\ Filled(p, records) = f[MaxId]
                  /\ \A i \in 1..MaxId : f[i] = After(f[i - 1], i, p, records)
  <1> DEFINE f == CHOOSE h : IsLoop(h, MaxId, p, records)
  <1>1. \E h : IsLoop(h, MaxId, p, records)
    BY LoopRuns, Constants
  <1>2. IsLoop(f, MaxId, p, records)
    BY <1>1, Zenon
  <1>3. Filled(p, records) = f[MaxId]
    BY DEF Filled, IsLoop, After
  <1> HIDE DEF f
  <1>4. f[0] = {}
    BY <1>2, Constants DEF IsLoop
  <1>5. ASSUME NEW i \in 1..MaxId PROVE f[i] = After(f[i - 1], i, p, records)
    <2>1. i \in 0..MaxId /\ i # 0
      BY Constants
    <2>2. QED
      BY <1>2, <2>1 DEF IsLoop
  <1>6. QED
    BY <1>3, <1>4, <1>5

(* Records as the retention finds them: one for an id, completed in that order.   *)
InOrder(records) ==
    /\ \A g, h \in records : g.id = h.id => g = h
    /\ \A g, h \in records : g.id < h.id => g.completed <= h.completed

Promotion == [id : Ids, completed : 0..MaxDay]

LEMMA Buckets ==
    ASSUME NEW p \in Policy
    PROVE  /\ p.limit \in Nat \ {0}
           /\ \A g \in Promotion : Key(g, p) \in 0..MaxDay
           /\ \A g, h \in Promotion : g.completed <= h.completed => Key(g, p) <= Key(h, p)
  <1>1. p.limit \in Nat \ {0} /\ p.width \in Nat \ {0}
    BY BackupAssumption DEF BackupAssumption
  <1>2. \A a, w \in Nat : w # 0 => a \div w \in Nat /\ a \div w <= a
    OBVIOUS
  <1>3. \A a, b, w \in Nat : w # 0 /\ a <= b => a \div w <= b \div w
    OBVIOUS
  <1>4. \A g \in Promotion : g.completed \in Nat /\ g.completed <= MaxDay
    BY Constants DEF Promotion
  <1>5. QED
    BY <1>1, <1>2, <1>3, <1>4, Constants DEF Key

(* Every bucket keeps one, and the turns so far have come to the newest ids.      *)
LEMMA OneForABucket ==
    ASSUME NEW p, NEW records, records \subseteq Promotion, InOrder(records),
           NEW f, f[0] = {}, \A i \in 1..MaxId : f[i] = After(f[i - 1], i, p, records),
           NEW n \in 0..MaxId
    PROVE  /\ f[n] \subseteq {g \in records : g.id > MaxId - n}
           /\ \A g, h \in f[n] : Key(g, p) = Key(h, p) => g = h
  <1> DEFINE Sound(i) == /\ f[i] \subseteq {g \in records : g.id > MaxId - i}
                         /\ \A g, h \in f[i] : Key(g, p) = Key(h, p) => g = h
             S == {i \in Nat : i <= MaxId => Sound(i)}
  <1>0. \A g \in records : g.id \in Nat /\ g.id <= MaxId
    BY Constants DEF Promotion, Ids
  <1>1. 0 \in S
    OBVIOUS
  <1>2. ASSUME NEW i \in Nat, i \in S PROVE i + 1 \in S
    <2>1. SUFFICES ASSUME i + 1 <= MaxId PROVE Sound(i + 1)
      OBVIOUS
    <2>2. Sound(i) /\ i + 1 \in 1..MaxId /\ i + 1 - 1 = i
      BY <1>2, <2>1, Constants
    <2>3. f[i + 1] = After(f[i], i + 1, p, records)
      BY <2>2
    <2>4. \A g \in f[i + 1] : g \in f[i] \/ (g \in records /\ g.id = MaxId - i /\ Opens(g, p, f[i]))
      BY <2>2, <2>3, Constants DEF After, NewestFirst
    <2>5. f[i + 1] \subseteq {g \in records : g.id > MaxId - (i + 1)}
      BY <1>0, <2>2, <2>4, Constants
    <2>6. ASSUME NEW g \in f[i + 1], NEW h \in f[i + 1], Key(g, p) = Key(h, p) PROVE g = h
      <3>1. CASE g \in f[i] /\ h \in f[i]
        BY <2>2, <2>6, <3>1
      <3>2. CASE g \notin f[i] /\ h \notin f[i]
        BY <2>4, <3>2 DEF InOrder
      <3>3. CASE ~(g \in f[i] <=> h \in f[i])
        BY <2>4, <2>6, <3>3 DEF Opens
      <3>4. QED
        BY <3>1, <3>2, <3>3
    <2>7. QED
      BY <2>5, <2>6
  <1> HIDE DEF S
  <1>3. n \in S
    BY <1>1, <1>2, CountUp
  <1>4. QED
    BY <1>3 DEF S

(* What is kept stays kept.                                                      *)
LEMMA KeptForGood ==
    ASSUME NEW p, NEW records, NEW f,
           \A i \in 1..MaxId : f[i] = After(f[i - 1], i, p, records),
           NEW k \in 1..MaxId, NEW g \in f[k]
    PROVE  g \in f[MaxId]
  <1> DEFINE S == {i \in Nat : k <= i /\ i <= MaxId => g \in f[i]}
  <1>1. 0 \in S
    OBVIOUS
  <1>2. ASSUME NEW i \in Nat, i \in S PROVE i + 1 \in S
    <2>1. SUFFICES ASSUME k <= i + 1, i + 1 <= MaxId PROVE g \in f[i + 1]
      OBVIOUS
    <2>2. CASE k = i + 1
      BY <2>2
    <2>3. CASE k <= i
      <3>1. g \in f[i] /\ i + 1 \in 1..MaxId /\ i + 1 - 1 = i
        BY <1>2, <2>1, <2>3, Constants
      <3>2. f[i + 1] = After(f[i], i + 1, p, records)
        BY <3>1
      <3>3. QED
        BY <3>1, <3>2 DEF After
    <2>4. QED
      BY <2>1, <2>2, <2>3
  <1> HIDE DEF S
  <1>3. MaxId \in S
    BY <1>1, <1>2, CountUp, Constants
  <1>4. k <= MaxId /\ MaxId \in Nat
    BY Constants
  <1>5. QED
    BY <1>3, <1>4 DEF S

(* The keys of the buckets of one kind that are newer than that of g.            *)
NewerKeys(g, p, generations) == {Key(h, p) : h \in {h \in generations : Key(h, p) > Key(g, p)}}

LEMMA NewerKeysFinite ==
    ASSUME NEW p \in Policy, NEW generations, generations \subseteq Promotion, NEW g
    PROVE  /\ IsFiniteSet(NewerKeys(g, p, generations))
           /\ Cardinality(NewerKeys(g, p, generations)) \in Nat
  <1>1. NewerKeys(g, p, generations) \subseteq 0..MaxDay
    BY Buckets DEF NewerKeys
  <1>2. IsFiniteSet(0..MaxDay)
    BY Constants, FS_Interval
  <1>3. QED
    BY <1>1, <1>2, FS_Subset, FS_CardinalityType

(* A generation that the policy protects among all that were ever verified is    *)
(* kept by a loop over those that are left, if it is one of them.                *)
LEMMA ProtectedIsFilled ==
    ASSUME NEW p \in Policy, NEW records, promoted \subseteq Promotion, InOrder(promoted),
           records \subseteq promoted, NEW g \in records, Protected(g, p)
    PROVE  g \in Filled(p, records)
  <1>1. PICK f : /\ f[0] = {} /\ Filled(p, records) = f[MaxId]
                 /\ \A i \in 1..MaxId : f[i] = After(f[i - 1], i, p, records)
    BY FilledByTurns
  <1> DEFINE k == MaxId + 1 - g.id
             before == f[k - 1]
  <1>2. g \in Promotion /\ g.id \in Nat /\ k \in 1..MaxId /\ k - 1 \in 0..MaxId /\ NewestFirst(k) = g.id
    BY Constants DEF Promotion, Ids, NewestFirst
  <1>3. records \subseteq Promotion /\ InOrder(records)
    BY DEF InOrder
  <1>4. /\ before \subseteq {h \in records : h.id > MaxId - (k - 1)}
        /\ \A h, i \in before : Key(h, p) = Key(i, p) => h = i
    <2> DEFINE n == k - 1
    <2>1. n \in 0..MaxId
      BY <1>2
    <2> HIDE DEF n
    <2>2. /\ f[n] \subseteq {h \in records : h.id > MaxId - n}
          /\ \A h, i \in f[n] : Key(h, p) = Key(i, p) => h = i
      BY <1>1, <1>3, <2>1, OneForABucket
    <2>3. QED
      BY <2>2 DEF n
  <1>5. \A h \in before : h \in promoted /\ h \in Promotion /\ h.id > g.id
    BY <1>2, <1>3, <1>4, Constants DEF Promotion, Ids
  <1> HIDE DEF before
  <1>6. ASSUME NEW h \in before PROVE Key(h, p) > Key(g, p)
    <2>1. h \in promoted /\ h \in Promotion /\ h.id > g.id /\ h.id \in Nat
      BY <1>5 DEF Promotion, Ids
    <2>2. g.completed <= h.completed
      BY <1>2, <2>1 DEF InOrder
    <2>3. Key(g, p) <= Key(h, p) /\ Key(g, p) \in Int /\ Key(h, p) \in Int
      BY <1>2, <2>1, <2>2, Buckets
    <2>4. Key(g, p) # Key(h, p)
      BY <1>2, <2>1 DEF Protected
    <2>5. QED
      BY <2>3, <2>4
  <1>7. Cardinality(before) < p.limit
    <2> DEFINE newer == NewerKeys(g, p, promoted)
               key == [h \in before |-> Key(h, p)]
    <2>1. IsFiniteSet(newer) /\ Cardinality(newer) \in Nat
      BY NewerKeysFinite
    <2>2. Cardinality(newer) < p.limit
      BY DEF Protected, NewerKeys
    <2>3. \A h \in before : Key(h, p) \in newer
      BY <1>5, <1>6 DEF NewerKeys
    <2> HIDE DEF newer
    <2>4. key \in Injection(before, newer)
      BY <1>4, <2>3 DEF Injection, IsInjective
    <2> HIDE DEF key
    <2>5. IsFiniteSet(before) /\ Cardinality(before) <= Cardinality(newer)
      BY <2>1, <2>4, FS_Injection
    <2>6. Cardinality(before) \in Nat /\ p.limit \in Nat
      BY <2>5, FS_CardinalityType, Buckets
    <2>7. QED
      BY <2>1, <2>2, <2>5, <2>6
  <1>8. Opens(g, p, before)
    <2>1. Key(g, p) \in Int /\ \A h \in before : Key(h, p) \in Int
      BY <1>2, <1>5, Buckets
    <2>2. \A h \in before : Key(h, p) # Key(g, p)
      BY <1>6, <2>1
    <2>3. QED
      BY <1>7, <2>2 DEF Opens
  <1>9. g \in f[k]
    <2>1. f[k] = After(before, k, p, records)
      BY <1>1, <1>2 DEF before
    <2>2. QED
      BY <1>2, <1>8, <2>1 DEF After
  <1> HIDE DEF k
  <1>10. g \in f[MaxId]
    BY <1>1, <1>2, <1>9, KeptForGood
  <1>11. QED
    BY <1>1, <1>10

-------------------------------------------------------------------------------
(* Retention, against the backups that go on                                    *)

(* The order the lock gives: numbers and completion times grow together, and a   *)
(* run at work is younger than everything that was verified before it.          *)
OrderInv ==
    /\ InOrder(promoted)
    /\ \A g \in promoted : g.id < nextId /\ g.completed <= day
    /\ \A w \in Writers : writer[w].at \in Working => \A g \in promoted : g.id < writer[w].id
    /\ \A w \in Writers : writer[w].at = "promote" =>
            /\ writer[w].dir.manifest.completed <= day
            /\ \A g \in promoted : g.completed <= writer[w].dir.manifest.completed

(* Retention takes, and intends to take, only what the policy has given up for   *)
(* good: no list it works from, however old, names a protected generation.      *)
RetentionInv ==
    /\ \A g \in Ids : verified[g].manifest # NoManifest =>
            [id |-> g, completed |-> verified[g].manifest.completed] \in promoted
    /\ \A i \in touched \cup doomed : \E g \in promoted : g.id = i
    /\ \A g \in promoted : g.id \notin touched =>
            verified[g.id].manifest = [completed |-> g.completed, sha |-> "whole"]
    /\ \A g \in promoted : g.id \in touched \cup doomed => \A p \in Policy : ~Protected(g, p)

(* A generation the policy has given up stays given up.                         *)
LEMMA GivenUpForGood ==
    ASSUME promoted' \subseteq Promotion, promoted \subseteq promoted',
           NEW p \in Policy, NEW g \in promoted, ~Protected(g, p)
    PROVE  ~Protected(g, p)'
  <1>1. CASE \E h \in promoted : Key(h, p) = Key(g, p) /\ ~(h.id <= g.id)
    BY <1>1 DEF Protected
  <1>2. CASE ~(Cardinality(NewerKeys(g, p, promoted)) < p.limit)
    <2>1. NewerKeys(g, p, promoted) \subseteq NewerKeys(g, p, promoted')
      BY DEF NewerKeys
    <2>2. IsFiniteSet(NewerKeys(g, p, promoted'))
      BY NewerKeysFinite
    <2>3. Cardinality(NewerKeys(g, p, promoted)) <= Cardinality(NewerKeys(g, p, promoted'))
      BY <2>1, <2>2, FS_Subset
    <2>4. /\ Cardinality(NewerKeys(g, p, promoted)) \in Nat
          /\ Cardinality(NewerKeys(g, p, promoted')) \in Nat /\ p.limit \in Nat
      BY NewerKeysFinite, Buckets
    <2>5. ~(Cardinality(NewerKeys(g, p, promoted')) < p.limit)
      BY <1>2, <2>3, <2>4
    <2>6. QED
      BY <2>5 DEF Protected, NewerKeys
  <1>3. QED
    BY <1>1, <1>2 DEF Protected, NewerKeys

LEMMA PromotedTypes ==
    ASSUME TypeOK
    PROVE  /\ promoted \subseteq Promotion /\ day \in Nat /\ nextId \in Nat
           /\ \A g \in promoted : g.id \in Ids /\ g.id \in Nat /\ g.completed \in Nat
  BY Constants DEF TypeOK, Promotion, Ids

(* What a run that comes to be promoted has written: the time of now.            *)
LEMMA ComesToPromote ==
    ASSUME TypeOK, RunInv, NEW w \in Writers, RunOf(w), writer'[w].at = "promote"
    PROVE  writer'[w].dir.manifest.completed = day
  <1>0. writer \in [Writers -> Run] /\ writer[w] \in Run
    BY RunTypes
  <1>1. ASSUME NEW at \in {"idle", "create", "unlock"}, NEW answer, Answers(w, answer, at) PROVE FALSE
    <2>1. writer'[w] = [Asleep EXCEPT !.at = at, !.answer = answer]
      BY <1>0, <1>1 DEF Answers
    <2>2. writer'[w].at = at
      BY <2>1 DEF Asleep
    <2>3. QED
      BY <2>2
  <1>2. ~(Look(w) \/ Promote(w) \/ Breaks(w))
    BY <1>1 DEF Look, Promote, Breaks
  <1>3. ~(Kill(w) \/ Unlock(w) \/ Copy(w))
    BY <1>0 DEF Kill, Unlock, Copy, Goes, Asleep, Run
  <1>4. ~Create(w)
    <2>1. CASE Exclusive
      BY <1>0, <2>1 DEF Create, Run
    <2>2. CASE ~Exclusive
      BY <1>1, <2>2 DEF Create
    <2>3. QED
      BY <2>1, <2>2
  <1>5. ~CheckCopy(w)
    <2>1. ~Goes(w, "manifest")
      BY <1>0 DEF Goes, Run
    <2>2. QED
      BY <1>1, <2>1 DEF CheckCopy
  <1>6. WriteManifest(w)
    BY <1>2, <1>3, <1>4, <1>5 DEF RunOf
  <1>7. writer'[w].dir = Described(writer[w].dir)
    BY <1>0, <1>6 DEF WriteManifest, Run
  <1>8. Described(writer[w].dir).manifest.completed = day
    BY <1>0 DEF Described, Run, Dir
  <1>9. QED
    BY <1>7, <1>8

(* A generation is promoted: the youngest, with the latest time.                 *)
LEMMA OrderPromotes ==
    ASSUME TypeOK, RunInv, NumbersInv, OrderInv, NEW w \in Writers, Promote(w)
    PROVE  OrderInv'
  <1>1. /\ writer[w].at \in Working /\ writer[w].id \in Ids
        /\ \A v \in Writers : v # w => writer[v].at \notin Working
    BY Promotes
  <1>2. /\ writer[w].at = "promote" /\ writer[w].dir.manifest.completed \in 0..MaxDay
        /\ writer[w].id < nextId
    BY <1>1 DEF Promote, Finished, RunInv, MadeSoFar, NumbersInv
  <1> DEFINE new == [id |-> writer[w].id, completed |-> writer[w].dir.manifest.completed]
  <1>3. promoted' = promoted \cup {new} /\ nextId' = nextId /\ day' = day
    BY DEF Promote, KeepRest
  <1>4. \A g \in promoted : g.id < new.id /\ g.completed <= new.completed
    BY <1>1, <1>2 DEF OrderInv
  <1>5. new.id \in Nat /\ new.completed \in Nat /\ new.id < nextId /\ new.completed <= day
    BY <1>1, <1>2, Constants DEF Ids, OrderInv
  <1>6. \A v \in Writers : writer'[v].at \notin Working
    <2>1. \A v \in Writers : v # w => writer'[v] = writer[v]
      BY RunNumbers DEF RunOf
    <2>2. writer'[w].at \notin Working
      BY RunTypes DEF Promote, Answers, Asleep, Working
    <2>3. QED
      BY <1>1, <2>1, <2>2
  <1> HIDE DEF new
  <1>7. InOrder(promoted')
    <2>1. \A g, h \in promoted' : g.id = h.id => g = h
      BY <1>3, <1>4, <1>5, PromotedTypes DEF OrderInv, InOrder
    <2>2. \A g, h \in promoted' : g.id < h.id => g.completed <= h.completed
      BY <1>3, <1>4, <1>5, PromotedTypes DEF OrderInv, InOrder
    <2>3. QED
      BY <2>1, <2>2 DEF InOrder
  <1>8. \A g \in promoted' : g.id < nextId' /\ g.completed <= day'
    BY <1>3, <1>5 DEF OrderInv
  <1>9. QED
    BY <1>6, <1>7, <1>8 DEF OrderInv, Working

LEMMA OrderStep ==
    ASSUME TypeOK, RunInv, NumbersInv, OrderInv, (\E w \in Writers : RunOf(w)) \/ Elsewhere
    PROVE  OrderInv'
  <1>1. ASSUME NEW w \in Writers, RunOf(w), ~Promote(w) PROVE OrderInv'
    <2>1. /\ \A v \in Writers : v # w => writer'[v] = writer[v]
          /\ \/ writer'[w].at \notin Working /\ nextId' = nextId
             \/ writer[w].at \in Working /\ writer'[w].id = writer[w].id /\ nextId' = nextId
             \/ writer'[w].id = nextId /\ nextId \in Ids /\ nextId' = nextId + 1
      BY <1>1, RunNumbers
    <2>2. promoted' = promoted /\ day' = day
      BY <1>1 DEF RunOf, Look, Create, Copy, CheckCopy, WriteManifest, Unlock, Breaks, Kill, KeepRest
    <2>3. \A g \in promoted' : g.id < nextId' /\ g.completed <= day'
      <3>1. \A g \in promoted : g.id < nextId /\ g.completed <= day
        BY DEF OrderInv
      <3>2. nextId' \in {nextId, nextId + 1}
        BY <2>1
      <3>3. QED
        BY <2>2, <3>1, <3>2, PromotedTypes
    <2>4. ASSUME NEW v \in Writers, writer'[v].at \in Working, NEW g \in promoted' PROVE g.id < writer'[v].id
      <3>1. CASE v # w \/ (writer[w].at \in Working /\ writer'[w].id = writer[w].id)
        BY <2>1, <2>2, <2>4, <3>1 DEF OrderInv
      <3>2. CASE v = w /\ writer'[w].id = nextId
        BY <2>2, <3>2 DEF OrderInv
      <3>3. QED
        BY <2>1, <2>4, <3>1, <3>2
    <2>5. ASSUME NEW v \in Writers, writer'[v].at = "promote"
          PROVE  /\ writer'[v].dir.manifest.completed <= day'
                 /\ \A g \in promoted' : g.completed <= writer'[v].dir.manifest.completed
      <3>1. CASE v # w
        BY <2>1, <2>2, <2>5, <3>1 DEF OrderInv
      <3>2. CASE v = w
        <4>1. writer'[v].dir.manifest.completed = day
          BY <1>1, <2>5, <3>2, ComesToPromote
        <4>2. QED
          BY <2>2, <4>1, PromotedTypes DEF OrderInv
      <3>3. QED
        BY <3>1, <3>2
    <2>6. InOrder(promoted')
      BY <2>2 DEF OrderInv
    <2>7. QED
      BY <2>3, <2>4, <2>5, <2>6 DEF OrderInv
  <1>2. ASSUME Elsewhere PROVE OrderInv'
    <2>1. UNCHANGED <<writer, nextId, promoted>>
      BY <1>2 DEF Elsewhere, NextDay, ListGenerations, Delete, KillRetention, HashDb, CopyDb, CopyManifest,
             Verdict, ClearTarget, StartDrill, Rot, KeepRun, KeepBackups
    <2>2. day' \in {day, day + 1}
      BY <1>2 DEF Elsewhere, NextDay, ListGenerations, Delete, KillRetention, HashDb, CopyDb, CopyManifest,
             Verdict, ClearTarget, StartDrill, Rot, KeepRun, KeepBackups
    <2>3. \A g \in promoted' : g.id < nextId' /\ g.completed <= day'
      BY <2>1, <2>2, PromotedTypes DEF OrderInv
    <2>4. ASSUME NEW w \in Writers, writer'[w].at = "promote"
          PROVE  /\ writer'[w].dir.manifest.completed <= day'
                 /\ \A g \in promoted' : g.completed <= writer'[w].dir.manifest.completed
      <3>1. /\ writer[w].dir.manifest.completed <= day
            /\ \A g \in promoted : g.completed <= writer[w].dir.manifest.completed
        BY <2>1, <2>4 DEF OrderInv
      <3>2. writer[w].dir.manifest.completed \in 0..MaxDay
        BY <2>1, <2>4 DEF RunInv, MadeSoFar
      <3>3. QED
        BY <2>1, <2>2, <3>1, <3>2, PromotedTypes, Constants
    <2>5. QED
      BY <2>1, <2>3, <2>4 DEF OrderInv
  <1>3. QED
    BY <1>1, <1>2, OrderPromotes

(* A promotion only adds, at a place nobody works at.                            *)
LEMMA RetentionPromotes ==
    ASSUME TypeOK, TypeOK', RunInv, NumbersInv, OrderInv, RetentionInv, NEW w \in Writers, Promote(w)
    PROVE  RetentionInv'
  <1>1. /\ writer[w].at \in Working /\ writer[w].id \in Ids
        /\ verified' = [verified EXCEPT ![writer[w].id] = writer[w].dir]
        /\ writer[w].dir.db = "whole" /\ writer[w].dir.manifest.sha = "whole"
    BY Promotes
  <1> DEFINE new == [id |-> writer[w].id, completed |-> writer[w].dir.manifest.completed]
  <1>2. promoted' = promoted \cup {new} /\ touched' = touched /\ doomed' = doomed
    BY DEF Promote, KeepRest
  <1>3. verified' \in [Ids -> Dir] /\ verified \in [Ids -> Dir] /\ verified'[new.id] = writer[w].dir /\ new.id \in Ids
    BY <1>1 DEF TypeOK
  <1>4. \A g \in promoted : g.id < new.id /\ g.id \in Ids
    BY <1>1, PromotedTypes DEF OrderInv
  <1>5. new.id \in Nat /\ \A g \in promoted : g.id # new.id
    BY <1>3, <1>4, Constants DEF Ids
  <1>6. writer[w].dir.manifest = [completed |-> new.completed, sha |-> "whole"]
    <2>1. writer[w].dir.manifest \in Manifest
      BY <1>3 DEF Dir
    <2>2. QED
      BY <1>1, <2>1 DEF Manifest
  <1>7. new = [id |-> new.id, completed |-> writer[w].dir.manifest.completed]
    OBVIOUS
  <1> HIDE DEF new
  <1>8. ASSUME NEW g \in Ids, verified'[g].manifest # NoManifest
        PROVE  [id |-> g, completed |-> verified'[g].manifest.completed] \in promoted'
    <2>1. CASE g = new.id
      BY <1>2, <1>3, <1>7, <2>1
    <2>2. CASE g # new.id
      <3>1. verified'[g] = verified[g]
        BY <1>1, <1>3, <1>7, <2>2 DEF new
      <3>2. QED
        BY <1>2, <1>8, <3>1 DEF RetentionInv
    <2>3. QED
      BY <2>1, <2>2
  <1>9. \A i \in touched' \cup doomed' : \E g \in promoted' : g.id = i
    BY <1>2 DEF RetentionInv
  <1>10. ASSUME NEW g \in promoted', g.id \notin touched'
         PROVE  verified'[g.id].manifest = [completed |-> g.completed, sha |-> "whole"]
    <2>1. CASE g = new
      BY <1>3, <1>6, <2>1
    <2>2. CASE g \in promoted
      <3>1. verified'[g.id] = verified[g.id]
        BY <1>1, <1>3, <1>4, <1>5, <2>2 DEF new
      <3>2. QED
        BY <1>2, <1>10, <2>2, <3>1 DEF RetentionInv
    <2>3. QED
      BY <1>2, <2>1, <2>2
  <1>11. ASSUME NEW g \in promoted', g.id \in touched' \cup doomed', NEW p \in Policy PROVE ~Protected(g, p)'
    <2>1. g \in promoted
      <3>1. PICK h \in promoted : h.id = g.id
        BY <1>2, <1>11 DEF RetentionInv
      <3>2. g # new
        BY <1>5, <3>1
      <3>3. QED
        BY <1>2, <3>2
    <2>2. promoted' \subseteq Promotion /\ promoted \subseteq promoted'
      BY <1>2 DEF TypeOK, Promotion
    <2>3. ~Protected(g, p)
      BY <1>2, <1>11, <2>1 DEF RetentionInv
    <2>4. QED
      BY <2>1, <2>2, <2>3, GivenUpForGood
  <1>12. QED
    BY <1>8, <1>9, <1>10, <1>11 DEF RetentionInv

(* What is listed for deletion is not protected, and was verified.               *)
LEMMA SelectedAreGivenUp ==
    ASSUME TypeOK, OrderInv, RetentionInv, NEW i \in Selected
    PROVE  \E g \in promoted : g.id = i /\ \A p \in Policy : ~Protected(g, p)
  <1>1. PICK g \in Records \ Kept(Records) : g.id = i
    BY DEF Selected
  <1>2. Records \subseteq promoted
    BY DEF Records, RetentionInv
  <1>3. \A p \in Policy : g \notin Filled(p, Records)
    BY <1>1 DEF Kept
  <1>4. ASSUME NEW p \in Policy, Protected(g, p) PROVE FALSE
    <2>1. promoted \subseteq Promotion /\ InOrder(promoted)
      BY PromotedTypes DEF OrderInv
    <2>2. g \in Filled(p, Records)
      BY <1>1, <1>2, <1>4, <2>1, ProtectedIsFilled
    <2>3. QED
      BY <1>3, <2>2
  <1>5. QED
    BY <1>1, <1>2, <1>4

LEMMA RetentionElsewhere ==
    ASSUME TypeOK, TypeOK', OrderInv, RetentionInv, Elsewhere
    PROVE  RetentionInv'
  <1>1. promoted' = promoted /\ verified \in [Ids -> Dir]
    BY DEF Elsewhere, NextDay, ListGenerations, Delete, KillRetention, HashDb, CopyDb, CopyManifest,
           Verdict, ClearTarget, StartDrill, Rot, KeepRun, KeepBackups, TypeOK
  <1>2. ASSUME NEW i \in touched' \cup doomed'
        PROVE  i \in touched \cup doomed \/ (ListGenerations /\ i \in Selected)
    BY <1>2 DEF Elsewhere, NextDay, ListGenerations, Delete, KillRetention, HashDb, CopyDb, CopyManifest,
           Verdict, ClearTarget, StartDrill, Rot, KeepRun, KeepBackups
  <1>3. touched \subseteq touched'
    BY DEF Elsewhere, NextDay, ListGenerations, Delete, KillRetention, HashDb, CopyDb, CopyManifest,
           Verdict, ClearTarget, StartDrill, Rot, KeepRun, KeepBackups
  <1>4. ASSUME NEW g \in Ids, g \notin touched' PROVE verified'[g].manifest = verified[g].manifest
    <2>1. CASE UNCHANGED verified
      BY <2>1
    <2>2. CASE Delete
      <3>1. CASE \E h \in doomed : \E dir \in Emptied(verified[h]) :
                    verified' = [verified EXCEPT ![h] = dir] /\ touched' = touched \cup {h}
        BY <1>1, <1>4, <3>1
      <3>2. QED
        BY <2>1, <2>2, <3>1 DEF Delete
    <2>3. CASE \E h \in Ids : Rot(h)
      <3>1. PICK h \in Ids : verified' = [verified EXCEPT ![h].db = "rotten"]
        BY <2>3 DEF Rot
      <3>2. QED
        BY <1>1, <3>1 DEF Dir
    <2>4. QED
      BY <2>1, <2>2, <2>3 DEF Elsewhere, NextDay, ListGenerations, KillRetention, HashDb, CopyDb, CopyManifest,
         Verdict, ClearTarget, StartDrill, KeepRun
  <1>5. ASSUME NEW g \in Ids, verified'[g].manifest # NoManifest
        PROVE  [id |-> g, completed |-> verified'[g].manifest.completed] \in promoted'
    <2>1. verified'[g].manifest = verified[g].manifest
      BY <1>5, Decays
    <2>2. QED
      BY <1>1, <1>5, <2>1 DEF RetentionInv
  <1>6. ASSUME NEW i \in touched' \cup doomed'
        PROVE  \E g \in promoted : g.id = i /\ \A p \in Policy : ~Protected(g, p)
    <2>1. CASE i \in touched \cup doomed
      BY <2>1 DEF RetentionInv
    <2>2. QED
      BY <1>2, <1>6, <2>1, SelectedAreGivenUp
  <1>7. ASSUME NEW g \in promoted', g.id \in touched' \cup doomed', NEW p \in Policy PROVE ~Protected(g, p)'
    <2>1. PICK h \in promoted : h.id = g.id /\ ~Protected(h, p)
      BY <1>6, <1>7
    <2>2. h = g
      BY <1>1, <2>1 DEF OrderInv, InOrder
    <2>3. promoted' \subseteq Promotion
      BY <1>1, PromotedTypes
    <2>4. QED
      BY <1>1, <2>1, <2>2, <2>3, GivenUpForGood
  <1>8. \A g \in promoted' : g.id \notin touched' =>
            verified'[g.id].manifest = [completed |-> g.completed, sha |-> "whole"]
    BY <1>1, <1>3, <1>4, PromotedTypes DEF RetentionInv
  <1>9. QED
    BY <1>1, <1>5, <1>6, <1>7, <1>8 DEF RetentionInv

LEMMA RetentionStep ==
    ASSUME TypeOK, TypeOK', RunInv, NumbersInv, OrderInv, RetentionInv,
           (\E w \in Writers : RunOf(w)) \/ Elsewhere
    PROVE  RetentionInv'
  <1>1. ASSUME NEW w \in Writers, RunOf(w), ~Promote(w) PROVE RetentionInv'
    <2>1. UNCHANGED <<verified, promoted, touched, doomed>>
      BY <1>1 DEF RunOf, Look, Create, Copy, CheckCopy, WriteManifest, Unlock, Breaks, Kill, KeepRest
    <2>2. QED
      BY <2>1 DEF RetentionInv, Protected
  <1>2. QED
    BY <1>1, RetentionPromotes, RetentionElsewhere

-------------------------------------------------------------------------------
(* The inductive invariant                                                      *)

BackupInv ==
    /\ TypeOK /\ RunInv /\ DrillInv /\ Whole
    /\ NumbersInv /\ Drilling /\ LearntSoFar
    /\ OrderInv /\ RetentionInv

LEMMA BackupInvInit == Init => BackupInv
  <1>1. ASSUME Init PROVE RunInv /\ DrillInv /\ Whole
    BY <1>1 DEF Init, RunInv, MadeSoFar, Working, Asleep, AtEase, DrillInv, Whole, RestoreCandidatesAreWhole
  <1>2. ASSUME Init PROVE NumbersInv /\ Drilling /\ LearntSoFar
    BY <1>2 DEF Init, Working, Asleep, AtEase, NoDir, NumbersInv, Drilling, LearntSoFar, DrillFindsDamage
  <1>3. ASSUME Init PROVE OrderInv /\ RetentionInv
    BY <1>3 DEF Init, Working, Asleep, NoDir, OrderInv, InOrder, RetentionInv
  <1>4. QED
    BY <1>1, <1>2, <1>3, BackupInit DEF BackupInv

LEMMA BackupInvStep == BackupInv /\ [Next]_vars => BackupInv'
  <1>1. SUFFICES ASSUME BackupInv, [Next]_vars PROVE BackupInv'
    OBVIOUS
  <1>2. CASE \E w \in Writers : RunOf(w)
    <2>1. PICK w \in Writers : RunOf(w)
      BY <1>2
    <2>2. UNCHANGED drill
      BY <2>1 DEF RunOf, Look, Create, Copy, CheckCopy, WriteManifest, Promote, Unlock, Breaks, Kill, KeepRest
    <2>3. TypeOK' /\ RunInv' /\ Whole' /\ DrillInv'
      BY <1>1, <2>1, <2>2, RunStep, CandidatesStep DEF BackupInv, DrillInv
    <2>4. NumbersInv' /\ Drilling' /\ LearntSoFar'
      BY <1>1, <2>1, NumbersStep, DrillAndRuns DEF BackupInv
    <2>5. OrderInv' /\ RetentionInv'
      BY <1>1, <2>1, <2>3, OrderStep, RetentionStep DEF BackupInv
    <2>6. QED
      BY <2>3, <2>4, <2>5 DEF BackupInv
  <1>3. CASE Elsewhere
    <2>1. TypeOK' /\ RunInv' /\ Whole' /\ DrillInv'
      BY <1>1, <1>3, ElsewhereStep, CandidatesStep DEF BackupInv
    <2>2. NumbersInv' /\ Drilling' /\ LearntSoFar'
      BY <1>1, <1>3, NumbersStep, DrillElsewhere DEF BackupInv
    <2>3. OrderInv' /\ RetentionInv'
      BY <1>1, <1>3, <2>1, OrderStep, RetentionStep DEF BackupInv
    <2>4. QED
      BY <2>1, <2>2, <2>3 DEF BackupInv
  <1>4. CASE UNCHANGED vars
    <2>1. TypeOK' /\ RunInv' /\ DrillInv' /\ Whole'
      BY <1>1, <1>4 DEF vars, BackupInv, TypeOK, RunInv, MadeSoFar, DrillInv, Whole, RestoreCandidatesAreWhole
    <2>2. NumbersInv' /\ Drilling' /\ LearntSoFar'
      BY <1>1, <1>4 DEF vars, BackupInv, NumbersInv, Drilling, LearntSoFar, DrillFindsDamage
    <2>3. OrderInv' /\ RetentionInv'
      BY <1>1, <1>4 DEF vars, BackupInv, OrderInv, RetentionInv, Protected
    <2>4. QED
      BY <2>1, <2>2, <2>3 DEF BackupInv
  <1>5. QED
    BY <1>1, <1>2, <1>3, <1>4 DEF Next, RunOf, Elsewhere

(* Every variable of the backup tool keeps its type, for any number of runs,     *)
(* generations, days and faults, and no run is past the lock without it.        *)
THEOREM BackupTypeCorrect == Spec => []TypeOK
  <1>1. BackupInv => TypeOK
    BY DEF BackupInv
  <1>2. QED
    BY <1>1, BackupInvInit, BackupInvStep, PTL DEF Spec

(* However many runs look at the lock at once, and whatever is killed or fails   *)
(* to remove it, two of them never write at the same time.                      *)
THEOREM OnlyOneWriter == Spec => []OneWriter
  <1>1. BackupInv => OneWriter
    BY RunTypes DEF BackupInv, OneWriter, HasLock
  <1>2. QED
    BY <1>1, BackupInvInit, BackupInvStep, PTL DEF Spec

(* Nothing but a retention or the disk ever makes a generation under verified/   *)
(* less than a complete copy with a manifest of its hash.                       *)
THEOREM CandidatesAreWhole == Spec => []RestoreCandidatesAreWhole
  <1>1. BackupInv => RestoreCandidatesAreWhole
    BY DEF BackupInv, Whole
  <1>2. QED
    BY <1>1, BackupInvInit, BackupInvStep, PTL DEF Spec

(* Retention never takes a file of a generation that its policy protects among    *)
(* all that were ever verified, however long ago it listed what it deletes and    *)
(* however often it died half way: a list only names what newer generations of the *)
(* same bucket, or of enough later ones, have replaced for good.                 *)
THEOREM ProtectedGenerationsStay == Spec => []RetentionKeeps
  <1>1. ASSUME BackupInv PROVE RetentionKeeps
    <2>1. ASSUME NEW g \in promoted, NEW p \in Policy, Protected(g, p)
          PROVE  /\ verified[g.id].db = "whole" \/ g.id \in rotted
                 /\ verified[g.id].manifest = [completed |-> g.completed, sha |-> "whole"]
      <3>1. g.id \in Ids /\ g.id \notin touched
        BY <1>1, <2>1, PromotedTypes DEF BackupInv, RetentionInv
      <3>2. verified[g.id].manifest = [completed |-> g.completed, sha |-> "whole"]
        BY <1>1, <3>1 DEF BackupInv, RetentionInv
      <3>3. verified[g.id] # NoDir
        BY <3>2 DEF NoDir, NoManifest
      <3>4. QED
        BY <1>1, <3>1, <3>2, <3>3 DEF BackupInv, Whole, RestoreCandidatesAreWhole
    <2>2. QED
      BY <2>1 DEF RetentionKeeps
  <1>2. QED
    BY <1>1, BackupInvInit, BackupInvStep, PTL DEF Spec

(* A drill that passed had nothing to pass over: the generation was sound when   *)
(* it began, and its copy came in full although retention may have deleted the   *)
(* original, or the disk damaged it, between any two of its reads.              *)
THEOREM DrillsFindDamage == Spec => []DrillFindsDamage
  <1>1. BackupInv => DrillFindsDamage
    BY DEF BackupInv, LearntSoFar
  <1>2. QED
    BY <1>1, BackupInvInit, BackupInvStep, PTL DEF Spec
-------------------------------------------------------------------------------
(* The operational events: the rows of a miner and its outages                    *)

Own(m) == {r \in rows : r.miner = m}
BeginsOutage(r) == r.kind = "state_transition" /\ r.prev = "OK" /\ r.new \in Irregular
EndsOutage(r) == r.kind = "state_transition" /\ r.new = "OK"

EventTypes ==
    /\ now \in Nat /\ tick \in Nat /\ tick <= now /\ state \in [Miners -> States]
    /\ rows \subseteq Row /\ IsFiniteSet(rows) /\ sequence \in Nat /\ written \in Nat
    /\ outage \in [Miners -> Nat] /\ outages \in [Miners -> Nat]

(* AUTOINCREMENT gives the ids out as the rows are written, whatever leaves the table. *)
IdInv ==
    /\ sequence = written /\ noted.id = noted.serial
    /\ \A r \in rows : r.id = r.serial /\ r.id <= sequence
    /\ \A r, s \in rows : r.id = s.id => r = s

\* The tick that is running has ended the last outage of m.
JustEnded(m) == m \in done /\ outage[m] = NoOutage

\* What m is now, and what that says of a row of another outage.
LifeInv(m) ==
    /\ outage[m] \in {NoOutage, outages[m]} /\ (state[m] = "OK" <=> outage[m] = NoOutage)
    /\ \A r \in Own(m) :
          /\ r.outage # NoOutage => r.ts <= tick
          /\ r.outage <= outages[m]
          /\ r.outage \notin {NoOutage, outage[m]} => r.ts < tick \/ JustEnded(m)
          /\ BeginsOutage(r) => r.outage # NoOutage
          /\ EndsOutage(r) => r.outage # NoOutage /\ r.outage # outage[m]

\* Outages follow one another, each between the row that opens it and the one that closes it.
FollowInv(m) ==
    \A r, s \in Own(m) :
        /\ r.outage # NoOutage /\ r.outage < s.outage => r.ts < s.ts
        /\ r.outage = s.outage /\ (BeginsOutage(r) \/ EndsOutage(s)) => r.ts <= s.ts

\* Retention takes the oldest first: what came after a row that is there is there.
RemainsInv(m) ==
    m \notin missing =>
        \A r \in Own(m) : r.outage # NoOutage =>
            /\ r.outage # outage[m] => \E s \in Own(m) : EndsOutage(s) /\ s.outage = r.outage
            /\ \A k \in r.outage + 1..outages[m] : \E s \in Own(m) : BeginsOutage(s) /\ s.outage = k

EventInv ==
    EventTypes /\ IdInv /\ \A m \in Miners : LifeInv(m) /\ FollowInv(m) /\ RemainsInv(m)

LEMMA RowFields ==
    ASSUME EventTypes, NEW r \in rows
    PROVE  /\ r \in Row /\ r.id \in Nat /\ r.ts \in Nat /\ r.miner \in Miners
           /\ r.serial \in Nat /\ r.outage \in Nat
  <1>1. r \in Row
    BY DEF EventTypes
  <1>2. QED
    BY <1>1 DEF Row

LEMMA MinerFields ==
    ASSUME EventTypes, NEW m \in Miners
    PROVE  /\ now \in Nat /\ tick \in Nat /\ tick <= now
           /\ outage[m] \in Nat /\ outages[m] \in Nat /\ state[m] \in States
  BY DEF EventTypes

LEMMA EventInit == EventsInit => EventInv
  <1> SUFFICES ASSUME EventsInit PROVE EventInv
    OBVIOUS
  <1>1. rows = {} /\ IsFiniteSet(rows)
    BY FS_EmptySet DEF EventsInit
  <1>2. EventTypes
    BY <1>1 DEF EventsInit, EventTypes, States, NoOutage
  <1>3. IdInv
    BY <1>1 DEF EventsInit, IdInv, Nothing
  <1>4. ASSUME NEW m \in Miners PROVE LifeInv(m) /\ FollowInv(m) /\ RemainsInv(m)
    <2>1. Own(m) = {}
      BY <1>1 DEF Own
    <2>2. LifeInv(m)
      BY <2>1 DEF LifeInv, EventsInit, NoOutage
    <2>3. QED
      BY <2>1, <2>2 DEF FollowInv, RemainsInv
  <1>5. QED
    BY <1>2, <1>3, <1>4 DEF EventInv

(* The miner stays as it is; its rows stay, or the oldest of them go.             *)
LEMMA MinerStays ==
    ASSUME EventInv, NEW m \in Miners, EventTypes', tick <= tick', state'[m] = state[m],
           outage'[m] = outage[m], outages'[m] = outages[m],
           m \in done => m \in done' \/ tick < tick',
           m \in missing => m \in missing',
           Own(m)' \subseteq Own(m), \A r \in Own(m)', s \in Own(m) : r.ts <= s.ts => s \in Own(m)'
    PROVE  LifeInv(m)' /\ FollowInv(m)' /\ RemainsInv(m)'
  <1>0. LifeInv(m) /\ FollowInv(m) /\ RemainsInv(m) /\ tick \in Nat /\ tick' \in Nat
        /\ outages[m] \in Nat
    BY MinerFields DEF EventInv, EventTypes
  <1>1. \A r \in Own(m) : r.ts \in Nat /\ r.outage \in Nat
    BY RowFields DEF EventInv, Own
  <1>2. LifeInv(m)'
    BY <1>0, <1>1 DEF LifeInv, JustEnded, BeginsOutage, EndsOutage, NoOutage
  <1>3. FollowInv(m)'
    BY <1>0 DEF FollowInv, BeginsOutage, EndsOutage, NoOutage
  <1>4. RemainsInv(m)'
    <2>1. ASSUME m \notin missing', NEW r \in Own(m)', r.outage # NoOutage
          PROVE  /\ r.outage # outage[m] => \E s \in Own(m)' : EndsOutage(s) /\ s.outage = r.outage
                 /\ \A k \in r.outage + 1..outages[m] : \E s \in Own(m)' : BeginsOutage(s) /\ s.outage = k
      <3>1. r \in Own(m) /\ m \notin missing
        BY <2>1
      <3>2. ASSUME r.outage # outage[m] PROVE \E s \in Own(m)' : EndsOutage(s) /\ s.outage = r.outage
        <4>1. PICK s \in Own(m) : EndsOutage(s) /\ s.outage = r.outage
          BY <1>0, <2>1, <3>1, <3>2 DEF RemainsInv
        <4>2. r.ts <= s.ts
          BY <1>0, <3>1, <4>1 DEF FollowInv
        <4>3. QED
          BY <4>1, <4>2
      <3>3. ASSUME NEW k \in r.outage + 1..outages[m] PROVE \E s \in Own(m)' : BeginsOutage(s) /\ s.outage = k
        <4>1. PICK s \in Own(m) : BeginsOutage(s) /\ s.outage = k
          BY <1>0, <2>1, <3>1 DEF RemainsInv
        <4>2. r.outage < s.outage
          BY <1>0, <1>1, <3>1, <4>1
        <4>3. r.ts < s.ts
          BY <1>0, <2>1, <3>1, <4>2 DEF FollowInv
        <4>4. r.ts <= s.ts
          BY <1>1, <3>1, <4>3
        <4>5. QED
          BY <4>1, <4>4
      <3>4. QED
        BY <3>2, <3>3
    <2>2. QED
      BY <2>1 DEF RemainsInv, BeginsOutage, EndsOutage, NoOutage
  <1>5. QED
    BY <1>2, <1>3, <1>4

(* A row of m that is written now, with what becomes of m.                        *)
Stays(m, r) ==
    /\ r.outage \in {NoOutage, outage[m]} /\ (r.outage # NoOutage => r.ts = tick)
    /\ ~BeginsOutage(r) /\ ~EndsOutage(r)
    /\ state'[m] = state[m] /\ outage'[m] = outage[m] /\ outages'[m] = outages[m] /\ done' = done
Turns(m, r) == r.ts = tick /\ m \notin done /\ m \in done'
Falls(m, r) ==
    /\ Turns(m, r) /\ state[m] = "OK" /\ state'[m] # "OK" /\ BeginsOutage(r) /\ ~EndsOutage(r)
    /\ r.outage = outages[m] + 1 /\ outage'[m] = outages[m] + 1 /\ outages'[m] = outages[m] + 1
Worsens(m, r) ==
    /\ Turns(m, r) /\ state[m] # "OK" /\ state'[m] # "OK" /\ ~BeginsOutage(r) /\ ~EndsOutage(r)
    /\ r.outage = outage[m] /\ outage'[m] = outage[m] /\ outages'[m] = outages[m]
Recovers(m, r) ==
    /\ Turns(m, r) /\ state[m] # "OK" /\ state'[m] = "OK" /\ ~BeginsOutage(r) /\ EndsOutage(r)
    /\ r.outage = outage[m] /\ outage'[m] = NoOutage /\ outages'[m] = outages[m]

LEMMA MinerTurns ==
    ASSUME EventInv, NEW m \in Miners, EventTypes', tick' = tick, NEW row, row.ts \in Nat,
           Stays(m, row) \/ Falls(m, row) \/ Worsens(m, row) \/ Recovers(m, row),
           m \in missing => m \in missing',
           Own(m)' \subseteq Own(m) \cup {row}, Own(m) \subseteq Own(m)',
           m \notin missing' => row \in Own(m)'
    PROVE  LifeInv(m)' /\ FollowInv(m)' /\ RemainsInv(m)'
  <1>0. /\ LifeInv(m) /\ FollowInv(m) /\ RemainsInv(m)
        /\ tick \in Nat /\ outage[m] \in Nat /\ outages[m] \in Nat /\ NoOutage = 0
    BY MinerFields DEF EventInv, NoOutage
  <1>1. \A r \in Own(m) : r.ts \in Nat /\ r.outage \in Nat
    BY RowFields DEF EventInv, Own
  <1>2. row.outage \in Nat /\ (row.outage # NoOutage => row.ts = tick)
    BY <1>0 DEF Stays, Falls, Worsens, Recovers, Turns
  <1>3. ASSUME NEW r \in Own(m)
        PROVE  /\ r.outage # NoOutage => r.ts <= tick
               /\ r.outage <= outages[m]
               /\ (r.outage # NoOutage /\ r.outage < row.outage => r.ts < tick)
               /\ r.outage # NoOutage => ~(row.outage < r.outage) \/ row.outage = NoOutage
               /\ BeginsOutage(row) => r.outage # row.outage
               /\ EndsOutage(r) => r.outage # row.outage
    <2>1. /\ r.ts \in Nat /\ r.outage \in Nat /\ r.outage <= outages[m]
          /\ (r.outage # NoOutage => r.ts <= tick)
          /\ (r.outage \notin {NoOutage, outage[m]} => r.ts < tick \/ (m \in done /\ outage[m] = NoOutage))
          /\ EndsOutage(r) => r.outage # NoOutage /\ r.outage # outage[m]
          /\ outage[m] \in {NoOutage, outages[m]}
      BY <1>0, <1>1 DEF LifeInv, JustEnded
    <2>2. CASE row.outage \in {NoOutage, outage[m]} /\ ~BeginsOutage(row)
      BY <1>0, <2>1, <2>2
    <2>3. CASE row.outage = outages[m] + 1 /\ outage[m] = NoOutage /\ m \notin done
      BY <1>0, <2>1, <2>3
    <2>4. QED
      BY <1>0, <2>2, <2>3 DEF Stays, Falls, Worsens, Recovers, Turns, LifeInv
  <1>4. LifeInv(m)'
    <2>1. /\ outage'[m] \in {NoOutage, outages'[m]}
          /\ (state'[m] = "OK" <=> outage'[m] = NoOutage)
      BY <1>0 DEF LifeInv, Stays, Falls, Worsens, Recovers
    <2>2. ASSUME NEW r \in Own(m)'
          PROVE  /\ r.outage # NoOutage => r.ts <= tick
                 /\ r.outage <= outages'[m]
                 /\ r.outage \notin {NoOutage, outage'[m]} =>
                       r.ts < tick \/ (m \in done' /\ outage'[m] = NoOutage)
                 /\ BeginsOutage(r) => r.outage # NoOutage
                 /\ EndsOutage(r) => r.outage # NoOutage /\ r.outage # outage'[m]
      <3>1. CASE r = row
        BY <1>0, <1>2, <3>1 DEF LifeInv, Stays, Falls, Worsens, Recovers, Turns
      <3>2. CASE r \in Own(m)
        <4>1. /\ r.ts \in Nat /\ r.outage \in Nat /\ r.outage <= outages[m]
              /\ (r.outage # NoOutage => r.ts <= tick)
              /\ (r.outage \notin {NoOutage, outage[m]} => r.ts < tick \/ (m \in done /\ outage[m] = NoOutage))
              /\ BeginsOutage(r) => r.outage # NoOutage
              /\ EndsOutage(r) => r.outage # NoOutage /\ r.outage # outage[m]
              /\ outage[m] \in {NoOutage, outages[m]}
              /\ (state[m] = "OK" <=> outage[m] = NoOutage)
          BY <1>0, <1>1, <3>2 DEF LifeInv, JustEnded
        <4>2. CASE Stays(m, row)
          BY <4>1, <4>2 DEF Stays
        <4>3. CASE Falls(m, row)
          BY <1>0, <4>1, <4>3 DEF Falls, Turns
        <4>4. CASE Worsens(m, row)
          BY <1>0, <4>1, <4>4 DEF Worsens, Turns
        <4>5. CASE Recovers(m, row)
          BY <1>0, <4>1, <4>5 DEF Recovers, Turns
        <4>6. QED
          BY <4>2, <4>3, <4>4, <4>5
      <3>3. QED
        BY <3>1, <3>2
    <2>3. QED
      BY <2>1, <2>2 DEF LifeInv, JustEnded, BeginsOutage, EndsOutage, NoOutage
  <1>5. FollowInv(m)'
    <2>1. ASSUME NEW r \in Own(m)', NEW s \in Own(m)'
          PROVE  /\ r.outage # NoOutage /\ r.outage < s.outage => r.ts < s.ts
                 /\ r.outage = s.outage /\ (BeginsOutage(r) \/ EndsOutage(s)) => r.ts <= s.ts
      <3>1. CASE r \in Own(m) /\ s \in Own(m)
        BY <1>0, <3>1 DEF FollowInv
      <3>2. CASE r \in Own(m) /\ s = row
        <4>1. /\ r.ts \in Nat /\ r.outage \in Nat
              /\ (BeginsOutage(r) \/ EndsOutage(s)) /\ r.outage = s.outage => r.outage # NoOutage
          BY <1>0, <1>1, <3>2 DEF LifeInv, Stays, Falls, Worsens, Recovers
        <4>2. QED
          BY <1>0, <1>2, <1>3, <3>2, <4>1
      <3>3. CASE r = row /\ s \in Own(m)
        BY <1>0, <1>1, <1>2, <1>3, <3>3
      <3>4. CASE r = row /\ s = row
        BY <1>0, <1>2, <3>4
      <3>5. QED
        BY <3>1, <3>2, <3>3, <3>4
    <2>2. QED
      BY <2>1 DEF FollowInv, BeginsOutage, EndsOutage, NoOutage
  <1>6. RemainsInv(m)'
    <2> SUFFICES ASSUME m \notin missing', NEW r \in Own(m)', r.outage # NoOutage
                 PROVE  /\ r.outage # outage'[m] => \E s \in Own(m)' : EndsOutage(s) /\ s.outage = r.outage
                        /\ \A k \in r.outage + 1..outages'[m] : \E s \in Own(m)' : BeginsOutage(s) /\ s.outage = k
      BY DEF RemainsInv, BeginsOutage, EndsOutage, NoOutage
    <2>1. row \in Own(m)' /\ m \notin missing
      OBVIOUS
    <2>2. ASSUME r.outage # outage'[m] PROVE \E s \in Own(m)' : EndsOutage(s) /\ s.outage = r.outage
      <3>1. CASE r.outage = outage[m]
        <4>1. Recovers(m, row)
          BY <1>0, <2>2, <3>1 DEF Stays, Falls, Worsens, LifeInv
        <4>2. QED
          BY <2>1, <3>1, <4>1 DEF Recovers
      <3>2. CASE r.outage # outage[m]
        <4>1. r # row
          BY <2>2, <3>2 DEF Stays, Falls, Worsens, Recovers
        <4>2. QED
          BY <1>0, <2>1, <3>2, <4>1 DEF RemainsInv
      <3>3. QED
        BY <3>1, <3>2
    <2>3. ASSUME NEW k \in r.outage + 1..outages'[m] PROVE \E s \in Own(m)' : BeginsOutage(s) /\ s.outage = k
      <3>0. r.outage \in Nat /\ k \in Int /\ r.outage < k /\ k <= outages'[m] /\ outages'[m] \in Int
        <4>1. r.outage \in Nat
          BY <1>1, <1>2
        <4>2. outages'[m] \in Int
          BY <1>0 DEF Stays, Falls, Worsens, Recovers
        <4>3. QED
          BY <4>1, <4>2
      <3>1. CASE k <= outages[m]
        <4>1. r # row
          BY <1>0, <3>0, <3>1 DEF LifeInv, Stays, Falls, Worsens, Recovers
        <4>2. k \in r.outage + 1..outages[m]
          BY <1>0, <3>0, <3>1
        <4>3. QED
          BY <1>0, <2>1, <4>1, <4>2 DEF RemainsInv
      <3>2. CASE ~(k <= outages[m])
        <4>1. Falls(m, row)
          BY <1>0, <3>0, <3>2 DEF Stays, Worsens, Recovers
        <4>2. k = row.outage
          BY <1>0, <3>0, <3>2, <4>1 DEF Falls
        <4>3. QED
          BY <2>1, <4>1, <4>2 DEF Falls
      <3>3. QED
        BY <3>1, <3>2
    <2>4. QED
      BY <2>2, <2>3
  <1>7. QED
    BY <1>4, <1>5, <1>6

(* The row INSERT writes.                                                       *)
Entry(m, kind, ts, new, number) ==
    [id |-> LastId + 1, ts |-> ts, miner |-> m, kind |-> kind, prev |-> state[m], new |-> new,
     serial |-> written + 1, outage |-> number]

LEMMA RowWritten ==
    ASSUME EventInv, NEW m \in Miners, NEW kind \in Kinds \cup {"state_transition", "manual"},
           NEW ts \in Nat, NEW new \in States, NEW number \in Nat,
           Insert(m, kind, ts, new, number), noted' = noted
    PROVE  /\ rows' = rows \cup {Entry(m, kind, ts, new, number)}
           /\ rows' \subseteq Row /\ IsFiniteSet(rows')
           /\ sequence' \in Nat /\ written' \in Nat /\ IdInv'
           /\ \A other \in Miners \ {m} : Own(other)' = Own(other)
           /\ Own(m)' = Own(m) \cup {Entry(m, kind, ts, new, number)}
  <1> DEFINE row == Entry(m, kind, ts, new, number)
  <1>0. EventTypes /\ IdInv /\ sequence \in Nat /\ written \in Nat /\ IsFiniteSet(rows) /\ now \in Nat
        /\ state[m] \in States
    BY MinerFields DEF EventInv, EventTypes
  <1>1. rows' = rows \cup {row} /\ sequence' = sequence + 1 /\ written' = written + 1
    BY DEF Insert, LastId, Entry
  <1>2. /\ row.id = sequence + 1 /\ row.serial = written + 1 /\ row.miner = m
    BY DEF Entry, LastId
  <1>3. row \in Row
    BY <1>0 DEF Entry, LastId, Row
  <1>4. rows' \subseteq Row /\ IsFiniteSet(rows')
    BY <1>0, <1>1, <1>3, FS_AddElement DEF EventTypes
  <1> HIDE DEF row
  <1>5. \A r \in rows : r.id \in Nat /\ r.id = r.serial /\ r.id <= sequence
    BY <1>0, RowFields DEF IdInv
  <1>6. IdInv'
    <2>1. \A r, s \in rows' : r.id = s.id => r = s
      <3>1. \A r \in rows : r.id # row.id
        BY <1>0, <1>2, <1>5
      <3>2. QED
        BY <1>0, <1>1, <3>1 DEF IdInv
    <2>2. \A r \in rows' : r.id = r.serial /\ r.id <= sequence'
      <3>1. row.id = row.serial /\ row.id <= sequence'
        BY <1>0, <1>1, <1>2 DEF IdInv
      <3>2. ASSUME NEW r \in rows PROVE r.id = r.serial /\ r.id <= sequence'
        BY <1>0, <1>1, <1>5, <3>2
      <3>3. QED
        BY <1>1, <3>1, <3>2
    <2>3. sequence' = written' /\ noted'.id = noted'.serial
      BY <1>0, <1>1 DEF IdInv
    <2>4. QED
      BY <2>1, <2>2, <2>3 DEF IdInv
  <1>7. \A other \in Miners \ {m} : Own(other)' = Own(other)
    BY <1>1, <1>2 DEF Own
  <1>8. Own(m)' = Own(m) \cup {row}
    BY <1>1, <1>2 DEF Own
  <1>9. QED
    BY <1>0, <1>1, <1>4, <1>6, <1>7, <1>8 DEF row

\* What happens to one miner leaves the others as they are.
LEMMA OthersStay ==
    ASSUME EventInv, NEW m \in Miners, EventTypes', tick' = tick, done \subseteq done', missing \subseteq missing',
           NEW other \in Miners, other # m, Own(other)' = Own(other),
           state'[other] = state[other], outage'[other] = outage[other],
           outages'[other] = outages[other]
    PROVE  LifeInv(other)' /\ FollowInv(other)' /\ RemainsInv(other)'
  <1>1. tick <= tick'
    BY MinerFields DEF EventInv
  <1>2. QED
    BY <1>1, MinerStays

\* A row beside the changes of the miner: of the main loop, or of the poller.
LEMMA RowBeside ==
    ASSUME EventInv, NEW m \in Miners, NEW kind \in Kinds \cup {"manual"}, NEW ts \in Nat,
           NEW number \in {NoOutage, outage[m]}, number # NoOutage => ts = tick,
           Insert(m, kind, ts, state[m], number), UNCHANGED <<now, tick, first, miners, noted>>
    PROVE  EventInv'
  <1>0. EventTypes /\ outage[m] \in Nat /\ state[m] \in States /\ number \in Nat
    BY MinerFields DEF EventInv, NoOutage
  <1> DEFINE row == Entry(m, kind, ts, state[m], number)
  <1>1. UNCHANGED <<now, tick, done, state, outage, outages, missing, noted>>
    BY DEF miners
  <1>2. /\ rows' = rows \cup {row} /\ rows' \subseteq Row /\ IsFiniteSet(rows')
        /\ sequence' \in Nat /\ written' \in Nat /\ IdInv'
        /\ \A other \in Miners \ {m} : Own(other)' = Own(other)
        /\ Own(m)' = Own(m) \cup {row}
    BY <1>0, <1>1, RowWritten
  <1>3. EventTypes'
    BY <1>0, <1>1, <1>2 DEF EventTypes
  <1>4. row.ts = ts /\ row.outage = number /\ row.kind # "state_transition"
    BY EventLogAssumption DEF Entry
  <1> HIDE DEF row
  <1>5. Stays(m, row)
    BY <1>1, <1>4 DEF Stays, BeginsOutage, EndsOutage
  <1>6. LifeInv(m)' /\ FollowInv(m)' /\ RemainsInv(m)'
    BY <1>1, <1>2, <1>3, <1>4, <1>5, MinerTurns
  <1>7. \A other \in Miners \ {m} : LifeInv(other)' /\ FollowInv(other)' /\ RemainsInv(other)'
    BY <1>1, <1>2, <1>3, OthersStay
  <1>8. QED
    BY <1>2, <1>3, <1>6, <1>7 DEF EventInv

LEMMA RecordStep ==
    ASSUME EventInv, NEW m \in Miners, NEW kind \in Kinds, Record(m, kind)
    PROVE  EventInv'
  <1>1. tick \in Nat
    BY DEF EventInv, EventTypes
  <1>2. QED
    BY <1>1, RowBeside DEF Record

LEMMA OutcomeStep ==
    ASSUME EventInv, NEW m \in Miners, Outcome(m)
    PROVE  EventInv'
  <1>1. now \in Nat
    BY DEF EventInv, EventTypes
  <1>2. PICK confirmed \in 1..now : Insert(m, "manual", confirmed, state[m], NoOutage)
    BY DEF Outcome
  <1>3. confirmed \in Nat /\ "manual" \in Kinds \cup {"manual"}
    BY <1>1
  <1>4. UNCHANGED <<now, tick, first, miners, noted>>
    BY DEF Outcome
  <1>5. QED
    BY <1>2, <1>3, <1>4, RowBeside

LEMMA ChangeStep ==
    ASSUME EventInv, NEW m \in Miners, NEW new \in States, Change(m, new)
    PROVE  EventInv'
  <1>0. /\ EventTypes /\ IdInv /\ outage[m] \in Nat /\ outages[m] \in Nat /\ tick \in Nat
        /\ state[m] \in States
        /\ outage[m] \in {NoOutage, outages[m]} /\ (state[m] = "OK" <=> outage[m] = NoOutage)
    BY MinerFields DEF EventInv, LifeInv
  <1>1. /\ new # state[m] /\ m \notin done /\ done' = done \cup {m}
        /\ state' = [state EXCEPT ![m] = new]
        /\ outage' = [outage EXCEPT ![m] = NewNumber(m, new)]
        /\ outages' = IF state[m] = "OK" THEN [outages EXCEPT ![m] = @ + 1] ELSE outages
        /\ UNCHANGED <<now, tick, noted>>
    BY DEF Change
  <1>2. NewNumber(m, new) \in Nat /\ Belongs(m, new) \in Nat
    BY <1>0 DEF NewNumber, Belongs, NoOutage
  <1>3. /\ state'[m] = new /\ outage'[m] = NewNumber(m, new)
        /\ outages'[m] = IF state[m] = "OK" THEN outages[m] + 1 ELSE outages[m]
    BY <1>0, <1>1 DEF EventTypes
  <1>4. /\ state' \in [Miners -> States] /\ outage' \in [Miners -> Nat]
        /\ outages' \in [Miners -> Nat]
    <2>1. outages' \in [Miners -> Nat]
      BY <1>0, <1>1 DEF EventTypes
    <2>2. QED
      BY <1>0, <1>1, <1>2, <2>1 DEF EventTypes
  <1>5. \A other \in Miners : other # m =>
            /\ state'[other] = state[other] /\ outage'[other] = outage[other]
            /\ outages'[other] = outages[other]
    BY <1>0, <1>1 DEF EventTypes
  <1> DEFINE row == Entry(m, "state_transition", tick, new, Belongs(m, new))
  <1>6. /\ row.ts = tick /\ row.outage = Belongs(m, new) /\ row.kind = "state_transition"
        /\ row.prev = state[m] /\ row.new = new
    BY DEF Entry
  <1>7. /\ EventTypes' /\ IdInv' /\ missing \subseteq missing'
        /\ \A other \in Miners \ {m} : Own(other)' = Own(other)
        /\ Own(m)' \subseteq Own(m) \cup {row} /\ Own(m) \subseteq Own(m)'
        /\ (m \notin missing' => row \in Own(m)')
    <2>1. CASE Insert(m, "state_transition", tick, new, Belongs(m, new)) /\ missing' = missing
      <3>1. /\ rows' = rows \cup {row} /\ rows' \subseteq Row /\ IsFiniteSet(rows')
            /\ sequence' \in Nat /\ written' \in Nat /\ IdInv'
            /\ \A other \in Miners \ {m} : Own(other)' = Own(other)
            /\ Own(m)' = Own(m) \cup {row}
        BY <1>0, <1>1, <1>2, <2>1, RowWritten
      <3> HIDE DEF row
      <3>2. EventTypes'
        BY <1>0, <1>1, <1>4, <3>1 DEF EventTypes
      <3>3. QED
        BY <2>1, <3>1, <3>2
    <2>2. CASE UNCHANGED <<rows, sequence, written>> /\ missing' = missing \cup {m}
      <3> HIDE DEF row
      <3>1. EventTypes'
        BY <1>0, <1>1, <1>4, <2>2 DEF EventTypes
      <3>2. IdInv'
        BY <1>0, <1>1, <2>2 DEF IdInv
      <3>3. \A other \in Miners : Own(other)' = Own(other)
        BY <2>2 DEF Own
      <3>4. QED
        BY <2>2, <3>1, <3>2, <3>3
    <2>3. QED
      BY <2>1, <2>2 DEF Change, Refused, table
  <1> HIDE DEF row
  <1>8. Falls(m, row) \/ Worsens(m, row) \/ Recovers(m, row)
    <2>1. CASE state[m] = "OK"
      <3>1. new \in Irregular /\ new # "OK"
        BY <1>1, <2>1 DEF Irregular
      <3>2. NewNumber(m, new) = outages[m] + 1 /\ Belongs(m, new) = outages[m] + 1
        BY <2>1, <3>1 DEF NewNumber, Belongs
      <3>3. Falls(m, row)
        BY <1>1, <1>3, <1>6, <2>1, <3>1, <3>2 DEF Falls, Turns, BeginsOutage, EndsOutage
      <3>4. QED
        BY <3>3
    <2>2. CASE state[m] # "OK" /\ new # "OK"
      <3>1. NewNumber(m, new) = outage[m] /\ Belongs(m, new) = outage[m]
        BY <2>2 DEF NewNumber, Belongs
      <3>2. Worsens(m, row)
        BY <1>1, <1>3, <1>6, <2>2, <3>1 DEF Worsens, Turns, BeginsOutage, EndsOutage
      <3>3. QED
        BY <3>2
    <2>3. CASE state[m] # "OK" /\ new = "OK"
      <3>1. NewNumber(m, new) = NoOutage /\ Belongs(m, new) = outage[m]
        BY <2>3 DEF NewNumber, Belongs
      <3>2. Recovers(m, row)
        BY <1>1, <1>3, <1>6, <2>3, <3>1 DEF Recovers, Turns, BeginsOutage, EndsOutage
      <3>3. QED
        BY <3>2
    <2>4. QED
      BY <2>1, <2>2, <2>3
  <1>9. LifeInv(m)' /\ FollowInv(m)' /\ RemainsInv(m)'
    BY <1>0, <1>1, <1>6, <1>7, <1>8, MinerTurns
  <1>10. \A other \in Miners \ {m} : LifeInv(other)' /\ FollowInv(other)' /\ RemainsInv(other)'
    BY <1>1, <1>5, <1>7, OthersStay
  <1>11. QED
    BY <1>7, <1>9, <1>10 DEF EventInv

LEMMA PruneStep ==
    ASSUME EventInv, Prune
    PROVE  EventInv'
  <1>0. EventTypes /\ IdInv /\ tick \in Nat /\ Retention \in Nat
    BY EventLogAssumption DEF EventInv, EventTypes
  <1>1. /\ rows' = {r \in rows : ~Expired(r)}
        /\ UNCHANGED <<now, tick, done, state, sequence, written, outage, outages, missing, noted>>
    BY DEF Prune, miners
  <1>2. EventTypes'
    BY <1>0, <1>1, FS_Subset DEF EventTypes
  <1>3. IdInv'
    BY <1>0, <1>1 DEF IdInv
  <1>4. ASSUME NEW m \in Miners PROVE LifeInv(m)' /\ FollowInv(m)' /\ RemainsInv(m)'
    <2>1. Own(m)' \subseteq Own(m)
      BY <1>1 DEF Own
    <2>2. ASSUME NEW r \in Own(m)', NEW s \in Own(m), r.ts <= s.ts PROVE s \in Own(m)'
      <3>1. r.ts \in Nat /\ s.ts \in Nat /\ ~(r.ts < tick - Retention)
        BY <1>0, <1>1, RowFields DEF Own, Expired
      <3>2. ~(s.ts < tick - Retention)
        BY <1>0, <2>2, <3>1
      <3>3. QED
        BY <1>1, <3>2 DEF Own, Expired
    <2>3. QED
      BY <1>0, <1>1, <1>2, <2>1, <2>2, MinerStays
  <1>5. QED
    BY <1>2, <1>3, <1>4 DEF EventInv

\* Steps that leave the rows and the miners alone.
LEMMA RestStep ==
    ASSUME EventInv,
           Advance \/ StartTick \/ Restart \/ ListEvents \/ UNCHANGED eventVars
    PROVE  EventInv'
  <1>0. EventTypes /\ IdInv /\ now \in Nat /\ tick \in Nat /\ tick <= now
    BY DEF EventInv, EventTypes
  <1>1. /\ UNCHANGED <<state, rows, sequence, written, outage, outages, missing>>
        /\ now' \in Nat /\ tick' \in Nat /\ tick <= tick' /\ tick' <= now'
        /\ done' = done \/ tick < tick'
    BY <1>0 DEF Advance, StartTick, Restart, ListEvents, eventVars, miners, table
  <1>2. EventTypes'
    BY <1>0, <1>1 DEF EventTypes
  <1>3. noted'.id = noted'.serial
    <2>1. CASE ListEvents
      <3>1. PICK r \in rows : noted' = [id |-> r.id, serial |-> r.serial]
        BY <2>1 DEF ListEvents, Latest
      <3>2. QED
        BY <1>0, <3>1 DEF IdInv
    <2>2. CASE noted' = noted
      BY <1>0, <2>2 DEF IdInv
    <2>3. QED
      BY <2>1, <2>2 DEF Advance, StartTick, Restart, eventVars
  <1>4. IdInv'
    BY <1>0, <1>1, <1>3 DEF IdInv
  <1>5. ASSUME NEW m \in Miners PROVE LifeInv(m)' /\ FollowInv(m)' /\ RemainsInv(m)'
    <2>1. Own(m)' = Own(m)
      BY <1>1 DEF Own
    <2>2. QED
      BY <1>1, <1>2, <2>1, MinerStays
  <1>6. QED
    BY <1>2, <1>4, <1>5 DEF EventInv

LEMMA EventStep ==
    ASSUME EventInv, [EventsNext]_eventVars
    PROVE  EventInv'
  BY RestStep, PruneStep, RecordStep, OutcomeStep, ChangeStep DEF EventsNext

(* The id the operator wrote down names the event he read it of, or none, whatever   *)
(* retention has removed since: AUTOINCREMENT never gives an id out again           *)
(* (event_store.py:143-144, get_event).                                          *)
THEOREM IdsNeverNameAnother == EventsSpec => []IdsNameOneEvent
  <1>1. EventInv => IdsNameOneEvent
    BY DEF EventInv, IdInv, IdsNameOneEvent, Event
  <1>2. QED
    BY <1>1, EventInit, EventStep, PTL DEF EventsSpec

-------------------------------------------------------------------------------
(* The history of an event                                                       *)

LEMMA Extremes ==
    ASSUME NEW T, T \subseteq Nat, T # {}, NEW n \in Nat, \A x \in T : x <= n
    PROVE  /\ Max(T) \in T /\ \A x \in T : x <= Max(T)
           /\ Min(T) \in T /\ \A x \in T : Min(T) <= x
  <1> DEFINE D == {n - x : x \in T}
  <1>1. D \subseteq Nat /\ D # {}
    <2>1. \A x \in T : x \in Nat /\ n - x \in Nat
      OBVIOUS
    <2>2. QED
      BY <2>1
  <1>2. PICK d \in D : \A y \in D : d <= y
    BY <1>1, LeastNat
  <1>3. PICK greatest \in T : d = n - greatest
    BY <1>2
  <1>4. \A x \in T : greatest >= x
    <2>1. ASSUME NEW x \in T PROVE greatest >= x
      <3>1. n - greatest <= n - x
        BY <1>2, <1>3
      <3>2. x \in Nat /\ greatest \in Nat
        OBVIOUS
      <3>3. QED
        BY <3>1, <3>2
    <2>2. QED
      BY <2>1
  <1>5. Max(T) \in T /\ \A x \in T : Max(T) >= x
    BY <1>4 DEF Max
  <1>6. \A x \in T : x <= Max(T)
    <2>1. \A x \in T : x \in Nat /\ Max(T) \in Nat
      BY <1>5
    <2>2. QED
      BY <1>5, <2>1
  <1>7. \E x \in T : \A y \in T : x <= y
    BY LeastNat
  <1>8. Min(T) \in T /\ \A x \in T : Min(T) <= x
    BY <1>7 DEF Min
  <1>9. QED
    BY <1>5, <1>6, <1>8

\* The oldest Limit rows of a set that has as many are Limit rows.
LEMMA OldestOnes ==
    ASSUME EventInv, NEW W \in SUBSET rows, NEW n \in Nat,
           \E r \in W : ~(Cardinality({s \in W : Before(s, r)}) < n)
    PROVE  Cardinality({r \in W : Cardinality({s \in W : Before(s, r)}) < n}) = n
  <1> DEFINE P(r) == {s \in W : Before(s, r)}
             N == Cardinality(W)
             rank == [r \in W |-> Cardinality(P(r))]
             E == {r \in W : rank[r] < n}
             top == 0..n - 1
             place == [r \in E |-> rank[r]]
  <1>1. IsFiniteSet(W) /\ N \in Nat
    BY FS_Subset, FS_CardinalityType DEF EventInv, EventTypes
  <1>2. \A r \in W : r.ts \in Nat /\ r.id \in Nat
    BY RowFields DEF EventInv
  <1>3. \A r, s \in W : r # s => Before(r, s) \/ Before(s, r)
    <2>1. ASSUME NEW r \in W, NEW s \in W, r # s PROVE Before(r, s) \/ Before(s, r)
      <3>1. r.id # s.id
        BY <2>1 DEF EventInv, IdInv
      <3>2. QED
        BY <1>2, <3>1 DEF Before
    <2>2. QED
      BY <2>1
  <1>4. \A r, s, t \in W : Before(r, s) /\ Before(s, t) => Before(r, t)
    BY <1>2 DEF Before
  <1>5. \A r \in W : ~Before(r, r)
    BY <1>2 DEF Before
  <1>6. ASSUME NEW r \in W
        PROVE  /\ IsFiniteSet(P(r)) /\ rank[r] = Cardinality(P(r)) /\ rank[r] \in 0..N - 1
    <2>1. P(r) \in SUBSET (W \ {r})
      BY <1>5
    <2>2. IsFiniteSet(W \ {r}) /\ Cardinality(W \ {r}) = N - 1
      BY <1>1, FS_RemoveElement
    <2>3. IsFiniteSet(P(r)) /\ Cardinality(P(r)) <= N - 1
      BY <2>1, <2>2, FS_Subset
    <2>4. Cardinality(P(r)) \in Nat
      BY <2>3, FS_CardinalityType
    <2>5. QED
      BY <1>1, <2>3, <2>4
  <1>7. ASSUME NEW r \in W, NEW s \in W, Before(r, s) PROVE rank[r] # rank[s]
    <2>1. P(r) \in SUBSET P(s) /\ r \in P(s) /\ r \notin P(r)
      BY <1>4, <1>5, <1>7
    <2>2. Cardinality(P(s)) = Cardinality(P(r)) => P(s) = P(r)
      BY <1>6, <2>1, FS_Subset
    <2>3. QED
      BY <1>6, <2>1, <2>2
  <1> HIDE DEF P
  <1>8. rank \in [W -> 0..N - 1]
    BY <1>6
  <1> HIDE DEF rank
  <1>9. rank \in Injection(W, 0..N - 1)
    <2>1. \A r, s \in W : rank[r] = rank[s] => r = s
      BY <1>3, <1>7
    <2>2. QED
      BY <1>8, <2>1 DEF Injection, IsInjective
  <1>10. IsFiniteSet(0..N - 1) /\ Cardinality(0..N - 1) = N
    <2>1. 0 \in Int /\ N - 1 \in Int
      BY <1>1
    <2>2. IsFiniteSet(0..N - 1) /\ Cardinality(0..N - 1) = IF 0 > N - 1 THEN 0 ELSE N - 1 - 0 + 1
      BY <2>1, FS_Interval
    <2>3. QED
      BY <1>1, <2>2
  <1> HIDE DEF N
  <1>11. rank \in Surjection(W, 0..N - 1)
    <2>1. Cardinality(W) = Cardinality(0..N - 1)
      BY <1>10 DEF N
    <2>2. QED
      BY <1>9, <1>10, <2>1, FS_Injection
  <1>12. \A k \in 0..N - 1 : \E r \in W : rank[r] = k
    BY <1>11 DEF Surjection
  <1>13. n <= N - 1
    <2>1. PICK r \in W : ~(Cardinality(P(r)) < n)
      BY DEF P
    <2>2. rank[r] \in 0..N - 1 /\ ~(rank[r] < n)
      BY <1>6, <2>1
    <2>3. QED
      BY <1>1, <2>2
  <1>14. place \in [E -> top]
    <2>1. ASSUME NEW r \in E PROVE rank[r] \in top
      <3>1. rank[r] \in 0..N - 1 /\ rank[r] < n
        BY <1>8
      <3>2. QED
        BY <1>1, <3>1
    <2>2. QED
      BY <2>1
  <1>15. place \in Bijection(E, top)
    <2>1. \A r, s \in E : place[r] = place[s] => r = s
      BY <1>9 DEF Injection, IsInjective
    <2>2. \A k \in top : \E r \in E : place[r] = k
      <3>1. ASSUME NEW k \in top PROVE \E r \in E : place[r] = k
        <4>1. k \in 0..N - 1 /\ k < n
          BY <1>1, <1>13
        <4>2. PICK r \in W : rank[r] = k
          BY <1>12, <4>1
        <4>3. QED
          BY <4>1, <4>2
      <3>2. QED
        BY <3>1
    <2>3. QED
      BY <1>14, <2>1, <2>2 DEF Bijection, Injection, Surjection, IsInjective
  <1>16. IsFiniteSet(top) /\ Cardinality(top) = n
    <2>1. IsFiniteSet(top) /\ Cardinality(top) = IF 0 > n - 1 THEN 0 ELSE n - 1 - 0 + 1
      BY FS_Interval
    <2>2. QED
      BY <2>1
  <1>17. IsFiniteSet(E)
    BY <1>1, FS_Subset
  <1>18. Cardinality(E) = n
    <2>1. ExistsBijection(E, top)
      BY <1>15 DEF ExistsBijection
    <2>2. QED
      BY <1>16, <1>17, <2>1, FS_Bijection
  <1>19. E = {r \in W : Cardinality({s \in W : Before(s, r)}) < n}
    BY <1>6 DEF P
  <1>20. QED
    BY <1>18, <1>19

\* The window of an episode: where it begins and ends, and why.
LEMMA EpisodeBegins ==
    ASSUME EventInv, NEW a \in rows
    PROVE  /\ StartTs(a) \in Int /\ a.ts - Window <= StartTs(a)
           /\ \A s \in StartRows(a) : s.ts <= StartTs(a)
           /\ StartTs(a) = a.ts - Window \/ \E s \in StartRows(a) : StartTs(a) = s.ts
  <1>1. a.ts \in Nat /\ Window \in Nat /\ now \in Nat
    BY RowFields, EventLogAssumption DEF EventInv, EventTypes
  <1>2. \A s \in StartRows(a) : s.ts \in Nat /\ s.ts <= a.ts /\ a.ts - Window <= s.ts
    BY <1>1, RowFields DEF EventInv, StartRows
  <1>3. CASE StartRows(a) = {}
    BY <1>1, <1>3 DEF StartTs
  <1>4. CASE StartRows(a) # {}
    <2> DEFINE T == {s.ts : s \in StartRows(a)}
    <2>1. T \subseteq Nat /\ T # {} /\ \A x \in T : x <= a.ts
      BY <1>2, <1>4
    <2>2. Max(T) \in T /\ \A x \in T : x <= Max(T)
      BY <1>1, <2>1, Extremes
    <2>3. StartTs(a) = Max(T)
      BY <1>4 DEF StartTs
    <2>4. PICK s \in StartRows(a) : StartTs(a) = s.ts
      BY <2>2, <2>3
    <2>5. \A t \in StartRows(a) : t.ts <= StartTs(a)
      BY <2>2, <2>3
    <2>6. QED
      BY <1>1, <1>2, <2>4, <2>5
  <1>5. QED
    BY <1>3, <1>4

LEMMA EpisodeEnds ==
    ASSUME EventInv, NEW a \in rows
    PROVE  /\ EndTs(a) \in Int /\ EndTs(a) <= a.ts + Window
           /\ \A e \in EndRows(a) : EndTs(a) <= e.ts
           /\ EndTs(a) \in {now, a.ts + Window} \/ \E e \in EndRows(a) : EndTs(a) = e.ts
  <1>1. a.ts \in Nat /\ Window \in Nat /\ now \in Nat
    BY RowFields, EventLogAssumption DEF EventInv, EventTypes
  <1>2. \A e \in EndRows(a) : e.ts \in Nat /\ e.ts <= a.ts + Window
    BY <1>1, RowFields DEF EventInv, EndRows
  <1>3. CASE EndRows(a) = {}
    BY <1>1, <1>3 DEF EndTs
  <1>4. CASE EndRows(a) # {}
    <2> DEFINE T == {e.ts : e \in EndRows(a)}
    <2>1. T \subseteq Nat /\ T # {} /\ a.ts + Window \in Nat /\ \A x \in T : x <= a.ts + Window
      BY <1>1, <1>2, <1>4
    <2>2. Min(T) \in T /\ \A x \in T : Min(T) <= x
      BY <2>1, Extremes
    <2>3. EndTs(a) = Min(T)
      BY <1>4 DEF EndTs
    <2>4. PICK e \in EndRows(a) : EndTs(a) = e.ts
      BY <2>2, <2>3
    <2>5. \A t \in EndRows(a) : EndTs(a) <= t.ts
      BY <2>2, <2>3
    <2>6. QED
      BY <1>1, <1>2, <2>4, <2>5
  <1>5. QED
    BY <1>3, <1>4

\* The changes of a miner that an episode of it looks for.
LEMMA OwnChanges ==
    ASSUME EventInv, NEW a \in rows
    PROVE  /\ \A s \in StartRows(a) : s \in Own(a.miner) /\ BeginsOutage(s) /\ s.ts <= a.ts
           /\ \A e \in EndRows(a) : e \in Own(a.miner) /\ EndsOutage(e) /\ a.ts <= e.ts
           /\ \A s \in Own(a.miner) :
                  BeginsOutage(s) /\ s.ts <= a.ts /\ a.ts - Window <= s.ts => s \in StartRows(a)
           /\ \A e \in Own(a.miner) :
                  EndsOutage(e) /\ a.ts <= e.ts /\ e.ts <= a.ts + Window => e \in EndRows(a)
  <1>1. \A r \in rows : r.ts \in Nat
    BY RowFields DEF EventInv
  <1>2. QED
    BY <1>1 DEF StartRows, EndRows, OfMiner, Own, BeginsOutage, EndsOutage

(* No other outage of the miner reaches into the window.                         *)
LEMMA OnlyThisOutage ==
    ASSUME EventInv, NEW a \in rows, a.outage # NoOutage, a.miner \notin missing,
           NEW r \in Own(a.miner), r.outage # NoOutage, StartTs(a) <= r.ts, r.ts <= EndTs(a)
    PROVE  r.outage = a.outage
  <1> DEFINE m == a.miner
  <1>0. /\ m \in Miners /\ a \in Own(m) /\ a.ts \in Nat /\ a.outage \in Nat /\ NoOutage = 0
        /\ Window \in Nat /\ outages[m] \in Nat
        /\ \A s \in Own(m) : s.ts \in Nat /\ s.outage \in Nat
    BY RowFields, MinerFields, EventLogAssumption DEF EventInv, Own, NoOutage
  <1>1. LifeInv(m) /\ FollowInv(m) /\ RemainsInv(m)
    BY <1>0 DEF EventInv
  <1>2. ASSUME r.outage < a.outage PROVE FALSE
    <2>1. a.outage \in r.outage + 1..outages[m]
      BY <1>0, <1>1, <1>2 DEF LifeInv
    <2>2. PICK s \in Own(m) : BeginsOutage(s) /\ s.outage = a.outage
      BY <1>1, <2>1 DEF RemainsInv
    <2>3. r.ts < s.ts /\ s.ts <= a.ts
      BY <1>0, <1>1, <1>2, <2>2 DEF FollowInv
    <2>4. StartTs(a) >= s.ts
      <3>1. CASE a.ts - Window <= s.ts
        <4>1. s \in StartRows(a)
          BY <2>2, <2>3, <3>1, OwnChanges
        <4>2. QED
          BY <1>0, <2>2, <4>1, EpisodeBegins
      <3>2. CASE ~(a.ts - Window <= s.ts)
        BY <1>0, <2>2, <3>2, EpisodeBegins
      <3>3. QED
        BY <3>1, <3>2
    <2>5. QED
      BY <1>0, <2>2, <2>3, <2>4, EpisodeBegins
  <1>3. ASSUME a.outage < r.outage PROVE FALSE
    <2>1. a.outage # outage[m]
      BY <1>0, <1>1, <1>3 DEF LifeInv
    <2>2. PICK e \in Own(m) : EndsOutage(e) /\ e.outage = a.outage
      BY <1>0, <1>1, <2>1 DEF RemainsInv
    <2>3. a.ts <= e.ts /\ e.ts < r.ts
      BY <1>0, <1>1, <1>3, <2>2 DEF FollowInv
    <2>4. EndTs(a) <= e.ts
      <3>1. CASE e.ts <= a.ts + Window
        <4>1. e \in EndRows(a)
          BY <2>2, <2>3, <3>1, OwnChanges
        <4>2. QED
          BY <4>1, EpisodeEnds
      <3>2. CASE ~(e.ts <= a.ts + Window)
        BY <1>0, <2>2, <3>2, EpisodeEnds
      <3>3. QED
        BY <3>1, <3>2
    <2>5. QED
      BY <1>0, <2>2, <2>3, <2>4, EpisodeEnds
  <1>4. QED
    BY <1>0, <1>2, <1>3

(* All of this outage that the window reaches is between its bounds.             *)
LEMMA AllOfThisOutage ==
    ASSUME EventInv, NEW a \in rows, a.outage # NoOutage,
           NEW r \in Own(a.miner), r.outage = a.outage, a.ts - Window <= r.ts, r.ts <= a.ts + Window
    PROVE  StartTs(a) <= r.ts /\ r.ts <= EndTs(a)
  <1> DEFINE m == a.miner
  <1>0. /\ m \in Miners /\ a \in Own(m) /\ a.ts \in Nat /\ a.outage \in Nat /\ NoOutage = 0
        /\ Window \in Nat /\ now \in Nat
        /\ \A s \in Own(m) : s.ts \in Nat /\ s.outage \in Nat
    BY RowFields, MinerFields, EventLogAssumption DEF EventInv, Own, NoOutage
  <1>1. LifeInv(m) /\ FollowInv(m)
    BY <1>0 DEF EventInv
  <1>2. ASSUME NEW s \in StartRows(a) PROVE s.ts <= r.ts
    <2>1. s \in Own(m) /\ BeginsOutage(s) /\ s.ts <= a.ts /\ s.outage # NoOutage
      BY <1>1, OwnChanges DEF LifeInv
    <2>2. ~(a.outage < s.outage)
      BY <1>0, <1>1, <2>1 DEF FollowInv
    <2>3. CASE s.outage = a.outage
      BY <1>1, <2>1, <2>3 DEF FollowInv
    <2>4. CASE s.outage < a.outage
      <3>1. s.ts < r.ts
        BY <1>1, <2>1, <2>4 DEF FollowInv
      <3>2. QED
        BY <1>0, <2>1, <3>1
    <2>5. QED
      BY <1>0, <2>1, <2>2, <2>3, <2>4
  <1>3. ASSUME NEW e \in EndRows(a) PROVE r.ts <= e.ts
    <2>1. e \in Own(m) /\ EndsOutage(e) /\ a.ts <= e.ts /\ e.outage # NoOutage
      BY <1>1, OwnChanges DEF LifeInv
    <2>2. ~(e.outage < a.outage)
      BY <1>0, <1>1, <2>1 DEF FollowInv
    <2>3. CASE e.outage = a.outage
      BY <1>1, <2>1, <2>3 DEF FollowInv
    <2>4. CASE a.outage < e.outage
      <3>1. r.ts < e.ts
        BY <1>1, <2>1, <2>4 DEF FollowInv
      <3>2. QED
        BY <1>0, <2>1, <3>1
    <2>5. QED
      BY <1>0, <2>1, <2>2, <2>3, <2>4
  <1>4. StartTs(a) <= r.ts
    BY <1>2, EpisodeBegins
  <1>5. r.ts <= now
    <2>1. r.ts <= tick /\ tick \in Nat /\ tick <= now
      BY <1>0, <1>1, MinerFields DEF LifeInv, EventInv
    <2>2. QED
      BY <1>0, <2>1
  <1>6. r.ts <= EndTs(a)
    BY <1>3, <1>5, EpisodeEnds
  <1>7. QED
    BY <1>4, <1>6

(* The history of an event that the main loop recorded of an outage is the history  *)
(* of that outage, for every number of miners, window, limit, retention and delay   *)
(* of the calls: nothing it recorded of another outage of the miner is in it, and    *)
(* all it recorded of this one within the window is, unless the limit cut it off,    *)
(* as long as no change of the miner was left unrecorded (list_episode_events,      *)
(* event_store.py:614-685).                                                      *)
THEOREM HistoriesAreOfOneOutage == EventsSpec => []EpisodeIsOneOutage
  <1>1. ASSUME EventInv PROVE EpisodeIsOneOutage
    <2> SUFFICES ASSUME NEW a \in rows, a.outage # NoOutage, a.miner \notin missing
                 PROVE  /\ \A r \in Episode(a) \cap Own(a.miner) : r.outage \in {a.outage, NoOutage}
                        /\ \/ Cardinality(Episode(a)) = Limit
                           \/ \A r \in Own(a.miner) :
                                 r.outage = a.outage /\ r.ts >= a.ts - Window /\ r.ts <= a.ts + Window
                                    => r \in Episode(a)
      BY DEF EpisodeIsOneOutage, Own
    <2> DEFINE within == {r \in rows : r.ts >= StartTs(a) /\ r.ts <= EndTs(a)}
    <2>1. Episode(a) = {r \in within : Cardinality({s \in within : Before(s, r)}) < Limit}
      BY DEF Episode
    <2>2. Limit \in Nat
      BY EventLogAssumption
    <2>3. \A r \in rows : r.ts \in Nat
      BY <1>1, RowFields DEF EventInv
    <2>4. a.ts \in Nat /\ Window \in Nat /\ StartTs(a) \in Int
      BY <1>1, <2>3, EpisodeBegins, EventLogAssumption
    <2>5. ASSUME NEW r \in Episode(a) \cap Own(a.miner) PROVE r.outage \in {a.outage, NoOutage}
      <3>1. r \in Own(a.miner) /\ r.ts \in Nat /\ r.ts >= StartTs(a) /\ r.ts <= EndTs(a)
        BY <2>1, <2>3
      <3>2. StartTs(a) <= r.ts
        BY <2>4, <3>1
      <3>3. QED
        BY <1>1, <3>1, <3>2, OnlyThisOutage
    <2>6. CASE \A r \in within : Cardinality({s \in within : Before(s, r)}) < Limit
      <3>1. Episode(a) = within
        BY <2>1, <2>6
      <3>2. ASSUME NEW r \in Own(a.miner), r.outage = a.outage, r.ts >= a.ts - Window, r.ts <= a.ts + Window
            PROVE  r \in within
        <4>1. r \in rows /\ r.ts \in Nat
          BY <2>3 DEF Own
        <4>2. a.ts - Window <= r.ts
          BY <2>4, <3>2, <4>1
        <4>3. StartTs(a) <= r.ts /\ r.ts <= EndTs(a)
          BY <1>1, <3>2, <4>2, AllOfThisOutage
        <4>4. QED
          BY <2>4, <4>1, <4>3
      <3>3. QED
        BY <2>5, <3>1, <3>2
    <2>7. CASE \E r \in within : ~(Cardinality({s \in within : Before(s, r)}) < Limit)
      <3>1. within \in SUBSET rows
        OBVIOUS
      <3> HIDE DEF within
      <3>2. Cardinality(Episode(a)) = Limit
        BY <1>1, <2>1, <2>2, <2>7, <3>1, OldestOnes
      <3>3. QED
        BY <2>5, <3>2
    <2>8. QED
      BY <2>6, <2>7
  <1>2. QED
    BY <1>1, EventInit, EventStep, PTL DEF EventsSpec
===============================================================================
