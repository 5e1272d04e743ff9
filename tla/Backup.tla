--------------------------------- MODULE Backup ---------------------------------
(***************************************************************************)
(* The backup tool src/tools/event_store_backup.py: the runs of --action      *)
(* backup (the scheduled task and a hand on the console may overlap), the      *)
(* retention that deletes verified generations without taking their lock, and  *)
(* the restore drill that reads a generation while both go on.                *)
(*                                                                         *)
(* A step is what one call of the operating system or of SQLite does.  A file  *)
(* of a generation is a token that tells its state: what a hash, an integrity   *)
(* check and the counts of the tables tell apart.  Ids are numbered in the      *)
(* order they are drawn; the lock makes it the order of completed_ts as well.   *)
(***************************************************************************)
EXTENDS Integers, FiniteSets

CONSTANTS
    Writers,    \* processes that may run --action backup
    Policy,     \* RetentionPolicy: [width, limit], a bucket is of width days
    MaxId, MaxDay, MaxFaults   \* bounds

ASSUME BackupAssumption ==
    /\ IsFiniteSet(Writers) /\ "no one" \notin Writers
    /\ Policy \subseteq [width : Nat \ {0}, limit : Nat \ {0}]
    /\ MaxId \in Nat /\ MaxDay \in Nat /\ MaxFaults \in Nat

Ids == 1..MaxId
NoId == 0
NoOne == "no one"

File == {"absent", "partial", "whole", "rotten"}

\* manifest.json: completed_ts and the sha256 of the file it describes.
NoManifest == [completed |-> -1, sha |-> "absent"]
Manifest == [completed : -1..MaxDay, sha : File]

\* A directory under verified/ or temporary/, and the target of a drill.
NoDir == [db |-> "absent", manifest |-> NoManifest]
Dir == [db : File, manifest : Manifest]

Holding == {"copy", "check", "manifest", "promote", "unlock"}
Asleep == [at |-> "idle", id |-> NoId, dir |-> NoDir, answer |-> "none"]
AtEase == [at |-> "idle", id |-> NoId, manifest |-> NoManifest, answer |-> "none", sound |-> TRUE]
-------------------------------------------------------------------------------
VARIABLES
    day,        \* the clock, in the days the retention counts
    nextId,     \* the next backup_id
    lock,       \* .backup.lock: who created it, or NoOne when there is no file
    writer,     \* the backup runs: [at, id, dir (in temporary/), answer]
    verified,   \* the directories under verified/
    doomed,     \* to_delete_ids of the retention in progress
    drill,      \* the restore drill in progress: [at, id, manifest, answer, sound]
    target,     \* its target directory
    (* observation variables *)
    promoted,   \* every generation ever verified: [id, completed]
    rotted,     \* those the disk has damaged
    touched,    \* those a retention has taken a file from
    faults

vars == <<day, nextId, lock, writer, verified, doomed, drill, target, promoted, rotted, touched, faults>>

Init ==
    /\ day = 0 /\ nextId = 1 /\ lock = NoOne
    /\ writer = [w \in Writers |-> Asleep]
    /\ verified = [g \in Ids |-> NoDir]
    /\ doomed = {} /\ drill = AtEase /\ target = NoDir
    /\ promoted = {} /\ rotted = {} /\ touched = {} /\ faults = 0

\* No directory is ever half written, and no run is past the lock without the file.
TypeOK ==
    /\ day \in 0..MaxDay /\ nextId \in 1..MaxId + 1 /\ lock \in Writers \cup {NoOne}
    /\ writer \in [Writers -> [at : {"idle", "create"} \cup Holding, id : Ids \cup {NoId}, dir : Dir,
                               answer : {"none", "verified", "failed", "skipped_locked", "raised"}]]
    /\ verified \in [Ids -> Dir] /\ doomed \subseteq Ids /\ target \in Dir
    /\ drill \in [at : {"idle", "hash", "db", "manifest", "verdict"}, id : Ids \cup {NoId},
                  manifest : Manifest, answer : {"none", "passed", "failed"}, sound : BOOLEAN]
    /\ promoted \subseteq [id : Ids, completed : 0..MaxDay] /\ rotted \subseteq Ids /\ touched \subseteq Ids
    /\ faults \in 0..MaxFaults
    /\ \A w \in Writers : writer[w].at \in Holding => lock = w

Fault == faults < MaxFaults /\ faults' = faults + 1
-------------------------------------------------------------------------------
(* A backup run *)

Goes(w, at) == writer' = [writer EXCEPT ![w].at = at]
Answers(w, answer, at) == writer' = [writer EXCEPT ![w] = [Asleep EXCEPT !.at = at, !.answer = answer]]

KeepRest == UNCHANGED <<day, doomed, drill, target, rotted, touched>>

\* The paths, the free space and the source are found in order (a run that is blocked by them
\* changes nothing), and lock_file.exists() is asked before the file is created.
Look(w) ==
    /\ writer[w].at = "idle" /\ nextId <= MaxId
    /\ IF lock # NoOne THEN Answers(w, "skipped_locked", "idle")
                       ELSE Answers(w, "none", "create")
    /\ KeepRest /\ UNCHANGED <<nextId, lock, verified, promoted, faults>>

\* Mutant: the lock file is opened without O_EXCL.
AnyOpen == TRUE
Exclusive == lock = NoOne

\* os.open(O_CREAT | O_EXCL), the id and the temporary directory.
Create(w) ==
    /\ writer[w].at = "create" /\ nextId <= MaxId
    /\ IF Exclusive
       THEN /\ lock' = w /\ nextId' = nextId + 1
            /\ writer' = [writer EXCEPT ![w].at = "copy", ![w].id = nextId,
                                        ![w].dir.db = "partial"]
       ELSE Answers(w, "skipped_locked", "idle") /\ UNCHANGED <<lock, nextId>>
    /\ KeepRest /\ UNCHANGED <<verified, promoted, faults>>

\* Connection.backup: SQLite starts the copy over when the source changes under it, so that
\* what it completes is one state of the source.
Copy(w) ==
    /\ writer[w].at = "copy"
    /\ writer' = [writer EXCEPT ![w].at = "check", ![w].dir.db = "whole"]
    /\ KeepRest /\ UNCHANGED <<nextId, lock, verified, promoted, faults>>

\* PRAGMA integrity_check; a copy that fails it is removed.
CheckCopy(w) ==
    /\ writer[w].at = "check"
    /\ \/ Goes(w, "manifest") /\ UNCHANGED faults
       \/ Fault /\ Answers(w, "failed", "unlock")
    /\ KeepRest /\ UNCHANGED <<nextId, lock, verified, promoted>>

Described(dir) == [dir EXCEPT !.manifest = [completed |-> day, sha |-> dir.db]]

\* The rename of the file, its hash and manifest.json.
WriteManifest(w) ==
    /\ writer[w].at = "manifest"
    /\ writer' = [writer EXCEPT ![w].at = "promote", ![w].dir = Described(writer[w].dir)]
    /\ KeepRest /\ UNCHANGED <<nextId, lock, verified, promoted, faults>>

\* Mutant: a copy is moved as soon as it is complete.
AnyStage(w) == writer[w].at \in {"copy", "promote"}
Finished(w) == writer[w].at = "promote"

\* temp_dir.rename(verified_dir).
Promote(w) ==
    /\ Finished(w)
    /\ LET run == writer[w]
       IN  /\ verified' = [verified EXCEPT ![run.id] = run.dir]
           /\ promoted' = promoted \cup {[id |-> run.id, completed |-> run.dir.manifest.completed]}
    /\ Answers(w, "verified", "unlock")
    /\ KeepRest /\ UNCHANGED <<nextId, lock, faults>>

\* The lock is removed on every way out, if the operating system lets it.
Unlock(w) ==
    /\ writer[w].at = "unlock" /\ Goes(w, "idle")
    /\ \/ lock' = NoOne /\ UNCHANGED faults
       \/ Fault /\ UNCHANGED lock
    /\ KeepRest /\ UNCHANGED <<nextId, verified, promoted>>

\* An OSError under the lock (a full disk) is answered like a lock that is taken, an error of
\* SQLite is raised; what is in temporary/ stays there.
Breaks(w) ==
    /\ writer[w].at \in Holding \ {"unlock"} /\ Fault
    /\ \E answer \in {"skipped_locked", "raised"} : Answers(w, answer, "unlock")
    /\ KeepRest /\ UNCHANGED <<nextId, lock, verified, promoted>>

\* The scheduler stops a run after five minutes (install_backup_task.ps1:114), and a process
\* may die at any step: its lock file stays.
Kill(w) ==
    /\ writer[w].at # "idle" /\ Fault
    /\ writer' = [writer EXCEPT ![w] = Asleep]
    /\ KeepRest /\ UNCHANGED <<nextId, lock, verified, promoted>>
-------------------------------------------------------------------------------
(* Retention *)

Key(g, p) == g.completed \div p.width

\* The id whose record the loop comes to as its i-th.
\* Mutant: each bucket keeps the first of its generations.
OldestFirst(i) == i
NewestFirst(i) == MaxId + 1 - i

\* g opens the next bucket of a kind that has room for one.
Opens(g, p, kept) == Cardinality(kept) < p.limit /\ \A h \in kept : Key(h, p) # Key(g, p)

\* RetentionPolicy.select_generations: the buckets of one kind are filled while there are fewer
\* than their limit, each by the first generation met that falls into it.
Filled(p, records) ==
    LET kept[i \in 0..MaxId] ==
            IF i = 0 THEN {}
            ELSE LET before == kept[i - 1]
                 IN  before \cup {g \in records : g.id = NewestFirst(i) /\ Opens(g, p, before)}
    IN  kept[MaxId]

Kept(records) == UNION {Filled(p, records) : p \in Policy}

\* Whatever can be read as a manifest under verified/.
Records == {[id |-> g, completed |-> verified[g].manifest.completed] :
               g \in {g \in Ids : verified[g].manifest # NoManifest}}

Selected == {g.id : g \in Records \ Kept(Records)}

KeepRun == UNCHANGED <<day, nextId, lock, writer, promoted, drill, target, rotted>>

\* Deletes by what was listed, however long ago that was.
ListGenerations ==
    /\ doomed = {} /\ Selected # {} /\ doomed' = Selected
    /\ KeepRun /\ UNCHANGED <<verified, touched, faults>>

Emptied(dir) ==
    {d \in {[dir EXCEPT !.db = "absent"], [dir EXCEPT !.manifest = NoManifest]} : d # dir}

\* shutil.rmtree takes the files of a generation one after the other, in any order; the errors
\* it meets (a file that is open elsewhere) are ignored.
Delete ==
    /\ \E g \in doomed :
        \/ /\ \E dir \in Emptied(verified[g]) :
                /\ verified' = [verified EXCEPT ![g] = dir]
                /\ doomed' = IF dir = NoDir THEN doomed \ {g} ELSE doomed
           /\ touched' = touched \cup {g} /\ UNCHANGED faults
        \/ Fault /\ doomed' = doomed \ {g} /\ UNCHANGED <<verified, touched>>
    /\ KeepRun

\* The retention dies with a generation half deleted.
KillRetention ==
    /\ doomed # {} /\ Fault /\ doomed' = {}
    /\ KeepRun /\ UNCHANGED <<verified, touched>>
-------------------------------------------------------------------------------
(* The restore drill *)

KeepBackups == UNCHANGED <<day, nextId, lock, writer, doomed, promoted, touched>>

\* The directory must be there with both files, the target must be empty.
StartDrill(g) ==
    /\ drill.at = "idle" /\ target = NoDir
    /\ verified[g].db # "absent" /\ verified[g].manifest # NoManifest
    /\ drill' = [at |-> "hash", id |-> g, manifest |-> verified[g].manifest, answer |-> "none",
                 sound |-> verified[g].db = verified[g].manifest.sha]
    /\ KeepBackups /\ UNCHANGED <<verified, target, rotted, faults>>

Ends(answer) == drill' = [drill EXCEPT !.at = "idle", !.answer = answer]

\* Mutant: the drill does not compare the hash.
AnyHash == verified[drill.id].db # "absent"
SameHash == verified[drill.id].db = drill.manifest.sha

\* compute_file_sha256; a file the retention has taken meanwhile raises, here as below.
HashDb ==
    /\ drill.at = "hash"
    /\ IF SameHash THEN drill' = [drill EXCEPT !.at = "db"]
       ELSE Ends(IF verified[drill.id].db = "absent" THEN "none" ELSE "failed")
    /\ KeepBackups /\ UNCHANGED <<verified, target, rotted, faults>>

CopyDb ==
    /\ drill.at = "db"
    /\ IF verified[drill.id].db # "absent"
       THEN target' = [target EXCEPT !.db = verified[drill.id].db] /\ drill' = [drill EXCEPT !.at = "manifest"]
       ELSE Ends("none") /\ UNCHANGED target
    /\ KeepBackups /\ UNCHANGED <<verified, rotted, faults>>

CopyManifest ==
    /\ drill.at = "manifest"
    /\ IF verified[drill.id].manifest # NoManifest
       THEN /\ target' = [target EXCEPT !.manifest = verified[drill.id].manifest]
            /\ drill' = [drill EXCEPT !.at = "verdict"]
       ELSE Ends("none") /\ UNCHANGED target
    /\ KeepBackups /\ UNCHANGED <<verified, rotted, faults>>

\* integrity_check, user_version and the counts of the tables, on the copy; damage inside a
\* page is not always noticed by them.
Verdict ==
    /\ drill.at = "verdict"
    /\ \/ target.db \in {"whole", "rotten"} /\ Ends("passed")
       \/ target.db # "whole" /\ Ends("failed")
    /\ KeepBackups /\ UNCHANGED <<verified, target, rotted, faults>>

\* The operator clears the target for the next drill.
ClearTarget ==
    /\ drill.at = "idle" /\ target # NoDir /\ target' = NoDir /\ drill' = AtEase
    /\ KeepBackups /\ UNCHANGED <<verified, rotted, faults>>

\* The disk damages a file of a generation.
Rot(g) ==
    /\ verified[g].db = "whole" /\ Fault
    /\ verified' = [verified EXCEPT ![g].db = "rotten"] /\ rotted' = rotted \cup {g}
    /\ KeepBackups /\ UNCHANGED <<drill, target>>

NextDay ==
    /\ day < MaxDay /\ day' = day + 1
    /\ UNCHANGED <<nextId, lock, writer, verified, doomed, drill, target, promoted, rotted, touched, faults>>
-------------------------------------------------------------------------------
Next ==
    \/ NextDay
    \/ \E w \in Writers :
        \/ Look(w) \/ Create(w) \/ Copy(w) \/ CheckCopy(w) \/ WriteManifest(w) \/ Promote(w)
        \/ Unlock(w) \/ Breaks(w) \/ Kill(w)
    \/ ListGenerations \/ Delete \/ KillRetention
    \/ \E g \in Ids : StartDrill(g) \/ Rot(g)
    \/ HashDb \/ CopyDb \/ CopyManifest \/ Verdict \/ ClearTarget

Spec == Init /\ [][Next]_vars
-------------------------------------------------------------------------------
(* Two runs that both saw no lock file never both write: one of them at most is past the
   creation of the lock (event_store_backup.py:224-235). *)
OneWriter ==
    \A v, w \in Writers : writer[v].at \in Holding /\ writer[w].at \in Holding => v = w

(* What lies under verified/ is a copy that was completed and checked, with a manifest that names
   its hash, whatever was killed or failed on the way and however many runs were at it; only a
   retention and the disk itself change that later (specs/028 SC-002, SC-005). *)
RestoreCandidatesAreWhole ==
    \A g \in Ids \ touched :
        verified[g] # NoDir =>
            /\ verified[g].manifest.sha = "whole"
            /\ verified[g].db = "whole" \/ g \in rotted

\* What the policy means: the last generation of each of the latest buckets.
Protected(g, p) ==
    /\ \A h \in promoted : Key(h, p) = Key(g, p) => h.id <= g.id
    /\ Cardinality({Key(h, p) : h \in {h \in promoted : Key(h, p) > Key(g, p)}}) < p.limit

(* Retention holds no lock and deletes by a list that backups and its own interrupted runs
   outdate, and still every generation the policy protects among all that were ever verified
   is there in full (specs/028 FR-005, event_store_backup.py:363-396). *)
RetentionKeeps ==
    \A g \in promoted :
        (\E p \in Policy : Protected(g, p)) =>
            /\ verified[g.id].db = "whole" \/ g.id \in rotted
            /\ verified[g.id].manifest = [completed |-> g.completed, sha |-> "whole"]

(* A drill that passed had nothing to pass over: the generation was sound when the drill began,
   and its copy came in full although retention may have deleted the original meanwhile. *)
DrillFindsDamage ==
    drill.answer = "passed" => drill.sound /\ target.db # "absent" /\ target.manifest = drill.manifest

===============================================================================
