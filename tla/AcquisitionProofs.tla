--------------------------- MODULE AcquisitionProofs --------------------------
(***************************************************************************)
(* In-flight exclusion, the leases, the budget of requests and the refinement of *)
(* EpochPolling, for any fleet, any number of workers and any number of ticks.  *)
(* OwnerInv says who holds a lease, BudgetInv which miner has been asked,       *)
(* ResultInv which miner has an envelope or a job that will give it one.        *)
(***************************************************************************)
EXTENDS Acquisition, SequenceTheorems, TLAPS

LEMMA Constants ==
    /\ N \in Nat /\ Fleet \subseteq Nat /\ "silent" \in Says /\ Says \subseteq {"silent", "noRate", "rate"}
    /\ NoEnvelope \in Envelope /\ NoJob \in Nat
    /\ \A q \in {"none", "valid", "invalid", "error", "late"} : Placeholder(q) \in Envelope
    /\ \A env \in Envelope : AsLate(env) \in Envelope
    /\ \A says \in Says : SummaryEnvelope(says) \in Envelope
  <1>1. /\ N \in Nat /\ "silent" \in Says /\ Says \subseteq {"silent", "noRate", "rate"}
    BY AcquisitionAssumption DEF AcquisitionAssumption
  <1>2. NoEnvelope \in Envelope
    BY <1>1 DEF NoEnvelope, Envelope
  <1>3. \A q \in {"none", "valid", "invalid", "error", "late"} : Placeholder(q) \in Envelope
    BY <1>1, <1>2 DEF Placeholder, NoEnvelope, Envelope
  <1>4. \A env \in Envelope : AsLate(env) \in Envelope
    BY DEF AsLate, Envelope
  <1>5. \A says \in Says : SummaryEnvelope(says) \in Envelope
    BY <1>1 DEF SummaryEnvelope, Envelope
  <1>6. QED
    BY <1>1, <1>2, <1>3, <1>4, <1>5 DEF Fleet, NoJob

Stage == [at : Stages, job : Nat, env : Envelope]

LEMMA Types ==
    ASSUME TypeOK
    PROVE  /\ jobs \in Seq(Job) /\ Len(jobs) \in Nat /\ DOMAIN jobs = 1..Len(jobs)
           /\ \A j \in DOMAIN jobs : jobs[j] \in Job
           /\ \A j \in DOMAIN jobs : j \in Nat /\ jobs[j].ep \in Fleet /\ jobs[j].epoch \in Nat
           /\ lease \in [Fleet -> Nat] /\ envelopes \in [Fleet -> Envelope]
           /\ worker \in [Workers -> Stage] /\ epoch \in Nat /\ next \in 1..(N + 1)
           /\ undone \subseteq DOMAIN jobs
  <1>1. jobs \in Seq(Job)
    BY DEF TypeOK
  <1>2. Len(jobs) \in Nat /\ DOMAIN jobs = 1..Len(jobs) /\ \A j \in DOMAIN jobs : jobs[j] \in Job
    BY <1>1, ElementOfSeq, LenProperties
  <1>3. \A j \in DOMAIN jobs : j \in Nat /\ jobs[j].ep \in Fleet /\ jobs[j].epoch \in Nat
    BY <1>2 DEF Job
  <1>4. /\ lease \in [Fleet -> Nat] /\ envelopes \in [Fleet -> Envelope]
        /\ worker \in [Workers -> Stage] /\ epoch \in Nat /\ next \in 1..(N + 1)
        /\ undone \subseteq DOMAIN jobs
    BY DEF TypeOK, Stage
  <1>5. QED
    BY <1>1, <1>2, <1>3, <1>4

LEMMA AllJobs ==
    ASSUME TypeOK, NEW f \in [DOMAIN jobs -> Job]
    PROVE  f \in Seq(Job) /\ DOMAIN f = DOMAIN jobs
  <1>1. Len(jobs) \in Nat /\ DOMAIN jobs = 1..Len(jobs)
    BY Types
  <1>2. f \in [1..Len(jobs) -> Job]
    BY <1>1
  <1>3. QED
    BY <1>1, <1>2, IsASeq

LEMMA JobUpdates ==
    ASSUME TypeOK, NEW j \in DOMAIN jobs
    PROVE  /\ [jobs[j] EXCEPT !.env = NoEnvelope] \in Job
           /\ \A status \in {"queued", "running", "cancelled", "done"}, env \in Envelope :
                /\ [jobs[j] EXCEPT !.status = status] \in Job
                /\ [jobs[j] EXCEPT !.status = status, !.env = env] \in Job
                /\ [jobs[j] EXCEPT !.env = env, !.status = status] \in Job
  BY Types, Constants DEF Job

LEMMA AcquisitionInit == Init => TypeOK
  <1>1. SUFFICES ASSUME Init PROVE TypeOK
    OBVIOUS
  <1>2. Resting \in Stage
    BY Constants DEF Resting, Stage, Stages
  <1>3. worker \in [Workers -> Stage] /\ lease \in [Fleet -> Nat] /\ envelopes \in [Fleet -> Envelope]
    BY <1>1, <1>2, Constants DEF Init
  <1>4. jobs \in Seq(Job) /\ DOMAIN reading \subseteq Fleet /\ next \in 1..(N + 1)
    BY <1>1, Constants DEF Init
  <1>5. QED
    BY <1>1, <1>3, <1>4 DEF Init, TypeOK, Stage

-------------------------------------------------------------------------------
(* What an action does to the jobs, pointwise. *)

\* Job j becomes job, the others stay.
OneJob(j, job) ==
    /\ j \in DOMAIN jobs /\ job \in Job
    /\ jobs' \in Seq(Job) /\ DOMAIN jobs' = DOMAIN jobs
    /\ jobs'[j] = job /\ \A k \in DOMAIN jobs : k # j => jobs'[k] = jobs[k]

LEMMA OneJobChanges ==
    ASSUME TypeOK, NEW j \in DOMAIN jobs, NEW job \in Job, jobs' = [jobs EXCEPT ![j] = job]
    PROVE  OneJob(j, job)
  <1>1. jobs' \in [DOMAIN jobs -> Job] /\ jobs'[j] = job /\ \A k \in DOMAIN jobs : k # j => jobs'[k] = jobs[k]
    BY Types
  <1>2. jobs' \in Seq(Job) /\ DOMAIN jobs' = DOMAIN jobs
    BY <1>1, AllJobs
  <1>3. QED
    BY <1>1, <1>2 DEF OneJob

LEMMA CancelJob ==
    ASSUME TypeOK, NEW j \in DOMAIN jobs, NEW status \in {"cancelled", "running"},
           jobs' = [jobs EXCEPT ![j].status = status]
    PROVE  OneJob(j, [jobs[j] EXCEPT !.status = status])
  <1>1. [jobs[j] EXCEPT !.status = status] \in Job
    BY Types, status \in {"queued", "running", "cancelled", "done"} DEF Job
  <1>2. jobs' = [jobs EXCEPT ![j] = [jobs[j] EXCEPT !.status = status]]
    OBVIOUS
  <1>3. QED
    BY <1>1, <1>2, OneJobChanges

LEMMA FinishJob ==
    ASSUME TypeOK, NEW j \in DOMAIN jobs, NEW env \in Envelope,
           jobs' = [jobs EXCEPT ![j].status = "done", ![j].env = env]
    PROVE  OneJob(j, [jobs[j] EXCEPT !.status = "done", !.env = env])
  <1>1. [jobs[j] EXCEPT !.status = "done", !.env = env] \in Job
    BY JobUpdates
  <1>2. jobs' = [jobs EXCEPT ![j] = [jobs[j] EXCEPT !.status = "done", !.env = env]]
    OBVIOUS
  <1>3. QED
    BY <1>1, <1>2, OneJobChanges

\* One more job.
NewJob(job) ==
    /\ job \in Job /\ jobs' \in Seq(Job) /\ DOMAIN jobs' = DOMAIN jobs \cup {Len(jobs) + 1}
    /\ Len(jobs) + 1 \notin DOMAIN jobs
    /\ jobs'[Len(jobs) + 1] = job /\ \A k \in DOMAIN jobs : jobs'[k] = jobs[k]

LEMMA SubmitJob ==
    ASSUME TypeOK, NEW ep \in Fleet,
           jobs' = Append(jobs, [ep |-> ep, epoch |-> epoch, status |-> "queued", env |-> NoEnvelope])
    PROVE  NewJob([ep |-> ep, epoch |-> epoch, status |-> "queued", env |-> NoEnvelope])
  <1> DEFINE job == [ep |-> ep, epoch |-> epoch, status |-> "queued", env |-> NoEnvelope]
  <1>1. job \in Job
    BY Types, Constants DEF Job
  <1>2. jobs \in Seq(Job) /\ Len(jobs) \in Nat /\ DOMAIN jobs = 1..Len(jobs)
    BY Types
  <1>3. jobs' = Append(jobs, job)
    OBVIOUS
  <1> HIDE DEF job
  <1>4. /\ jobs' \in Seq(Job) /\ Len(jobs') = Len(jobs) + 1 /\ DOMAIN jobs' = 1..Len(jobs')
        /\ jobs'[Len(jobs) + 1] = job /\ \A k \in 1..Len(jobs) : jobs'[k] = jobs[k]
    <2>1. /\ jobs' \in Seq(Job) /\ Len(jobs') = Len(jobs) + 1
          /\ jobs'[Len(jobs) + 1] = job /\ \A k \in 1..Len(jobs) : jobs'[k] = jobs[k]
      BY <1>1, <1>2, <1>3, AppendProperties
    <2>2. DOMAIN jobs' = 1..Len(jobs')
      BY <2>1, LenProperties
    <2>3. QED
      BY <2>1, <2>2
  <1>5. NewJob(job)
    BY <1>1, <1>2, <1>4 DEF NewJob
  <1>6. QED
    BY <1>5 DEF job

\* The envelopes are lost, and with them what a closing acquirer has queued.
SameWork(closing) ==
    /\ jobs' \in Seq(Job) /\ DOMAIN jobs' = DOMAIN jobs
    /\ \A j \in DOMAIN jobs :
          /\ jobs'[j].ep = jobs[j].ep /\ jobs'[j].epoch = jobs[j].epoch /\ jobs'[j].env = NoEnvelope
          /\ jobs'[j].status = IF closing /\ jobs[j].status = "queued" THEN "cancelled" ELSE jobs[j].status

LEMMA TickJobs ==
    ASSUME TypeOK, jobs' = [j \in DOMAIN jobs |-> [jobs[j] EXCEPT !.env = NoEnvelope]]
    PROVE  SameWork(FALSE)
  <1>1. \A j \in DOMAIN jobs : jobs[j] \in Job
    BY Types
  <1>2. \A j \in DOMAIN jobs : /\ jobs'[j] \in Job
                               /\ jobs'[j].ep = jobs[j].ep /\ jobs'[j].epoch = jobs[j].epoch
                               /\ jobs'[j].status = jobs[j].status /\ jobs'[j].env = NoEnvelope
    <2>1. TAKE j \in DOMAIN jobs
    <2>2. jobs'[j] = [jobs[j] EXCEPT !.env = NoEnvelope] /\ jobs'[j] \in Job
      BY JobUpdates
    <2>3. QED
      BY <1>1, <2>2 DEF Job
  <1>3. jobs' \in [DOMAIN jobs -> Job]
    BY <1>2
  <1>4. QED
    BY <1>2, <1>3, AllJobs DEF SameWork

LEMMA StopJobs ==
    ASSUME TypeOK,
           jobs' = [j \in DOMAIN jobs |->
               [jobs[j] EXCEPT !.env = NoEnvelope, !.status = IF @ = "queued" THEN "cancelled" ELSE @]]
    PROVE  SameWork(TRUE)
  <1>1. \A j \in DOMAIN jobs : jobs[j] \in Job
    BY Types
  <1>2. \A j \in DOMAIN jobs :
          /\ jobs'[j] \in Job
          /\ jobs'[j].ep = jobs[j].ep /\ jobs'[j].epoch = jobs[j].epoch /\ jobs'[j].env = NoEnvelope
          /\ jobs'[j].status = IF jobs[j].status = "queued" THEN "cancelled" ELSE jobs[j].status
    <2>1. TAKE j \in DOMAIN jobs
    <2> DEFINE status == IF jobs[j].status = "queued" THEN "cancelled" ELSE jobs[j].status
    <2>2. status \in {"queued", "running", "cancelled", "done"}
      BY <1>1 DEF Job
    <2>3. jobs'[j] = [jobs[j] EXCEPT !.env = NoEnvelope, !.status = status]
      OBVIOUS
    <2> HIDE DEF status
    <2>4. /\ jobs'[j] \in Job /\ jobs'[j].ep = jobs[j].ep /\ jobs'[j].epoch = jobs[j].epoch
          /\ jobs'[j].env = NoEnvelope /\ jobs'[j].status = status
      BY <1>1, <2>2, <2>3, Constants DEF Job
    <2>5. QED
      BY <2>4 DEF status
  <1>3. jobs' \in [DOMAIN jobs -> Job]
    BY <1>2
  <1>4. QED
    BY <1>2, <1>3, AllJobs DEF SameWork

\* Worker w moves, the others stay.
WorkerMoves(w, at, job, env) ==
    /\ worker' \in [Workers -> Stage]
    /\ worker'[w].at = at /\ worker'[w].job = job /\ worker'[w].env = env
    /\ \A v \in Workers : v # w => worker'[v] = worker[v]

LEMMA AssignMoves ==
    ASSUME TypeOK, NEW w \in Workers, NEW stage \in Stage, worker' = [worker EXCEPT ![w] = stage]
    PROVE  WorkerMoves(w, stage.at, stage.job, stage.env)
  BY Types DEF WorkerMoves

LEMMA StepMoves ==
    ASSUME TypeOK, NEW w \in Workers, NEW at \in Stages, NEW env \in Envelope, Step(w, at, env)
    PROVE  WorkerMoves(w, at, worker[w].job, env)
  <1> DEFINE stage == [worker[w] EXCEPT !.at = at, !.env = env]
  <1>1. worker[w] \in Stage
    BY Types
  <1>2. stage \in Stage /\ stage.at = at /\ stage.job = worker[w].job /\ stage.env = env
    BY <1>1 DEF Stage
  <1>3. worker' = [worker EXCEPT ![w] = stage]
    BY DEF Step
  <1> HIDE DEF stage
  <1>4. QED
    BY <1>2, <1>3, AssignMoves

LEMMA LeaveMoves ==
    ASSUME TypeOK, NEW w \in Workers, worker' = [worker EXCEPT ![w].at = "freed"]
    PROVE  WorkerMoves(w, "freed", worker[w].job, worker[w].env)
  <1> DEFINE stage == [worker[w] EXCEPT !.at = "freed"]
  <1>1. worker[w] \in Stage
    BY Types
  <1>2. stage \in Stage /\ stage.at = "freed" /\ stage.job = worker[w].job /\ stage.env = worker[w].env
    BY <1>1 DEF Stage, Stages
  <1>3. worker' = [worker EXCEPT ![w] = stage]
    OBVIOUS
  <1> HIDE DEF stage
  <1>4. QED
    BY <1>2, <1>3, AssignMoves

LEMMA CancelDoes ==
    ASSUME TypeOK, NEW j \in undone, Cancel(j), jobs[j].status = "queued"
    PROVE  /\ j \in Queued /\ DOMAIN jobs' = DOMAIN jobs /\ \A k \in DOMAIN jobs : k # j => jobs'[k] = jobs[k]
           /\ jobs'[j].ep = jobs[j].ep /\ jobs'[j].epoch = jobs[j].epoch /\ jobs'[j].env = jobs[j].env
           /\ jobs'[j].status = "cancelled"
  <1>1. j \in DOMAIN jobs /\ jobs[j] \in Job
    BY Types
  <1>2. OneJob(j, [jobs[j] EXCEPT !.status = "cancelled"])
    BY <1>1, CancelJob DEF Cancel
  <1>3. QED
    BY <1>1, <1>2 DEF OneJob, Job, Queued

LEMMA TakeDoes ==
    ASSUME TypeOK, NEW w \in Workers, Take(w)
    PROVE  \E j \in Queued :
             /\ j \in DOMAIN jobs /\ DOMAIN jobs' = DOMAIN jobs
             /\ \A k \in DOMAIN jobs : k # j => jobs'[k] = jobs[k]
             /\ jobs'[j].ep = jobs[j].ep /\ jobs'[j].epoch = jobs[j].epoch /\ jobs'[j].env = jobs[j].env
             /\ jobs'[j].status = "running" /\ jobs[j].status = "queued"
             /\ worker[w].at = "idle"
             /\ worker'[w].at = "started" /\ worker'[w].job = j /\ worker'[w].env = NoEnvelope
             /\ \A v \in Workers : v # w => worker'[v] = worker[v]
  <1>1. PICK j \in Queued :
          /\ jobs' = [jobs EXCEPT ![j].status = "running"]
          /\ worker' = [worker EXCEPT ![w] = [at |-> "started", job |-> j, env |-> NoEnvelope]]
    BY DEF Take
  <1>2. j \in DOMAIN jobs /\ jobs[j] \in Job /\ jobs[j].status = "queued"
    BY Types DEF Queued
  <1>3. OneJob(j, [jobs[j] EXCEPT !.status = "running"])
    BY <1>1, <1>2, CancelJob
  <1>4. [at |-> "started", job |-> j, env |-> NoEnvelope] \in Stage
    BY <1>2, Types, Constants DEF Stage, Stages
  <1>5. WorkerMoves(w, "started", j, NoEnvelope)
    BY <1>1, <1>4, AssignMoves
  <1>6. QED
    BY <1>2, <1>3, <1>5 DEF OneJob, Job, WorkerMoves, Take

LEMMA FinishDoes ==
    ASSUME TypeOK, NEW w \in Workers, Finish(w), Mark(w) \in DOMAIN jobs
    PROVE  /\ DOMAIN jobs' = DOMAIN jobs /\ \A k \in DOMAIN jobs : k # Mark(w) => jobs'[k] = jobs[k]
           /\ jobs'[Mark(w)].ep = jobs[Mark(w)].ep /\ jobs'[Mark(w)].epoch = jobs[Mark(w)].epoch
           /\ jobs'[Mark(w)].status = "done" /\ jobs'[Mark(w)].env = worker[w].env
           /\ worker[w].at = "freed" /\ worker'[w].at = "idle"
           /\ \A v \in Workers : v # w => worker'[v] = worker[v]
  <1>1. worker[w].env \in Envelope /\ jobs[Mark(w)] \in Job
    BY Types DEF Stage
  <1>2. OneJob(Mark(w), [jobs[Mark(w)] EXCEPT !.status = "done", !.env = worker[w].env])
    BY <1>1, FinishJob DEF Finish
  <1>3. Resting \in Stage
    BY Constants DEF Resting, Stage, Stages
  <1>4. worker'[w].at = "idle" /\ \A v \in Workers : v # w => worker'[v] = worker[v]
    BY <1>3, AssignMoves DEF Finish, WorkerMoves, Resting
  <1>5. QED
    BY <1>1, <1>2, <1>4 DEF OneJob, Job, Finish

LEMMA ReleaseType ==
    ASSUME TypeOK, NEW j
    PROVE  Released(j) \in [Fleet -> Nat]
  BY Types, Constants DEF Released
-------------------------------------------------------------------------------
(* The lease of a miner is the lease of the one job about it that is still to be done. *)

Holding(w) == worker[w].at \in {"started", "summary", "stats", "leaving"}

\* A worker that is not idle has a running job,
Employed ==
    \A w \in Workers : worker[w].at # "idle" => Mark(w) \in DOMAIN jobs /\ jobs[Mark(w)].status = "running"

\* of its own;
OwnJob ==
    \A v, w \in Workers : v # w /\ worker[v].at # "idle" /\ worker[w].at # "idle" => Mark(v) # Mark(w)

\* it holds the lease until it has given it back,
HoldsLease == \A w \in Workers : Holding(w) => lease[Endpoint(w)] = Mark(w)

\* and so does a job in the queue.
QueuedHoldsLease == \A j \in Queued : lease[jobs[j].ep] = j

Leased == \A m \in Fleet : lease[m] # NoJob => lease[m] \in DOMAIN jobs /\ jobs[lease[m]].ep = m

LeaseInv == TypeOK /\ Employed /\ OwnJob /\ HoldsLease /\ QueuedHoldsLease /\ Leased /\ LeaseHasOwner

LEMMA LeaseInit == Init => LeaseInv
  <1>1. SUFFICES ASSUME Init PROVE LeaseInv
    OBVIOUS
  <1>2. TypeOK
    BY <1>1, AcquisitionInit
  <1>3. \A w \in Workers : worker[w].at = "idle"
    BY <1>1 DEF Init, Resting
  <1>4. DOMAIN jobs = {} /\ \A m \in Fleet : lease[m] = NoJob
    BY <1>1 DEF Init
  <1>5. QED
    BY <1>2, <1>3, <1>4 DEF LeaseInv, Employed, OwnJob, HoldsLease, Holding, QueuedHoldsLease, Queued, Leased,
                            LeaseHasOwner

LEMMA AcquisitionTypes ==
    ASSUME TypeOK, Employed, [Next]_vars
    PROVE  TypeOK'
  <1> USE Types, Constants
  <1>1. CASE Tick
    <2>1. jobs' \in Seq(Job) /\ DOMAIN jobs' = DOMAIN jobs
      BY <1>1, TickJobs DEF Tick, SameWork
    <2>2. envelopes' \in [Fleet -> Envelope]
      BY <1>1 DEF Tick
    <2>3. next' \in 1..(N + 1) /\ DOMAIN reading' \subseteq Fleet
      BY <1>1 DEF Tick
    <2>4. /\ main' = "submitting" /\ epoch' = epoch + 1 /\ expired' = FALSE /\ undone' = {}
          /\ summaries' = {} /\ stats' = {} /\ lease' = lease /\ worker' = worker
      BY <1>1 DEF Tick
    <2>5. undone' \subseteq DOMAIN jobs' /\ jobs' \in Seq(Job) /\ worker' \in [Workers -> Stage]
      BY <2>1, <2>4
    <2>6. /\ main' \in {"idle", "submitting", "waiting", "gathering", "closing", "closed"}
          /\ expired' \in BOOLEAN /\ epoch' \in Nat /\ lease' \in [Fleet -> Nat]
          /\ summaries' \subseteq Fleet /\ stats' \subseteq Fleet
      <3>1. epoch' \in Nat /\ lease' \in [Fleet -> Nat]
        BY <2>4
      <3>2. QED
        BY <2>4, <3>1, Zenon
    <2>7. QED
      BY <2>2, <2>3, <2>5, <2>6 DEF TypeOK, Stage
  <1>2. CASE Submit
    <2>1. CASE Free(next)
      <3>1. /\ NewJob([ep |-> next, epoch |-> epoch, status |-> "queued", env |-> NoEnvelope])
            /\ lease' = [lease EXCEPT ![next] = Len(jobs) + 1] /\ envelopes' = envelopes
        BY <1>2, <2>1, SubmitJob DEF Submit
      <3>2. jobs' \in Seq(Job) /\ DOMAIN jobs \subseteq DOMAIN jobs' /\ lease' \in [Fleet -> Nat]
        BY <3>1, Len(jobs) + 1 \in Nat DEF NewJob
      <3>3. next' \in 1..(N + 1)
        BY <1>2 DEF Submit, Fleet
      <3>4. QED
        BY <1>2, <3>1, <3>2, <3>3 DEF Submit, TypeOK, Stage, ghosts
    <2>2. CASE ~Free(next)
      <3>1. envelopes' \in [Fleet -> Envelope] /\ jobs' = jobs /\ lease' = lease
        BY <1>2, <2>2 DEF Submit
      <3>3. next' \in 1..(N + 1)
        BY <1>2 DEF Submit, Fleet
      <3>4. QED
        BY <1>2, <3>1, <3>3 DEF Submit, TypeOK, Stage, ghosts
    <2>3. QED
      BY <2>1, <2>2
  <1>3. CASE Submitted \/ Expire \/ Closed
    BY <1>3 DEF Submitted, Expire, Closed, TypeOK, pool, ghosts
  <1>4. CASE Collect
    <2>1. \A j \in DOMAIN jobs : jobs[j].env \in Envelope
      BY DEF Job
    <2>2. \A m \in Fleet : (\E j \in Done : jobs[j].ep = m) =>
            (CHOOSE j \in Done : jobs[j].ep = m) \in DOMAIN jobs
      BY DEF Done, Mine
    <2>3. envelopes' \in [Fleet -> Envelope]
      BY <1>4, <2>1, <2>2 DEF Collect
    <2>4. undone' \subseteq DOMAIN jobs
      BY <1>4 DEF Collect, Mine
    <2>5. QED
      BY <1>4, <2>3, <2>4 DEF Collect, TypeOK, pool, ghosts
  <1>5. CASE Apply
    BY <1>5 DEF Apply, TypeOK, pool, ghosts
  <1>6. CASE Stop
    <2>1. jobs' \in Seq(Job) /\ DOMAIN jobs' = DOMAIN jobs
      BY <1>6, StopJobs DEF Stop, SameWork
    <2>2. envelopes' \in [Fleet -> Envelope] /\ DOMAIN reading' \subseteq Fleet
      <3>1. envelopes' = [m \in Fleet |-> NoEnvelope] /\ reading' = <<>>
        BY <1>6 DEF Stop
      <3>2. QED
        BY <3>1
    <2>3. /\ main' = "closing" /\ undone' = {}
          /\ UNCHANGED <<epoch, expired, next, lease, worker, summaries, stats>>
      BY <1>6 DEF Stop, ghosts
    <2>4. undone' \subseteq DOMAIN jobs' /\ jobs' \in Seq(Job) /\ worker' \in [Workers -> Stage]
      BY <2>1, <2>3
    <2>5. /\ main' \in {"idle", "submitting", "waiting", "gathering", "closing", "closed"}
          /\ expired' \in BOOLEAN /\ epoch' \in Nat /\ lease' \in [Fleet -> Nat] /\ next' \in 1..(N + 1)
          /\ summaries' \subseteq Fleet /\ stats' \subseteq Fleet
      BY <2>3 DEF TypeOK
    <2>6. QED
      BY <2>2, <2>4, <2>5 DEF TypeOK, Stage
  <1>7. ASSUME NEW j \in undone, Cancel(j) PROVE TypeOK'
    <2>1. jobs' \in Seq(Job) /\ DOMAIN jobs' = DOMAIN jobs
      BY <1>7, CancelJob DEF Cancel, OneJob
    <2>2. lease' \in [Fleet -> Nat]
      BY <1>7, ReleaseType DEF Cancel
    <2>3. envelopes' \in [Fleet -> Envelope] /\ undone' \subseteq DOMAIN jobs
      BY <1>7 DEF Cancel
    <2>4. QED
      BY <1>7, <2>1, <2>2, <2>3 DEF Cancel, TypeOK, ghosts
  <1>8. ASSUME NEW w \in Workers, Take(w) PROVE TypeOK'
    <2>1. PICK j \in Queued : /\ jobs' = [jobs EXCEPT ![j].status = "running"]
                              /\ worker' = [worker EXCEPT ![w] = [at |-> "started", job |-> j, env |-> NoEnvelope]]
      BY <1>8 DEF Take
    <2>2. jobs' \in Seq(Job) /\ DOMAIN jobs' = DOMAIN jobs
      BY <2>1, CancelJob DEF OneJob, Queued
    <2>3. [at |-> "started", job |-> j, env |-> NoEnvelope] \in Stage
      BY DEF Stage, Stages, Queued
    <2>4. worker' \in [Workers -> Stage]
      BY <2>1, <2>3, AssignMoves DEF WorkerMoves
    <2>5. QED
      BY <1>8, <2>2, <2>4 DEF Take, TypeOK, Stage, ghosts
  <1>9. ASSUME NEW w \in Workers, Ask(w) \/ HearSummary(w) \/ HearStats(w) PROVE TypeOK'
    <2>1. \E at \in Stages, env \in Envelope : Step(w, at, env)
      BY <1>9 DEF Ask, HearSummary, HearStats, Stages, Stage
    <2>2. worker' \in [Workers -> Stage]
      BY <2>1, StepMoves DEF WorkerMoves
    <2>3. summaries' \subseteq Fleet /\ stats' \subseteq Fleet
      <3>1. Endpoint(w) \in Fleet
        BY <1>9 DEF Ask, HearSummary, HearStats, Employed, Endpoint
      <3>2. QED
        BY <1>9, <3>1 DEF Ask, HearSummary, HearStats, ghosts, TypeOK
    <2>4. QED
      BY <1>9, <2>2, <2>3 DEF Ask, HearSummary, HearStats, TypeOK, Stage, ghosts
  <1>10. ASSUME NEW w \in Workers, Leave(w) PROVE TypeOK'
    <2>1. worker' \in [Workers -> Stage]
      BY <1>10, LeaveMoves DEF Leave, WorkerMoves
    <2>2. lease' \in [Fleet -> Nat]
      BY <1>10, ReleaseType DEF Leave
    <2>3. QED
      BY <1>10, <2>1, <2>2 DEF Leave, TypeOK, Stage, ghosts
  <1>11. ASSUME NEW w \in Workers, Finish(w) PROVE TypeOK'
    <2>1. worker[w].env \in Envelope /\ Mark(w) \in DOMAIN jobs
      BY <1>11 DEF Finish, Employed, Stage
    <2>2. jobs' \in Seq(Job) /\ DOMAIN jobs' = DOMAIN jobs
      BY <1>11, <2>1, FinishJob DEF Finish, OneJob
    <2>3. Resting \in Stage
      BY DEF Resting, Stage, Stages
    <2>4. worker' \in [Workers -> Stage]
      BY <1>11, <2>3, AssignMoves DEF Finish, WorkerMoves
    <2>5. QED
      BY <1>11, <2>2, <2>4 DEF Finish, TypeOK, Stage, ghosts
  <1>12. CASE UNCHANGED vars
    BY <1>12 DEF vars, TypeOK
  <1>13. QED
    BY <1>1, <1>2, <1>3, <1>4, <1>5, <1>6, <1>7, <1>8, <1>9, <1>10, <1>11, <1>12 DEF Next

OwnerInv == Employed /\ OwnJob /\ HoldsLease /\ QueuedHoldsLease /\ Leased /\ LeaseHasOwner

\* Main moves, and nothing about jobs, leases and workers does.
LEMMA OwnerFrame ==
    ASSUME OwnerInv, UNCHANGED <<jobs, lease, worker>>, main \in {"closing", "closed"} => main' \in {"closing", "closed"}
    PROVE  OwnerInv'
  BY DEF OwnerInv, Employed, OwnJob, HoldsLease, QueuedHoldsLease, Leased, LeaseHasOwner, Holding, Queued,
         Mark, Endpoint

\* The jobs keep their endpoints; a job leaves the queue only when the acquirer closes.
LEMMA OwnerSameWork ==
    ASSUME TypeOK, OwnerInv, NEW closing \in BOOLEAN, SameWork(closing), UNCHANGED <<lease, worker>>,
           main' \in {"closing", "closed"} <=> closing, main \in {"closing", "closed"} => closing
    PROVE  OwnerInv'
  <1>1. Employed' /\ OwnJob' /\ HoldsLease' /\ Leased'
    BY DEF OwnerInv, Employed, OwnJob, HoldsLease, Leased, Holding, SameWork, Mark, Endpoint
  <1>2. Queued' \subseteq Queued /\ (~closing => Queued' = Queued)
    BY DEF SameWork, Queued
  <1>3. QueuedHoldsLease'
    BY <1>2 DEF OwnerInv, QueuedHoldsLease, SameWork, Queued
  <1>4. LeaseHasOwner'
    BY <1>2 DEF OwnerInv, LeaseHasOwner, Mark
  <1>5. QED
    BY <1>1, <1>3, <1>4 DEF OwnerInv

LEMMA OwnerSubmit ==
    ASSUME TypeOK, OwnerInv, Submit
    PROVE  OwnerInv'
  <1>1. CASE ~Free(next)
    BY <1>1, OwnerFrame DEF Submit
  <1>2. CASE Free(next)
    <2> DEFINE new == Len(jobs) + 1
    <2>1. /\ next \in Fleet /\ lease[next] = NoJob /\ worker' = worker /\ main' = "submitting"
          /\ lease' = [lease EXCEPT ![next] = new] /\ new \notin DOMAIN jobs
          /\ DOMAIN jobs' = DOMAIN jobs \cup {new} /\ \A k \in DOMAIN jobs : jobs'[k] = jobs[k]
          /\ jobs'[new].ep = next /\ jobs'[new].status = "queued"
      BY <1>2, SubmitJob DEF Submit, NewJob, Free
    <2> HIDE DEF new
    <2>2. NoJob \notin DOMAIN jobs /\ lease \in [Fleet -> Nat]
      BY Types, Constants DEF NoJob
    <2>3. Employed' /\ OwnJob'
      BY <2>1 DEF OwnerInv, Employed, OwnJob, Mark
    <2>4. Leased'
      BY <2>1, <2>2 DEF OwnerInv, Leased
    <2>5. HoldsLease'
      BY <2>1, <2>2 DEF OwnerInv, HoldsLease, Holding, Employed, Mark, Endpoint
    <2>6. Queued' = Queued \cup {new}
      BY <2>1 DEF Queued
    <2>7. QueuedHoldsLease'
      BY <2>1, <2>2, <2>6 DEF OwnerInv, QueuedHoldsLease, Queued
    <2>8. LeaseHasOwner'
      BY <1>2, <2>1, <2>2, <2>6 DEF OwnerInv, LeaseHasOwner, Mark, Submit
    <2>9. QED
      BY <2>3, <2>4, <2>5, <2>7, <2>8 DEF OwnerInv
  <1>3. QED
    BY <1>1, <1>2

LEMMA OwnerCancel ==
    ASSUME TypeOK, OwnerInv, NEW j \in undone, Cancel(j)
    PROVE  OwnerInv'
  <1>1. CASE jobs[j].status # "queued"
    BY <1>1, OwnerFrame DEF Cancel
  <1>2. CASE jobs[j].status = "queued"
    <2>1. /\ DOMAIN jobs' = DOMAIN jobs /\ \A k \in DOMAIN jobs : k # j => jobs'[k] = jobs[k]
          /\ j \in Queued /\ jobs'[j].ep = jobs[j].ep /\ jobs'[j].status = "cancelled"
          /\ worker' = worker /\ main' = main /\ lease' = Released(j)
      BY <1>2, CancelDoes DEF Cancel
    <2>2. \A m \in Fleet : lease'[m] = IF lease[m] = j THEN NoJob ELSE lease[m]
      BY <2>1 DEF Released
    <2>3. NoJob \notin DOMAIN jobs /\ \A k \in DOMAIN jobs : jobs[k].ep \in Fleet
      BY Types DEF NoJob
    <2>4. Employed'
      BY <2>1 DEF OwnerInv, Employed, Mark, Queued
    <2>5. OwnJob'
      BY <2>1 DEF OwnerInv, OwnJob, Mark
    <2>6. Leased'
      BY <2>1, <2>2 DEF OwnerInv, Leased
    <2>7. Queued' = Queued \ {j}
      BY <2>1 DEF Queued
    <2>8. QueuedHoldsLease'
      BY <2>1, <2>2, <2>3, <2>7 DEF OwnerInv, QueuedHoldsLease, Queued
    <2>9. \A w \in Workers : Holding(w) => Mark(w) \in DOMAIN jobs /\ Mark(w) # j
      BY <2>1 DEF OwnerInv, Employed, Holding, Queued
    <2>10. HoldsLease'
      BY <2>1, <2>2, <2>3, <2>9 DEF OwnerInv, HoldsLease, Holding, Mark, Endpoint
    <2>11. LeaseHasOwner'
      BY <2>1, <2>2, <2>7 DEF OwnerInv, LeaseHasOwner, Mark
    <2>12. QED
      BY <2>4, <2>5, <2>6, <2>8, <2>10, <2>11 DEF OwnerInv
  <1>3. QED
    BY <1>1, <1>2

LEMMA OwnerTake ==
    ASSUME TypeOK, OwnerInv, NEW w \in Workers, Take(w)
    PROVE  OwnerInv'
  <1>1. PICK j \in Queued :
          /\ j \in DOMAIN jobs /\ DOMAIN jobs' = DOMAIN jobs
          /\ \A k \in DOMAIN jobs : k # j => jobs'[k] = jobs[k]
          /\ jobs'[j].ep = jobs[j].ep /\ jobs'[j].status = "running" /\ jobs[j].status = "queued"
          /\ worker[w].at = "idle" /\ worker'[w].at = "started" /\ worker'[w].job = j
          /\ \A v \in Workers : v # w => worker'[v] = worker[v]
    BY TakeDoes
  <1>4. lease' = lease /\ main' = main
    BY DEF Take
  <1>5. \A v \in Workers : worker[v].at # "idle" => Mark(v) \in DOMAIN jobs /\ Mark(v) # j
    BY <1>1 DEF OwnerInv, Employed
  <1>6. Employed'
    BY <1>1, <1>5 DEF OwnerInv, Employed, Mark
  <1>7. OwnJob'
    BY <1>1, <1>5 DEF OwnerInv, OwnJob, Mark
  <1>8. HoldsLease'
    <2>1. lease[jobs[j].ep] = j
      BY DEF OwnerInv, QueuedHoldsLease
    <2>2. QED
      BY <1>1, <1>4, <1>5, <2>1 DEF OwnerInv, HoldsLease, Holding, Mark, Endpoint
  <1>9. Leased'
    BY <1>1, <1>4 DEF OwnerInv, Leased
  <1>10. Queued' = Queued \ {j}
    BY <1>1 DEF Queued
  <1>11. QueuedHoldsLease'
    BY <1>1, <1>4, <1>10 DEF OwnerInv, QueuedHoldsLease, Queued
  <1>12. LeaseHasOwner'
    <2>1. SUFFICES ASSUME NEW m \in Fleet, lease[m] # NoJob, main \notin {"closing", "closed"}
                   PROVE  \/ lease[m] \in Queued'
                          \/ \E v \in Workers : /\ worker'[v].job = lease[m]
                                                /\ worker'[v].at \in {"started", "summary", "stats", "leaving"}
      BY <1>4, Zenon DEF LeaseHasOwner, Mark
    <2>2. CASE lease[m] = j
      BY <1>1, <2>2
    <2>3. CASE lease[m] # j /\ lease[m] \in Queued
      BY <1>10, <2>3
    <2>4. ASSUME NEW v \in Workers, worker[v].job = lease[m], worker[v].at \in {"started", "summary", "stats", "leaving"}
          PROVE  \E u \in Workers : worker'[u].job = lease[m]
                                    /\ worker'[u].at \in {"started", "summary", "stats", "leaving"}
      BY <1>1, <2>4
    <2>5. QED
      BY <2>1, <2>2, <2>3, <2>4 DEF OwnerInv, LeaseHasOwner, Mark
  <1>13. QED
    BY <1>6, <1>7, <1>8, <1>9, <1>11, <1>12 DEF OwnerInv

LEMMA OwnerConverses ==
    ASSUME TypeOK, OwnerInv, NEW w \in Workers, NEW at \in {"summary", "stats", "leaving"}, NEW env \in Envelope,
           Holding(w), WorkerMoves(w, at, Mark(w), env), UNCHANGED <<main, jobs, lease>>
    PROVE  OwnerInv'
  <1>1. Employed' /\ OwnJob' /\ HoldsLease' /\ Leased' /\ QueuedHoldsLease'
    BY DEF OwnerInv, Employed, OwnJob, HoldsLease, Leased, Holding, Mark, Endpoint, WorkerMoves, QueuedHoldsLease,
           Queued
  <1>2. LeaseHasOwner'
    <2>1. \A v \in Workers : Holding(v) => Holding(v)' /\ Mark(v)' = Mark(v)
      BY DEF Holding, Mark, WorkerMoves
    <2>2. Queued' = Queued
      BY DEF Queued
    <2>3. QED
      BY <2>1, <2>2 DEF OwnerInv, LeaseHasOwner, Holding
  <1>3. QED
    BY <1>1, <1>2 DEF OwnerInv

LEMMA OwnerLeave ==
    ASSUME TypeOK, OwnerInv, NEW w \in Workers, Leave(w)
    PROVE  OwnerInv'
  <1>1. /\ worker[w].at = "leaving" /\ worker'[w].at = "freed" /\ worker'[w].job = Mark(w)
        /\ \A v \in Workers : v # w => worker'[v] = worker[v]
        /\ UNCHANGED <<main, jobs>>
    BY LeaveMoves DEF Leave, WorkerMoves, Mark
  <1>2. \A m \in Fleet : lease'[m] = IF lease[m] = Mark(w) THEN NoJob ELSE lease[m]
    BY DEF Leave, Released
  <1>3. /\ \A v \in Workers : v # w /\ worker[v].at # "idle" => Mark(v) # Mark(w)
        /\ Mark(w) \notin Queued
    BY <1>1 DEF OwnerInv, Employed, OwnJob, Queued
  <1>4. \A k \in DOMAIN jobs : jobs[k].ep \in Fleet
    BY Types
  <1>5. Employed' /\ OwnJob'
    BY <1>1 DEF OwnerInv, Employed, OwnJob, Mark
  <1>6. HoldsLease'
    BY <1>1, <1>2, <1>3, <1>4 DEF OwnerInv, HoldsLease, Employed, Holding, Mark, Endpoint
  <1>7. Leased'
    BY <1>1, <1>2 DEF OwnerInv, Leased
  <1>8. QueuedHoldsLease'
    BY <1>1, <1>2, <1>3, <1>4 DEF OwnerInv, QueuedHoldsLease, Queued
  <1>9. LeaseHasOwner'
    <2>1. Queued' = Queued
      BY <1>1 DEF Queued
    <2>2. \A v \in Workers : Holding(v) /\ v # w => Holding(v)' /\ Mark(v)' = Mark(v)
      BY <1>1 DEF Holding, Mark
    <2>3. QED
      BY <1>1, <1>2, <2>1, <2>2 DEF OwnerInv, LeaseHasOwner, Holding
  <1>10. QED
    BY <1>5, <1>6, <1>7, <1>8, <1>9 DEF OwnerInv

LEMMA OwnerFinish ==
    ASSUME TypeOK, OwnerInv, NEW w \in Workers, Finish(w)
    PROVE  OwnerInv'
  <1>1. UNCHANGED <<main, lease>> /\ worker[w].at = "freed"
    BY DEF Finish
  <1>2. Mark(w) \in DOMAIN jobs /\ jobs[Mark(w)].status = "running"
    BY <1>1 DEF OwnerInv, Employed
  <1>3. /\ DOMAIN jobs' = DOMAIN jobs /\ \A k \in DOMAIN jobs : k # Mark(w) => jobs'[k] = jobs[k]
        /\ jobs'[Mark(w)].ep = jobs[Mark(w)].ep /\ jobs'[Mark(w)].status = "done"
        /\ worker'[w].at = "idle" /\ \A v \in Workers : v # w => worker'[v] = worker[v]
    BY <1>2, FinishDoes
  <1>4. \A v \in Workers : v # w /\ worker[v].at # "idle" => Mark(v) # Mark(w)
    BY <1>1 DEF OwnerInv, OwnJob
  <1>5. Queued' = Queued
    BY <1>2, <1>3 DEF Queued
  <1>6. Employed' /\ OwnJob'
    BY <1>1, <1>2, <1>3, <1>4 DEF OwnerInv, Employed, OwnJob, Mark
  <1>7. HoldsLease'
    BY <1>1, <1>2, <1>3, <1>4 DEF OwnerInv, HoldsLease, Employed, Holding, Mark, Endpoint
  <1>8. Leased'
    BY <1>1, <1>2, <1>3 DEF OwnerInv, Leased
  <1>9. QueuedHoldsLease'
    BY <1>1, <1>2, <1>3, <1>5 DEF OwnerInv, QueuedHoldsLease, Queued
  <1>10. LeaseHasOwner'
    <2>1. \A v \in Workers : Holding(v) => Holding(v)' /\ Mark(v)' = Mark(v)
      BY <1>1, <1>3 DEF Holding, Mark
    <2>2. QED
      BY <1>1, <1>5, <2>1 DEF OwnerInv, LeaseHasOwner, Holding
  <1>11. QED
    BY <1>6, <1>7, <1>8, <1>9, <1>10 DEF OwnerInv

\* A conversation goes on in the hands of the worker that has the lease.
LEMMA Conversation ==
    ASSUME TypeOK, NEW w \in Workers, Ask(w) \/ HearSummary(w) \/ HearStats(w)
    PROVE  /\ Holding(w) /\ UNCHANGED <<main, jobs, lease>>
           /\ \E at \in {"summary", "stats", "leaving"}, env \in Envelope : WorkerMoves(w, at, Mark(w), env)
  <1>1. \E at \in {"summary", "stats", "leaving"}, env \in Envelope : Step(w, at, env)
    BY Types, Constants DEF Ask, HearSummary, HearStats, Stage
  <1>2. QED
    BY <1>1, StepMoves DEF Ask, HearSummary, HearStats, Holding, Mark, Stages

LEMMA OwnerStep ==
    ASSUME TypeOK, OwnerInv, [Next]_vars
    PROVE  OwnerInv'
  <1>1. CASE Tick
    <2>1. SameWork(FALSE)
      BY <1>1, TickJobs DEF Tick
    <2>2. QED
      BY <1>1, <2>1, OwnerSameWork DEF Tick
  <1>2. CASE Stop
    <2>1. SameWork(TRUE)
      BY <1>2, StopJobs DEF Stop
    <2>2. UNCHANGED <<lease, worker>> /\ main' = "closing"
      BY <1>2 DEF Stop
    <2>3. QED
      BY <2>1, <2>2, OwnerSameWork
  <1>3. CASE Submitted \/ Expire \/ Collect \/ Apply \/ Closed \/ UNCHANGED vars
    BY <1>3, OwnerFrame DEF Submitted, Expire, Collect, Apply, Closed, vars, pool
  <1>4. CASE \E w \in Workers : Ask(w) \/ HearSummary(w) \/ HearStats(w)
    BY <1>4, Conversation, OwnerConverses
  <1>5. QED
    BY <1>1, <1>2, <1>3, <1>4, OwnerSubmit, OwnerCancel, OwnerTake, OwnerLeave, OwnerFinish DEF Next

\* The state, the jobs, the workers and the leases have their types in every reachable state.
THEOREM AcquisitionTypeCorrect == Spec => [](TypeOK /\ OwnerInv)
  <1>1. Init => TypeOK /\ OwnerInv
    BY LeaseInit DEF LeaseInv, OwnerInv
  <1>2. TypeOK /\ OwnerInv /\ [Next]_vars => (TypeOK /\ OwnerInv)'
    BY AcquisitionTypes, OwnerStep DEF OwnerInv
  <1>3. QED
    BY <1>1, <1>2, PTL DEF Spec

\* Two workers never talk to the same miner: both would hold its lease, and a lease has
\* the number of one job.
THEOREM InFlightExclusion == Spec => []OneRequestPerMiner
  <1>1. OwnerInv => OneRequestPerMiner
    BY DEF OwnerInv, OwnJob, HoldsLease, Holding, OneRequestPerMiner, Talking
  <1>2. QED
    BY <1>1, AcquisitionTypeCorrect, PTL

\* No lease is left without somebody who gives it back.
THEOREM NoLeaseLost == Spec => []LeaseHasOwner
  <1>1. OwnerInv => LeaseHasOwner
    BY DEF OwnerInv
  <1>2. QED
    BY <1>1, AcquisitionTypeCorrect, PTL
-------------------------------------------------------------------------------
(* One request of each kind per miner and epoch. *)

EpochsPast == \A j \in DOMAIN jobs : jobs[j].epoch <= epoch

OneJobEach == \A j, k \in Mine : j # k => jobs[j].ep # jobs[k].ep

SubmittedBefore == main = "submitting" => \A j \in Mine : jobs[j].ep < next

AskedAreMine == \A m \in summaries \cup stats : \E j \in Mine : jobs[j].ep = m

\* A job that has not reached its request has not spent it.
Unspent ==
    /\ \A j \in Queued \cap Mine : jobs[j].ep \notin summaries \cup stats
    /\ \A w \in Workers : Mark(w) \in Mine =>
          /\ worker[w].at = "started" => Endpoint(w) \notin summaries \cup stats
          /\ worker[w].at = "summary" => Endpoint(w) \notin stats

BudgetInv == EpochsPast /\ OneJobEach /\ SubmittedBefore /\ AskedAreMine /\ Unspent

\* No request begins: the jobs stay what they are, and a job is started from the queue.
Quiet ==
    /\ DOMAIN jobs' = DOMAIN jobs
    /\ \A j \in DOMAIN jobs : jobs'[j].ep = jobs[j].ep /\ jobs'[j].epoch = jobs[j].epoch
    /\ Queued' \subseteq Queued
    /\ \A w \in Workers :
          /\ worker'[w].at = "started" => worker'[w].job \in Queued \/ worker'[w] = worker[w]
          /\ worker'[w].at = "summary" => worker'[w] = worker[w]
    /\ main' = "submitting" => main = "submitting" /\ next <= next'
    /\ UNCHANGED <<epoch, summaries, stats>>

LEMMA BudgetQuiet ==
    ASSUME TypeOK, TypeOK', BudgetInv, Quiet
    PROVE  BudgetInv'
  <1>1. Mine' = Mine /\ Mine \subseteq DOMAIN jobs
    BY DEF Quiet, Mine
  <1>2. EpochsPast' /\ OneJobEach' /\ AskedAreMine'
    BY <1>1 DEF BudgetInv, EpochsPast, OneJobEach, AskedAreMine, Quiet, Mine
  <1>3. SubmittedBefore'
    <2>1. next \in Int /\ next' \in Int /\ \A j \in Mine : jobs[j].ep \in Int
      BY <1>1, Types DEF TypeOK, Fleet
    <2>2. QED
      BY <1>1, <2>1 DEF BudgetInv, SubmittedBefore, Quiet
  <1>4. Unspent'
    BY <1>1 DEF BudgetInv, Unspent, Quiet, Mark, Endpoint, Queued
  <1>5. QED
    BY <1>2, <1>3, <1>4 DEF BudgetInv

LEMMA BudgetTick ==
    ASSUME TypeOK, TypeOK', BudgetInv, Tick
    PROVE  BudgetInv'
  <1>1. /\ DOMAIN jobs' = DOMAIN jobs /\ \A j \in DOMAIN jobs : jobs'[j].epoch = jobs[j].epoch
        /\ epoch' = epoch + 1 /\ summaries' = {} /\ stats' = {}
    BY TickJobs DEF Tick, SameWork
  <1>2. EpochsPast' /\ \A j \in DOMAIN jobs : jobs[j].epoch # epoch + 1
    <2>1. epoch \in Nat /\ \A j \in DOMAIN jobs : jobs[j].epoch \in Nat /\ jobs[j].epoch <= epoch
      BY Types DEF BudgetInv, EpochsPast
    <2>2. \A j \in DOMAIN jobs : jobs[j].epoch <= epoch + 1 /\ jobs[j].epoch # epoch + 1
      BY <2>1
    <2>3. EpochsPast'
      BY <1>1, <2>2, Zenon DEF EpochsPast
    <2>4. QED
      BY <2>2, <2>3
  <1>3. Mine' = {}
    BY <1>1, <1>2 DEF Mine
  <1>4. QED
    BY <1>1, <1>2, <1>3 DEF BudgetInv, OneJobEach, SubmittedBefore, AskedAreMine, Unspent

LEMMA BudgetSubmit ==
    ASSUME TypeOK, TypeOK', OwnerInv, BudgetInv, Submit
    PROVE  BudgetInv'
  <1> USE Types
  <1>1. CASE ~Free(next)
    <2>1. UNCHANGED <<jobs, worker, epoch, summaries, stats>> /\ main = "submitting" /\ next' = next + 1
      BY <1>1 DEF Submit, ghosts
    <2>2. Quiet
      BY <2>1 DEF Quiet, Queued
    <2>3. QED
      BY <2>2, BudgetQuiet
  <1>2. CASE Free(next)
    <2> DEFINE new == Len(jobs) + 1
    <2>1. /\ next \in Fleet /\ worker' = worker /\ main = "submitting" /\ next' = next + 1
          /\ new \notin DOMAIN jobs /\ DOMAIN jobs' = DOMAIN jobs \cup {new}
          /\ \A k \in DOMAIN jobs : jobs'[k] = jobs[k]
          /\ jobs'[new].ep = next /\ jobs'[new].epoch = epoch
          /\ UNCHANGED <<epoch, summaries, stats>>
      BY <1>2, SubmitJob DEF Submit, NewJob, ghosts
    <2> HIDE DEF new
    <2>2. Mine' = Mine \cup {new} /\ Mine \subseteq DOMAIN jobs
      BY <2>1 DEF Mine
    <2>3. \A j \in Mine : jobs[j].ep < next /\ jobs[j].ep \in Int
      BY <2>1, <2>2 DEF BudgetInv, SubmittedBefore, Fleet
    <2>4. next \in Int /\ \A j \in Mine : jobs[j].ep # next
      BY <2>3
    <2>5. EpochsPast'
      BY <2>1 DEF BudgetInv, EpochsPast
    <2>6. OneJobEach'
      BY <2>1, <2>2, <2>4 DEF BudgetInv, OneJobEach
    <2>7. \A j \in Mine' : jobs'[j].ep < next'
      BY <2>1, <2>2, <2>3, <2>4
    <2>8. SubmittedBefore'
      BY <2>7 DEF SubmittedBefore
    <2>9. AskedAreMine'
      BY <2>1, <2>2 DEF BudgetInv, AskedAreMine
    <2>10. next \notin summaries \cup stats
      BY <2>4 DEF BudgetInv, AskedAreMine
    <2>11. \A j \in Queued' \cap Mine' : jobs'[j].ep \notin summaries \cup stats
      BY <2>1, <2>2, <2>10 DEF BudgetInv, Unspent, Queued
    <2>12. \A w \in Workers : worker[w].at # "idle" => Mark(w) \in DOMAIN jobs
      BY DEF OwnerInv, Employed
    <2>13. ASSUME NEW w \in Workers, worker[w].at # "idle", Mark(w) \in Mine'
           PROVE  /\ worker[w].at = "started" => jobs'[Mark(w)].ep \notin summaries \cup stats
                  /\ worker[w].at = "summary" => jobs'[Mark(w)].ep \notin stats
      BY <2>1, <2>2, <2>12, <2>13 DEF BudgetInv, Unspent, Endpoint
    <2>14. Unspent'
      BY <2>1, <2>11, <2>13 DEF Unspent, Endpoint, Mark
    <2>15. QED
      BY <2>5, <2>6, <2>8, <2>9, <2>14 DEF BudgetInv
  <1>3. QED
    BY <1>1, <1>2

\* What asking about miner m leaves of it.
LEMMA BudgetAsk ==
    ASSUME TypeOK, TypeOK', OwnerInv, BudgetInv, NEW w \in Workers, ~PastDeadline(w),
           UNCHANGED <<main, epoch, next, jobs>>, \A v \in Workers : v # w => worker'[v] = worker[v],
           worker'[w].job = Mark(w),
           \/ /\ worker[w].at = "started" /\ worker'[w].at = "summary"
              /\ summaries' = summaries \cup {Endpoint(w)} /\ stats' = stats
           \/ /\ worker[w].at = "summary" /\ worker'[w].at = "stats"
              /\ summaries' = summaries /\ stats' = stats \cup {Endpoint(w)}
    PROVE  BudgetInv'
  <1>1. Mark(w) \in Mine /\ jobs[Mark(w)].status = "running" /\ Mark(w) \in DOMAIN jobs
    BY DEF OwnerInv, Employed, PastDeadline, Mine
  <1>2. Mine' = Mine /\ Queued' = Queued /\ Mark(w) \notin Queued
    BY <1>1 DEF Mine, Queued
  <1>3. \A j \in Mine : j # Mark(w) => jobs[j].ep # Endpoint(w)
    BY <1>1 DEF BudgetInv, OneJobEach, Endpoint
  <1>4. \A v \in Workers : v # w /\ worker[v].at # "idle" => Mark(v) # Mark(w)
    BY DEF OwnerInv, OwnJob
  <1>5. EpochsPast' /\ OneJobEach' /\ SubmittedBefore'
    BY <1>2 DEF BudgetInv, EpochsPast, OneJobEach, SubmittedBefore
  <1>6. AskedAreMine'
    BY <1>1, <1>2 DEF BudgetInv, AskedAreMine, Endpoint
  <1>7. \A j \in Queued \cap Mine : jobs[j].ep \notin summaries' \cup stats'
    BY <1>2, <1>3 DEF BudgetInv, Unspent
  <1>8. ASSUME NEW v \in Workers, v # w, Mark(v) \in Mine
        PROVE  /\ worker[v].at = "started" => Endpoint(v) \notin summaries' \cup stats'
               /\ worker[v].at = "summary" => Endpoint(v) \notin stats'
    BY <1>3, <1>4, <1>8 DEF BudgetInv, Unspent, Endpoint
  <1>9. worker'[w].at = "summary" => Endpoint(w) \notin stats'
    BY <1>1 DEF BudgetInv, Unspent
  <1>10. Unspent'
    BY <1>2, <1>7, <1>8, <1>9 DEF Unspent, Mark, Endpoint
  <1>11. QED
    BY <1>5, <1>6, <1>10 DEF BudgetInv

LEMMA BudgetMain ==
    ASSUME TypeOK, TypeOK', BudgetInv,
           \/ Submitted \/ Expire \/ Collect \/ Apply \/ Stop \/ Closed \/ UNCHANGED vars
           \/ \E j \in undone : Cancel(j)
    PROVE  BudgetInv'
  <1>1. ASSUME Submitted \/ Expire \/ Collect \/ Apply \/ Closed \/ UNCHANGED vars PROVE Quiet
    <2>1. /\ UNCHANGED <<jobs, worker, epoch, next, summaries, stats>>
          /\ main' = "submitting" => main = "submitting"
      BY <1>1 DEF Submitted, Expire, Collect, Apply, Closed, vars, pool, ghosts
    <2>2. next <= next
      BY Types
    <2>3. QED
      BY <2>1, <2>2 DEF Quiet, Queued
  <1>2. ASSUME Stop PROVE Quiet
    <2>1. SameWork(TRUE)
      BY <1>2, StopJobs DEF Stop
    <2>2. main' = "closing" /\ UNCHANGED <<epoch, next, worker, summaries, stats>>
      BY <1>2 DEF Stop, ghosts
    <2>3. QED
      BY <2>1, <2>2 DEF Quiet, Queued, SameWork
  <1>3. ASSUME NEW j \in undone, Cancel(j) PROVE Quiet
    <2>1. UNCHANGED <<epoch, next, worker, summaries, stats>> /\ main = "gathering" /\ main' = main
      BY <1>3 DEF Cancel, ghosts
    <2>2. CASE jobs' = jobs
      BY <2>1, <2>2 DEF Quiet, Queued
    <2>3. CASE jobs[j].status = "queued"
      BY <1>3, <2>1, <2>3, CancelDoes DEF Quiet, Queued
    <2>4. QED
      BY <1>3, <2>2, <2>3 DEF Cancel
  <1>4. QED
    BY <1>1, <1>2, <1>3, BudgetQuiet

LEMMA BudgetWorker ==
    ASSUME TypeOK, TypeOK', OwnerInv, BudgetInv, NEW w \in Workers,
           Take(w) \/ Ask(w) \/ HearSummary(w) \/ HearStats(w) \/ Leave(w) \/ Finish(w)
    PROVE  BudgetInv'
  <1> USE Types, Constants
  <1>1. main' = main /\ next' = next /\ epoch' = epoch /\ next <= next'
    BY DEF Take, Ask, HearSummary, HearStats, Leave, Finish
  <1>2. ASSUME Take(w) PROVE Quiet
    <2>1. UNCHANGED <<summaries, stats>>
      BY <1>2 DEF Take, ghosts
    <2>2. PICK j \in Queued :
            /\ DOMAIN jobs' = DOMAIN jobs /\ \A k \in DOMAIN jobs : k # j => jobs'[k] = jobs[k]
            /\ jobs'[j].ep = jobs[j].ep /\ jobs'[j].epoch = jobs[j].epoch /\ jobs'[j].status = "running"
            /\ worker'[w].at = "started" /\ worker'[w].job = j
            /\ \A v \in Workers : v # w => worker'[v] = worker[v]
      BY <1>2, TakeDoes
    <2>3. QED
      BY <1>1, <2>1, <2>2 DEF Quiet, Queued
  <1>3. ASSUME Finish(w) PROVE Quiet
    <2>1. Mark(w) \in DOMAIN jobs
      BY <1>3 DEF Finish, OwnerInv, Employed
    <2>2. UNCHANGED <<summaries, stats>>
      BY <1>3 DEF Finish, ghosts
    <2>3. QED
      BY <1>1, <1>3, <2>1, <2>2, FinishDoes DEF Quiet, Queued
  <1>4. ASSUME Leave(w) PROVE Quiet
    <2>1. worker'[w].at = "freed" /\ \A v \in Workers : v # w => worker'[v] = worker[v]
      BY <1>4, LeaveMoves DEF Leave, WorkerMoves
    <2>2. UNCHANGED <<jobs, summaries, stats>>
      BY <1>4 DEF Leave, ghosts
    <2>3. QED
      BY <1>1, <2>1, <2>2 DEF Quiet, Queued
  <1>5. ASSUME NEW at \in {"leaving"}, NEW env \in Envelope, Step(w, at, env), UNCHANGED <<jobs, summaries, stats>>
        PROVE  Quiet
    <2>1. worker'[w].at = "leaving" /\ \A v \in Workers : v # w => worker'[v] = worker[v]
      BY <1>5, StepMoves DEF WorkerMoves, Stages
    <2>2. QED
      BY <1>1, <1>5, <2>1 DEF Quiet, Queued
  <1>6. ASSUME HearStats(w) PROVE Quiet
    <2>1. \E env \in Envelope : Step(w, "leaving", env)
      BY <1>6 DEF HearStats, Stage
    <2>2. QED
      BY <1>5, <1>6, <2>1 DEF HearStats, ghosts
  <1>7. ASSUME NEW at \in {"summary", "stats"}, NEW env \in Envelope, Step(w, at, env)
        PROVE  worker'[w].at = at /\ worker'[w].job = Mark(w) /\ \A v \in Workers : v # w => worker'[v] = worker[v]
    BY <1>7, StepMoves DEF WorkerMoves, Stages, Mark
  <1>8. CASE Ask(w)
    <2>1. CASE PastDeadline(w)
      <3>1. Quiet
        BY <1>5, <1>8, <2>1 DEF Ask
      <3>2. QED
        BY <3>1, BudgetQuiet
    <2>2. CASE ~PastDeadline(w)
      <3>1. /\ worker[w].at = "started" /\ Step(w, "summary", NoEnvelope) /\ UNCHANGED <<jobs, stats>>
            /\ summaries' = summaries \cup {Endpoint(w)}
        BY <1>8, <2>2 DEF Ask
      <3>2. QED
        BY <1>1, <1>7, <2>2, <3>1, BudgetAsk
    <2>3. QED
      BY <2>1, <2>2
  <1>9. CASE HearSummary(w)
    <2>1. PICK says \in Says :
            IF PastDeadline(w) THEN Step(w, "leaving", AsLate(SummaryEnvelope(says))) /\ UNCHANGED stats
            ELSE IF SummaryEnvelope(says).quality # "valid"
                 THEN Step(w, "leaving", SummaryEnvelope(says)) /\ UNCHANGED stats
            ELSE Step(w, "stats", SummaryEnvelope(says)) /\ stats' = stats \cup {Endpoint(w)}
      BY <1>9 DEF HearSummary
    <2>2. worker[w].at = "summary" /\ UNCHANGED <<jobs, summaries>>
      BY <1>9 DEF HearSummary
    <2>3. CASE stats' = stats /\ \E env \in Envelope : Step(w, "leaving", env)
      BY <1>5, <2>2, <2>3, BudgetQuiet
    <2>4. CASE ~PastDeadline(w) /\ Step(w, "stats", SummaryEnvelope(says)) /\ stats' = stats \cup {Endpoint(w)}
      BY <1>1, <1>7, <2>2, <2>4, BudgetAsk
    <2>5. QED
      BY <2>1, <2>3, <2>4
  <1>10. QED
    BY <1>2, <1>3, <1>4, <1>6, <1>8, <1>9, BudgetQuiet

LEMMA BudgetStep ==
    ASSUME TypeOK, TypeOK', OwnerInv, BudgetInv, [Next]_vars
    PROVE  BudgetInv'
  BY BudgetTick, BudgetSubmit, BudgetMain, BudgetWorker DEF Next

\* What the property says of worker w.
Within(w) == /\ worker[w].at # "summary" /\ worker'[w].at = "summary" => Endpoint(w) \notin summaries
             /\ worker[w].at # "stats" /\ worker'[w].at = "stats" => Endpoint(w) \notin stats

LEMMA RequestsWithin ==
    ASSUME TypeOK, OwnerInv, BudgetInv, Next, NEW w \in Workers
    PROVE  Within(w)
  <1> USE Types, Constants
  <1>1. CASE worker'[w] = worker[w]
    BY <1>1 DEF Within
  <1>2. CASE Take(w) \/ Finish(w)
    BY <1>2 DEF Take, Finish, Resting, Within
  <1>3. CASE Leave(w)
    BY <1>3, LeaveMoves DEF Leave, WorkerMoves, Within
  <1>4. CASE HearStats(w)
    <2>1. \E env \in Envelope : Step(w, "leaving", env)
      BY <1>4 DEF HearStats, Stage
    <2>2. worker'[w].at = "leaving"
      BY <2>1, StepMoves DEF WorkerMoves, Stages
    <2>3. QED
      BY <2>2 DEF Within
  <1>5. ~PastDeadline(w) /\ worker[w].at # "idle" => Mark(w) \in Mine
    BY DEF OwnerInv, Employed, PastDeadline, Mine
  <1>6. CASE Ask(w)
    <2>1. \/ Step(w, "leaving", Placeholder("late"))
          \/ ~PastDeadline(w) /\ worker[w].at = "started" /\ Step(w, "summary", NoEnvelope)
      BY <1>6 DEF Ask
    <2>2. \/ worker'[w].at = "leaving"
          \/ ~PastDeadline(w) /\ worker[w].at = "started" /\ worker'[w].at = "summary"
      BY <2>1, StepMoves DEF WorkerMoves, Stages
    <2>3. QED
      BY <1>5, <2>2 DEF Within, BudgetInv, Unspent
  <1>7. CASE HearSummary(w)
    <2>1. worker[w].at = "summary" /\ \E env \in Envelope :
            Step(w, "leaving", env) \/ (~PastDeadline(w) /\ Step(w, "stats", env))
      BY <1>7 DEF HearSummary
    <2>2. worker'[w].at = "leaving" \/ (~PastDeadline(w) /\ worker'[w].at = "stats")
      BY <2>1, StepMoves DEF WorkerMoves, Stages
    <2>3. QED
      BY <1>5, <2>1, <2>2 DEF Within, BudgetInv, Unspent
  <1>8. ASSUME NEW v \in Workers, v # w,
               Take(v) \/ Ask(v) \/ HearSummary(v) \/ HearStats(v) \/ Leave(v) \/ Finish(v)
        PROVE  worker'[w] = worker[w]
    BY <1>8 DEF Take, Ask, HearSummary, HearStats, Leave, Finish, Step
  <1>9. CASE \/ Tick \/ Submit \/ Submitted \/ Expire \/ Collect \/ Apply \/ Stop \/ Closed
             \/ \E j \in undone : Cancel(j)
    <2>1. worker' = worker
      BY <1>9, Zenon DEF Tick, Submit, Submitted, Expire, Collect, Apply, Stop, Closed, Cancel, pool
    <2>2. QED
      BY <1>1, <2>1
  <1>10. QED
    BY <1>1, <1>2, <1>3, <1>4, <1>6, <1>7, <1>8, <1>9 DEF Next

\* At most one request of each kind per miner and epoch.
THEOREM BudgetKept == Spec => RequestBudget
  <1>1. Init => BudgetInv
    BY DEF Init, BudgetInv, EpochsPast, OneJobEach, SubmittedBefore, AskedAreMine, Unspent, Mine, Queued, Resting
  <1>2. TypeOK /\ TypeOK' /\ OwnerInv /\ BudgetInv /\ [Next]_vars => BudgetInv'
    BY BudgetStep
  <1>3. TypeOK /\ OwnerInv /\ BudgetInv /\ [Next]_vars =>
          [\A w \in Workers :
                /\ worker[w].at # "summary" /\ worker'[w].at = "summary" => Endpoint(w) \notin summaries
                /\ worker[w].at # "stats" /\ worker'[w].at = "stats" => Endpoint(w) \notin stats]_vars
    BY RequestsWithin DEF Within
  <1>4. QED
    BY <1>1, <1>2, <1>3, AcquisitionTypeCorrect, PTL DEF Spec, RequestBudget

-------------------------------------------------------------------------------
(* The results of an epoch. *)

None(m) == envelopes[m].quality = "none"

Open == main \in {"submitting", "waiting"}

\* An answer is about a request of its epoch,
Truthful ==
    /\ \A j \in Mine : jobs[j].env.asked => jobs[j].ep \in summaries
    /\ \A w \in Workers : worker[w].at # "idle" /\ Mark(w) \in Mine =>
          (Talking(w) \/ worker[w].env.asked => Endpoint(w) \in summaries)

\* and what a worker hands over is an envelope.
Filled ==
    /\ \A w \in Workers : worker[w].at \in {"stats", "leaving", "freed"} => worker[w].env.quality # "none"
    /\ Open => \A j \in Done : jobs[j].env.quality # "none"

\* While jobs are submitted and waited for, a miner has a job or an envelope, not both;
Collecting ==
    /\ Open => \A j \in Mine : None(jobs[j].ep)
    /\ main = "submitting" => \A m \in Fleet : next <= m => None(m)
    /\ Open => \A m \in Fleet : m < next \/ main = "waiting" => ~None(m) \/ \E j \in Mine : jobs[j].ep = m

\* afterwards it has an envelope or a job that has yet to be cancelled.
Cancelling ==
    main = "gathering" =>
        /\ undone \subseteq Mine /\ \A j \in undone : None(jobs[j].ep)
        /\ \A m \in Fleet : ~None(m) \/ \E j \in undone : jobs[j].ep = m

\* Main leaves an epoch when its time is over or its jobs are done,
Over == main \in {"gathering", "idle"} /\ ~expired => \A j \in Mine : jobs[j].status = "done"

\* and an acquirer that closes takes no job from the queue.
Shut ==
    /\ main \in {"closing", "closed"} => Queued = {}
    /\ main = "closed" => \A w \in Workers : worker[w].at = "idle"

ResultInv == Truthful /\ Filled /\ Collecting /\ Cancelling /\ Over /\ Shut

\* The jobs keep their miner, their epoch and their envelope, and none is done that was not.
SameJobs ==
    /\ DOMAIN jobs' = DOMAIN jobs
    /\ \A j \in DOMAIN jobs :
          /\ jobs'[j].ep = jobs[j].ep /\ jobs'[j].epoch = jobs[j].epoch /\ jobs'[j].env = jobs[j].env
          /\ jobs'[j].status = "done" => jobs[j].status = "done"

LEMMA WorkFrame ==
    ASSUME Truthful, Filled, SameJobs, UNCHANGED <<worker, epoch, summaries>>, Open' => Open,
           \A w \in Workers : worker[w].at # "idle" => Mark(w) \in DOMAIN jobs
    PROVE  Truthful' /\ Filled'
  <1>1. Mine' = Mine /\ Mine \subseteq DOMAIN jobs /\ Done' \subseteq Done
    BY DEF Mine, Done, SameJobs
  <1>2. Truthful'
    BY <1>1 DEF Truthful, SameJobs, Mark, Endpoint, Talking, Mine
  <1>3. Filled'
    BY <1>1 DEF Filled, SameJobs, Done
  <1>4. QED
    BY <1>2, <1>3

\* A worker that moves on says the truth of its miner.
LEMMA WorkMoves ==
    ASSUME TypeOK, OwnerInv, Truthful, Filled, NEW w \in Workers, worker[w].at # "idle",
           NEW at \in {"summary", "stats", "leaving", "freed"}, NEW env, WorkerMoves(w, at, Mark(w), env),
           UNCHANGED <<main, epoch, jobs>>, summaries \subseteq summaries', at # "summary" => env.quality # "none",
           Mark(w) \in Mine /\ (at \in {"summary", "stats"} \/ env.asked) => Endpoint(w) \in summaries'
    PROVE  Truthful' /\ Filled'
  <1>1. Mine' = Mine /\ Done' = Done /\ Open' = Open
    BY DEF Mine, Done, Open
  <1>2. Filled'
    BY <1>1 DEF Filled, WorkerMoves
  <1>3. \A v \in Workers : v # w => worker'[v] = worker[v]
    BY DEF WorkerMoves
  <1>4. worker'[w].at = at /\ worker'[w].job = Mark(w) /\ worker'[w].env = env
    BY DEF WorkerMoves
  <1>5. Truthful'
    BY <1>1, <1>3, <1>4 DEF Truthful, Mark, Endpoint, Talking
  <1>6. QED
    BY <1>2, <1>5

LEMMA WorkFinish ==
    ASSUME TypeOK, OwnerInv, Truthful, Filled, NEW w \in Workers, Finish(w)
    PROVE  Truthful' /\ Filled'
  <1>1. Mark(w) \in DOMAIN jobs /\ worker[w].at = "freed"
    BY DEF Finish, OwnerInv, Employed
  <1>2. /\ DOMAIN jobs' = DOMAIN jobs /\ \A k \in DOMAIN jobs : k # Mark(w) => jobs'[k] = jobs[k]
        /\ jobs'[Mark(w)].ep = jobs[Mark(w)].ep /\ jobs'[Mark(w)].epoch = jobs[Mark(w)].epoch
        /\ jobs'[Mark(w)].env = worker[w].env /\ worker'[w].at = "idle"
        /\ \A v \in Workers : v # w => worker'[v] = worker[v]
    BY <1>1, FinishDoes
  <1>3. UNCHANGED <<main, epoch, summaries>>
    BY DEF Finish, ghosts
  <1>4. Mine' = Mine /\ Mine \subseteq DOMAIN jobs /\ Done' \subseteq Done \cup {Mark(w)} /\ Open' = Open
    BY <1>1, <1>2, <1>3 DEF Mine, Done, Open
  <1>5. \A v \in Workers : v # w /\ worker[v].at # "idle" => Mark(v) # Mark(w) /\ Mark(v) \in DOMAIN jobs
    BY <1>1 DEF OwnerInv, OwnJob, Employed
  <1>6. Filled'
    BY <1>1, <1>2, <1>4 DEF Filled, Done, Mine
  <1>7. \A j \in Mine : jobs'[j].env.asked => jobs'[j].ep \in summaries
    BY <1>1, <1>2, <1>4 DEF Truthful, Endpoint
  <1>8. \A v \in Workers : worker'[v].at # "idle" => v # w /\ worker'[v] = worker[v] /\ jobs'[Mark(v)] = jobs[Mark(v)]
    BY <1>2, <1>5
  <1>9. Truthful'
    BY <1>3, <1>4, <1>7, <1>8 DEF Truthful, Mark, Endpoint, Talking
  <1>10. QED
    BY <1>6, <1>9

LEMMA WorkMain ==
    ASSUME TypeOK, OwnerInv, BudgetInv, Truthful, Filled,
           \/ Tick \/ Submit \/ Submitted \/ Expire \/ Collect \/ Apply \/ Stop \/ Closed \/ UNCHANGED vars
           \/ \E j \in undone : Cancel(j)
    PROVE  Truthful' /\ Filled'
  <1>1. \A w \in Workers : worker[w].at # "idle" => Mark(w) \in DOMAIN jobs
    BY DEF OwnerInv, Employed
  <1>2. CASE Tick
    <2>1. /\ DOMAIN jobs' = DOMAIN jobs /\ \A j \in DOMAIN jobs : jobs'[j].epoch = jobs[j].epoch
          /\ epoch' = epoch + 1 /\ worker' = worker
      BY <1>2, TickJobs DEF Tick, SameWork
    <2>2. \A j \in DOMAIN jobs : jobs[j].epoch # epoch + 1
      BY Types DEF BudgetInv, EpochsPast
    <2>3. Mine' = {}
      BY <2>1, <2>2 DEF Mine
    <2>4. QED
      BY <2>1, <2>3 DEF Truthful, Filled, Done
  <1>3. CASE Stop
    <2>1. /\ DOMAIN jobs' = DOMAIN jobs
          /\ \A j \in DOMAIN jobs : /\ jobs'[j].epoch = jobs[j].epoch /\ jobs'[j].ep = jobs[j].ep
                                    /\ jobs'[j].env = NoEnvelope
          /\ UNCHANGED <<epoch, worker, summaries>> /\ main' = "closing"
      BY <1>3, StopJobs DEF Stop, SameWork, ghosts
    <2>2. ~NoEnvelope.asked /\ Mine' = Mine /\ Mine \subseteq DOMAIN jobs
      BY <2>1 DEF NoEnvelope, Mine
    <2>3. Truthful'
      BY <1>1, <2>1, <2>2 DEF Truthful, Mark, Endpoint, Talking
    <2>4. Filled'
      BY <2>1 DEF Filled, Open
    <2>5. QED
      BY <2>3, <2>4
  <1>4. CASE Submit /\ Free(next)
    <2> DEFINE new == Len(jobs) + 1
    <2>1. /\ new \notin DOMAIN jobs /\ DOMAIN jobs' = DOMAIN jobs \cup {new}
          /\ \A k \in DOMAIN jobs : jobs'[k] = jobs[k]
          /\ jobs'[new].env = NoEnvelope /\ jobs'[new].status = "queued"
      BY <1>4, SubmitJob DEF Submit, NewJob
    <2> HIDE DEF new
    <2>2. UNCHANGED <<worker, epoch, summaries, main>>
      BY <1>4 DEF Submit, ghosts
    <2>3. ~NoEnvelope.asked /\ Mine' \subseteq Mine \cup {new} /\ Mine \subseteq DOMAIN jobs
      BY <2>1, <2>2 DEF NoEnvelope, Mine
    <2>4. Done' \subseteq Done
      BY <2>1, <2>3 DEF Done
    <2>5. \A w \in Workers : worker[w].at # "idle" /\ Mark(w) \in Mine' => Mark(w) \in Mine
      BY <1>1, <2>1, <2>3
    <2>6. Truthful'
      BY <2>1, <2>2, <2>3, <2>5 DEF Truthful, Mark, Endpoint, Talking
    <2>7. Filled'
      BY <2>1, <2>2, <2>3, <2>4 DEF Filled, Open, Done
    <2>8. QED
      BY <2>6, <2>7
  <1>5. ASSUME NEW j \in undone, Cancel(j), jobs[j].status = "queued" PROVE Truthful' /\ Filled'
    <2>1. SameJobs
      BY <1>5, CancelDoes DEF SameJobs
    <2>2. UNCHANGED <<worker, epoch, summaries, main>>
      BY <1>5 DEF Cancel, ghosts
    <2>3. QED
      BY <1>1, <2>1, <2>2, WorkFrame DEF Open
  <1>6. ASSUME UNCHANGED <<jobs, worker, epoch, summaries>>, Open' => Open PROVE Truthful' /\ Filled'
    BY <1>1, <1>6, WorkFrame DEF SameJobs
  <1>7. ASSUME Submitted \/ Expire \/ Collect \/ Apply \/ Closed \/ UNCHANGED vars PROVE Truthful' /\ Filled'
    BY <1>6, <1>7 DEF Submitted, Expire, Collect, Apply, Closed, vars, Open, pool, ghosts
  <1>8. CASE Submit /\ ~Free(next)
    BY <1>6, <1>8 DEF Submit, ghosts, Open
  <1>9. ASSUME NEW j \in undone, Cancel(j), jobs[j].status # "queued" PROVE Truthful' /\ Filled'
    BY <1>6, <1>9 DEF Cancel, ghosts, Open
  <1>10. QED
    BY <1>2, <1>3, <1>4, <1>5, <1>7, <1>8, <1>9

LEMMA WorkWorker ==
    ASSUME TypeOK, OwnerInv, BudgetInv, Truthful, Filled, NEW w \in Workers,
           Take(w) \/ Ask(w) \/ HearSummary(w) \/ HearStats(w) \/ Leave(w)
    PROVE  Truthful' /\ Filled'
  <1> USE Types, Constants
  <1>1. CASE Take(w)
    <2>1. PICK j \in Queued :
            /\ DOMAIN jobs' = DOMAIN jobs /\ \A k \in DOMAIN jobs : k # j => jobs'[k] = jobs[k]
            /\ jobs'[j].ep = jobs[j].ep /\ jobs'[j].epoch = jobs[j].epoch /\ jobs'[j].env = jobs[j].env
            /\ jobs'[j].status = "running"
            /\ worker'[w].at = "started" /\ worker'[w].env = NoEnvelope
            /\ \A v \in Workers : v # w => worker'[v] = worker[v]
      BY <1>1, TakeDoes
    <2>2. UNCHANGED <<main, epoch, summaries>>
      BY <1>1 DEF Take, ghosts
    <2>3. Mine' = Mine /\ Mine \subseteq DOMAIN jobs /\ Done' \subseteq Done /\ ~NoEnvelope.asked
      <3>1. \A k \in DOMAIN jobs : jobs'[k].epoch = jobs[k].epoch /\ (jobs'[k].status = "done" => jobs[k].status = "done")
        BY <2>1
      <3>2. Mine' = Mine /\ Mine \subseteq DOMAIN jobs
        BY <2>1, <2>2, <3>1 DEF Mine
      <3>3. QED
        BY <3>1, <3>2 DEF Done, NoEnvelope
    <2>4. \A v \in Workers : worker[v].at # "idle" => Mark(v) \in DOMAIN jobs /\ jobs'[Mark(v)].ep = jobs[Mark(v)].ep
      BY <2>1 DEF OwnerInv, Employed
    <2>5. Filled'
      <3>1. \A k \in Done' : k \in Done /\ jobs'[k] = jobs[k]
        BY <2>1, <2>3 DEF Done
      <3>2. Open' => \A k \in Done' : jobs'[k].env.quality # "none"
        BY <2>2, <3>1 DEF Filled, Open
      <3>3. \A v \in Workers : worker'[v].at # "started" => worker'[v] = worker[v]
        BY <2>1
      <3>4. QED
        BY <3>2, <3>3 DEF Filled
    <2>6. Truthful'
      BY <2>1, <2>2, <2>3, <2>4 DEF Truthful, Mark, Endpoint, Talking
    <2>7. QED
      BY <2>5, <2>6
  <1>2. CASE Leave(w)
    <2>1. WorkerMoves(w, "freed", Mark(w), worker[w].env) /\ worker[w].at = "leaving"
      BY <1>2, LeaveMoves DEF Leave, Mark
    <2>2. UNCHANGED <<main, epoch, jobs, summaries>>
      BY <1>2 DEF Leave, ghosts
    <2>3. QED
      BY <2>1, <2>2, WorkMoves DEF Truthful, Filled
  <1>3. ASSUME NEW at \in {"summary", "stats", "leaving"}, NEW env \in Envelope, Step(w, at, env)
        PROVE  WorkerMoves(w, at, Mark(w), env)
    BY <1>3, StepMoves DEF Stages, Mark
  <1>4. CASE Ask(w)
    <2>1. worker[w].at = "started" /\ UNCHANGED <<main, epoch, jobs>>
      BY <1>4 DEF Ask
    <2>2. CASE PastDeadline(w)
      <3>1. WorkerMoves(w, "leaving", Mark(w), Placeholder("late")) /\ summaries' = summaries
        BY <1>3, <1>4, <2>2 DEF Ask
      <3>2. Placeholder("late").quality = "late" /\ ~Placeholder("late").asked
        BY DEF Placeholder, NoEnvelope
      <3>3. QED
        BY <2>1, <3>1, <3>2, WorkMoves
    <2>3. CASE ~PastDeadline(w)
      <3>1. WorkerMoves(w, "summary", Mark(w), NoEnvelope) /\ summaries' = summaries \cup {Endpoint(w)}
        BY <1>3, <1>4, <2>3 DEF Ask
      <3>2. QED
        BY <2>1, <3>1, WorkMoves
    <2>4. QED
      BY <2>2, <2>3
  <1>5. CASE HearSummary(w)
    <2>1. PICK says \in Says :
            \/ Step(w, "leaving", AsLate(SummaryEnvelope(says))) \/ Step(w, "leaving", SummaryEnvelope(says))
            \/ Step(w, "stats", SummaryEnvelope(says))
      BY <1>5 DEF HearSummary
    <2>2. worker[w].at = "summary" /\ UNCHANGED <<main, epoch, jobs, summaries>>
      BY <1>5 DEF HearSummary
    <2>3. SummaryEnvelope(says).quality # "none" /\ AsLate(SummaryEnvelope(says)).quality # "none"
      BY DEF SummaryEnvelope, AsLate
    <2>4. PICK at \in {"stats", "leaving"}, env \in Envelope : WorkerMoves(w, at, Mark(w), env) /\ env.quality # "none"
      BY <1>3, <2>1, <2>3
    <2>5. Mark(w) \in Mine => Endpoint(w) \in summaries
      BY <2>2 DEF Truthful, Talking
    <2>6. QED
      BY <2>2, <2>4, <2>5, WorkMoves
  <1>6. CASE HearStats(w)
    <2>1. worker[w].at = "stats" /\ UNCHANGED <<main, epoch, jobs, summaries>> /\ worker[w].env.quality # "none"
      BY <1>6 DEF HearStats, ghosts, Filled
    <2>2. PICK env \in {worker[w].env, AsLate(worker[w].env)} : Step(w, "leaving", env)
      BY <1>6 DEF HearStats
    <2>3. env \in Envelope /\ env.quality # "none"
      BY <2>1, <2>2 DEF AsLate, Envelope, Stage
    <2>4. Mark(w) \in Mine => Endpoint(w) \in summaries
      BY <2>1 DEF Truthful, Talking
    <2>5. QED
      BY <1>3, <2>1, <2>2, <2>3, <2>4, WorkMoves
  <1>7. QED
    BY <1>1, <1>2, <1>4, <1>5, <1>6

LEMMA CollectingFrame ==
    ASSUME Collecting, Cancelling, undone \subseteq DOMAIN jobs, UNCHANGED <<main, epoch, next, envelopes, undone>>,
           DOMAIN jobs' = DOMAIN jobs,
           \A j \in DOMAIN jobs : jobs'[j].ep = jobs[j].ep /\ jobs'[j].epoch = jobs[j].epoch
    PROVE  Collecting' /\ Cancelling'
  <1>1. Mine' = Mine /\ Mine \subseteq DOMAIN jobs
    BY DEF Mine
  <1>2. QED
    BY <1>1 DEF Collecting, Cancelling, Open, None

LEMMA CollectingWorker ==
    ASSUME TypeOK, OwnerInv, Collecting, Cancelling, NEW w \in Workers,
           Take(w) \/ Ask(w) \/ HearSummary(w) \/ HearStats(w) \/ Leave(w) \/ Finish(w)
    PROVE  Collecting' /\ Cancelling'
  <1>1. UNCHANGED <<main, epoch, next, envelopes, undone>> /\ undone \subseteq DOMAIN jobs
    BY Types DEF Take, Ask, HearSummary, HearStats, Leave, Finish
  <1>2. DOMAIN jobs' = DOMAIN jobs /\ \A j \in DOMAIN jobs : jobs'[j].ep = jobs[j].ep /\ jobs'[j].epoch = jobs[j].epoch
    <2>1. CASE Take(w)
      <3>1. PICK j \in Queued : /\ DOMAIN jobs' = DOMAIN jobs /\ \A k \in DOMAIN jobs : k # j => jobs'[k] = jobs[k]
                                /\ jobs'[j].ep = jobs[j].ep /\ jobs'[j].epoch = jobs[j].epoch
        BY <2>1, TakeDoes
      <3>2. QED
        BY <3>1
    <2>2. CASE Finish(w)
      <3>1. Mark(w) \in DOMAIN jobs
        BY <2>2 DEF Finish, OwnerInv, Employed
      <3>2. QED
        BY <2>2, <3>1, FinishDoes
    <2>3. CASE jobs' = jobs
      BY <2>3
    <2>4. QED
      BY <2>1, <2>2, <2>3 DEF Ask, HearSummary, HearStats, Leave
  <1>3. QED
    BY <1>1, <1>2, CollectingFrame

LEMMA CollectingMain ==
    ASSUME TypeOK, OwnerInv, BudgetInv, Filled, Collecting, Cancelling,
           \/ Tick \/ Submit \/ Submitted \/ Expire \/ Collect \/ Apply \/ Stop \/ Closed \/ UNCHANGED vars
           \/ \E j \in undone : Cancel(j)
    PROVE  Collecting' /\ Cancelling'
  <1> USE Types, Constants
  <1>1. CASE Tick
    <2>1. /\ DOMAIN jobs' = DOMAIN jobs /\ \A j \in DOMAIN jobs : jobs'[j].epoch = jobs[j].epoch
          /\ epoch' = epoch + 1
      BY <1>1, TickJobs DEF Tick, SameWork
    <2>2. \A j \in DOMAIN jobs : jobs[j].epoch # epoch + 1
      BY DEF BudgetInv, EpochsPast
    <2>3. Mine' = {}
      BY <2>1, <2>2 DEF Mine
    <2>4. main' = "submitting" /\ next' = 1 /\ \A m \in Fleet : envelopes'[m] = NoEnvelope
      BY <1>1 DEF Tick
    <2>5. \A m \in Fleet : ~(m < 1)
      BY DEF Fleet
    <2>6. QED
      BY <2>3, <2>4, <2>5 DEF Collecting, Cancelling, Open, None, NoEnvelope
  <1>2. CASE Submit /\ Free(next)
    <2> DEFINE new == Len(jobs) + 1
    <2>1. /\ new \notin DOMAIN jobs /\ DOMAIN jobs' = DOMAIN jobs \cup {new}
          /\ \A k \in DOMAIN jobs : jobs'[k] = jobs[k]
          /\ jobs'[new].ep = next /\ jobs'[new].epoch = epoch
      BY <1>2, SubmitJob DEF Submit, NewJob
    <2> HIDE DEF new
    <2>2. main = "submitting" /\ next \in Fleet /\ next' = next + 1 /\ UNCHANGED <<main, epoch, envelopes>>
      BY <1>2 DEF Submit, ghosts
    <2>3. Mine' = Mine \cup {new} /\ Mine \subseteq DOMAIN jobs
      BY <2>1, <2>2 DEF Mine
    <2>4. next <= next /\ \A m \in Fleet : (next' <= m => next <= m) /\ (m < next' => m < next \/ m = next)
      BY <2>2 DEF Fleet
    <2>5. QED
      BY <2>1, <2>2, <2>3, <2>4 DEF Collecting, Cancelling, Open, None
  <1>3. CASE Submit /\ ~Free(next)
    <2>1. /\ main = "submitting" /\ next \in Fleet /\ next' = next + 1 /\ UNCHANGED <<main, epoch, jobs>>
          /\ envelopes'[next] = Placeholder("error") /\ \A m \in Fleet : m # next => envelopes'[m] = envelopes[m]
      BY <1>3 DEF Submit, ghosts
    <2>2. Mine' = Mine /\ \A j \in Mine : jobs[j].ep # next /\ jobs[j].ep \in Fleet
      BY <2>1 DEF Mine, BudgetInv, SubmittedBefore, Fleet
    <2>3. \A m \in Fleet : (next' <= m => next <= m /\ m # next) /\ (m < next' => m < next \/ m = next)
      BY <2>1 DEF Fleet
    <2>4. Placeholder("error").quality = "error"
      BY DEF Placeholder, NoEnvelope
    <2>5. \A j \in Mine : envelopes'[jobs[j].ep].quality = "none"
      BY <2>1, <2>2 DEF Collecting, Open, None
    <2>6. \A m \in Fleet : next' <= m => envelopes'[m].quality = "none"
      BY <2>1, <2>3 DEF Collecting, None
    <2>7. \A m \in Fleet : m < next' => envelopes'[m].quality # "none" \/ \E j \in Mine : jobs[j].ep = m
      BY <2>1, <2>3, <2>4 DEF Collecting, Open, None
    <2>8. QED
      BY <2>1, <2>2, <2>5, <2>6, <2>7 DEF Collecting, Cancelling, Open, None
  <1>4. CASE Submitted
    <2>1. main = "submitting" /\ main' = "waiting" /\ UNCHANGED <<epoch, jobs, envelopes>> /\ next \notin Fleet
      BY <1>4 DEF Submitted, pool
    <2>2. \A m \in Fleet : m < next
      BY <2>1 DEF Fleet
    <2>3. Mine' = Mine
      BY <2>1 DEF Mine
    <2>4. QED
      BY <2>1, <2>2, <2>3 DEF Collecting, Cancelling, Open, None
  <1>5. CASE Collect
    <2>1. /\ main = "waiting" /\ main' = "gathering" /\ undone' = Mine \ Done /\ UNCHANGED <<epoch, jobs>>
          /\ \A m \in Fleet : envelopes'[m] = IF \E j \in Done : jobs[j].ep = m
                                              THEN jobs[CHOOSE j \in Done : jobs[j].ep = m].env ELSE envelopes[m]
      BY <1>5 DEF Collect, pool
    <2>2. Mine' = Mine /\ Done \subseteq Mine /\ Mine \subseteq DOMAIN jobs
      BY <2>1 DEF Mine, Done
    <2>3. \A m \in Fleet : (\E j \in Done : jobs[j].ep = m) => envelopes'[m].quality # "none"
      <3>1. TAKE m \in Fleet
      <3>2. HAVE \E j \in Done : jobs[j].ep = m
      <3>3. (CHOOSE j \in Done : jobs[j].ep = m) \in Done
        BY <3>2
      <3>4. QED
        BY <2>1, <3>2, <3>3 DEF Filled, Open
    <2>4. \A j \in undone' : envelopes'[jobs[j].ep].quality = "none"
      <3>1. TAKE j \in undone'
      <3>2. j \in Mine /\ jobs[j].ep \in Fleet /\ ~ \E k \in Done : jobs[k].ep = jobs[j].ep
        BY <2>1, <2>2 DEF BudgetInv, OneJobEach
      <3>3. QED
        BY <2>1, <3>2 DEF Collecting, Open, None
    <2>5. \A m \in Fleet : envelopes'[m].quality # "none" \/ \E j \in undone' : jobs[j].ep = m
      <3>1. TAKE m \in Fleet
      <3>2. CASE \E j \in Done : jobs[j].ep = m
        BY <2>3, <3>2
      <3>3. CASE ~ \E j \in Done : jobs[j].ep = m
        BY <2>1, <3>3 DEF Collecting, Open, None
      <3>4. QED
        BY <3>2, <3>3
    <2>6. QED
      BY <2>1, <2>2, <2>4, <2>5 DEF Collecting, Cancelling, Open, None
  <1>6. ASSUME NEW j \in undone, Cancel(j) PROVE Collecting' /\ Cancelling'
    <2>1. /\ main = "gathering" /\ main' = main /\ epoch' = epoch /\ undone' = undone \ {j} /\ j \in DOMAIN jobs
          /\ envelopes' = [envelopes EXCEPT ![jobs[j].ep] = Placeholder("late")]
      BY <1>6 DEF Cancel
    <2>2. DOMAIN jobs' = DOMAIN jobs /\ \A k \in DOMAIN jobs : jobs'[k].ep = jobs[k].ep /\ jobs'[k].epoch = jobs[k].epoch
      <3>1. CASE jobs[j].status = "queued"
        BY <1>6, <3>1, CancelDoes
      <3>2. CASE jobs[j].status # "queued"
        BY <1>6, <3>2 DEF Cancel
      <3>3. QED
        BY <3>1, <3>2
    <2>3. Mine' = Mine /\ Mine \subseteq DOMAIN jobs /\ undone \subseteq Mine
      BY <2>1, <2>2 DEF Mine, Cancelling
    <2>4. \A k \in undone' : jobs[k].ep # jobs[j].ep
      BY <2>1, <2>3 DEF BudgetInv, OneJobEach
    <2>5. Placeholder("late").quality = "late"
      BY DEF Placeholder, NoEnvelope
    <2>6. /\ envelopes'[jobs[j].ep].quality = "late"
          /\ \A m \in Fleet : m # jobs[j].ep => envelopes'[m] = envelopes[m]
      BY <2>1, <2>5
    <2>7. \A k \in undone' : envelopes'[jobs[k].ep].quality = "none"
      BY <2>1, <2>3, <2>4, <2>6 DEF Cancelling, None
    <2>8. \A m \in Fleet : envelopes'[m].quality # "none" \/ \E k \in undone' : jobs[k].ep = m
      BY <2>1, <2>6 DEF Cancelling, None
    <2>9. undone' \subseteq Mine' /\ undone' \subseteq DOMAIN jobs /\ main' = "gathering"
      BY <2>1, <2>3
    <2>10. Cancelling'
      <3>1. \A k \in undone' : jobs'[k].ep = jobs[k].ep
        BY <2>2, <2>9
      <3>2. \A k \in undone' : envelopes'[jobs'[k].ep].quality = "none"
        BY <2>7, <3>1
      <3>3. \A m \in Fleet : envelopes'[m].quality # "none" \/ \E k \in undone' : jobs'[k].ep = m
        BY <2>8, <3>1
      <3>4. QED
        BY <2>9, <3>2, <3>3 DEF Cancelling, None
    <2>11. Collecting'
      BY <2>9 DEF Collecting, Open
    <2>12. QED
      BY <2>10, <2>11
  <1>7. CASE Apply \/ Stop
    BY <1>7 DEF Apply, Stop, Collecting, Cancelling, Open
  <1>8. CASE Closed
    BY <1>8 DEF Closed, Collecting, Cancelling, Open
  <1>9. CASE Expire \/ UNCHANGED vars
    <2>1. UNCHANGED <<main, epoch, next, envelopes, undone, jobs>>
      BY <1>9 DEF Expire, vars, pool
    <2>2. QED
      BY <2>1, CollectingFrame
  <1>10. QED
    BY <1>1, <1>2, <1>3, <1>4, <1>5, <1>6, <1>7, <1>8, <1>9

\* A job that is done stays done, and the queue gets no job.
LEMMA EndedFrame ==
    ASSUME Over, Shut, UNCHANGED <<main, epoch>>, expired => expired', DOMAIN jobs' = DOMAIN jobs,
           \A j \in DOMAIN jobs : jobs'[j].epoch = jobs[j].epoch /\ (jobs[j].status = "done" => jobs'[j].status = "done"),
           Queued' \subseteq Queued,
           main = "closed" => worker' = worker
    PROVE  Over' /\ Shut'
  <1>1. Mine' = Mine /\ Mine \subseteq DOMAIN jobs
    BY DEF Mine
  <1>2. QED
    BY <1>1 DEF Over, Shut

LEMMA EndedStep ==
    ASSUME TypeOK, OwnerInv, Over, Shut, [Next]_vars
    PROVE  Over' /\ Shut'
  <1>1. CASE Stop
    <2>1. SameWork(TRUE) /\ main' = "closing"
      BY <1>1, StopJobs DEF Stop
    <2>2. Queued' = {}
      BY <2>1 DEF SameWork, Queued
    <2>3. QED
      BY <2>1, <2>2 DEF Over, Shut
  <1>2. CASE Tick \/ Submit \/ Submitted
    BY <1>2 DEF Tick, Submit, Submitted, Over, Shut
  <1>3. CASE Collect
    <2>1. main' = "gathering" /\ UNCHANGED <<jobs, epoch, expired>> /\ (expired \/ Done = Mine)
      BY <1>3 DEF Collect, WaitOver, pool
    <2>2. QED
      BY <2>1 DEF Over, Shut, Mine, Done
  <1>4. CASE Apply
    <2>1. main = "gathering" /\ main' = "idle" /\ UNCHANGED <<jobs, epoch, expired>>
      BY <1>4 DEF Apply, pool
    <2>2. QED
      BY <2>1 DEF Over, Shut, Mine
  <1>5. CASE Closed
    BY <1>5 DEF Closed, Over, Shut, pool, Queued
  <1>6. CASE Expire \/ UNCHANGED vars
    <2>1. UNCHANGED <<main, epoch, jobs, worker>> /\ (expired => expired')
      BY <1>6 DEF Expire, vars, pool
    <2>2. QED
      BY <2>1, EndedFrame DEF Queued
  <1>7. ASSUME NEW j \in undone, Cancel(j) PROVE Over' /\ Shut'
    <2>1. UNCHANGED <<main, epoch, expired, worker>>
      BY <1>7 DEF Cancel
    <2>2. CASE jobs[j].status = "queued"
      <3>1. /\ j \in Queued /\ DOMAIN jobs' = DOMAIN jobs /\ \A k \in DOMAIN jobs : k # j => jobs'[k] = jobs[k]
            /\ jobs'[j].epoch = jobs[j].epoch /\ jobs'[j].status = "cancelled"
        BY <1>7, <2>2, CancelDoes
      <3>2. Queued' \subseteq Queued
        BY <3>1 DEF Queued
      <3>3. QED
        BY <2>1, <2>2, <3>1, <3>2, EndedFrame
    <2>3. CASE jobs[j].status # "queued"
      <3>1. jobs' = jobs
        BY <1>7, <2>3 DEF Cancel
      <3>2. QED
        BY <2>1, <3>1, EndedFrame DEF Queued
    <2>4. QED
      BY <2>2, <2>3
  <1>8. ASSUME NEW w \in Workers, Take(w) PROVE Over' /\ Shut'
    <2>1. PICK j \in Queued :
            /\ DOMAIN jobs' = DOMAIN jobs /\ \A k \in DOMAIN jobs : k # j => jobs'[k] = jobs[k]
            /\ jobs'[j].epoch = jobs[j].epoch /\ jobs'[j].status = "running" /\ jobs[j].status = "queued"
      BY <1>8, TakeDoes
    <2>2. Queued' \subseteq Queued /\ main \notin {"closing", "closed"}
      BY <2>1 DEF Queued, Shut
    <2>3. UNCHANGED <<main, epoch, expired>>
      BY <1>8 DEF Take
    <2>4. QED
      BY <2>1, <2>2, <2>3, EndedFrame
  <1>9. ASSUME NEW w \in Workers, Ask(w) \/ HearSummary(w) \/ HearStats(w) \/ Leave(w) PROVE Over' /\ Shut'
    <2>1. UNCHANGED <<main, epoch, expired, jobs>> /\ main # "closed"
      BY <1>9 DEF Ask, HearSummary, HearStats, Leave, Shut
    <2>2. QED
      BY <2>1, EndedFrame DEF Queued
  <1>10. ASSUME NEW w \in Workers, Finish(w) PROVE Over' /\ Shut'
    <2>1. worker[w].at = "freed" /\ UNCHANGED <<main, epoch, expired>> /\ main # "closed" /\ Mark(w) \in DOMAIN jobs
      BY <1>10 DEF Finish, Shut, OwnerInv, Employed
    <2>2. /\ DOMAIN jobs' = DOMAIN jobs /\ \A k \in DOMAIN jobs : k # Mark(w) => jobs'[k] = jobs[k]
          /\ jobs'[Mark(w)].epoch = jobs[Mark(w)].epoch /\ jobs'[Mark(w)].status = "done"
      BY <1>10, <2>1, FinishDoes
    <2>3. Queued' \subseteq Queued
      BY <2>2 DEF Queued
    <2>4. QED
      BY <2>1, <2>2, <2>3, EndedFrame
  <1>11. QED
    BY <1>1, <1>2, <1>3, <1>4, <1>5, <1>6, <1>7, <1>8, <1>9, <1>10 DEF Next
-------------------------------------------------------------------------------
(* The promises of EpochPolling. *)

\* The abstract state.
Phase == CASE main = "idle" -> "idle" [] main = "closing" -> "stopping" [] main = "closed" -> "stopped"
           [] OTHER -> "collecting"
Talkers == {Endpoint(w) : w \in {v \in Workers : Talking(v)}}
Result == [m \in Fleet |-> IF envelopes[m].quality = "none" THEN "none"
                           ELSE IF envelopes[m].asked THEN "answer" ELSE "placeholder"]

\* How a step of the abstract specification is recognised.
LEMMA Abstractly ==
    ASSUME Talkers' = Talkers,
           \/ Phase = "idle" /\ Phase' = "collecting" /\ summaries' = {} /\ Result' = [m \in Fleet |-> "none"]
           \/ /\ Phase = "collecting" /\ Phase' = Phase /\ summaries' = summaries
              /\ \A m \in Fleet : \/ Result'[m] = Result[m]
                                  \/ Result[m] = "none" /\ (Result'[m] = "answer" => m \in summaries)
           \/ /\ Phase = "collecting" /\ Phase' = "idle" /\ summaries' = summaries /\ Result' = Result
              /\ \A m \in Fleet : Result[m] # "none"
           \/ /\ Phase \in {"idle", "collecting"} /\ Phase' = "stopping" /\ summaries' = summaries
              /\ Result' = [m \in Fleet |-> "none"]
           \/ Phase = "stopping" /\ Phase' = "stopped" /\ Talkers = {} /\ summaries' = summaries /\ Result' = Result
           \/ Phase' = Phase /\ summaries' = summaries /\ Result' = Result
    PROVE  [Polling!Next]_(Polling!vars)
  <1>1. CASE Phase = "idle" /\ Phase' = "collecting" /\ summaries' = {} /\ Result' = [m \in Fleet |-> "none"]
    <2>1. Polling!Begin
      BY <1>1 DEF Polling!Begin, Polling!Nothing, Phase, Talkers, Result
    <2>2. QED
      BY <2>1 DEF Polling!Next
  <1>2. CASE /\ Phase = "collecting" /\ Phase' = Phase /\ summaries' = summaries
             /\ \A m \in Fleet : \/ Result'[m] = Result[m]
                                 \/ Result[m] = "none" /\ (Result'[m] = "answer" => m \in summaries)
    <2>1. Result' \in [Fleet -> {"none", "answer", "placeholder"}]
      BY DEF Result
    <2>2. Polling!Give
      BY <1>2, <2>1 DEF Polling!Give, Polling!Results, Phase, Talkers, Result
    <2>3. QED
      BY <2>2 DEF Polling!Next
  <1>3. CASE /\ Phase = "collecting" /\ Phase' = "idle" /\ summaries' = summaries /\ Result' = Result
             /\ \A m \in Fleet : Result[m] # "none"
    <2>1. Polling!End
      BY <1>3 DEF Polling!End, Phase, Talkers, Result
    <2>2. QED
      BY <2>1 DEF Polling!Next
  <1>4. CASE /\ Phase \in {"idle", "collecting"} /\ Phase' = "stopping" /\ summaries' = summaries
             /\ Result' = [m \in Fleet |-> "none"]
    <2>1. Polling!Stop
      BY <1>4 DEF Polling!Stop, Polling!Nothing, Phase, Talkers, Result
    <2>2. QED
      BY <2>1 DEF Polling!Next
  <1>5. CASE Phase = "stopping" /\ Phase' = "stopped" /\ Talkers = {} /\ summaries' = summaries /\ Result' = Result
    <2>1. Polling!Stopped
      BY <1>5 DEF Polling!Stopped, Phase, Talkers, Result
    <2>2. QED
      BY <2>1 DEF Polling!Next
  <1>6. CASE Phase' = Phase /\ summaries' = summaries /\ Result' = Result
    BY <1>6 DEF Polling!vars, Phase, Talkers, Result
  <1>7. QED
    BY <1>1, <1>2, <1>3, <1>4, <1>5, <1>6

LEMMA AbstractlyAsked ==
    ASSUME NEW m \in Fleet, Phase \in {"collecting", "stopping"}, m \notin summaries \cup Talkers,
           summaries' = summaries \cup {m}, Talkers' = Talkers \cup {m}, Phase' = Phase, Result' = Result
    PROVE  Polling!Next
  <1>1. Polling!Ask(m)
    BY DEF Polling!Ask, Phase, Talkers, Result
  <1>2. QED
    BY <1>1 DEF Polling!Next

LEMMA AbstractlyHungUp ==
    ASSUME NEW m \in Fleet, m \in Talkers, Talkers' = Talkers \ {m},
           summaries' = summaries, Phase' = Phase, Result' = Result
    PROVE  Polling!Next
  <1>1. Polling!HangUp(m)
    BY DEF Polling!HangUp, Phase, Talkers, Result
  <1>2. QED
    BY <1>1 DEF Polling!Next

\* The same workers talk, about the same miners.
LEMMA SameTalkers ==
    ASSUME OwnerInv, \A w \in Workers : Talking(w)' <=> Talking(w), \A w \in Workers : Talking(w) => Mark(w)' = Mark(w),
           \A j \in DOMAIN jobs : jobs'[j].ep = jobs[j].ep
    PROVE  Talkers' = Talkers
  <1>1. \A w \in Workers : Talking(w) => Mark(w) \in DOMAIN jobs
    BY DEF OwnerInv, Employed, Talking
  <1>2. \A w \in Workers : Talking(w) => Endpoint(w)' = Endpoint(w)
    BY <1>1 DEF Endpoint
  <1>3. QED
    BY <1>2 DEF Talkers

PollInv == TypeOK /\ OwnerInv /\ BudgetInv /\ ResultInv

LEMMA MainSimulates ==
    ASSUME PollInv,
           \/ Tick \/ Submit \/ Submitted \/ Expire \/ Collect \/ Apply \/ Stop \/ Closed \/ UNCHANGED vars
           \/ \E j \in undone : Cancel(j)
    PROVE  [Polling!Next]_(Polling!vars)
  <1> USE DEF PollInv
  <1>1. worker' = worker
    BY Zenon DEF Tick, Submit, Submitted, Expire, Collect, Apply, Stop, Closed, Cancel, pool, vars
  <1>2. \A j \in DOMAIN jobs : jobs'[j].ep = jobs[j].ep
    <2>1. CASE Tick
      BY <2>1, TickJobs DEF Tick, SameWork
    <2>2. CASE Stop
      BY <2>2, StopJobs DEF Stop, SameWork
    <2>3. CASE Submit
      <3>1. CASE Free(next)
        BY <2>3, <3>1, SubmitJob DEF Submit, NewJob
      <3>2. CASE ~Free(next)
        BY <2>3, <3>2 DEF Submit
      <3>3. QED
        BY <3>1, <3>2
    <2>4. ASSUME NEW j \in undone, Cancel(j) PROVE \A k \in DOMAIN jobs : jobs'[k].ep = jobs[k].ep
      <3>1. CASE jobs[j].status = "queued"
        BY <2>4, <3>1, CancelDoes
      <3>2. CASE jobs[j].status # "queued"
        BY <2>4, <3>2 DEF Cancel
      <3>3. QED
        BY <3>1, <3>2
    <2>5. CASE Submitted \/ Expire \/ Collect \/ Apply \/ Closed \/ UNCHANGED vars
      BY <2>5 DEF Submitted, Expire, Collect, Apply, Closed, pool, vars
    <2>6. QED
      BY <2>1, <2>2, <2>3, <2>4, <2>5
  <1>3. Talkers' = Talkers
    BY <1>1, <1>2, SameTalkers DEF Talking, Mark
  <1>4. CASE Tick
    <2>1. main = "idle" /\ main' = "submitting" /\ summaries' = {} /\ envelopes' = [m \in Fleet |-> NoEnvelope]
      BY <1>4 DEF Tick
    <2>2. Phase = "idle" /\ Phase' = "collecting" /\ Result' = [m \in Fleet |-> "none"]
      BY <2>1 DEF Phase, Result, NoEnvelope
    <2>3. QED
      BY <1>3, <2>1, <2>2, Abstractly
  <1>5. CASE Stop
    <2>1. /\ main \notin {"closing", "closed"} /\ main' = "closing" /\ summaries' = summaries
          /\ envelopes' = [m \in Fleet |-> NoEnvelope]
      BY <1>5 DEF Stop, ghosts
    <2>2. Phase \in {"idle", "collecting"} /\ Phase' = "stopping" /\ Result' = [m \in Fleet |-> "none"]
      BY <2>1 DEF Phase, Result, NoEnvelope
    <2>3. QED
      BY <1>3, <2>1, <2>2, Abstractly
  <1>6. CASE Closed
    <2>1. main = "closing" /\ main' = "closed" /\ summaries' = summaries /\ envelopes' = envelopes
      BY <1>6 DEF Closed, ghosts
    <2>2. Phase = "stopping" /\ Phase' = "stopped" /\ Result' = Result
      BY <2>1 DEF Phase, Result
    <2>3. Talkers = {}
      BY <1>6 DEF Closed, Talkers, Talking
    <2>4. QED
      BY <1>3, <2>1, <2>2, <2>3, Abstractly
  <1>7. CASE Apply
    <2>1. main = "gathering" /\ main' = "idle" /\ summaries' = summaries /\ envelopes' = envelopes /\ undone = {}
      BY <1>7 DEF Apply, ghosts
    <2>2. Phase = "collecting" /\ Phase' = "idle" /\ Result' = Result
      BY <2>1 DEF Phase, Result
    <2>3. \A m \in Fleet : Result[m] # "none"
      BY <2>1 DEF ResultInv, Cancelling, None, Result
    <2>4. QED
      BY <1>3, <2>1, <2>2, <2>3, Abstractly
  <1>8. CASE Submitted \/ Expire \/ UNCHANGED vars
    <2>1. summaries' = summaries /\ envelopes' = envelopes /\ (main' = main \/ (main = "submitting" /\ main' = "waiting"))
      BY <1>8 DEF Submitted, Expire, vars, ghosts
    <2>2. Phase' = Phase /\ Result' = Result
      BY <2>1 DEF Phase, Result
    <2>3. QED
      BY <1>3, <2>1, <2>2, Abstractly
  <1>9. CASE Submit
    <2>1. main = "submitting" /\ main' = main /\ next \in Fleet /\ summaries' = summaries
      BY <1>9 DEF Submit, ghosts
    <2>2. Phase = "collecting" /\ Phase' = Phase
      BY <2>1 DEF Phase
    <2>3. \A m \in Fleet : envelopes'[m] = envelopes[m] \/ (None(m) /\ envelopes'[m] = Placeholder("error"))
      <3>1. next <= next
        BY Types
      <3>2. None(next)
        BY <2>1, <3>1 DEF ResultInv, Collecting
      <3>3. QED
        BY <1>9, <3>2, Types DEF Submit
    <2>4. \A m \in Fleet : Result'[m] = Result[m] \/ (Result[m] = "none" /\ Result'[m] # "answer")
      BY <2>3 DEF Result, None, Placeholder, NoEnvelope
    <2>5. QED
      BY <1>3, <2>1, <2>2, <2>4, Abstractly
  <1>10. CASE Collect
    <2>1. /\ main = "waiting" /\ main' = "gathering" /\ summaries' = summaries
          /\ envelopes' = [m \in Fleet |-> IF \E j \in Done : jobs[j].ep = m
                                           THEN jobs[CHOOSE j \in Done : jobs[j].ep = m].env ELSE envelopes[m]]
      BY <1>10 DEF Collect, ghosts
    <2>2. Phase = "collecting" /\ Phase' = Phase
      BY <2>1 DEF Phase
    <2>3. \A m \in Fleet : envelopes'[m] = envelopes[m] \/ (None(m) /\ (envelopes'[m].asked => m \in summaries))
      <3>1. TAKE m \in Fleet
      <3>2. CASE \E j \in Done : jobs[j].ep = m
        <4>1. PICK j \in Done : jobs[j].ep = m /\ envelopes'[m] = jobs[j].env
          <5>1. (CHOOSE j \in Done : jobs[j].ep = m) \in Done /\ jobs[CHOOSE j \in Done : jobs[j].ep = m].ep = m
            BY <3>2
          <5>2. QED
            BY <2>1, <3>2, <5>1
        <4>2. j \in Mine
          BY DEF Done
        <4>3. QED
          BY <2>1, <4>1, <4>2 DEF ResultInv, Collecting, Truthful, Open
      <3>3. CASE ~ \E j \in Done : jobs[j].ep = m
        BY <2>1, <3>3
      <3>4. QED
        BY <3>2, <3>3
    <2>4. \A m \in Fleet : Result'[m] = Result[m] \/ (Result[m] = "none" /\ (Result'[m] = "answer" => m \in summaries))
      BY <2>3 DEF Result, None
    <2>5. QED
      BY <1>3, <2>1, <2>2, <2>4, Abstractly
  <1>11. ASSUME NEW j \in undone, Cancel(j) PROVE [Polling!Next]_(Polling!vars)
    <2>1. /\ main = "gathering" /\ main' = main /\ summaries' = summaries
          /\ envelopes' = [envelopes EXCEPT ![jobs[j].ep] = Placeholder("late")]
      BY <1>11 DEF Cancel, ghosts
    <2>2. Phase = "collecting" /\ Phase' = Phase
      BY <2>1 DEF Phase
    <2>3. None(jobs[j].ep)
      BY <2>1 DEF ResultInv, Cancelling
    <2>4. \A m \in Fleet : envelopes'[m] = envelopes[m] \/ (None(m) /\ envelopes'[m] = Placeholder("late"))
      BY <2>1, <2>3, Types
    <2>5. \A m \in Fleet : Result'[m] = Result[m] \/ (Result[m] = "none" /\ Result'[m] # "answer")
      BY <2>4 DEF Result, None, Placeholder, NoEnvelope
    <2>6. QED
      BY <1>3, <2>1, <2>2, <2>5, Abstractly
  <1>12. QED
    BY <1>4, <1>5, <1>6, <1>7, <1>8, <1>9, <1>10, <1>11

LEMMA WorkerSimulates ==
    ASSUME PollInv, NEW w \in Workers,
           Take(w) \/ Ask(w) \/ HearSummary(w) \/ HearStats(w) \/ Leave(w) \/ Finish(w)
    PROVE  [Polling!Next]_(Polling!vars)
  <1> USE Types, Constants DEF PollInv
  <1>1. UNCHANGED <<main, envelopes>>
    BY DEF Take, Ask, HearSummary, HearStats, Leave, Finish
  <1>2. Phase' = Phase /\ Result' = Result
    BY <1>1 DEF Phase, Result
  <1>3. CASE Take(w)
    <2>1. PICK j \in Queued :
            /\ \A k \in DOMAIN jobs : k # j => jobs'[k] = jobs[k]
            /\ jobs'[j].ep = jobs[j].ep
            /\ worker[w].at = "idle" /\ worker'[w].at = "started"
            /\ \A v \in Workers : v # w => worker'[v] = worker[v]
      BY <1>3, TakeDoes
    <2>2. Talkers' = Talkers
      BY <2>1, SameTalkers DEF Talking, Mark
    <2>3. summaries' = summaries
      BY <1>3 DEF Take, ghosts
    <2>4. QED
      BY <1>2, <2>2, <2>3, Abstractly
  <1>4. CASE Finish(w)
    <2>1. Mark(w) \in DOMAIN jobs
      BY <1>4 DEF Finish, OwnerInv, Employed
    <2>2. /\ \A k \in DOMAIN jobs : k # Mark(w) => jobs'[k] = jobs[k]
          /\ jobs'[Mark(w)].ep = jobs[Mark(w)].ep
          /\ worker[w].at = "freed" /\ worker'[w].at = "idle"
          /\ \A v \in Workers : v # w => worker'[v] = worker[v]
      BY <1>4, <2>1, FinishDoes
    <2>3. Talkers' = Talkers
      BY <2>2, SameTalkers DEF Talking, Mark
    <2>4. summaries' = summaries
      BY <1>4 DEF Finish, ghosts
    <2>5. QED
      BY <1>2, <2>3, <2>4, Abstractly
  <1>5. CASE Leave(w)
    <2>1. worker[w].at = "leaving" /\ jobs' = jobs /\ summaries' = summaries
      BY <1>5 DEF Leave, ghosts
    <2>2. worker'[w].at = "freed" /\ \A v \in Workers : v # w => worker'[v] = worker[v]
      BY <1>5, LeaveMoves DEF Leave, WorkerMoves
    <2>3. Talkers' = Talkers
      BY <2>1, <2>2, SameTalkers DEF Talking, Mark
    <2>4. QED
      BY <1>2, <2>1, <2>3, Abstractly
  <1>6. ASSUME NEW at \in {"summary", "stats", "leaving"}, NEW env \in Envelope, Step(w, at, env)
        PROVE  worker'[w].at = at /\ worker'[w].job = Mark(w) /\ \A v \in Workers : v # w => worker'[v] = worker[v]
    BY <1>6, StepMoves DEF WorkerMoves, Stages, Mark
  \* A worker that holds the lease is alone in talking to its miner.
  <1>7. \A v \in Workers : v # w /\ Talking(v) /\ Holding(w) => Endpoint(v) # Endpoint(w)
    BY DEF OwnerInv, OwnJob, HoldsLease, Holding, Talking
  <1>8. ASSUME Talking(w), jobs' = jobs, summaries' = summaries, \E env \in Envelope : Step(w, "leaving", env)
        PROVE  Polling!Next
    <2>1. worker'[w].at = "leaving" /\ \A v \in Workers : v # w => worker'[v] = worker[v]
      BY <1>6, <1>8
    <2>2. Endpoint(w) \in Fleet /\ Endpoint(w) \in Talkers
      BY <1>8 DEF OwnerInv, Employed, Talking, Endpoint, Talkers
    <2>3. \A v \in Workers : v # w => Talking(v)' = Talking(v) /\ Endpoint(v)' = Endpoint(v)
      BY <1>8, <2>1 DEF Talking, Endpoint, Mark
    <2>4. Talkers' = Talkers \ {Endpoint(w)}
      <3>1. ~Talking(w)' /\ Holding(w)
        BY <1>8, <2>1 DEF Talking, Holding
      <3>2. \A m : m \in Talkers' <=> \E v \in Workers : v # w /\ Talking(v) /\ m = Endpoint(v)
        BY <2>3, <3>1 DEF Talkers
      <3>3. \A m : m \in Talkers \ {Endpoint(w)} <=> \E v \in Workers : v # w /\ Talking(v) /\ m = Endpoint(v)
        BY <1>7, <3>1 DEF Talkers
      <3>4. QED
        BY <3>2, <3>3
    <2>5. QED
      BY <1>2, <1>8, <2>2, <2>4, AbstractlyHungUp
  <1>9. CASE Ask(w)
    <2>1. worker[w].at = "started" /\ jobs' = jobs
      BY <1>9 DEF Ask
    <2>2. CASE PastDeadline(w)
      <3>1. worker'[w].at = "leaving" /\ \A v \in Workers : v # w => worker'[v] = worker[v]
        BY <1>6, <1>9, <2>2 DEF Ask
      <3>2. Talkers' = Talkers
        BY <2>1, <3>1, SameTalkers DEF Talking, Mark
      <3>3. summaries' = summaries
        BY <1>9, <2>2 DEF Ask
      <3>4. QED
        BY <1>2, <3>2, <3>3, Abstractly
    <2>3. CASE ~PastDeadline(w)
      <3>1. Step(w, "summary", NoEnvelope) /\ summaries' = summaries \cup {Endpoint(w)}
        BY <1>9, <2>3 DEF Ask
      <3>2. worker'[w].at = "summary" /\ worker'[w].job = Mark(w) /\ \A v \in Workers : v # w => worker'[v] = worker[v]
        BY <1>6, <3>1
      <3>3. /\ Mark(w) \in Mine /\ Endpoint(w) \in Fleet /\ Endpoint(w) \notin summaries
            /\ jobs[Mark(w)].status = "running" /\ ~expired
        BY <2>1, <2>3 DEF OwnerInv, Employed, Endpoint, PastDeadline, Mine, BudgetInv, Unspent
      <3>4. Phase \in {"collecting", "stopping"}
        BY <2>1, <3>3 DEF ResultInv, Over, Shut, Phase, TypeOK
      <3>5. \A v \in Workers : v # w => Talking(v)' = Talking(v) /\ Endpoint(v)' = Endpoint(v)
        BY <2>1, <3>2 DEF Talking, Endpoint, Mark
      <3>6. Endpoint(w)' = Endpoint(w) /\ Talking(w)' /\ ~Talking(w) /\ Holding(w)
        BY <2>1, <3>2 DEF Talking, Endpoint, Mark, Holding
      <3>7. Endpoint(w) \notin Talkers
        BY <1>7, <3>6 DEF Talkers
      <3>8. Talkers' = Talkers \cup {Endpoint(w)}
        <4>1. \A m : m \in Talkers' <=> m = Endpoint(w) \/ \E v \in Workers : v # w /\ Talking(v) /\ m = Endpoint(v)
          BY <3>5, <3>6 DEF Talkers
        <4>2. \A m : m \in Talkers <=> \E v \in Workers : v # w /\ Talking(v) /\ m = Endpoint(v)
          BY <3>6 DEF Talkers
        <4>3. QED
          BY <4>1, <4>2
      <3>9. QED
        BY <1>2, <3>1, <3>3, <3>4, <3>7, <3>8, AbstractlyAsked
    <2>4. QED
      BY <2>2, <2>3
  <1>10. CASE HearSummary(w)
    <2>1. PICK says \in Says :
            \/ Step(w, "leaving", AsLate(SummaryEnvelope(says))) \/ Step(w, "leaving", SummaryEnvelope(says))
            \/ Step(w, "stats", SummaryEnvelope(says))
      BY <1>10 DEF HearSummary
    <2>2. Talking(w) /\ jobs' = jobs /\ summaries' = summaries
      BY <1>10 DEF HearSummary, Talking
    <2>3. CASE \E env \in Envelope : Step(w, "leaving", env)
      BY <1>8, <2>2, <2>3
    <2>4. CASE Step(w, "stats", SummaryEnvelope(says))
      <3>1. worker'[w].at = "stats" /\ worker'[w].job = Mark(w) /\ \A v \in Workers : v # w => worker'[v] = worker[v]
        BY <1>6, <2>4
      <3>2. Talkers' = Talkers
        BY <2>2, <3>1, SameTalkers DEF Talking, Mark
      <3>3. QED
        BY <1>2, <2>2, <3>2, Abstractly
    <2>5. QED
      BY <2>1, <2>3, <2>4
  <1>11. CASE HearStats(w)
    <2>1. Talking(w) /\ jobs' = jobs /\ summaries' = summaries /\ \E env \in Envelope : Step(w, "leaving", env)
      BY <1>11 DEF HearStats, Talking, ghosts, Stage
    <2>2. QED
      BY <1>8, <2>1
  <1>12. QED
    BY <1>3, <1>4, <1>5, <1>9, <1>10, <1>11

LEMMA PollInit == Init => PollInv /\ Polling!Init
  <1>1. SUFFICES ASSUME Init PROVE PollInv /\ Polling!Init
    OBVIOUS
  <1>2. TypeOK /\ OwnerInv
    BY <1>1, LeaseInit DEF LeaseInv, OwnerInv
  <1>3. /\ DOMAIN jobs = {} /\ main = "idle" /\ undone = {} /\ summaries = {} /\ stats = {}
        /\ \A w \in Workers : worker[w].at = "idle" /\ \A m \in Fleet : envelopes[m] = NoEnvelope
    BY <1>1 DEF Init, Resting
  <1>4. BudgetInv
    BY <1>3 DEF BudgetInv, EpochsPast, OneJobEach, SubmittedBefore, AskedAreMine, Unspent, Mine, Queued
  <1>5. ResultInv
    BY <1>3 DEF ResultInv, Truthful, Filled, Collecting, Cancelling, Over, Shut, Mine, Done, Open, Queued
  <1>6. Phase = "idle" /\ Talkers = {} /\ Result = [m \in Fleet |-> "none"]
    BY <1>1, <1>3 DEF Phase, Talkers, Talking, Result, NoEnvelope, Init
  <1>7. Polling!Init
    BY <1>3, <1>6 DEF Polling!Init, Polling!Nothing, Phase, Talkers, Result
  <1>8. QED
    BY <1>2, <1>4, <1>5, <1>7 DEF PollInv

LEMMA PollStep == PollInv /\ [Next]_vars => PollInv'
  <1>1. SUFFICES ASSUME PollInv, [Next]_vars PROVE PollInv'
    OBVIOUS
  <1>2. TypeOK' /\ OwnerInv'
    BY <1>1, AcquisitionTypes, OwnerStep DEF PollInv, OwnerInv
  <1>3. BudgetInv'
    BY <1>1, <1>2, BudgetStep DEF PollInv
  <1>4. Truthful' /\ Filled'
    BY <1>1, WorkMain, WorkWorker, WorkFinish DEF PollInv, ResultInv, Next
  <1>5. Collecting' /\ Cancelling'
    BY <1>1, CollectingMain, CollectingWorker DEF PollInv, ResultInv, Next
  <1>6. Over' /\ Shut'
    BY <1>1, EndedStep DEF PollInv, ResultInv
  <1>7. QED
    BY <1>2, <1>3, <1>4, <1>5, <1>6 DEF PollInv, ResultInv

\* The acquirer implements EpochPolling: one result per miner and epoch, an answer only to a
\* request of the epoch, one conversation at a time, none when it is closed.
THEOREM PollingRefined == Spec => KeepsPollingPromises
  <1>1. PollInv /\ [Next]_vars => [Polling!Next]_(Polling!vars)
    BY MainSimulates, WorkerSimulates DEF Next
  <1>2. QED
    BY <1>1, PollInit, PollStep, PTL DEF Spec, KeepsPollingPromises, Polling!Spec
===============================================================================
