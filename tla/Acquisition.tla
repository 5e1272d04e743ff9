------------------------------ MODULE Acquisition ------------------------------
(***************************************************************************)
(* Adaptive acquisition: BoundedAcquirer, its lease registry and its worker   *)
(* pool (src/app/acquisition.py), and the tick of main that uses them         *)
(* (src/app/miner_monitor.py:3854-3906, 4685-4691).                          *)
(*                                                                         *)
(* A job is a future and the lease it was submitted with; both have the number *)
(* of the job, which only grows.  The executor takes the queued jobs in that  *)
(* order.  Of a payload it is kept whether the miner responded and whether    *)
(* there is a rate.  Board counts, request counts and latencies, PollHealth,   *)
(* and what main never uses (EpochScheduler, collect_diagnostic) are left out. *)
(***************************************************************************)
EXTENDS Integers, Sequences, FiniteSets

CONSTANTS
    N,         \* the endpoints are 1..N, in configuration order
    Workers,   \* threads of the pool
    Says,      \* what an answer may hold: "rate", "noRate", or nothing usable, "silent"
    Hung,      \* endpoints that may send bytes for ever: no receive times out
    MaxEpoch   \* bound: ticks

Fleet == 1..N

ASSUME AcquisitionAssumption ==
    /\ N \in Nat \ {0} /\ MaxEpoch \in Nat
    /\ Hung \subseteq Fleet
    /\ "silent" \in Says /\ Says \subseteq {"silent", "noRate", "rate"}

NoJob == 0
NoEnvelope == [quality |-> "none", says |-> "silent", asked |-> FALSE]

Envelope ==
    [quality : {"none", "valid", "invalid", "error", "late"},
     says : Says,         \* responded and rate_ths
     asked : BOOLEAN]     \* made from a connection, not in its place

\* _base_envelope: the envelope of a request that was not made or has not ended.
Placeholder(quality) == [NoEnvelope EXCEPT !.quality = quality]

\* _normalize_summary of what Api4028Transport makes of a connection: nothing usable (no
\* connection, a timeout, no JSON), a reply without a rate, a reply with one.
SummaryEnvelope(says) ==
    [quality |-> CASE says = "rate" -> "valid" [] says = "noRate" -> "invalid" [] OTHER -> "error",
     says |-> says, asked |-> TRUE]

\* _as_late keeps everything but the quality.
AsLate(env) == [env EXCEPT !.quality = "late"]

Job == [ep : Fleet, epoch : Nat, status : {"queued", "running", "cancelled", "done"}, env : Envelope]

-------------------------------------------------------------------------------
VARIABLES
    main,       \* where the main thread is
    epoch,      \* number of the tick
    expired,    \* deadline_monotonic of this epoch has passed
    next,       \* next endpoint to submit
    lease,      \* InFlightRegistry._leases: the job that owns the endpoint
    jobs,       \* the futures, in the order of submission
    undone,     \* not_done: futures still to be cancelled
    envelopes,  \* envelopes of the epoch
    reading,    \* what this tick has applied, per miner
    worker,     \* [at, job, env] of each thread of the pool
    (* observation variables *)
    summaries, stats   \* the endpoints sent a request of this kind since the epoch began

pool == <<lease, jobs, worker>>
ghosts == <<summaries, stats>>
vars == <<main, epoch, expired, next, lease, jobs, undone, envelopes, reading, worker, summaries, stats>>

Stages == {"idle", "started", "summary", "stats", "leaving", "freed"}
Resting == [at |-> "idle", job |-> NoJob, env |-> NoEnvelope]

TypeOK ==
    /\ main \in {"idle", "submitting", "waiting", "gathering", "closing", "closed"}
    /\ epoch \in Nat /\ expired \in BOOLEAN /\ next \in 1..(N + 1)
    /\ lease \in [Fleet -> Nat]
    /\ jobs \in Seq(Job)
    /\ undone \subseteq DOMAIN jobs
    /\ envelopes \in [Fleet -> Envelope] /\ DOMAIN reading \subseteq Fleet
    /\ worker \in [Workers -> [at : Stages, job : Nat, env : Envelope]]
    /\ summaries \subseteq Fleet /\ stats \subseteq Fleet

Init ==
    /\ main = "idle" /\ epoch = 0 /\ expired = FALSE /\ next = 1
    /\ lease = [m \in Fleet |-> NoJob] /\ jobs = <<>> /\ undone = {}
    /\ envelopes = [m \in Fleet |-> NoEnvelope] /\ reading = <<>>
    /\ worker = [w \in Workers |-> Resting]
    /\ summaries = {} /\ stats = {}
-------------------------------------------------------------------------------
(* The main thread: collect_authoritative, then the loop over the miners. *)

Tick ==
    /\ main = "idle" /\ epoch < MaxEpoch
    /\ main' = "submitting" /\ epoch' = epoch + 1 /\ expired' = FALSE /\ next' = 1
    /\ jobs' = [j \in DOMAIN jobs |-> [jobs[j] EXCEPT !.env = NoEnvelope]]   \* nobody holds these futures
    /\ envelopes' = [m \in Fleet |-> NoEnvelope] /\ undone' = {}
    /\ reading' = <<>> /\ summaries' = {} /\ stats' = {}
    /\ UNCHANGED <<lease, worker>>

Mine == {j \in DOMAIN jobs : jobs[j].epoch = epoch}

\* Mutant: whoever asks gets the lease.
AlwaysFree(ep) == TRUE

\* InFlightRegistry.acquire
Free(ep) == lease[ep] = NoJob

Submit ==
    /\ main = "submitting" /\ next \in Fleet
    /\ IF Free(next)
       THEN /\ jobs' = Append(jobs, [ep |-> next, epoch |-> epoch, status |-> "queued", env |-> NoEnvelope])
            /\ lease' = [lease EXCEPT ![next] = Len(jobs) + 1]
            /\ UNCHANGED envelopes
       ELSE /\ envelopes' = [envelopes EXCEPT ![next] = Placeholder("error")]
            /\ UNCHANGED <<jobs, lease>>
    /\ next' = next + 1
    /\ UNCHANGED <<main, epoch, expired, undone, reading, worker, ghosts>>

Submitted ==
    /\ main = "submitting" /\ next \notin Fleet
    /\ main' = "waiting"
    /\ UNCHANGED <<epoch, expired, next, pool, undone, envelopes, reading, ghosts>>

Expire ==
    /\ main \in {"submitting", "waiting", "closing"} /\ ~expired
    /\ expired' = TRUE
    /\ UNCHANGED <<main, epoch, next, pool, undone, envelopes, reading, ghosts>>

\* Mutant: any future that is done by now.
DoneAny == {j \in DOMAIN jobs : jobs[j].status = "done"}

Done == {j \in Mine : jobs[j].status = "done"}

\* Mutant: wait without a timeout.
AllDone == Done = Mine

WaitOver == expired \/ Done = Mine

\* wait returns: the envelopes of the futures that are done by now, whatever their quality.
Collect ==
    /\ main = "waiting" /\ WaitOver
    /\ main' = "gathering" /\ undone' = Mine \ Done
    /\ envelopes' = [m \in Fleet |->
           IF \E j \in Done : jobs[j].ep = m
           THEN jobs[CHOOSE j \in Done : jobs[j].ep = m].env ELSE envelopes[m]]
    /\ UNCHANGED <<epoch, expired, next, pool, reading, ghosts>>

\* Mutant: a cancelled request keeps its lease.
LeaseKept(j) == lease

\* release does nothing for a lease that is not the owner's.
Released(j) == [m \in Fleet |-> IF lease[m] = j THEN NoJob ELSE lease[m]]

\* One future of not_done: cancelled if no worker has it yet; late in any case, even when
\* it has been completed since wait returned.
Cancel(j) ==
    /\ main = "gathering" /\ j \in undone
    /\ undone' = undone \ {j}
    /\ IF jobs[j].status = "queued"
       THEN jobs' = [jobs EXCEPT ![j].status = "cancelled"] /\ lease' = Released(j)
       ELSE UNCHANGED <<jobs, lease>>
    /\ envelopes' = [envelopes EXCEPT ![jobs[j].ep] = Placeholder("late")]
    /\ UNCHANGED <<main, epoch, expired, next, reading, worker, ghosts>>

\* What main takes from an envelope; dispatch_authoritative is imported and never called.
Applied(m) == envelopes[m].says

Apply ==
    /\ main = "gathering" /\ undone = {}
    /\ main' = "idle"
    /\ reading' = [m \in Fleet |-> Applied(m)]
    /\ UNCHANGED <<epoch, expired, next, pool, undone, envelopes, ghosts>>

\* KeyboardInterrupt, and close: futures no worker has are cancelled, their leases stay.
Stop ==
    /\ main \notin {"closing", "closed"}
    /\ main' = "closing"
    /\ jobs' = [j \in DOMAIN jobs |->
                  [jobs[j] EXCEPT !.env = NoEnvelope, !.status = IF @ = "queued" THEN "cancelled" ELSE @]]
    /\ envelopes' = [m \in Fleet |-> NoEnvelope] /\ undone' = {} /\ reading' = <<>>
    /\ UNCHANGED <<epoch, expired, next, lease, worker, ghosts>>

\* shutdown(wait=True)
Closed ==
    /\ main = "closing" /\ \A w \in Workers : worker[w].at = "idle"
    /\ main' = "closed"
    /\ UNCHANGED <<epoch, expired, next, pool, undone, envelopes, reading, ghosts>>
-------------------------------------------------------------------------------
(* A worker: _acquire_one.  A job of an earlier epoch is always past its deadline: *)
(* main left that epoch with this job undone. *)

Mark(w) == worker[w].job
Endpoint(w) == jobs[Mark(w)].ep

\* Mutant: a job compares the clock with the deadline of whatever epoch is running.
PastCurrentDeadline(w) == expired

PastDeadline(w) == expired \/ jobs[Mark(w)].epoch # epoch

Queued == {j \in DOMAIN jobs : jobs[j].status = "queued"}

Take(w) ==
    /\ worker[w].at = "idle"
    /\ \E j \in Queued :
        /\ \A k \in Queued : j <= k
        /\ jobs' = [jobs EXCEPT ![j].status = "running"]
        /\ worker' = [worker EXCEPT ![w] = [at |-> "started", job |-> j, env |-> NoEnvelope]]
    /\ UNCHANGED <<main, epoch, expired, next, lease, undone, envelopes, reading, ghosts>>

Step(w, at, env) == worker' = [worker EXCEPT ![w].at = at, ![w].env = env]

Ask(w) ==
    /\ worker[w].at = "started"
    /\ IF PastDeadline(w)
       THEN Step(w, "leaving", Placeholder("late")) /\ UNCHANGED summaries
       ELSE Step(w, "summary", NoEnvelope) /\ summaries' = summaries \cup {Endpoint(w)}
    /\ UNCHANGED <<main, epoch, expired, next, lease, jobs, undone, envelopes, reading, stats>>

\* The first request ends; a valid answer in time is followed by the second request.
HearSummary(w) ==
    /\ worker[w].at = "summary"
    /\ \E says \in Says :
        LET env == SummaryEnvelope(says)
        IN  IF PastDeadline(w) THEN Step(w, "leaving", AsLate(env)) /\ UNCHANGED stats
            ELSE IF env.quality # "valid" THEN Step(w, "leaving", env) /\ UNCHANGED stats
            ELSE Step(w, "stats", env) /\ stats' = stats \cup {Endpoint(w)}
    /\ UNCHANGED <<main, epoch, expired, next, lease, jobs, undone, envelopes, reading, summaries>>

\* _with_stats adds a board count or none; the answer stays what it was.
HearStats(w) ==
    /\ worker[w].at = "stats"
    /\ LET env == worker[w].env
       IN  Step(w, "leaving", IF PastDeadline(w) THEN AsLate(env) ELSE env)
    /\ UNCHANGED <<main, epoch, expired, next, lease, jobs, undone, envelopes, reading, ghosts>>

\* The finally clause, before the future gets its result.
Leave(w) ==
    /\ worker[w].at = "leaving"
    /\ lease' = Released(Mark(w))
    /\ worker' = [worker EXCEPT ![w].at = "freed"]
    /\ UNCHANGED <<main, epoch, expired, next, jobs, undone, envelopes, reading, ghosts>>

Finish(w) ==
    /\ worker[w].at = "freed"
    /\ jobs' = [jobs EXCEPT ![Mark(w)].status = "done", ![Mark(w)].env = worker[w].env]
    /\ worker' = [worker EXCEPT ![w] = Resting]
    /\ UNCHANGED <<main, epoch, expired, next, lease, undone, envelopes, reading, ghosts>>

Next ==
    \/ Tick \/ Submit \/ Submitted \/ Expire \/ Collect \/ Apply \/ Stop \/ Closed
    \/ \E j \in undone : Cancel(j)
    \/ \E w \in Workers : Take(w) \/ Ask(w) \/ HearSummary(w) \/ HearStats(w) \/ Leave(w) \/ Finish(w)

Spec == Init /\ [][Next]_vars
-------------------------------------------------------------------------------
(* Fairness: threads run, the clock advances, and a connection ends unless its peer *)
(* is one that keeps it open.                                                     *)

Answers(w) == Endpoint(w) \notin Hung /\ (HearSummary(w) \/ HearStats(w))

Fairness ==
    /\ WF_vars(Submit \/ Submitted \/ Collect \/ Apply \/ \E j \in undone : Cancel(j))
    /\ WF_vars(Expire)
    /\ \A w \in Workers :
        /\ WF_vars(Take(w) \/ Ask(w) \/ Leave(w) \/ Finish(w))
        /\ WF_vars(worker[w].at \in {"summary", "stats"} /\ Answers(w))

FairSpec == Spec /\ Fairness
-------------------------------------------------------------------------------
Talking(w) == worker[w].at \in {"summary", "stats"}

\* In-flight exclusion (FR-007): two workers are never in a conversation with the same
\* miner, however long the answer to an earlier epoch takes.
OneRequestPerMiner ==
    \A v, w \in Workers : v # w /\ Talking(v) /\ Talking(w) => Endpoint(v) # Endpoint(w)

\* A lease is always the lease of a job that some thread will still give back: one in the
\* queue, or one in the hands of a worker.  Without it the miner would be refused as
\* scheduled_overlap, and read as silent, in every later tick.
LeaseHasOwner ==
    \A m \in Fleet : lease[m] # NoJob /\ main \notin {"closing", "closed"} =>
        \/ lease[m] \in Queued
        \/ \E w \in Workers : Mark(w) = lease[m] /\ worker[w].at \in {"started", "summary", "stats", "leaving"}

\* A miner gets at most one request of each kind in an epoch (FR-014), although workers of
\* earlier epochs may still be on their way to ask: neither a job that waited too long nor
\* the second request of a slow miner reaches the next tick.
RequestBudget ==
    [][\A w \in Workers :
          /\ worker[w].at # "summary" /\ worker'[w].at = "summary" => Endpoint(w) \notin summaries
          /\ worker[w].at # "stats" /\ worker'[w].at = "stats" => Endpoint(w) \notin stats]_vars

\* A tick ends although a miner never answers (the deadline bounds the epoch).
EpochEnds == main = "submitting" ~> main \in {"idle", "closing", "closed"}

\* The acquirer keeps the promises of EpochPolling.
Polling == INSTANCE EpochPolling WITH
    phase   <- CASE main = "idle" -> "idle" [] main = "closing" -> "stopping" [] main = "closed" -> "stopped"
                 [] OTHER -> "collecting",
    asked   <- summaries,
    talking <- {Endpoint(w) : w \in {v \in Workers : Talking(v)}},
    result  <- [m \in Fleet |-> IF envelopes[m].quality = "none" THEN "none"
                                ELSE IF envelopes[m].asked THEN "answer" ELSE "placeholder"]

\* One result per miner and epoch, an answer only from a request of this epoch, one
\* conversation at a time, none left when the acquirer is closed.
KeepsPollingPromises == Polling!Spec

===============================================================================
