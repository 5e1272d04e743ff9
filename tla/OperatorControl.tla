----------------------------- MODULE OperatorControl ----------------------------
(***************************************************************************)
(* The operator's commands: telegram_polling_worker of                       *)
(* src/app/miner_monitor.py (lines 1913-3548), the update id and the marks it *)
(* shares with the main loop, and state.json, which both threads write.      *)
(*                                                                         *)
(* Only commands that act are told apart: the request of a reboot, the        *)
(* preview of a bulk reboot and their confirmations; every other command is  *)
(* taken and answered without a trace here.  A code is the number of the     *)
(* offer it was made for (two random codes are never equal), restart is a    *)
(* reboot, /c<code> and confirm reboot_no_ok are one command.  The age limit  *)
(* of state.json is in AutoReboot.                                           *)
(***************************************************************************)
EXTENDS Integers, Sequences, FiniteSets

CONSTANTS
    N,               \* the miners are 1..N, in configuration order
    Expiry,          \* life of a confirmation: 60 s
    ManualCooldown,  \* 600 s
    BulkCap,         \* BULK_REBOOT_CAP
    LowSets,         \* the sets of miners a tick may find LOW
    SavesFail,       \* writing state.json may fail
    MaxUpdates, MaxCrashes, MaxNow   \* bounds

Fleet == 1..N

ASSUME OperatorAssumption ==
    /\ N \in Nat \ {0} /\ Expiry \in Nat /\ ManualCooldown \in Nat \ {0} /\ BulkCap \in Nat \ {0}
    /\ LowSets \subseteq SUBSET Fleet /\ SavesFail \in BOOLEAN
    /\ MaxUpdates \in Nat /\ MaxCrashes \in Nat /\ MaxNow \in Nat

NoTs == -1
NoId == 0

Later(a, b) == IF a >= b THEN a ELSE b

\* Mutant: the newest first.
Newest(S) == CHOOSE x \in S : \A y \in S : x >= y

First(S) == CHOOSE x \in S : \A y \in S : x <= y

\* What the monitor remembers of a miner here: confirmed LOW, last_manual_reboot_ts.
MinerRecord == [low : BOOLEAN, manual : Nat \cup {NoTs}]

\* states has an entry for a miner from its first visit on.
Known(S) == DOMAIN S
IsTable(S) == DOMAIN S \subseteq Fleet /\ S \in [DOMAIN S -> MinerRecord]
Empty == [m \in {} |-> [low |-> FALSE, manual |-> NoTs]]

\* Mutant: a miner the main loop has not seen gets an entry with the mark only.
MarkedUnseen(S, m, t) ==
    [k \in Known(S) \cup {m} |->
        IF k # m THEN S[k] ELSE IF m \in Known(S) THEN [S[m] EXCEPT !.manual = t]
        ELSE [manual |-> t]]

Marked(S, m, t) == IF m \in Known(S) THEN [S EXCEPT ![m].manual = t] ELSE S

\* An entry of pending_reboots.
NoOffer == [code |-> 0, expires |-> NoTs, targets |-> {}]
PendingEntry == [code : Nat, expires : Nat \cup {NoTs}, targets : SUBSET Fleet]

\* The command in the hands of the poller.
Idle == [id |-> NoId, stage |-> "none", single |-> FALSE, code |-> 0, targets |-> {}, at |-> 0]

\* is_miner_no_ok, cut at BULK_REBOOT_CAP in configuration order
BulkTargets(S) ==
    LET low == {m \in Known(S) : S[m].low}
    IN  {m \in low : Cardinality({k \in low : k < m}) < BulkCap}

CoolingDown(S, m, t) ==
    m \in Known(S) /\ S[m].manual # NoTs /\ t - S[m].manual < ManualCooldown
-------------------------------------------------------------------------------
VARIABLES
    now,
    inbox,       \* every update Telegram has received for the bot, in order
    forgotten,   \* Telegram has dropped the updates up to this one
    up,          \* the process is alive
    ref,         \* last_update_id_ref
    states, pending, bulk,   \* states, pending_reboots of a miner and of reboot_no_ok
    batch,       \* updates of the last response still to be taken
    job,         \* the command in hand
    mainId,      \* main loop: the update id it is about to save, or NoTs
    file,        \* state.json: [id, states]
    (* observation variables *)
    crashes,     \* how often the process has died
    offers,      \* code |-> what was offered under it
    done,        \* updates whose handler came to its end
    dropped,     \* updates in hand when the process died or the handler raised
    settled      \* <<code, miner>> of the reboots sent by a handler that ended

poller == <<ref, pending, bulk, batch, job>>
ghosts == <<offers, done, dropped, settled>>
vars == <<now, inbox, forgotten, up, poller, states, mainId, file, crashes, ghosts>>

Updates == 1..Len(inbox)

Commands ==
    [kind : {"request"}, miner : Fleet, code : {0}] \cup
    [kind : {"confirm"}, miner : Fleet, code : DOMAIN offers] \cup
    [kind : {"bulk"}, miner : {0}, code : {0}] \cup
    [kind : {"confirmBulk"}, miner : {0}, code : DOMAIN offers]

Init ==
    /\ now = 0 /\ inbox = <<>> /\ forgotten = NoId
    /\ up = FALSE /\ ref = NoId /\ states = Empty
    /\ pending = [m \in Fleet |-> NoOffer] /\ bulk = NoOffer
    /\ batch = {} /\ job = Idle /\ mainId = NoTs
    /\ file = [id |-> NoId, states |-> Empty]
    /\ crashes = 0 /\ offers = <<>> /\ done = {} /\ dropped = {} /\ settled = {}

Advance ==
    /\ now < MaxNow /\ now' = now + 1
    /\ UNCHANGED <<inbox, forgotten, up, poller, states, mainId, file, crashes, ghosts>>

\* The operator writes; of the codes, those that were offered: a wrong one is an old
\* one or one of another miner.
Send ==
    /\ Len(inbox) < MaxUpdates
    /\ \E c \in Commands : inbox' = Append(inbox, c)
    /\ UNCHANGED <<now, forgotten, up, poller, states, mainId, file, crashes, ghosts>>

Boot ==
    /\ ~up /\ up' = TRUE
    /\ ref' = file.id /\ states' = file.states
    /\ UNCHANGED <<now, inbox, forgotten, pending, bulk, batch, job, mainId, file, crashes, ghosts>>

InHand == {job.id} \ {NoId}

Crash ==
    /\ up /\ crashes < MaxCrashes /\ crashes' = crashes + 1
    /\ up' = FALSE
    /\ pending' = [m \in Fleet |-> NoOffer] /\ bulk' = NoOffer
    /\ batch' = {} /\ job' = Idle /\ mainId' = NoTs
    /\ dropped' = dropped \cup InHand
    /\ UNCHANGED <<now, inbox, forgotten, ref, states, file, offers, done, settled>>
-------------------------------------------------------------------------------
(* The main loop: a visit to every miner, then the save of the tick.  The id is *)
(* read under its own lock before the save takes state_lock.                    *)

Saved(id, S) ==
    \/ file' = [id |-> id, states |-> S]
    \/ SavesFail /\ file' = file

Visit ==
    /\ up /\ mainId = NoTs
    /\ \E low \in LowSets :
         states' = [m \in Fleet |->
             [low |-> m \in low, manual |-> IF m \in Known(states) THEN states[m].manual ELSE NoTs]]
    /\ mainId' = ref
    /\ UNCHANGED <<now, inbox, forgotten, up, poller, file, crashes, ghosts>>

EndTick ==
    /\ up /\ mainId # NoTs /\ mainId' = NoTs
    /\ Saved(mainId, states)
    /\ UNCHANGED <<now, inbox, forgotten, up, poller, states, crashes, ghosts>>
-------------------------------------------------------------------------------
(* The poller.                                                                 *)

\* Mutant: the offset is one too far.
PollAhead ==
    /\ up /\ job = Idle /\ batch = {}
    /\ forgotten' = Later(forgotten, ref + 1)
    /\ batch' = {i \in Updates : i > forgotten'}
    /\ batch' # {}
    /\ UNCHANGED <<now, inbox, up, ref, pending, bulk, job, states, mainId, file, crashes, ghosts>>

\* getUpdates with offset ref + 1: Telegram drops what is older.
Poll ==
    /\ up /\ job = Idle /\ batch = {}
    /\ forgotten' = Later(forgotten, ref)
    /\ batch' = {i \in Updates : i > forgotten'}
    /\ batch' # {}
    /\ UNCHANGED <<now, inbox, up, ref, pending, bulk, job, states, mainId, file, crashes, ghosts>>

\* save_state iterates over states without a copy: while the first tick still
\* inserts miners it may raise.  The exception ends the loop over the response;
\* what is left of it is fetched again, the command in hand is not.
MayRaise == Known(states) # Fleet

GiveUp(id) == batch' = {} /\ job' = Idle /\ dropped' = dropped \cup {id}

\* The id is recorded, in memory and on disk, before the command is looked at.
Take ==
    /\ up /\ job = Idle /\ batch # {}
    /\ ref' = First(batch)
    /\ \/ /\ Saved(ref', states)
          /\ batch' = batch \ {ref'}
          /\ job' = [Idle EXCEPT !.id = ref', !.stage = "handle"]
          /\ UNCHANGED dropped
       \/ MayRaise /\ GiveUp(ref') /\ UNCHANGED file
    /\ UNCHANGED <<now, inbox, forgotten, up, pending, bulk, states, mainId, crashes,
                   offers, done, settled>>

Command == inbox[job.id]
Handles(kind) == up /\ job.stage = "handle" /\ Command.kind = kind
Finish == job' = Idle /\ done' = done \cup {job.id} /\ UNCHANGED dropped

\* What every handler leaves alone.
HandlerFrame == UNCHANGED <<now, inbox, forgotten, up, ref, mainId, crashes>>

Offer(targets) == [code |-> Len(offers) + 1, expires |-> now + Expiry, targets |-> targets]
Offered(targets) == offers' = Append(offers, [targets |-> targets, at |-> now, life |-> crashes])

Request ==
    /\ Handles("request") /\ ~CoolingDown(states, Command.miner, now)
    /\ pending' = [pending EXCEPT ![Command.miner] = Offer({Command.miner})]
    /\ Offered({Command.miner})
    /\ Finish /\ HandlerFrame /\ UNCHANGED <<bulk, batch, states, file, settled>>

RequestCooling ==
    /\ Handles("request") /\ CoolingDown(states, Command.miner, now)
    /\ Finish /\ HandlerFrame
    /\ UNCHANGED <<pending, bulk, batch, states, file, offers, settled>>

BulkPreview ==
    /\ Handles("bulk") /\ BulkTargets(states) # {}
    /\ bulk' = Offer(BulkTargets(states)) /\ Offered(BulkTargets(states))
    /\ Finish /\ HandlerFrame /\ UNCHANGED <<pending, batch, states, file, settled>>

BulkNothing ==
    /\ Handles("bulk") /\ BulkTargets(states) = {}
    /\ Finish /\ HandlerFrame
    /\ UNCHANGED <<pending, bulk, batch, states, file, offers, settled>>

\* Mutant: a confirmation never expires.
AcceptsForever(p, code, t) == p # NoOffer /\ p.code = code

Accepts(p, code, t) == p # NoOffer /\ p.expires >= t /\ p.code = code

StartCli(single, p) ==
    job' = [job EXCEPT !.stage = "cli", !.single = single, !.code = p.code,
                       !.targets = p.targets, !.at = now]

\* The offer to one miner stays pending until its reboot has succeeded.
Confirm ==
    /\ Handles("confirm") /\ Accepts(pending[Command.miner], Command.code, now)
    /\ StartCli(TRUE, pending[Command.miner])
    /\ HandlerFrame
    /\ UNCHANGED <<pending, bulk, batch, states, file, offers, done, dropped, settled>>

ConfirmRefused ==
    /\ Handles("confirm") /\ ~Accepts(pending[Command.miner], Command.code, now)
    /\ Finish /\ HandlerFrame
    /\ UNCHANGED <<pending, bulk, batch, states, file, offers, settled>>

\* Mutant: the bulk offer outlives its confirmation.
ConfirmBulkAgain ==
    /\ Handles("confirmBulk") /\ Accepts(bulk, Command.code, now)
    /\ StartCli(FALSE, bulk)
    /\ HandlerFrame
    /\ UNCHANGED <<pending, bulk, batch, states, file, offers, done, dropped, settled>>

\* The bulk offer is taken away before its first reboot.
ConfirmBulk ==
    /\ Handles("confirmBulk") /\ Accepts(bulk, Command.code, now)
    /\ StartCli(FALSE, bulk) /\ bulk' = NoOffer
    /\ HandlerFrame
    /\ UNCHANGED <<pending, batch, states, file, offers, done, dropped, settled>>

ConfirmBulkRefused ==
    /\ Handles("confirmBulk") /\ ~Accepts(bulk, Command.code, now)
    /\ bulk' = IF bulk.expires < now THEN NoOffer ELSE bulk
    /\ Finish /\ HandlerFrame
    /\ UNCHANGED <<pending, batch, states, file, offers, settled>>

Target == First(job.targets)
Calls == up /\ job.stage = "cli" /\ job.targets # {}

\* run_hashcore_cli failed or timed out.  A single offer stays pending.
SingleFails ==
    /\ Calls /\ job.single
    /\ Finish /\ HandlerFrame
    /\ UNCHANGED <<pending, bulk, batch, states, file, offers, settled>>

SingleSucceeds ==
    /\ Calls /\ job.single
    /\ states' = Marked(states, Target, job.at)
    /\ \/ /\ Saved(ref, states')
          /\ pending' = [pending EXCEPT ![Target] = NoOffer]
          /\ settled' = settled \cup {<<job.code, Target>>}
          /\ Finish /\ UNCHANGED batch
       \/ /\ MayRaise /\ GiveUp(job.id)
          /\ UNCHANGED <<file, pending, settled, done>>
    /\ HandlerFrame /\ UNCHANGED <<bulk, offers>>

BulkStep(S, reached) ==
    /\ states' = S /\ settled' = settled \cup ({job.code} \X reached)
    /\ job' = [job EXCEPT !.targets = @ \ {Target}]
    /\ HandlerFrame /\ UNCHANGED <<pending, bulk, batch, file, offers, done, dropped>>

BulkFails == Calls /\ ~job.single /\ BulkStep(states, {})

\* Marked in memory only; the save of a tick, or of the next command, follows.
BulkSucceeds == Calls /\ ~job.single /\ BulkStep(Marked(states, Target, job.at), {Target})

BulkEnds ==
    /\ up /\ job.stage = "cli" /\ job.targets = {}
    /\ Finish /\ HandlerFrame
    /\ UNCHANGED <<pending, bulk, batch, states, file, offers, settled>>

Handler ==
    \/ Request \/ RequestCooling \/ BulkPreview \/ BulkNothing
    \/ Confirm \/ ConfirmRefused \/ ConfirmBulk \/ ConfirmBulkRefused
    \/ SingleFails \/ SingleSucceeds \/ BulkFails \/ BulkSucceeds \/ BulkEnds

Main == Visit \/ EndTick
Environment == Advance \/ Send \/ Crash
Next == Environment \/ Boot \/ Main \/ Poll \/ Take \/ Handler

Spec == Init /\ [][Next]_vars

(* The service is restarted, the poller thread runs, getUpdates answers in the  *)
(* end and a CLI call returns or times out after 30 s.  Nothing is asked of the  *)
(* main loop, of the operator or of the clock.                                  *)
Fairness ==
    /\ WF_vars(Boot) /\ WF_vars(Poll) /\ WF_vars(Take) /\ WF_vars(Handler)

FairSpec == Spec /\ Fairness
-------------------------------------------------------------------------------
(* Properties.                                                                 *)

Update ==
    [kind : {"request", "confirm"}, miner : Fleet, code : Nat] \cup
    [kind : {"bulk", "confirmBulk"}, miner : {0}, code : Nat]

TypeOK ==
    /\ now \in Nat /\ inbox \in Seq(Update)
    /\ forgotten \in Nat /\ up \in BOOLEAN /\ ref \in Nat
    /\ IsTable(states) /\ pending \in [Fleet -> PendingEntry] /\ bulk \in PendingEntry
    /\ batch \subseteq Nat
    /\ job \in [id : Nat, stage : {"none", "handle", "cli"}, single : BOOLEAN,
                code : Nat, targets : SUBSET Fleet, at : Nat]
    /\ mainId \in Nat \cup {NoTs} /\ file.id \in Nat /\ IsTable(file.states)
    /\ crashes \in Nat
    /\ offers \in Seq([targets : SUBSET Fleet, at : Nat, life : Nat])
    /\ done \subseteq Nat /\ dropped \subseteq Nat /\ settled \subseteq Nat \X Fleet

\* What is in hand, or about to be, has arrived; a dead process holds nothing.
HoldsInv ==
    /\ batch \subseteq Updates
    /\ job # Idle => job.id \in Updates /\ job.stage # "none"
    /\ ~up => batch = {} /\ job = Idle /\ mainId = NoTs

(* Whatever is being rebooted was offered to the operator under the code that   *)
(* the command in hand repeats, by this process, for these miners, and at most  *)
(* Expiry before the confirmation: no redelivered, late or crossed confirmation *)
(* acts (2885-2943, 3348-3378, 3446-3485; README.md:87-91).                     *)
ActsOnValidOffer ==
    job.stage = "cli" =>
        /\ job.code = Command.code /\ job.code \in DOMAIN offers
        /\ LET offer == offers[job.code]
           IN  /\ job.targets \subseteq offer.targets /\ offer.life = crashes
               /\ job.at - offer.at <= Expiry

\* Why it holds: an entry that is pending is the offer its code was made for.
Backed(p, list, life) ==
    p # NoOffer =>
        /\ p.code \in DOMAIN list
        /\ list[p.code] = [targets |-> p.targets, at |-> p.expires - Expiry, life |-> life]

PendingBacked ==
    /\ Backed(bulk, offers, crashes)
    /\ \A m \in Fleet : Backed(pending[m], offers, crashes)

OfferInv == PendingBacked /\ ActsOnValidOffer

(* A confirmation that was carried out is used up: the same code does not       *)
(* reboot the same miner again, through either command and however often it is  *)
(* sent or delivered (2945, 3380, 3515).                                        *)
ConfirmationUsedUp ==
    [][\A code \in DOMAIN offers, m \in Fleet :
         job.stage = "cli" /\ job.code = code /\ m \in job.targets \ job'.targets /\ up'
           => <<code, m>> \notin settled]_vars

\* Why it holds: nothing that is pending or in hand has been carried out, and no two
\* offers share a code.
Unused(p) == \A m \in p.targets : <<p.code, m>> \notin settled

PendingUnused ==
    /\ bulk # NoOffer => Unused(bulk)
    /\ \A m \in Fleet : pending[m] # NoOffer =>
         /\ Unused(pending[m]) /\ pending[m].targets = {m}
         /\ bulk # NoOffer => pending[m].code # bulk.code

InHandUnused ==
    job.stage = "cli" =>
        IF job.single
        THEN \E m \in Fleet :
                pending[m] # NoOffer /\ pending[m].code = job.code /\ job.targets = {m}
        ELSE /\ Unused(job) /\ bulk = NoOffer
             /\ \A m \in Fleet : pending[m] # NoOffer => pending[m].code # job.code

UsedInv ==
    PendingUnused /\ InHandUnused /\ \A s \in settled : s[1] \in DOMAIN offers

(* No command is passed over: an update that the poller has gone past, or that  *)
(* it has let Telegram forget, has been handled, is in hand, was in hand when   *)
(* the process died or the handler raised (2013-2019, 3539). The main loop may  *)
(* save an older id than the poller did; that only repeats updates.             *)
Covered(id) == \A i \in 1..id : i \in done \cup dropped \cup InHand
NothingPassedOver == Covered(Later(ref, forgotten))

\* Why it holds: every copy of an update id is covered, in memory, on disk and at
\* Telegram, and what is left of a response begins where the poller stands.
OrderInv ==
    /\ Covered(ref) /\ Covered(forgotten) /\ Covered(file.id)
    /\ mainId # NoTs => Covered(mainId)
    /\ batch # {} =>
         \E last \in Nat : batch = {i \in 1..last : i > Later(ref, forgotten)}

(* No command is left lying: again and again there is nothing received that was   *)
(* not handled to its end, or in hand when the process died or the handler        *)
(* raised, whatever is saved, lost or redelivered in between (1938-2019).         *)
EveryCommandTaken ==
    []<>(Updates \subseteq done \cup dropped)

(* README.md:250: "confirmar con `confirm reboot 23 <code>` (timeout 60s,        *)
(* cooldown 10 min)".  Only the request looks at the cooldown (3266): between it *)
(* and its confirmation a bulk command may have rebooted the same miner.         *)
ManualCooldownHolds ==
    [][job.stage # "cli" /\ job'.stage = "cli" /\ job'.single =>
         \A m \in job'.targets : ~CoolingDown(states, m, now)]_vars
===============================================================================
