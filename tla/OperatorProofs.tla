----------------------------- MODULE OperatorProofs -----------------------------
(* Theorems about OperatorControl. *)
EXTENDS OperatorControl, WellFoundedInduction, TLAPS

JobRecord == [id : Nat, stage : {"none", "handle", "cli"}, single : BOOLEAN,
              code : Nat, targets : SUBSET Fleet, at : Nat]
OfferRecord == [targets : SUBSET Fleet, at : Nat, life : Nat]

TypeInv == TypeOK /\ HoldsInv

\* First is what its name says, for every set of update ids or miners.
LEMMA FirstOf ==
    ASSUME NEW S \in SUBSET Nat, S # {}
    PROVE  First(S) \in S /\ \A y \in S : First(S) <= y
<1> DEFINE less == {ss \in Nat \X Nat : ss[1] < ss[2]}
<1>1. OpToRel(<, Nat) = less
  BY Zenon DEF OpToRel
<1>2. IsWellFoundedOn(less, Nat)
  BY <1>1, NatLessThanWellFounded, Zenon
<1>3. PICK x \in S : \A y \in S : ~(<<y, x>> \in less)
  BY <1>2, WFMin, Zenon
<1>4. \A y \in S : <<y, x>> \in Nat \X Nat /\ ~(y < x)
  BY <1>3
<1>5. ASSUME NEW y \in S PROVE x <= y
  <2>1. x \in Nat /\ y \in Nat
    OBVIOUS
  <2>2. ~(y < x)
    BY <1>4
  <2> HIDE DEF less
  <2> QED
    BY <2>1, <2>2
<1> QED
  BY <1>5 DEF First

\* The values variables start with and are reset to have their types.
LEMMA RestTypes ==
    /\ NoOffer \in PendingEntry /\ Idle \in JobRecord /\ IsTable(Empty)
    /\ N \in Nat \ {0} /\ Fleet \subseteq Nat /\ Expiry \in Nat
  BY OperatorAssumption
  DEF NoOffer, PendingEntry, Idle, JobRecord, IsTable, Empty, MinerRecord, Fleet, NoTs, NoId

LEMMA MarkedType ==
    ASSUME NEW S, IsTable(S), NEW m, NEW t \in Nat
    PROVE  IsTable(Marked(S, m, t)) /\ DOMAIN Marked(S, m, t) = DOMAIN S
  BY DEF IsTable, Marked, Known, MinerRecord

\* The command in hand is one that has arrived.
LEMMA CommandType ==
    ASSUME TypeInv, job # Idle
    PROVE  Command \in Update
  BY DEF TypeInv, TypeOK, HoldsInv, Command, Updates

\* An offer has its type, and so has the list of the offers with it.
LEMMA OfferType ==
    ASSUME TypeInv, NEW targets \in SUBSET Fleet
    PROVE  /\ Offer(targets) \in PendingEntry
           /\ Offered(targets) => offers' \in Seq(OfferRecord)
<1>1. offers \in Seq(OfferRecord) /\ Len(offers) \in Nat /\ now \in Nat /\ crashes \in Nat
  BY DEF TypeInv, TypeOK, OfferRecord
<1>2. Offer(targets) \in PendingEntry
  BY <1>1, RestTypes DEF Offer, PendingEntry
<1>3. [targets |-> targets, at |-> now, life |-> crashes] \in OfferRecord
  BY <1>1 DEF OfferRecord
<1> QED
  BY <1>1, <1>2, <1>3 DEF Offered

LEMMA TypeInit == Init => TypeInv
<1> SUFFICES ASSUME Init PROVE TypeInv
  OBVIOUS
<1>1. pending \in [Fleet -> PendingEntry] /\ bulk \in PendingEntry
  BY RestTypes DEF Init
<1>2. job \in JobRecord /\ IsTable(states) /\ IsTable(file.states)
  BY RestTypes DEF Init
<1>3. inbox \in Seq(Update) /\ offers \in Seq(OfferRecord)
  BY DEF Init
<1>4. settled \subseteq Nat \X Fleet
  BY Zenon DEF Init
<1>5. TypeOK
  BY <1>1, <1>2, <1>3, <1>4 DEF Init, TypeOK, JobRecord, OfferRecord, NoId
<1>6. HoldsInv
  BY DEF Init, HoldsInv
<1> QED
  BY <1>5, <1>6 DEF TypeInv

\* Saving writes one of the ids and one of the tables there are.
LEMMA SavedType ==
    ASSUME TypeInv, NEW id \in Nat, NEW S, IsTable(S), Saved(id, S)
    PROVE  file'.id \in Nat /\ IsTable(file'.states)
  BY DEF TypeInv, TypeOK, Saved

LEMMA TypeEnvironment == TypeInv /\ (Environment \/ Boot) => TypeInv'
<1> SUFFICES ASSUME TypeInv PROVE Environment \/ Boot => TypeInv'
  OBVIOUS
<1>1. ASSUME Advance PROVE TypeInv'
  BY <1>1 DEF Advance, TypeInv, TypeOK, HoldsInv, Updates, poller, ghosts
<1>2. ASSUME Send PROVE TypeInv'
  <2>1. PICK c \in Commands : inbox' = Append(inbox, c)
    BY <1>2 DEF Send
  <2>2. c \in Update
    BY DEF Commands, Update, TypeInv, TypeOK
  <2>3. inbox' \in Seq(Update) /\ Updates \subseteq Updates'
    BY <2>1, <2>2 DEF TypeInv, TypeOK, Updates
  <2> QED
    BY <1>2, <2>3 DEF Send, TypeInv, TypeOK, HoldsInv, poller, ghosts
<1>3. ASSUME Boot PROVE TypeInv'
  <2>1. IsTable(states') /\ ref' \in Nat
    BY <1>3 DEF Boot, TypeInv, TypeOK
  <2>2. TypeOK'
    BY <1>3, <2>1 DEF Boot, TypeInv, TypeOK, ghosts
  <2> QED
    BY <1>3, <2>2 DEF Boot, TypeInv, HoldsInv, Updates
<1>4. ASSUME Crash PROVE TypeInv'
  <2>1. pending' \in [Fleet -> PendingEntry] /\ bulk' \in PendingEntry /\ job' \in JobRecord
    BY <1>4, RestTypes DEF Crash
  <2>2. dropped' \subseteq Nat /\ crashes' \in Nat
    <3>1. job.id \in Nat /\ dropped \subseteq Nat /\ crashes \in Nat
      BY DEF TypeInv, TypeOK
    <3>2. dropped' = dropped \cup InHand /\ crashes' = crashes + 1
      BY <1>4 DEF Crash
    <3>3. InHand \subseteq Nat
      BY <3>1 DEF InHand
    <3>4. crashes' \in Nat
      BY <3>1, <3>2
    <3> QED
      BY <3>1, <3>2, <3>3, <3>4, Zenon
  <2>3. /\ IsTable(states') /\ file'.id \in Nat /\ IsTable(file'.states)
        /\ inbox' \in Seq(Update) /\ offers' = offers
    BY <1>4 DEF Crash, TypeInv, TypeOK
  <2>4. TypeOK'
    BY <1>4, <2>1, <2>2, <2>3 DEF Crash, TypeInv, TypeOK, JobRecord
  <2> QED
    BY <1>4, <2>4 DEF Crash, TypeInv, HoldsInv, Updates
<1> QED
  BY <1>1, <1>2, <1>3, <1>4 DEF Environment

LEMMA TypeMain == TypeInv /\ Main => TypeInv'
<1> SUFFICES ASSUME TypeInv PROVE Main => TypeInv'
  OBVIOUS
<1>1. ASSUME Visit PROVE TypeInv'
  <2>1. PICK low \in LowSets :
          states' = [m \in Fleet |->
            [low |-> m \in low, manual |-> IF m \in Known(states) THEN states[m].manual ELSE NoTs]]
    BY <1>1 DEF Visit
  <2>2. \A m \in Known(states) : states[m].manual \in Nat \cup {NoTs}
    BY DEF TypeInv, TypeOK, IsTable, Known, MinerRecord
  <2>3. IsTable(states')
    BY <2>1, <2>2 DEF IsTable, MinerRecord
  <2> QED
    BY <1>1, <2>3 DEF Visit, TypeInv, TypeOK, HoldsInv, Updates, poller, ghosts
<1>2. ASSUME EndTick PROVE TypeInv'
  <2>1. file'.id \in Nat /\ IsTable(file'.states)
    BY <1>2, SavedType DEF EndTick, TypeInv, TypeOK, NoTs
  <2> QED
    BY <1>2, <2>1 DEF EndTick, TypeInv, TypeOK, HoldsInv, Updates, poller, ghosts
<1> QED
  BY <1>1, <1>2 DEF Main

LEMMA TypePoll == TypeInv /\ Poll => TypeInv'
  BY DEF Poll, TypeInv, TypeOK, HoldsInv, Updates, Later, ghosts

LEMMA TypeTake == TypeInv /\ Take => TypeInv'
<1> SUFFICES ASSUME TypeInv, Take PROVE TypeInv'
  OBVIOUS
<1>1. ref' \in batch /\ ref' \in Nat /\ ref' \in Updates
  BY FirstOf DEF Take, TypeInv, TypeOK, HoldsInv
<1>2. CASE Saved(ref', states) /\ batch' = batch \ {ref'}
           /\ job' = [Idle EXCEPT !.id = ref', !.stage = "handle"] /\ UNCHANGED dropped
  <2>1. file'.id \in Nat /\ IsTable(file'.states)
    BY <1>1, <1>2, SavedType DEF TypeInv, TypeOK
  <2>2. job' \in JobRecord /\ job'.id = ref' /\ job'.stage = "handle"
    BY <1>1, <1>2, RestTypes DEF JobRecord
  <2> QED
    BY <1>1, <1>2, <2>1, <2>2 DEF Take, TypeInv, TypeOK, HoldsInv, Updates, JobRecord
<1>3. CASE GiveUp(ref') /\ UNCHANGED file
  BY <1>1, <1>3, RestTypes DEF Take, GiveUp, TypeInv, TypeOK, HoldsInv, Updates, JobRecord
<1> QED
  BY <1>2, <1>3 DEF Take

\* Handlers that only answer: every one of them ends the command in hand.
LEMMA TypeFinish ==
    ASSUME TypeInv, Finish, job # Idle
    PROVE  /\ job' \in JobRecord /\ (job' # Idle => job'.id \in Updates /\ job'.stage # "none")
           /\ done' \subseteq Nat /\ dropped' \subseteq Nat
<1>1. job' \in JobRecord /\ job' = Idle /\ dropped' = dropped
  BY RestTypes DEF Finish
<1>2. {job.id} \subseteq Nat /\ done \subseteq Nat /\ dropped \subseteq Nat
  BY DEF TypeInv, TypeOK
<1>3. done' = done \cup {job.id}
  BY DEF Finish
<1> QED
  BY <1>1, <1>2, <1>3, Zenon

\* What a handler that gives an offer or starts the CLI has to show.
LEMMA TypeHandled ==
    ASSUME TypeInv, HandlerFrame, up,
           pending' \in [Fleet -> PendingEntry], bulk' \in PendingEntry, batch' \subseteq batch,
           job' \in JobRecord, job' # Idle => job'.id \in Updates /\ job'.stage # "none",
           IsTable(states'), file'.id \in Nat /\ IsTable(file'.states),
           offers' \in Seq(OfferRecord), done' \subseteq Nat, dropped' \subseteq Nat,
           settled' \subseteq Nat \X Fleet
    PROVE  TypeInv'
<1>1. TypeOK'
  BY DEF TypeInv, TypeOK, HandlerFrame, JobRecord, OfferRecord
<1>2. HoldsInv'
  BY DEF TypeInv, HoldsInv, HandlerFrame, Updates
<1> QED
  BY <1>1, <1>2 DEF TypeInv

LEMMA InHandTypes ==
    ASSUME TypeInv
    PROVE  /\ pending \in [Fleet -> PendingEntry] /\ bulk \in PendingEntry /\ job \in JobRecord
           /\ IsTable(states) /\ file.id \in Nat /\ IsTable(file.states)
           /\ offers \in Seq(OfferRecord) /\ done \subseteq Nat /\ dropped \subseteq Nat
           /\ settled \subseteq Nat \X Fleet /\ now \in Nat /\ ref \in Nat
           /\ job.stage # "none" => job # Idle /\ job.id \in Updates
  BY DEF TypeInv, TypeOK, HoldsInv, JobRecord, OfferRecord, Idle

LEMMA TypeAnswer ==
    ASSUME TypeInv,
           RequestCooling \/ BulkNothing \/ ConfirmRefused \/ ConfirmBulkRefused \/ SingleFails
             \/ BulkEnds
    PROVE  TypeInv'
<1>1. up /\ job # Idle /\ Finish /\ HandlerFrame
  BY InHandTypes
  DEF RequestCooling, BulkNothing, ConfirmRefused, ConfirmBulkRefused, SingleFails, BulkEnds,
      Handles, Calls
<1>2. UNCHANGED <<pending, batch, states, file, offers, settled>>
  BY DEF RequestCooling, BulkNothing, ConfirmRefused, ConfirmBulkRefused, SingleFails, BulkEnds
<1>3. bulk' \in PendingEntry
  BY InHandTypes, RestTypes
  DEF RequestCooling, BulkNothing, ConfirmRefused, ConfirmBulkRefused, SingleFails, BulkEnds
<1> QED
  BY <1>1, <1>2, <1>3, InHandTypes, TypeFinish, TypeHandled

LEMMA TypeOffer ==
    ASSUME TypeInv, Request \/ BulkPreview
    PROVE  TypeInv'
<1>1. up /\ job # Idle /\ Finish /\ HandlerFrame
  BY InHandTypes DEF Request, BulkPreview, Handles
<1>2. CASE Request
  <2>1. Command \in Update /\ Command.kind = "request"
    BY <1>1, <1>2, CommandType DEF Request, Handles
  <2>2. Command.miner \in Fleet
    BY <2>1 DEF Update
  <2>3. Offer({Command.miner}) \in PendingEntry /\ offers' \in Seq(OfferRecord)
    BY <1>2, <2>2, OfferType DEF Request
  <2>4. pending' \in [Fleet -> PendingEntry]
    BY <1>2, <2>3, InHandTypes DEF Request
  <2>5. UNCHANGED <<bulk, batch, states, file, settled>>
    BY <1>2 DEF Request
  <2> QED
    BY <1>1, <2>3, <2>4, <2>5, InHandTypes, TypeFinish, TypeHandled
<1>3. CASE BulkPreview
  <2>1. BulkTargets(states) \in SUBSET Fleet
    BY InHandTypes DEF BulkTargets, IsTable, Known
  <2>2. bulk' \in PendingEntry /\ offers' \in Seq(OfferRecord)
    BY <1>3, <2>1, OfferType DEF BulkPreview
  <2>3. UNCHANGED <<pending, batch, states, file, settled>>
    BY <1>3 DEF BulkPreview
  <2> QED
    BY <1>1, <2>2, <2>3, InHandTypes, TypeFinish, TypeHandled
<1> QED
  BY <1>2, <1>3

LEMMA TypeConfirm ==
    ASSUME TypeInv, Confirm \/ ConfirmBulk
    PROVE  TypeInv'
<1>1. up /\ job # Idle /\ job.id \in Updates /\ HandlerFrame
  BY InHandTypes DEF Confirm, ConfirmBulk, Handles
<1>2. PICK p \in PendingEntry, single \in BOOLEAN : StartCli(single, p)
  <2>1. CASE Confirm
    <3>1. Command \in Update /\ Command.kind = "confirm"
      BY <1>1, <2>1, CommandType DEF Confirm, Handles
    <3>2. pending[Command.miner] \in PendingEntry
      BY <3>1, InHandTypes DEF Update
    <3> QED
      BY <2>1, <3>2 DEF Confirm
  <2>2. CASE ConfirmBulk
    BY <2>2, InHandTypes DEF ConfirmBulk
  <2> QED
    BY <2>1, <2>2
<1>3. job' \in JobRecord /\ job'.id = job.id /\ job'.stage = "cli"
  BY <1>2, InHandTypes DEF StartCli, PendingEntry, JobRecord
<1>4. bulk' \in PendingEntry
  BY InHandTypes, RestTypes DEF Confirm, ConfirmBulk
<1>5. UNCHANGED <<pending, batch, states, file, offers, done, dropped, settled>>
  BY DEF Confirm, ConfirmBulk
<1> QED
  BY <1>1, <1>3, <1>4, <1>5, InHandTypes, TypeHandled

LEMMA TargetType ==
    ASSUME TypeInv, Calls
    PROVE  Target \in Fleet /\ Target \in job.targets /\ job.code \in Nat /\ job.at \in Nat
<1>1. job.targets \in SUBSET Fleet /\ job.code \in Nat /\ job.at \in Nat
  BY InHandTypes DEF JobRecord
<1>2. job.targets \in SUBSET Nat /\ job.targets # {}
  BY <1>1, RestTypes DEF Calls
<1> QED
  BY <1>1, <1>2, FirstOf DEF Target

LEMMA TypeSingleSucceeds == TypeInv /\ SingleSucceeds => TypeInv'
<1> SUFFICES ASSUME TypeInv, SingleSucceeds PROVE TypeInv'
  OBVIOUS
<1>1. up /\ job # Idle /\ HandlerFrame /\ UNCHANGED <<bulk, offers>>
  BY InHandTypes DEF SingleSucceeds, Calls
<1>2. Target \in Fleet /\ job.code \in Nat /\ job.at \in Nat
  BY TargetType DEF SingleSucceeds
<1>3. IsTable(states')
  BY <1>2, InHandTypes, MarkedType DEF SingleSucceeds
<1>4. CASE /\ Saved(ref, states')
           /\ pending' = [pending EXCEPT ![Target] = NoOffer]
           /\ settled' = settled \cup {<<job.code, Target>>}
           /\ Finish /\ UNCHANGED batch
  <2>1. file'.id \in Nat /\ IsTable(file'.states)
    BY <1>3, <1>4, InHandTypes, SavedType
  <2>2. pending' \in [Fleet -> PendingEntry]
    BY <1>4, InHandTypes, RestTypes
  <2>3. settled' \subseteq Nat \X Fleet
    BY <1>2, <1>4, InHandTypes
  <2> QED
    BY <1>1, <1>3, <1>4, <2>1, <2>2, <2>3, InHandTypes, TypeFinish, TypeHandled
<1>5. CASE GiveUp(job.id) /\ UNCHANGED <<file, pending, settled, done>>
  <2>1. job' \in JobRecord /\ job' = Idle /\ batch' \subseteq batch
    BY <1>5, RestTypes DEF GiveUp
  <2>2. {job.id} \subseteq Nat
    BY InHandTypes DEF JobRecord
  <2>3. dropped' \subseteq Nat
    BY <1>5, <2>2, InHandTypes DEF GiveUp
  <2> QED
    BY <1>1, <1>3, <1>5, <2>1, <2>3, InHandTypes, TypeHandled
<1> QED
  BY <1>4, <1>5 DEF SingleSucceeds

LEMMA TypeBulkStep ==
    ASSUME TypeInv, Calls, NEW S, IsTable(S), NEW reached \in SUBSET Fleet, BulkStep(S, reached)
    PROVE  TypeInv'
<1>1. up /\ job # Idle /\ job.id \in Updates /\ HandlerFrame /\ job.stage = "cli"
  BY InHandTypes DEF Calls, BulkStep
<1>2. job' \in JobRecord /\ job'.id = job.id /\ job'.stage = "cli"
  <2>1. job' = [job EXCEPT !.targets = @ \ {Target}]
    BY DEF BulkStep
  <2>2. job.targets \ {Target} \in SUBSET Fleet
    BY InHandTypes DEF JobRecord
  <2> QED
    BY <1>1, <2>1, <2>2, InHandTypes DEF JobRecord
<1>3. settled' \subseteq Nat \X Fleet
  BY TargetType, InHandTypes DEF BulkStep
<1>4. states' = S /\ UNCHANGED <<pending, bulk, batch, file, offers, done, dropped>>
  BY DEF BulkStep
<1> QED
  BY <1>1, <1>2, <1>3, <1>4, InHandTypes, TypeHandled

LEMMA TypeBulk == TypeInv /\ (BulkFails \/ BulkSucceeds) => TypeInv'
<1> SUFFICES ASSUME TypeInv PROVE BulkFails \/ BulkSucceeds => TypeInv'
  OBVIOUS
<1>1. ASSUME BulkFails PROVE TypeInv'
  BY <1>1, InHandTypes, TypeBulkStep DEF BulkFails
<1>2. ASSUME BulkSucceeds PROVE TypeInv'
  <2>1. Calls /\ Target \in Fleet /\ job.at \in Nat
    BY <1>2, TargetType DEF BulkSucceeds
  <2>2. IsTable(Marked(states, Target, job.at))
    BY <2>1, InHandTypes, MarkedType
  <2>3. BulkStep(Marked(states, Target, job.at), {Target})
    BY <1>2 DEF BulkSucceeds
  <2> QED
    BY <2>1, <2>2, <2>3, TypeBulkStep
<1> QED
  BY <1>1, <1>2

LEMMA TypeStep == TypeInv /\ [Next]_vars => TypeInv'
<1> SUFFICES ASSUME TypeInv, [Next]_vars PROVE TypeInv'
  OBVIOUS
<1>1. CASE Handler
  BY <1>1, TypeAnswer, TypeOffer, TypeConfirm, TypeSingleSucceeds, TypeBulk DEF Handler
<1>2. CASE UNCHANGED vars
  BY <1>2 DEF vars, poller, ghosts, TypeInv, TypeOK, HoldsInv, Updates
<1> QED
  BY <1>1, <1>2, TypeEnvironment, TypeMain, TypePoll, TypeTake DEF Next

(* Every variable of the poller and of what it shares keeps its type, whatever  *)
(* is sent, saved, lost and delivered again, for every fleet: a command in hand *)
(* is one that has arrived, and the miner of a CLI call is a miner.             *)
THEOREM OperatorTypeCorrect == Spec => []TypeOK
<1>1. Spec => []TypeInv
  BY TypeInit, TypeStep, PTL DEF Spec
<1> QED
  BY <1>1, PTL DEF TypeInv
-------------------------------------------------------------------------------
(* Confirmations.                                                              *)

LEMMA OfferInit == Init => OfferInv
<1> SUFFICES ASSUME Init PROVE OfferInv
  OBVIOUS
<1>1. PendingBacked
  BY DEF Init, PendingBacked, Backed
<1>2. ActsOnValidOffer
  BY DEF Init, ActsOnValidOffer, Idle
<1> QED
  BY <1>1, <1>2 DEF OfferInv

\* A later offer does not touch the earlier ones.
LEMMA BackedKept ==
    ASSUME NEW list \in Seq(OfferRecord), NEW r \in OfferRecord, NEW life, NEW p,
           Backed(p, list, life)
    PROVE  Backed(p, Append(list, r), life)
  BY DEF Backed

\* An entry is backed by the offer that is recorded with it.
LEMMA OfferBacked ==
    ASSUME TypeInv, NEW targets \in SUBSET Fleet, Offered(targets)
    PROVE  /\ Backed(Offer(targets), offers', crashes)
           /\ \A p : Backed(p, offers, crashes) => Backed(p, offers', crashes)
<1> DEFINE r == [targets |-> targets, at |-> now, life |-> crashes]
<1>1. offers \in Seq(OfferRecord) /\ Len(offers) \in Nat /\ now \in Nat /\ crashes \in Nat
  BY DEF TypeInv, TypeOK, OfferRecord
<1>2. r \in OfferRecord
  BY <1>1 DEF OfferRecord
<1>3. offers' = Append(offers, r)
  BY DEF Offered
<1>4. Len(offers) + 1 \in DOMAIN offers' /\ offers'[Len(offers) + 1] = r
  BY <1>1, <1>2, <1>3
<1>5. (now + Expiry) - Expiry = now
  BY <1>1, RestTypes
<1>6. Backed(Offer(targets), offers', crashes)
  BY <1>4, <1>5 DEF Offer, Backed
<1> QED
  BY <1>1, <1>2, <1>3, <1>6, BackedKept

\* What an action leaves alone if it neither offers nor starts a CLI call.
LEMMA OfferFrame ==
    ASSUME TypeInv, OfferInv, UNCHANGED <<offers, crashes>>,
           bulk' \in {bulk, NoOffer}, pending' \in [Fleet -> PendingEntry],
           \A m \in Fleet : pending'[m] \in {pending[m], NoOffer},
           job'.stage = "cli" =>
             /\ job.stage = "cli" /\ Command' = Command
             /\ job'.code = job.code /\ job'.at = job.at /\ job'.targets \subseteq job.targets
    PROVE  OfferInv'
<1>1. Backed(NoOffer, offers, crashes)
  BY DEF Backed
<1>2. PendingBacked'
  BY <1>1 DEF OfferInv, PendingBacked
<1>3. ActsOnValidOffer'
  BY DEF OfferInv, ActsOnValidOffer
<1> QED
  BY <1>2, <1>3 DEF OfferInv

LEMMA OfferOutside ==
    ASSUME TypeInv, OfferInv, Environment \/ Boot \/ Main \/ Poll \/ Take
    PROVE  OfferInv'
<1>1. CASE Crash
  <2>1. job'.stage = "none" /\ bulk' = NoOffer /\ \A m \in Fleet : pending'[m] = NoOffer
    BY <1>1 DEF Crash, Idle
  <2> QED
    BY <2>1 DEF OfferInv, PendingBacked, Backed, ActsOnValidOffer
<1>2. CASE Send
  <2>1. job.stage = "cli" => job.id \in 1..Len(inbox) /\ inbox \in Seq(Update)
    BY InHandTypes DEF TypeInv, TypeOK, Updates
  <2>2. PICK c \in Commands : inbox' = Append(inbox, c)
    BY <1>2 DEF Send
  <2>3. UNCHANGED <<offers, crashes, bulk, pending, job>>
    BY <1>2 DEF Send, poller, ghosts
  <2>4. c \in Update
    BY DEF Commands, Update, TypeInv, TypeOK
  <2>5. job.stage = "cli" => Command' = Command
    BY <2>1, <2>2, <2>3, <2>4 DEF Command
  <2> QED
    BY <2>3, <2>5, InHandTypes, OfferFrame
<1>3. CASE Take
  <2>1. UNCHANGED <<offers, crashes, bulk, pending>>
    BY <1>3 DEF Take
  <2>2. job' = [Idle EXCEPT !.id = ref', !.stage = "handle"] \/ job' = Idle
    BY <1>3 DEF Take, GiveUp
  <2>3. [Idle EXCEPT !.id = ref', !.stage = "handle"].stage = "handle"
    BY RestTypes DEF JobRecord
  <2>4. Idle.stage = "none"
    BY DEF Idle
  <2>5. job'.stage # "cli"
    BY <2>2, <2>3, <2>4
  <2> QED
    BY <2>1, <2>5, InHandTypes, OfferFrame
<1>4. CASE Advance \/ Boot \/ Main \/ Poll
  <2>1. UNCHANGED <<offers, crashes, bulk, pending, job, inbox>>
    BY <1>4 DEF Advance, Boot, Main, Visit, EndTick, Poll, poller, ghosts
  <2> QED
    BY <2>1, InHandTypes, OfferFrame DEF Command
<1> QED
  BY <1>1, <1>2, <1>3, <1>4 DEF Environment

LEMMA OfferOffer ==
    ASSUME TypeInv, OfferInv, Request \/ BulkPreview
    PROVE  OfferInv'
<1>1. job' = Idle /\ crashes' = crashes /\ job # Idle
  BY InHandTypes DEF Request, BulkPreview, Finish, HandlerFrame, Handles
<1>2. ActsOnValidOffer'
  BY <1>1 DEF ActsOnValidOffer, Idle
<1>3. CASE Request
  <2>1. Command.miner \in Fleet
    BY <1>1, <1>3, CommandType DEF Request, Handles, Update
  <2>2. Backed(Offer({Command.miner}), offers', crashes)
    BY <1>3, <2>1, OfferBacked DEF Request
  <2>3. \A p : Backed(p, offers, crashes) => Backed(p, offers', crashes)
    BY <1>3, <2>1, OfferBacked DEF Request
  <2>4. bulk' = bulk /\ pending' = [pending EXCEPT ![Command.miner] = Offer({Command.miner})]
    BY <1>3 DEF Request
  <2>5. \A m \in Fleet : pending'[m] = pending[m] \/ pending'[m] = Offer({Command.miner})
    BY <2>1, <2>4, InHandTypes
  <2> QED
    BY <1>1, <1>2, <2>2, <2>3, <2>4, <2>5 DEF OfferInv, PendingBacked
<1>4. CASE BulkPreview
  <2>1. BulkTargets(states) \in SUBSET Fleet
    BY InHandTypes DEF BulkTargets, IsTable, Known
  <2>2. Backed(Offer(BulkTargets(states)), offers', crashes)
    BY <1>4, <2>1, OfferBacked DEF BulkPreview
  <2>3. \A p : Backed(p, offers, crashes) => Backed(p, offers', crashes)
    BY <1>4, <2>1, OfferBacked DEF BulkPreview
  <2>4. bulk' = Offer(BulkTargets(states)) /\ pending' = pending
    BY <1>4 DEF BulkPreview
  <2> QED
    BY <1>1, <1>2, <2>2, <2>3, <2>4 DEF OfferInv, PendingBacked
<1> QED
  BY <1>3, <1>4

\* The step that matters: a CLI call is started by a code that is pending and alive.
LEMMA OfferConfirm ==
    ASSUME TypeInv, OfferInv, Confirm \/ ConfirmBulk
    PROVE  OfferInv'
<1>1. /\ job # Idle /\ UNCHANGED <<offers, crashes, inbox, pending>>
      /\ bulk' \in {bulk, NoOffer}
  BY InHandTypes DEF Confirm, ConfirmBulk, Handles, HandlerFrame
<1>2. PICK p \in PendingEntry :
         /\ Accepts(p, Command.code, now) /\ Backed(p, offers, crashes)
         /\ \E single \in BOOLEAN : StartCli(single, p)
  <2>1. CASE Confirm
    <3>1. Command.miner \in Fleet
      BY <1>1, <2>1, CommandType DEF Confirm, Handles, Update
    <3>2. pending[Command.miner] \in PendingEntry
      BY <3>1, InHandTypes
    <3> QED
      BY <2>1, <3>1, <3>2 DEF Confirm, OfferInv, PendingBacked
  <2>2. CASE ConfirmBulk
    BY <2>2, InHandTypes DEF ConfirmBulk, OfferInv, PendingBacked
  <2> QED
    BY <2>1, <2>2
<1>3. /\ job'.code = p.code /\ job'.targets = p.targets /\ job'.at = now /\ job'.id = job.id
  BY <1>2, InHandTypes DEF StartCli, JobRecord
<1>4. Command' = Command
  BY <1>1, <1>3 DEF Command
<1>5. /\ p.code = Command.code /\ p.code \in DOMAIN offers /\ p.expires >= now
      /\ offers[p.code] = [targets |-> p.targets, at |-> p.expires - Expiry, life |-> crashes]
  BY <1>2 DEF Accepts, Backed
<1>6. now - (p.expires - Expiry) <= Expiry
  BY <1>5, InHandTypes, RestTypes DEF PendingEntry, NoTs
<1>7. ActsOnValidOffer'
  BY <1>1, <1>3, <1>4, <1>5, <1>6 DEF ActsOnValidOffer
<1>8. PendingBacked'
  BY <1>1 DEF OfferInv, PendingBacked, Backed
<1> QED
  BY <1>7, <1>8 DEF OfferInv

LEMMA OfferAnswer ==
    ASSUME TypeInv, OfferInv,
           RequestCooling \/ BulkNothing \/ ConfirmRefused \/ ConfirmBulkRefused \/ SingleFails
             \/ BulkEnds
    PROVE  OfferInv'
<1>1. job' = Idle /\ crashes' = crashes
  BY DEF RequestCooling, BulkNothing, ConfirmRefused, ConfirmBulkRefused, SingleFails, BulkEnds,
         Finish, HandlerFrame
<1>2. UNCHANGED <<pending, offers>> /\ bulk' \in {bulk, NoOffer}
  BY DEF RequestCooling, BulkNothing, ConfirmRefused, ConfirmBulkRefused, SingleFails, BulkEnds
<1>3. job'.stage # "cli"
  BY <1>1 DEF Idle
<1> QED
  BY <1>1, <1>2, <1>3, InHandTypes, OfferFrame

LEMMA OfferCli ==
    ASSUME TypeInv, OfferInv, SingleSucceeds \/ BulkFails \/ BulkSucceeds
    PROVE  OfferInv'
<1>1. UNCHANGED <<offers, crashes, bulk, inbox>>
  BY DEF SingleSucceeds, BulkFails, BulkSucceeds, BulkStep, HandlerFrame
<1>2. CASE SingleSucceeds
  <2>1. job' = Idle
    BY <1>2 DEF SingleSucceeds, Finish, GiveUp
  <2>2. Target \in Fleet
    BY <1>2, TargetType DEF SingleSucceeds
  <2>3. pending' = pending \/ pending' = [pending EXCEPT ![Target] = NoOffer]
    BY <1>2 DEF SingleSucceeds
  <2>4. /\ pending' \in [Fleet -> PendingEntry]
        /\ \A m \in Fleet : pending'[m] \in {pending[m], NoOffer}
    BY <2>2, <2>3, InHandTypes, RestTypes
  <2>5. job'.stage # "cli"
    BY <2>1 DEF Idle
  <2> QED
    BY <1>1, <2>4, <2>5, OfferFrame
<1>3. CASE BulkFails \/ BulkSucceeds
  <2>1. /\ job' = [job EXCEPT !.targets = @ \ {Target}] /\ pending' = pending
        /\ job.stage = "cli"
    BY <1>3 DEF BulkFails, BulkSucceeds, BulkStep, Calls
  <2>2. /\ job'.code = job.code /\ job'.at = job.at /\ job'.id = job.id
        /\ job'.targets \subseteq job.targets
    BY <2>1, InHandTypes DEF JobRecord
  <2>3. Command' = Command
    BY <1>1, <2>2 DEF Command
  <2> QED
    BY <1>1, <2>1, <2>2, <2>3, InHandTypes, OfferFrame
<1> QED
  BY <1>2, <1>3

LEMMA OfferStep == TypeInv /\ OfferInv /\ [Next]_vars => OfferInv'
<1> SUFFICES ASSUME TypeInv, OfferInv, [Next]_vars PROVE OfferInv'
  OBVIOUS
<1>1. CASE Handler
  BY <1>1, OfferAnswer, OfferOffer, OfferConfirm, OfferCli DEF Handler
<1>2. CASE UNCHANGED vars
  <2>1. UNCHANGED <<offers, crashes, bulk, pending, job, inbox>>
    BY <1>2 DEF vars, poller, ghosts
  <2> QED
    BY <2>1, InHandTypes, OfferFrame DEF Command
<1> QED
  BY <1>1, <1>2, OfferOutside DEF Next

(* Nothing is rebooted by hand but what this process offered under the code that  *)
(* was repeated, to those miners, at most Expiry earlier: for every order of      *)
(* requests, previews and confirmations, every crash and every redelivery.        *)
THEOREM OnlyValidOffersAct == Spec => []ActsOnValidOffer
<1>1. Init => TypeInv /\ OfferInv
  BY TypeInit, OfferInit
<1>2. TypeInv /\ OfferInv /\ [Next]_vars => (TypeInv /\ OfferInv)'
  BY TypeStep, OfferStep
<1>3. OfferInv => ActsOnValidOffer
  BY DEF OfferInv
<1> QED
  BY <1>1, <1>2, <1>3, PTL DEF Spec
-------------------------------------------------------------------------------
(* A confirmation is used up.                                                  *)

LEMMA UsedInit == Init => UsedInv
  BY DEF Init, UsedInv, PendingUnused, InHandUnused, Idle

LEMMA UsedSame ==
    ASSUME UsedInv, UNCHANGED <<settled, offers, bulk, pending, job>>
    PROVE  UsedInv'
  BY DEF UsedInv, PendingUnused, InHandUnused, Unused

\* Offers that are withdrawn, without a reboot, and no CLI call afterwards.
LEMMA UsedFrame ==
    ASSUME UsedInv, UNCHANGED <<settled, offers>>, bulk' \in {bulk, NoOffer},
           \A m \in Fleet : pending'[m] \in {pending[m], NoOffer}, job'.stage # "cli"
    PROVE  UsedInv'
<1>1. PendingUnused'
  <2>1. bulk' # NoOffer => bulk' = bulk /\ Unused(bulk)'
    BY DEF UsedInv, PendingUnused, Unused
  <2>2. ASSUME NEW m \in Fleet, pending'[m] # NoOffer
        PROVE  /\ Unused(pending[m])' /\ pending'[m].targets = {m}
               /\ bulk' # NoOffer => pending'[m].code # bulk'.code
    <3>1. pending'[m] = pending[m]
      BY <2>2
    <3> QED
      BY <2>1, <2>2, <3>1 DEF UsedInv, PendingUnused, Unused
  <2> QED
    BY <2>1, <2>2 DEF PendingUnused
<1> QED
  BY <1>1 DEF UsedInv, InHandUnused

LEMMA UsedOutside ==
    ASSUME TypeInv, UsedInv, Environment \/ Boot \/ Main \/ Poll \/ Take
    PROVE  UsedInv'
<1>1. CASE Crash
  <2>1. /\ job'.stage # "cli" /\ bulk' = NoOffer /\ UNCHANGED <<settled, offers>>
        /\ \A m \in Fleet : pending'[m] = NoOffer
    BY <1>1 DEF Crash, Idle
  <2> QED
    BY <2>1, UsedFrame
<1>2. CASE Take
  <2>1. UNCHANGED <<settled, offers, bulk, pending>>
    BY <1>2 DEF Take
  <2>2. job' = [Idle EXCEPT !.id = ref', !.stage = "handle"] \/ job' = Idle
    BY <1>2 DEF Take, GiveUp
  <2>3. [Idle EXCEPT !.id = ref', !.stage = "handle"].stage = "handle" /\ Idle.stage = "none"
    BY DEF Idle
  <2> QED
    BY <2>1, <2>2, <2>3, UsedFrame
<1>3. CASE Advance \/ Send \/ Boot \/ Main \/ Poll
  <2>1. UNCHANGED <<settled, offers, bulk, pending, job>>
    BY <1>3 DEF Advance, Send, Boot, Main, Visit, EndTick, Poll, poller, ghosts
  <2> QED
    BY <2>1, UsedSame
<1> QED
  BY <1>1, <1>2, <1>3 DEF Environment

LEMMA UsedAnswer ==
    ASSUME TypeInv, UsedInv,
           RequestCooling \/ BulkNothing \/ ConfirmRefused \/ ConfirmBulkRefused \/ SingleFails
             \/ BulkEnds
    PROVE  UsedInv'
<1>1. job' = Idle
  BY DEF RequestCooling, BulkNothing, ConfirmRefused, ConfirmBulkRefused, SingleFails, BulkEnds,
         Finish
<1>2. UNCHANGED <<pending, offers, settled>> /\ bulk' \in {bulk, NoOffer}
  BY DEF RequestCooling, BulkNothing, ConfirmRefused, ConfirmBulkRefused, SingleFails, BulkEnds
<1>3. job'.stage # "cli"
  BY <1>1 DEF Idle
<1> QED
  BY <1>2, <1>3, UsedFrame

\* A new code is one that no offer has had and that nothing was done under.
LEMMA OfferIsFresh ==
    ASSUME TypeInv, OfferInv, UsedInv, NEW targets \in SUBSET Fleet, Offered(targets),
           settled' = settled
    PROVE  /\ Offer(targets) # NoOffer /\ \A m : <<Offer(targets).code, m>> \notin settled
           /\ Offer(targets).targets = targets
           /\ bulk # NoOffer => Offer(targets).code # bulk.code
           /\ \A m \in Fleet : pending[m] # NoOffer => Offer(targets).code # pending[m].code
           /\ \A s \in settled' : s[1] \in DOMAIN offers'
<1>1. offers \in Seq(OfferRecord) /\ Len(offers) \in Nat /\ now \in Nat /\ crashes \in Nat
  BY DEF TypeInv, TypeOK, OfferRecord
<1>2. /\ Offer(targets).code = Len(offers) + 1 /\ Offer(targets).targets = targets
      /\ Offer(targets).expires = now + Expiry
  BY DEF Offer
<1>3. Len(offers) + 1 \notin DOMAIN offers /\ DOMAIN offers = 1..Len(offers)
  BY <1>1
<1>4. Offer(targets) # NoOffer
  BY <1>1, <1>2, RestTypes DEF NoOffer, NoTs
<1>5. /\ bulk # NoOffer => bulk.code \in DOMAIN offers
      /\ \A m \in Fleet : pending[m] # NoOffer => pending[m].code \in DOMAIN offers
  BY DEF OfferInv, PendingBacked, Backed
<1>6. \A m : <<Len(offers) + 1, m>> \notin settled
  BY <1>3 DEF UsedInv
<1>7. offers' = Append(offers, [targets |-> targets, at |-> now, life |-> crashes])
  BY DEF Offered
<1>8. DOMAIN offers \subseteq DOMAIN offers'
  BY <1>1, <1>7 DEF OfferRecord
<1>9. \A s \in settled' : s[1] \in DOMAIN offers'
  BY <1>8 DEF UsedInv
<1> QED
  BY <1>2, <1>3, <1>4, <1>5, <1>6, <1>9

LEMMA UsedOffer ==
    ASSUME TypeInv, OfferInv, UsedInv, Request \/ BulkPreview
    PROVE  UsedInv'
<1>1. job' = Idle /\ settled' = settled /\ job # Idle
  BY InHandTypes DEF Request, BulkPreview, Finish, Handles
<1>2. InHandUnused'
  BY <1>1 DEF InHandUnused, Idle
<1>3. CASE Request
  <2>1. Command.miner \in Fleet
    BY <1>1, <1>3, CommandType DEF Request, Handles, Update
  <2>2. PICK k \in Fleet : k = Command.miner
    BY <2>1
  <2>3. PICK p : p = Offer({k})
    OBVIOUS
  <2>4. Offered({k}) /\ bulk' = bulk /\ pending' = [pending EXCEPT ![k] = p]
    BY <1>3, <2>2, <2>3 DEF Request
  <2>5. /\ \A m : <<p.code, m>> \notin settled
        /\ p.targets = {k} /\ (bulk # NoOffer => p.code # bulk.code)
        /\ \A s \in settled' : s[1] \in DOMAIN offers'
    BY <1>1, <2>3, <2>4, OfferIsFresh
  <2>6. \A m \in Fleet : pending'[m] = IF m = k THEN p ELSE pending[m]
    BY <2>4, InHandTypes
  <2>7. PendingUnused'
    <3>1. bulk' # NoOffer => Unused(bulk)'
      BY <1>1, <2>4 DEF UsedInv, PendingUnused, Unused
    <3>2. ASSUME NEW m \in Fleet, pending'[m] # NoOffer
          PROVE  /\ Unused(pending[m])' /\ pending'[m].targets = {m}
                 /\ bulk' # NoOffer => pending'[m].code # bulk'.code
      <4>1. CASE m = k
        BY <1>1, <2>4, <2>5, <2>6, <4>1 DEF Unused
      <4>2. CASE m # k
        BY <1>1, <2>4, <2>6, <3>2, <4>2 DEF UsedInv, PendingUnused, Unused
      <4> QED
        BY <4>1, <4>2
    <3> QED
      BY <3>1, <3>2 DEF PendingUnused
  <2> QED
    BY <1>2, <2>5, <2>7 DEF UsedInv
<1>4. CASE BulkPreview
  <2>1. BulkTargets(states) \in SUBSET Fleet
    BY InHandTypes DEF BulkTargets, IsTable, Known
  <2>2. PICK p : p = Offer(BulkTargets(states))
    OBVIOUS
  <2>3. Offered(BulkTargets(states)) /\ bulk' = p /\ pending' = pending
    BY <1>4, <2>2 DEF BulkPreview
  <2>4. /\ \A m : <<p.code, m>> \notin settled
        /\ \A m \in Fleet : pending[m] # NoOffer => p.code # pending[m].code
        /\ \A s \in settled' : s[1] \in DOMAIN offers'
    BY <1>1, <2>1, <2>2, <2>3, OfferIsFresh
  <2>5. PendingUnused'
    <3>1. Unused(bulk)'
      BY <1>1, <2>3, <2>4 DEF Unused
    <3>2. ASSUME NEW m \in Fleet, pending'[m] # NoOffer
          PROVE  /\ Unused(pending[m])' /\ pending'[m].targets = {m}
                 /\ pending'[m].code # bulk'.code
      BY <1>1, <2>3, <2>4, <3>2 DEF UsedInv, PendingUnused, Unused
    <3> QED
      BY <3>1, <3>2 DEF PendingUnused
  <2> QED
    BY <1>2, <2>4, <2>5 DEF UsedInv
<1> QED
  BY <1>3, <1>4

LEMMA UsedConfirm ==
    ASSUME TypeInv, UsedInv, Confirm \/ ConfirmBulk
    PROVE  UsedInv'
<1>1. UNCHANGED <<settled, offers, pending>> /\ job # Idle
  BY InHandTypes DEF Confirm, ConfirmBulk, Handles
<1>2. CASE Confirm
  <2>1. Command.miner \in Fleet
    BY <1>1, <1>2, CommandType DEF Confirm, Handles, Update
  <2>2. PICK k \in Fleet : k = Command.miner
    BY <2>1
  <2>3. bulk' = bulk /\ pending[k] # NoOffer /\ StartCli(TRUE, pending[k])
    BY <1>2, <2>2 DEF Confirm, Accepts
  <2>4. pending[k].targets = {k}
    BY <2>3 DEF UsedInv, PendingUnused
  <2>5. job'.single = TRUE /\ job'.code = pending[k].code /\ job'.targets = {k}
    BY <2>3, <2>4, InHandTypes DEF StartCli, JobRecord
  <2>6. InHandUnused'
    BY <1>1, <2>3, <2>5 DEF InHandUnused
  <2>7. PendingUnused'
    BY <1>1, <2>3 DEF UsedInv, PendingUnused, Unused
  <2> QED
    BY <1>1, <2>6, <2>7 DEF UsedInv
<1>3. CASE ConfirmBulk
  <2>1. bulk' = NoOffer /\ bulk # NoOffer /\ StartCli(FALSE, bulk)
    BY <1>3 DEF ConfirmBulk, Accepts
  <2>2. job'.single = FALSE /\ job'.code = bulk.code /\ job'.targets = bulk.targets
    BY <2>1, InHandTypes DEF StartCli, JobRecord
  <2>3. Unused(job)'
    BY <1>1, <2>1, <2>2 DEF UsedInv, PendingUnused, Unused
  <2>4. InHandUnused'
    BY <1>1, <2>1, <2>2, <2>3 DEF UsedInv, PendingUnused, InHandUnused
  <2>5. PendingUnused'
    BY <1>1, <2>1 DEF UsedInv, PendingUnused, Unused
  <2> QED
    BY <1>1, <2>4, <2>5 DEF UsedInv
<1> QED
  BY <1>2, <1>3

LEMMA UsedSingle ==
    ASSUME TypeInv, OfferInv, UsedInv, SingleSucceeds
    PROVE  UsedInv'
<1>1. UNCHANGED <<offers, bulk>> /\ job' = Idle /\ job.stage = "cli" /\ job.single
  BY DEF SingleSucceeds, HandlerFrame, Finish, GiveUp, Calls
<1>2. job'.stage # "cli"
  BY <1>1 DEF Idle
<1>3. CASE UNCHANGED <<pending, settled>>
  BY <1>1, <1>2, <1>3, UsedFrame
<1>4. CASE /\ pending' = [pending EXCEPT ![Target] = NoOffer]
           /\ settled' = settled \cup {<<job.code, Target>>}
  <2>1. PICK k \in Fleet : pending[k] # NoOffer /\ pending[k].code = job.code /\ job.targets = {k}
    BY <1>1 DEF UsedInv, InHandUnused
  <2>2. Target = k
    BY <2>1 DEF Target, First, Fleet
  <2>3. /\ \A m \in Fleet : pending'[m] = IF m = k THEN NoOffer ELSE pending[m]
        /\ settled' = settled \cup {<<job.code, k>>}
    BY <1>4, <2>2, InHandTypes
  <2>4. job.code \in DOMAIN offers
    BY <2>1 DEF OfferInv, PendingBacked, Backed
  <2>5. bulk # NoOffer => bulk.code # job.code
    BY <2>1 DEF UsedInv, PendingUnused
  <2>6. bulk' # NoOffer => Unused(bulk)'
    BY <1>1, <2>3, <2>5 DEF UsedInv, PendingUnused, Unused
  <2>7. ASSUME NEW m \in Fleet, pending'[m] # NoOffer
        PROVE  /\ Unused(pending[m])' /\ pending'[m].targets = {m}
               /\ bulk' # NoOffer => pending'[m].code # bulk'.code
    <3>1. m # k /\ pending'[m] = pending[m]
      BY <2>3, <2>7
    <3>2. Unused(pending[m]) /\ pending[m].targets = {m}
      BY <2>7, <3>1 DEF UsedInv, PendingUnused
    <3>3. Unused(pending[m])'
      BY <2>3, <3>1, <3>2 DEF Unused
    <3> QED
      BY <1>1, <2>7, <3>1, <3>2, <3>3 DEF UsedInv, PendingUnused
  <2>8. \A s \in settled' : s[1] \in DOMAIN offers'
    BY <1>1, <2>3, <2>4 DEF UsedInv
  <2> QED
    BY <1>2, <2>6, <2>7, <2>8 DEF UsedInv, PendingUnused, InHandUnused
<1> QED
  BY <1>3, <1>4 DEF SingleSucceeds

LEMMA UsedBulk ==
    ASSUME TypeInv, OfferInv, UsedInv, BulkFails \/ BulkSucceeds
    PROVE  UsedInv'
<1>1. /\ UNCHANGED <<offers, bulk, pending>> /\ job.stage = "cli" /\ ~job.single
      /\ job' = [job EXCEPT !.targets = @ \ {Target}]
      /\ settled' \subseteq settled \cup {<<job.code, Target>>}
  <2>1. /\ UNCHANGED <<offers, bulk, pending>> /\ job.stage = "cli" /\ ~job.single
        /\ job' = [job EXCEPT !.targets = @ \ {Target}]
    BY DEF BulkFails, BulkSucceeds, BulkStep, Calls
  <2>2. settled' = settled \cup ({job.code} \X {}) \/ settled' = settled \cup ({job.code} \X {Target})
    BY DEF BulkFails, BulkSucceeds, BulkStep
  <2> QED
    BY <2>1, <2>2
<1>2. /\ job'.stage = "cli" /\ job'.single = job.single /\ job'.code = job.code
      /\ job'.targets = job.targets \ {Target}
  BY <1>1, InHandTypes DEF JobRecord
<1>3. /\ Unused(job) /\ bulk = NoOffer
      /\ \A m \in Fleet : pending[m] # NoOffer => pending[m].code # job.code
  BY <1>1 DEF UsedInv, InHandUnused
<1>4. job.code \in DOMAIN offers
  BY <1>1 DEF OfferInv, ActsOnValidOffer
<1>5. Unused(job)'
  BY <1>1, <1>2, <1>3 DEF Unused
<1>6. InHandUnused'
  BY <1>1, <1>2, <1>3, <1>5 DEF InHandUnused
<1>7. ASSUME NEW m \in Fleet, pending'[m] # NoOffer
      PROVE  Unused(pending[m])' /\ pending'[m].targets = {m}
  <2>1. Unused(pending[m]) /\ pending[m].targets = {m} /\ pending[m].code # job.code
    BY <1>1, <1>3, <1>7 DEF UsedInv, PendingUnused
  <2> QED
    BY <1>1, <2>1 DEF Unused
<1>8. PendingUnused'
  BY <1>1, <1>3, <1>7 DEF PendingUnused
<1>9. \A s \in settled' : s[1] \in DOMAIN offers'
  BY <1>1, <1>4 DEF UsedInv
<1> QED
  BY <1>6, <1>8, <1>9 DEF UsedInv

LEMMA UsedStep == TypeInv /\ OfferInv /\ UsedInv /\ [Next]_vars => UsedInv'
<1> SUFFICES ASSUME TypeInv, OfferInv, UsedInv, [Next]_vars PROVE UsedInv'
  OBVIOUS
<1>1. CASE Handler
  BY <1>1, UsedAnswer, UsedOffer, UsedConfirm, UsedSingle, UsedBulk DEF Handler
<1>2. CASE UNCHANGED vars
  <2>1. UNCHANGED <<settled, offers, bulk, pending, job>>
    BY <1>2 DEF vars, poller, ghosts
  <2> QED
    BY <2>1, UsedSame
<1> QED
  BY <1>1, <1>2, UsedOutside DEF Next

\* What a CLI call is about to reboot, or gives up, was not rebooted under its code.
LEMMA InHandIsUnused ==
    ASSUME UsedInv, job.stage = "cli"
    PROVE  Unused(job)
<1>1. CASE job.single
  <2>1. PICK k \in Fleet : pending[k] # NoOffer /\ pending[k].code = job.code /\ job.targets = {k}
    BY <1>1 DEF UsedInv, InHandUnused
  <2> QED
    BY <2>1 DEF UsedInv, PendingUnused, Unused
<1> QED
  BY <1>1 DEF UsedInv, InHandUnused

(* No code reboots the same miner twice, through either command: not when it is *)
(* sent or delivered again, not after a crash, whatever is requested in between. *)
THEOREM ConfirmationsAreUsedUp == Spec => ConfirmationUsedUp
<1> DEFINE Step == \A code \in DOMAIN offers, m \in Fleet :
             job.stage = "cli" /\ job.code = code /\ m \in job.targets \ job'.targets /\ up'
               => <<code, m>> \notin settled
<1>1. Init => TypeInv /\ OfferInv /\ UsedInv
  BY TypeInit, OfferInit, UsedInit
<1>2. TypeInv /\ OfferInv /\ UsedInv /\ [Next]_vars => (TypeInv /\ OfferInv /\ UsedInv)'
  BY TypeStep, OfferStep, UsedStep
<1>3. UsedInv => Step
  BY InHandIsUnused DEF Unused
<1>4. UsedInv /\ [Next]_vars => [Step]_vars
  BY <1>3
<1> HIDE DEF Step
<1>5. Spec => [][Step]_vars
  BY <1>1, <1>2, <1>4, PTL DEF Spec
<1> QED
  BY <1>5 DEF ConfirmationUsedUp, Step
-------------------------------------------------------------------------------
(* Delivery.                                                                   *)

LEMMA OrderInit == Init => OrderInv
  BY DEF Init, OrderInv, Covered, NoId, NoTs

\* What is covered stays covered as long as the command in hand is accounted for.
LEMMA CoveredKept ==
    ASSUME done \subseteq done', dropped \subseteq dropped',
           InHand \subseteq done' \cup dropped' \cup InHand',
           NEW id, Covered(id)
    PROVE  \A i \in 1..id : i \in done' \cup dropped' \cup InHand'
  BY DEF Covered

\* An action that takes no update and asks for none.
LEMMA OrderFrame ==
    ASSUME TypeInv, OrderInv,
           done \subseteq done', dropped \subseteq dropped',
           InHand \subseteq done' \cup dropped' \cup InHand',
           forgotten' = forgotten, ref' \in {ref, file.id},
           file'.id \in {file.id, ref} \/ (mainId # NoTs /\ file'.id = mainId),
           mainId' \in {mainId, ref, NoTs},
           batch' = {} \/ (batch' = batch /\ ref' = ref)
    PROVE  OrderInv'
<1>1. \A id : Covered(id) => \A i \in 1..id : i \in done' \cup dropped' \cup InHand'
  BY CoveredKept
<1>2. ref # NoTs /\ file.id # NoTs
  BY DEF TypeInv, TypeOK, NoTs
<1>3. Covered(ref)' /\ Covered(forgotten)' /\ Covered(file.id)'
  BY <1>1 DEF OrderInv, Covered
<1>4. (mainId # NoTs => Covered(mainId))'
  BY <1>1 DEF OrderInv, Covered
<1>5. (batch # {} =>
         \E last \in Nat : batch = {i \in 1..last : i > Later(ref, forgotten)})'
  BY DEF OrderInv
<1> QED
  BY <1>3, <1>4, <1>5 DEF OrderInv

LEMMA OrderPoll == TypeInv /\ OrderInv /\ Poll => OrderInv'
<1> SUFFICES ASSUME TypeInv, OrderInv, Poll PROVE OrderInv'
  OBVIOUS
<1>1. UNCHANGED <<done, dropped, job, ref, file, mainId>>
  BY DEF Poll, ghosts
<1>2. forgotten' = Later(forgotten, ref) /\ forgotten \in Nat /\ ref \in Nat
  BY DEF Poll, TypeInv, TypeOK
<1>3. Covered(forgotten)'
  <2>1. Covered(forgotten')
    BY <1>2 DEF Later, OrderInv
  <2> QED
    BY <1>1, <2>1 DEF Covered, InHand
<1>4. Covered(ref)' /\ Covered(file.id)' /\ (mainId # NoTs => Covered(mainId))'
  BY <1>1 DEF OrderInv, Covered, InHand
<1>5. Later(ref', forgotten') = forgotten'
  BY <1>1, <1>2 DEF Later
<1>6. Len(inbox) \in Nat /\ batch' = {i \in 1..Len(inbox) : i > Later(ref', forgotten')}
  BY <1>5 DEF Poll, Updates, TypeInv, TypeOK
<1> QED
  BY <1>3, <1>4, <1>6 DEF OrderInv

\* The poller takes exactly the update that follows where it stands.
LEMMA TakesNext ==
    ASSUME TypeInv, OrderInv, Take
    PROVE  /\ ref' = Later(ref, forgotten) + 1
           /\ \E last \in Nat : batch \ {ref'} = {i \in 1..last : i > ref'}
<1>1. PICK last \in Nat : batch = {i \in 1..last : i > Later(ref, forgotten)}
  BY DEF Take, OrderInv
<1>2. Later(ref, forgotten) \in Nat
  BY DEF Later, TypeInv, TypeOK
<1>3. batch \in SUBSET Nat /\ batch # {} /\ ref' = First(batch)
  BY DEF Take, TypeInv, TypeOK
<1>4. ref' \in batch /\ \A y \in batch : ref' <= y
  BY <1>3, FirstOf
<1>5. Later(ref, forgotten) + 1 \in batch
  BY <1>1, <1>2, <1>4
<1>6. ref' = Later(ref, forgotten) + 1
  BY <1>1, <1>2, <1>4, <1>5
<1>7. batch \ {ref'} = {i \in 1..last : i > ref'}
  BY <1>1, <1>2, <1>6
<1> QED
  BY <1>6, <1>7

LEMMA OrderTake == TypeInv /\ OrderInv /\ Take => OrderInv'
<1> SUFFICES ASSUME TypeInv, OrderInv, Take PROVE OrderInv'
  OBVIOUS
<1>1. /\ ref' = Later(ref, forgotten) + 1 /\ ref' \in Nat /\ Later(ref, forgotten) \in Nat
      /\ ref \in Nat /\ forgotten \in Nat
  BY TakesNext DEF Later, TypeInv, TypeOK
<1>2. InHand = {} /\ UNCHANGED <<done, forgotten, mainId>>
  BY DEF Take, InHand, Idle
<1>3. dropped \subseteq dropped' /\ ref' \in dropped' \cup InHand'
  <2>1. CASE /\ job' = [Idle EXCEPT !.id = ref', !.stage = "handle"]
             /\ UNCHANGED dropped
    <3>1. job'.id = ref'
      BY <2>1, <1>1, RestTypes DEF JobRecord
    <3>2. ref' # NoId
      BY <1>1 DEF NoId
    <3> QED
      BY <2>1, <3>1, <3>2 DEF InHand
  <2>2. CASE GiveUp(ref')
    BY <2>2 DEF GiveUp
  <2> QED
    BY <2>1, <2>2 DEF Take
<1>4. \A id : Covered(id) => \A i \in 1..id : i \in done' \cup dropped' \cup InHand'
  BY <1>2, <1>3, CoveredKept
<1>5. Covered(ref)'
  <2>1. Covered(Later(ref, forgotten))
    BY DEF OrderInv, Later
  <2>2. \A i \in 1..ref' : i \in 1..Later(ref, forgotten) \/ i = ref'
    BY <1>1
  <2> QED
    BY <1>3, <1>4, <2>1, <2>2 DEF Covered
<1>6. Covered(forgotten)' /\ (mainId # NoTs => Covered(mainId))'
  BY <1>2, <1>4 DEF OrderInv, Covered
<1>7. Covered(file.id)'
  <2>1. file' = file \/ file'.id = ref'
    BY DEF Take, Saved
  <2> QED
    BY <1>4, <1>5, <2>1 DEF OrderInv, Covered
<1>8. (batch # {} =>
         \E last \in Nat : batch = {i \in 1..last : i > Later(ref, forgotten)})'
  <2>1. batch' = batch \ {ref'} \/ batch' = {}
    BY DEF Take, GiveUp
  <2>2. Later(ref', forgotten') = ref'
    BY <1>1, <1>2 DEF Later
  <2> QED
    BY <2>1, <2>2, TakesNext
<1> QED
  BY <1>5, <1>6, <1>7, <1>8 DEF OrderInv

LEMMA OrderHandler == TypeInv /\ OrderInv /\ Handler => OrderInv'
<1> SUFFICES ASSUME TypeInv, OrderInv, Handler PROVE OrderInv'
  OBVIOUS
<1>1. HandlerFrame
  BY DEF Handler, Request, RequestCooling, BulkPreview, BulkNothing, Confirm, ConfirmRefused,
         ConfirmBulk, ConfirmBulkRefused, SingleFails, SingleSucceeds, BulkFails, BulkSucceeds,
         BulkEnds, BulkStep
<1>2. /\ done \subseteq done' /\ dropped \subseteq dropped'
      /\ InHand \subseteq done' \cup dropped' \cup InHand'
  <2>1. CASE Finish
    BY <2>1 DEF Finish, InHand
  <2>2. CASE GiveUp(job.id) /\ UNCHANGED done
    BY <2>2 DEF GiveUp, InHand
  <2>3. CASE UNCHANGED <<done, dropped>> /\ job'.id = job.id
    BY <2>3 DEF InHand
  <2>4. Confirm \/ ConfirmBulk => UNCHANGED <<done, dropped>> /\ job'.id = job.id
    BY InHandTypes DEF Confirm, ConfirmBulk, StartCli, JobRecord
  <2>5. BulkFails \/ BulkSucceeds => UNCHANGED <<done, dropped>> /\ job'.id = job.id
    BY InHandTypes DEF BulkFails, BulkSucceeds, BulkStep, JobRecord
  <2>6. SingleSucceeds => Finish \/ (GiveUp(job.id) /\ UNCHANGED done)
    BY DEF SingleSucceeds
  <2>7. Request \/ RequestCooling \/ BulkPreview \/ BulkNothing \/ ConfirmRefused
          \/ ConfirmBulkRefused \/ SingleFails \/ BulkEnds => Finish
    BY DEF Request, RequestCooling, BulkPreview, BulkNothing, ConfirmRefused,
           ConfirmBulkRefused, SingleFails, BulkEnds
  <2> QED
    BY <2>1, <2>2, <2>3, <2>4, <2>5, <2>6, <2>7 DEF Handler
<1>3. file'.id \in {file.id, ref} /\ (batch' = {} \/ batch' = batch)
  <2>1. CASE SingleSucceeds
    <3>1. batch' = batch \/ batch' = {}
      BY <2>1 DEF SingleSucceeds, GiveUp
    <3>2. Saved(ref, states') \/ file' = file
      BY <2>1 DEF SingleSucceeds
    <3>3. file' = [id |-> ref, states |-> states'] \/ file' = file
      BY <3>2 DEF Saved
    <3> QED
      BY <3>1, <3>3
  <2>2. CASE ~SingleSucceeds
    BY <2>2
    DEF Handler, Request, RequestCooling, BulkPreview, BulkNothing, Confirm, ConfirmRefused,
        ConfirmBulk, ConfirmBulkRefused, SingleFails, BulkFails, BulkSucceeds, BulkEnds, BulkStep
  <2> QED
    BY <2>1, <2>2
<1>4. UNCHANGED <<forgotten, ref, mainId>>
  BY <1>1 DEF HandlerFrame
<1> QED
  BY <1>2, <1>3, <1>4, OrderFrame

LEMMA OrderStep == TypeInv /\ OrderInv /\ [Next]_vars => OrderInv'
<1> SUFFICES ASSUME TypeInv, OrderInv, [Next]_vars PROVE OrderInv'
  OBVIOUS
<1>1. CASE Advance \/ Send \/ UNCHANGED vars
  <2>1. UNCHANGED <<done, dropped, job, forgotten, ref, file, mainId, batch>>
    BY <1>1 DEF Advance, Send, vars, poller, ghosts
  <2> QED
    BY <2>1, OrderFrame DEF InHand
<1>2. CASE Crash
  <2>1. /\ done' = done /\ dropped' = dropped \cup InHand /\ mainId' = NoTs /\ batch' = {}
        /\ UNCHANGED <<forgotten, ref, file>>
    BY <1>2 DEF Crash
  <2> QED
    BY <2>1, OrderFrame
<1>3. CASE Boot
  <2>1. /\ UNCHANGED <<done, dropped, job, forgotten, file, mainId, batch>>
        /\ ref' = file.id /\ batch = {}
    BY <1>3 DEF Boot, ghosts, TypeInv, HoldsInv
  <2> QED
    BY <2>1, OrderFrame DEF InHand
<1>4. CASE Main
  <2>1. /\ UNCHANGED <<done, dropped, job, forgotten, ref, batch>>
        /\ mainId' \in {ref, NoTs}
    BY <1>4 DEF Main, Visit, EndTick, poller, ghosts
  <2>2. file' = file \/ (mainId # NoTs /\ file'.id = mainId)
    BY <1>4 DEF Main, Visit, EndTick, Saved
  <2> QED
    BY <2>1, <2>2, OrderFrame DEF InHand
<1> QED
  BY <1>1, <1>2, <1>3, <1>4, OrderPoll, OrderTake, OrderHandler DEF Next, Environment

(* No update is passed over: whatever the main loop and the poller save and in      *)
(* whichever order, an update the poller stands behind, or that Telegram has been  *)
(* told to forget, was handled or was in hand when its handler or the process died. *)
THEOREM NoneIsPassedOver == Spec => []NothingPassedOver
<1>1. Init => TypeInv /\ OrderInv
  BY TypeInit, OrderInit
<1>2. TypeInv /\ OrderInv /\ [Next]_vars => (TypeInv /\ OrderInv)'
  BY TypeStep, OrderStep
<1>3. OrderInv => NothingPassedOver
  BY DEF OrderInv, NothingPassedOver, Later
<1> QED
  BY <1>1, <1>2, <1>3, PTL DEF Spec
================================================================================
