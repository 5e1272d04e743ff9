---------------------------- MODULE EpisodesProofs -----------------------------
(* Theorems about Episodes, for every fleet, schedule and configuration.        *)
EXTENDS Episodes, FiniteSetTheorems, TLAPS

USE EpisodesAssumption DEF EpisodesAssumption

-------------------------------------------------------------------------------
(* Types *)

LEMMA ScheduleFacts ==
    /\ Len(Schedule) \in Nat \ {0} /\ DOMAIN Schedule = 1..Len(Schedule)
    /\ \A i \in 1..Len(Schedule) : Schedule[i] \in Nat \ {0}
  <1>1. Len(Schedule) \in Nat /\ DOMAIN Schedule = 1..Len(Schedule)
    OBVIOUS
  <1>2. \A i \in 1..Len(Schedule) : Schedule[i] \in Nat \ {0}
    BY <1>1
  <1>3. Len(Schedule) # 0
    OBVIOUS
  <1>4. QED
    BY <1>1, <1>2, <1>3

LEMMA MissedCount ==
    ASSUME NEW age
    PROVE  Cardinality({i \in DOMAIN Schedule : Schedule[i] <= age}) \in 0..Len(Schedule)
  <1>1. IsFiniteSet(1..Len(Schedule)) /\ Cardinality(1..Len(Schedule)) = Len(Schedule)
    BY ScheduleFacts, FS_Interval
  <1>2. {i \in DOMAIN Schedule : Schedule[i] <= age} \subseteq 1..Len(Schedule)
    BY ScheduleFacts
  <1>3. QED
    BY <1>1, <1>2, ScheduleFacts, FS_Subset, FS_CardinalityType

LEMMA OpeningType ==
    ASSUME NEW t \in Nat
    PROVE  /\ Opening(t) \in Episode /\ Opening(t).started = t
           /\ Opening(t).initialDue = t + Coalesce /\ ~Opening(t).sent
           /\ Opening(t).updateDue = NoTs
  <1>1. 0 \in 0..Len(Schedule)
    BY ScheduleFacts
  <1>2. Opening(t) \in Episode
    BY <1>1 DEF Opening, Episode, Times, NoTs
  <1>3. QED
    BY <1>2 DEF Opening

LEMMA ObservedType ==
    ASSUME NEW e \in Episode, NEW r \in BOOLEAN, NEW t \in Nat
    PROVE  /\ Observed(e, r, t) \in Episode /\ Active(Observed(e, r, t))
           /\ Active(e) =>
                /\ Observed(e, r, t).started = e.started
                /\ Observed(e, r, t).initialDue = e.initialDue
                /\ Observed(e, r, t).sent = e.sent
                /\ r /\ e.sent => Observed(e, r, t).updateDue = t + Coalesce
                /\ ~(r /\ e.sent) => Observed(e, r, t).updateDue = e.updateDue
           /\ ~Active(e) => Observed(e, r, t) = Opening(t)
  <1> DEFINE f == IF Active(e) THEN e ELSE Opening(t)
  <1>1. f \in Episode /\ Active(f) /\ t + Coalesce \in Times
    BY OpeningType DEF Active, Opening, Times, NoTs
  <1>2. ~Active(e) => ~f.sent
    BY DEF Opening
  <1>3. Observed(e, r, t) = IF r /\ f.sent THEN [f EXCEPT !.updateDue = t + Coalesce] ELSE f
    BY DEF Observed
  <1>4. Active(e) => f = e
    OBVIOUS
  <1>5. ~Active(e) => f = Opening(t)
    OBVIOUS
  <1> HIDE DEF f
  <1>6. /\ Observed(e, r, t) \in Episode
        /\ Observed(e, r, t).started = f.started
        /\ Observed(e, r, t).initialDue = f.initialDue
        /\ Observed(e, r, t).sent = f.sent
        /\ Observed(e, r, t).updateDue = IF r /\ f.sent THEN t + Coalesce ELSE f.updateDue
        /\ ~f.sent => Observed(e, r, t) = f
    BY <1>1, <1>3 DEF Episode
  <1>7. QED
    BY <1>1, <1>2, <1>4, <1>5, <1>6 DEF Active

LEMMA NoEpisodeType == NoEpisode \in Episode /\ ~Active(NoEpisode) /\ ~NoEpisode.sent
                       /\ NoEpisode.updateDue = NoTs /\ NoEpisode.started = NoTs
  <1>1. Opening(0) \in Episode /\ NoTs \in Times
    BY OpeningType DEF Times
  <1>2. NoEpisode \in Episode
    BY <1>1 DEF NoEpisode, Episode
  <1>3. QED
    BY <1>2 DEF NoEpisode, Opening, Active

LEMMA AdvanceMissedType ==
    ASSUME NEW e \in Episode, NEW age
    PROVE  /\ AdvanceMissed(e, age) \in Episode
           /\ AdvanceMissed(e, age).started = e.started
           /\ AdvanceMissed(e, age).initialDue = e.initialDue
           /\ AdvanceMissed(e, age).sent = e.sent
           /\ AdvanceMissed(e, age).updateDue = e.updateDue
  <1>1. Cardinality({i \in DOMAIN Schedule : Schedule[i] <= age}) \in 0..Len(Schedule)
    BY MissedCount
  <1>2. QED
    BY <1>1, ScheduleFacts DEF AdvanceMissed, Episode, Later

LEMMA AfterAnnouncementType ==
    ASSUME NEW e \in Episode, NEW age
    PROVE  /\ AfterAnnouncement(e, age) \in Episode
           /\ AfterAnnouncement(e, age).started = e.started
           /\ AfterAnnouncement(e, age).initialDue = e.initialDue
           /\ AfterAnnouncement(e, age).sent
           /\ AfterAnnouncement(e, age).updateDue = NoTs
  <1> DEFINE f == [e EXCEPT !.sent = TRUE, !.updateDue = NoTs]
  <1>1. f \in Episode /\ f.started = e.started /\ f.initialDue = e.initialDue
        /\ f.sent /\ f.updateDue = NoTs
    BY DEF Episode, Times
  <1>2. AfterAnnouncement(e, age) = AdvanceMissed(f, age)
    BY DEF AfterAnnouncement
  <1> HIDE DEF f
  <1>3. QED
    BY <1>1, <1>2, AdvanceMissedType

LEMMA AfterReminderType ==
    ASSUME NEW e \in Episode, NEW age
    PROVE  /\ AfterReminder(e, age) \in Episode
           /\ AfterReminder(e, age).started = e.started
           /\ AfterReminder(e, age).initialDue = e.initialDue
           /\ AfterReminder(e, age).sent = e.sent
           /\ AfterReminder(e, age).updateDue = e.updateDue
  <1> DEFINE f == [e EXCEPT !.reminderIndex = @ + 1]
  <1>1. CASE InSchedule(e)
    <2>0. e.reminderIndex + 1 \in 0..Len(Schedule)
      BY <1>1, ScheduleFacts DEF Episode, InSchedule
    <2>1. f \in Episode /\ f.started = e.started /\ f.initialDue = e.initialDue
          /\ f.sent = e.sent /\ f.updateDue = e.updateDue
      BY <2>0 DEF Episode
    <2>2. AfterReminder(e, age) = AdvanceMissed(f, age)
      BY <1>1 DEF AfterReminder
    <2> HIDE DEF f
    <2>3. QED
      BY <2>1, <2>2, AdvanceMissedType
  <1>2. CASE ~InSchedule(e)
    <2>1. AfterReminder(e, age) = [e EXCEPT !.repeatIndex = @ + 1]
      BY <1>2 DEF AfterReminder
    <2>2. e.repeatIndex + 1 \in Nat
      BY DEF Episode
    <2>3. QED
      BY <2>1, <2>2 DEF Episode
  <1>3. QED
    BY <1>1, <1>2

(* What pop_due does to an episode: it announces it or leaves these fields.     *)
LEMMA PoppedFacts ==
    ASSUME NEW eps \in [Miners -> Episode], NEW t \in Nat, NEW m \in Miners
    PROVE  /\ Popped(eps, t)[m] \in Episode
           /\ Popped(eps, t)[m].started = eps[m].started
           /\ Popped(eps, t)[m].initialDue = eps[m].initialDue
           /\ m \in ToAnnounce(eps, t) =>
                Popped(eps, t)[m].sent /\ Popped(eps, t)[m].updateDue = NoTs
           /\ m \notin ToAnnounce(eps, t) =>
                /\ Popped(eps, t)[m].sent = eps[m].sent
                /\ Popped(eps, t)[m].updateDue = eps[m].updateDue
  <1> DEFINE age == t - eps[m].started
  <1>0. eps[m] \in Episode /\ ~(m \in ToAnnounce(eps, t) /\ m \in ToRemind(eps, t))
    BY DEF ToRemind
  <1> HIDE DEF age
  <1>1. CASE m \in ToAnnounce(eps, t)
    <2>1. Popped(eps, t)[m] = AfterAnnouncement(eps[m], age)
      BY <1>0, <1>1 DEF Popped, age
    <2>2. QED
      BY <1>0, <1>1, <2>1, AfterAnnouncementType
  <1>2. CASE m \notin ToAnnounce(eps, t) /\ m \in ToRemind(eps, t)
    <2>1. Popped(eps, t)[m] = AfterReminder(eps[m], age)
      BY <1>2 DEF Popped, age
    <2>2. QED
      BY <1>0, <1>2, <2>1, AfterReminderType
  <1>3. CASE m \notin ToAnnounce(eps, t) /\ m \notin ToRemind(eps, t)
    <2>1. Popped(eps, t)[m] = eps[m]
      BY <1>3 DEF Popped
    <2>2. QED
      BY <1>0, <1>3, <2>1
  <1>4. QED
    BY <1>1, <1>2, <1>3
-------------------------------------------------------------------------------
(* A tick, taken apart.                                                         *)

LEMMA TickFacts ==
    ASSUME TypeOK, Tick
    PROVE  /\ phase # "down" /\ phase' = "running"
           /\ now' \in Nat /\ now < now'
           /\ \E affected, restarted, healthy \in SUBSET Miners : Coordinate(affected, restarted, healthy, now')
  <1>1. PICK gap \in Gaps, irregular \in SUBSET Miners, restarted \in SUBSET Restarting,
             healthy \in IF phase = "first" THEN SUBSET Miners ELSE {{}} :
               /\ now' = now + gap
               /\ Coordinate(irregular \ healthy, restarted, healthy, now + gap)
    BY DEF Tick
  <1>2. irregular \ healthy \in SUBSET Miners /\ restarted \in SUBSET Miners
    OBVIOUS
  <1>3. gap \in Nat \ {0} /\ now \in Nat
    BY DEF TypeOK
  <1>4. Coordinate(irregular \ healthy, restarted, healthy, now')
    BY <1>1
  <1>5. QED
    BY <1>1, <1>2, <1>3, <1>4 DEF Tick

LEMMA SeenType ==
    ASSUME TypeOK, NEW affected \in SUBSET Miners, NEW restarted \in SUBSET Miners,
           NEW t \in Nat
    PROVE  /\ Seen(restarted, t) \in [Miners -> Episode]
           /\ Open(affected, restarted, t) \in [Miners -> Episode]
           /\ Waiting(affected, restarted, t) \subseteq Closed
  <1>1. Seen(restarted, t) \in [Miners -> Episode]
    <2>1. ASSUME NEW m \in Miners
          PROVE  Observed(active[m], m \in restarted, t) \in Episode
      <3>1. active[m] \in Episode /\ (m \in restarted) \in BOOLEAN
        BY DEF TypeOK
      <3>2. QED
        BY <3>1, ObservedType
    <2>2. QED
      BY <2>1 DEF Seen
  <1>2. Open(affected, restarted, t) \in [Miners -> Episode]
    BY <1>1, NoEpisodeType DEF Open
  <1>3. ASSUME NEW m \in Miners
        PROVE  RecoveryDue(Seen(restarted, t)[m], t) \in Nat
    <2>1. Seen(restarted, t)[m] \in Episode
      BY <1>1
    <2>2. QED
      BY <2>1 DEF RecoveryDue, Later, Episode
  <1>4. QED
    BY <1>1, <1>2, <1>3 DEF Waiting, Ended, Closed, TypeOK

(* The active episode of a miner after a tick.                                  *)
LEMMA EpisodeAfterTick ==
    ASSUME TypeOK, NEW affected \in SUBSET Miners, NEW restarted \in SUBSET Miners, NEW healthy \in SUBSET Miners,
           NEW t \in Nat, Coordinate(affected, restarted, healthy, t), NEW m \in Miners
    PROVE  LET eps == Open(affected, restarted, t)
           IN  /\ active' \in [Miners -> Episode]
               /\ active'[m].started = eps[m].started
               /\ active'[m].initialDue = eps[m].initialDue
               /\ m \in ToAnnounce(eps, t) =>
                    active'[m].sent /\ active'[m].updateDue = NoTs
               /\ m \notin ToAnnounce(eps, t) =>
                    /\ active'[m].updateDue = eps[m].updateDue
                    /\ active'[m].sent = (eps[m].sent \/ (SendsStartup /\ Active(eps[m])))
  <1> DEFINE eps == Open(affected, restarted, t)
             pop == Popped(eps, t)
  <1>1. eps \in [Miners -> Episode]
    BY SeenType
  <1>2. ASSUME NEW k \in Miners
        PROVE  /\ pop[k] \in Episode /\ pop[k].started = eps[k].started
               /\ pop[k].initialDue = eps[k].initialDue
               /\ k \in ToAnnounce(eps, t) => pop[k].sent /\ pop[k].updateDue = NoTs
               /\ k \notin ToAnnounce(eps, t) =>
                    pop[k].sent = eps[k].sent /\ pop[k].updateDue = eps[k].updateDue
    BY <1>1, PoppedFacts
  <1>3. pop \in [Miners -> Episode]
    BY <1>2 DEF Popped
  <1>4. active' = IF SendsStartup THEN Acknowledged(pop) ELSE pop
    BY DEF Coordinate
  <1> HIDE DEF eps, pop
  <1>5. ASSUME NEW k \in Miners
        PROVE  /\ Acknowledged(pop)[k] \in Episode
               /\ Acknowledged(pop)[k].started = pop[k].started
               /\ Acknowledged(pop)[k].initialDue = pop[k].initialDue
               /\ Acknowledged(pop)[k].updateDue = pop[k].updateDue
               /\ Acknowledged(pop)[k].sent = (pop[k].sent \/ Active(pop[k]))
    <2>1. pop[k] \in Episode
      BY <1>2
    <2>2. CASE Active(pop[k])
      <3>1. Acknowledged(pop)[k] = [pop[k] EXCEPT !.sent = TRUE]
        BY <2>2 DEF Acknowledged
      <3>2. QED
        BY <2>1, <2>2, <3>1 DEF Episode
    <2>3. CASE ~Active(pop[k])
      <3>1. Acknowledged(pop)[k] = pop[k]
        BY <2>3 DEF Acknowledged
      <3>2. QED
        BY <2>1, <2>3, <3>1 DEF Episode
    <2>4. QED
      BY <2>2, <2>3
  <1>6. active' \in [Miners -> Episode]
    BY <1>3, <1>4, <1>5 DEF Acknowledged
  <1>7. Active(pop[m]) = Active(eps[m])
    BY <1>2 DEF Active
  <1>8. pop[m].sent \in BOOLEAN /\ eps[m].sent \in BOOLEAN
    BY <1>1, <1>2 DEF Episode
  <1>9. QED
    BY <1>2, <1>4, <1>5, <1>6, <1>7, <1>8 DEF eps
-------------------------------------------------------------------------------
(* EpisodeInv is inductive.                                                     *)

LEMMA Started ==
    ASSUME TypeOK, EpisodeInv, phase # "down", NEW m \in Miners
    PROVE  /\ active[m] \in Episode /\ active[m].started = since[m]
           /\ since[m] \in Times /\ since[m] <= now
           /\ Active(active[m]) => active[m].initialDue = since[m] + Coalesce
           /\ ~active[m].sent => active[m].updateDue = NoTs
           /\ okSince[m] # NoTs => since[m] = NoTs
  <1>1. active[m] \in Episode /\ since[m] \in Times /\ now \in Nat
    BY DEF TypeOK
  <1>2. CASE phase = "first"
    <2>1. active[m] = NoEpisode /\ since[m] = NoTs /\ okSince[m] = NoTs
      BY <1>2 DEF EpisodeInv, Never
    <2>2. QED
      BY <1>1, <2>1, NoEpisodeType DEF NoTs
  <1>3. CASE phase = "running"
    BY <1>1, <1>3 DEF EpisodeInv, Tracked
  <1>4. QED
    BY <1>2, <1>3 DEF TypeOK

LEMMA SeenFacts ==
    ASSUME TypeOK, EpisodeInv, phase # "down", NEW restarted \in SUBSET Miners,
           NEW t \in Nat, NEW m \in Miners
    PROVE  /\ Seen(restarted, t)[m] \in Episode /\ Active(Seen(restarted, t)[m])
           /\ since[m] = NoTs => Seen(restarted, t)[m] = Opening(t)
           /\ since[m] # NoTs =>
                /\ Seen(restarted, t)[m].started = since[m]
                /\ Seen(restarted, t)[m].initialDue = since[m] + Coalesce
                /\ Seen(restarted, t)[m].sent = active[m].sent
                /\ m \in restarted /\ active[m].sent =>
                     Seen(restarted, t)[m].updateDue = t + Coalesce
                /\ ~(m \in restarted /\ active[m].sent) =>
                     Seen(restarted, t)[m].updateDue = active[m].updateDue
  <1>1. active[m] \in Episode
    BY DEF TypeOK
  <1>2. Active(active[m]) <=> since[m] # NoTs
    BY Started DEF Active
  <1>3. CASE m \in restarted
    <2> DEFINE d == Observed(active[m], TRUE, t)
    <2>1. Seen(restarted, t)[m] = d
      BY <1>3 DEF Seen, Observed
    <2>2. d \in Episode /\ Active(d)
      BY <1>1, ObservedType
    <2>3. ~Active(active[m]) => d = Opening(t)
      BY <1>1, ObservedType
    <2>4. Active(active[m]) =>
            /\ d.started = active[m].started /\ d.initialDue = active[m].initialDue
            /\ d.sent = active[m].sent
            /\ active[m].sent => d.updateDue = t + Coalesce
            /\ ~active[m].sent => d.updateDue = active[m].updateDue
      BY <1>1, ObservedType
    <2> HIDE DEF d
    <2>5. QED
      BY <1>2, <1>3, <2>1, <2>2, <2>3, <2>4, Started
  <1>4. CASE m \notin restarted
    <2> DEFINE d == Observed(active[m], FALSE, t)
    <2>1. Seen(restarted, t)[m] = d
      BY <1>4 DEF Seen, Observed
    <2>2. d \in Episode /\ Active(d)
      BY <1>1, ObservedType
    <2>3. ~Active(active[m]) => d = Opening(t)
      BY <1>1, ObservedType
    <2>4. Active(active[m]) =>
            /\ d.started = active[m].started /\ d.initialDue = active[m].initialDue
            /\ d.sent = active[m].sent /\ d.updateDue = active[m].updateDue
      BY <1>1, ObservedType
    <2> HIDE DEF d
    <2>5. QED
      BY <1>2, <1>4, <2>1, <2>2, <2>3, <2>4, Started
  <1>5. QED
    BY <1>3, <1>4

LEMMA OpenFacts ==
    ASSUME NEW affected \in SUBSET Miners, NEW restarted, NEW t, NEW m \in Miners
    PROVE  /\ m \notin affected => Open(affected, restarted, t)[m] = NoEpisode
           /\ m \in affected => Open(affected, restarted, t)[m] = Seen(restarted, t)[m]
  BY DEF Open

(* A recovery is due at most Coalesce after the episode ended.                  *)
LEMMA WaitingFacts ==
    ASSUME TypeOK, EpisodeInv, phase # "down",
           NEW affected \in SUBSET Miners, NEW restarted \in SUBSET Miners,
           NEW t \in Nat, now < t
    PROVE  \A c \in Waiting(affected, restarted, t) :
             /\ c \in Closed /\ c.at <= t /\ c.due <= c.at + Coalesce
             /\ c.at > reported[c.miner]
             /\ c \in recovered \/ c.at = t
  <1>1. ASSUME NEW m \in Miners
        PROVE  RecoveryDue(Seen(restarted, t)[m], t) <= t + Coalesce
    <2> DEFINE d == Seen(restarted, t)[m]
    <2>0. /\ d \in Episode
          /\ since[m] = NoTs => d = Opening(t)
          /\ since[m] # NoTs => d.initialDue = since[m] + Coalesce
      BY SeenFacts
    <2> HIDE DEF d
    <2>1. d \in Episode /\ d.initialDue <= t + Coalesce
      <3>1. CASE since[m] = NoTs
        BY <2>0, <3>1 DEF Opening
      <3>2. CASE since[m] # NoTs
        <4>1. d \in Episode /\ d.initialDue = since[m] + Coalesce
          BY <2>0, <3>2
        <4>2. since[m] \in Int /\ since[m] <= now /\ now \in Nat
          BY Started DEF Times, NoTs, TypeOK
        <4>3. QED
          BY <4>1, <4>2
      <3>3. QED
        BY <2>0, <3>1, <3>2
    <2>2. RecoveryDue(d, t) <= t + Coalesce
      BY <2>1 DEF RecoveryDue, Later, Episode
    <2>3. QED
      BY <2>2 DEF d
  <1>2. ASSUME NEW c \in recovered
        PROVE  c \in Closed /\ c.at <= t /\ c.due <= c.at + Coalesce /\ c.at > reported[c.miner]
    BY DEF TypeOK, EpisodeInv, Closed
  <1>3. ASSUME NEW m \in Miners
        PROVE  reported[m] < t
    BY DEF TypeOK, EpisodeInv, Times, NoTs
  <1>4. Waiting(affected, restarted, t) \subseteq Closed
    BY SeenType
  <1>5. QED
    BY <1>1, <1>2, <1>3, <1>4 DEF Waiting, Ended

(* pop_due reports all recoveries that wait, or none of them is due.            *)
LEMMA RecoveryAfterTick ==
    ASSUME TypeOK, EpisodeInv, phase # "down",
           NEW affected \in SUBSET Miners, NEW restarted \in SUBSET Miners, NEW healthy \in SUBSET Miners,
           NEW t \in Nat, now < t, Coordinate(affected, restarted, healthy, t)
    PROVE  LET closed == Waiting(affected, restarted, t)
           IN  /\ message'.recovered \subseteq closed
               /\ phase = "running" /\ ~Muted => message'.recovered = ToReport(closed, t)
               /\ \/ ToReport(closed, t) = closed /\ recovered' = {}
                  \/ /\ ToReport(closed, t) = {} /\ recovered' = closed
                     /\ message'.recovered = {}
                     /\ \A c \in closed : t < c.due
  <1> DEFINE closed == Waiting(affected, restarted, t)
  <1>1. \A c \in closed : c.due \in Nat /\ c.at \in Nat /\ c.at <= t /\ c.due <= c.at + Coalesce
    BY WaitingFacts DEF Closed
  <1>2. recovered' = closed \ ToReport(closed, t)
    BY DEF Coordinate, StillWaiting
  <1>3. message' = Sent(Open(affected, restarted, t), closed, t)
    BY DEF Coordinate
  <1> HIDE DEF closed
  <1>4. /\ message'.recovered \in {{}, ToReport(closed, t)}
        /\ phase = "running" /\ ~Muted => message'.recovered = ToReport(closed, t)
    <2>1. CASE SendsStartup
      BY <1>3, <2>1 DEF Sent, Nothing, SendsStartup
    <2>2. CASE ~SendsStartup /\ phase = "running" /\ ~Muted
      BY <1>3, <2>2 DEF Sent, Batch, SendsStartup
    <2>3. CASE ~SendsStartup /\ ~(phase = "running" /\ ~Muted)
      BY <1>3, <2>3 DEF Sent, Nothing
    <2>4. QED
      BY <2>1, <2>2, <2>3 DEF SendsStartup
  <1>5. CASE RecoveryBatchDue(closed, t)
    <2>1. ToReport(closed, t) = closed
      BY <1>1, <1>5 DEF ToReport
    <2>2. QED
      BY <1>2, <1>4, <2>1 DEF closed
  <1>6. CASE ~RecoveryBatchDue(closed, t)
    <2>1. ToReport(closed, t) = {}
      BY <1>6 DEF ToReport
    <2>2. \A c \in closed : t < c.due
      BY <1>1, <1>6 DEF RecoveryBatchDue
    <2>3. QED
      BY <1>2, <1>4, <2>1, <2>2 DEF closed
  <1>7. QED
    BY <1>5, <1>6
LEMMA MessageType ==
    ASSUME TypeOK, NEW affected \in SUBSET Miners, NEW restarted \in SUBSET Miners, NEW healthy \in SUBSET Miners,
           NEW t \in Nat, Coordinate(affected, restarted, healthy, t)
    PROVE  message' \in Message
  <1> DEFINE eps == Open(affected, restarted, t)
             closed == Waiting(affected, restarted, t)
  <1>1. closed \subseteq Closed
    BY SeenType
  <1>2. message' = Sent(eps, closed, t)
    BY DEF Coordinate
  <1> HIDE DEF eps, closed
  <1>3. Nothing \in Message
    BY DEF Nothing, Message
  <1>4. Batch(eps, closed, t) \in Message
    <2>1. ToAnnounce(eps, t) \in SUBSET Miners /\ ToRemind(eps, t) \in SUBSET Miners
      BY DEF ToAnnounce, ToRemind
    <2>2. ToReport(closed, t) \in SUBSET Closed
      BY <1>1 DEF ToReport
    <2>3. QED
      BY <2>1, <2>2 DEF Batch, Message
  <1>5. [Nothing EXCEPT !.startup = TRUE] \in Message
    BY <1>3 DEF Message
  <1>6. CASE SendsStartup
    BY <1>2, <1>5, <1>6 DEF Sent, SendsStartup
  <1>7. CASE ~SendsStartup /\ phase = "running" /\ ~Muted
    BY <1>2, <1>4, <1>7 DEF Sent
  <1>8. CASE ~SendsStartup /\ ~(phase = "running" /\ ~Muted)
    BY <1>2, <1>3, <1>8 DEF Sent
  <1>9. QED
    BY <1>6, <1>7, <1>8

LEMMA WatchType ==
    ASSUME TypeOK, NEW affected \in SUBSET Miners, NEW restarted \in SUBSET Miners, NEW healthy \in SUBSET Miners,
           NEW t \in Nat, NEW msg \in Message, Watch(affected, restarted, healthy, msg, t)
    PROVE  /\ since' \in [Miners -> Times] /\ okSince' \in [Miners -> Times]
           /\ restartAt' \in [Miners -> Times] /\ toldAt' \in [Miners -> Times]
           /\ reported' \in [Miners -> Times]
           /\ lastWord' \in [Miners -> {"unconfirmed", "affected", "ok"}]
  <1>1. t \in Times /\ NoTs \in Times
    BY DEF Times
  <1>2. ASSUME NEW m \in Miners
        PROVE  LastWord(m, msg, affected, healthy) \in {"unconfirmed", "affected", "ok"}
    <2>1. lastWord[m] \in {"unconfirmed", "affected", "ok"}
      BY DEF TypeOK
    <2>2. CASE msg.startup
      BY <2>2 DEF LastWord
    <2>3. CASE ~msg.startup /\ \E c \in msg.recovered : c.miner = m
      BY <2>3 DEF LastWord
    <2>4. CASE ~msg.startup /\ ~(\E c \in msg.recovered : c.miner = m)
               /\ m \in msg.opened \cup msg.persistent
      BY <2>4 DEF LastWord
    <2>5. CASE ~msg.startup /\ ~(\E c \in msg.recovered : c.miner = m)
               /\ m \notin msg.opened \cup msg.persistent
      BY <2>1, <2>5 DEF LastWord
    <2>6. QED
      BY <2>2, <2>3, <2>4, <2>5
  <1>3. lastWord' \in [Miners -> {"unconfirmed", "affected", "ok"}]
    BY <1>2 DEF Watch
  <1>4. since' \in [Miners -> Times] /\ okSince' \in [Miners -> Times]
    BY <1>1 DEF Watch, TypeOK
  <1>5. restartAt' \in [Miners -> Times]
    <2>1. ASSUME NEW m \in Miners
          PROVE  (IF m \notin affected \/ m \in msg.opened \/ msg.startup THEN NoTs
                  ELSE IF m \in restarted THEN t ELSE restartAt[m]) \in Times
      <3>1. restartAt[m] \in Times
        BY DEF TypeOK
      <3>2. QED
        BY <1>1, <3>1
    <2>2. QED
      BY <2>1 DEF Watch
  <1>6. toldAt' \in [Miners -> Times] /\ reported' \in [Miners -> Times]
    BY <1>1 DEF Watch, TypeOK
  <1>7. QED
    BY <1>3, <1>4, <1>5, <1>6

LEMMA NeverType == Never \in [Miners -> Times] /\ Nothing \in Message
  BY DEF Never, Times, Nothing, Message

LEMMA TypeInit == Init => TypeOK
  BY NeverType, NoEpisodeType DEF Init, TypeOK

LEMMA TypeStep == TypeOK /\ [Next]_vars => TypeOK'
  <1> SUFFICES ASSUME TypeOK, [Next]_vars PROVE TypeOK'
    OBVIOUS
  <1>1. CASE Boot
    BY <1>1, NoEpisodeType DEF Boot, TypeOK, ghosts
  <1>2. CASE Crash
    BY <1>2, NeverType DEF Crash, TypeOK, coordinator
  <1>3. CASE Tick
    <2>1. PICK affected, restarted, healthy \in SUBSET Miners : Coordinate(affected, restarted, healthy, now')
      BY <1>3, TickFacts
    <2>2. now' \in Nat /\ phase' = "running"
      BY <1>3, TickFacts
    <2>3. message' \in Message
      BY <2>1, <2>2, MessageType
    <2>4. Watch(affected, restarted, healthy, message', now')
      BY <2>1 DEF Coordinate
    <2>5. recovered' \subseteq Closed
      BY <2>1, <2>2, SeenType DEF Coordinate, StillWaiting
    <2>6. active' \in [Miners -> Episode]
      <3>1. Miners # {} => active' \in [Miners -> Episode]
        BY <2>1, <2>2, EpisodeAfterTick
      <3>2. Miners = {} => active' \in [Miners -> Episode]
        BY <2>1 DEF Coordinate, Acknowledged, Popped
      <3>3. QED
        BY <3>1, <3>2
    <2>7. QED
      BY <2>2, <2>3, <2>4, <2>5, <2>6, WatchType DEF TypeOK
  <1>4. CASE UNCHANGED vars
    BY <1>4 DEF vars, coordinator, ghosts, TypeOK
  <1>5. QED
    BY <1>1, <1>2, <1>3, <1>4 DEF Next

(* Every variable of the coordinator, of main's part in it and of the           *)
(* observations keeps its type (alert_episodes.py 66-161).                      *)
THEOREM EpisodesTypeCorrect == Spec => []TypeOK
  BY TypeInit, TypeStep, PTL DEF Spec
-------------------------------------------------------------------------------
(* EpisodeInv is kept by a tick.                                                *)

LEMMA TrackedAfterTick ==
    ASSUME TypeOK, EpisodeInv, phase # "down",
           NEW affected \in SUBSET Miners, NEW restarted \in SUBSET Miners, NEW healthy \in SUBSET Miners,
           now' \in Nat, now < now', Coordinate(affected, restarted, healthy, now'), NEW m \in Miners
    PROVE  Tracked(m)'
  <1> DEFINE t == now'
             eps == Open(affected, restarted, t)
             e == active'[m]
  <1>1. /\ since'[m] = IF m \notin affected THEN NoTs
                       ELSE IF since[m] = NoTs THEN t ELSE since[m]
        /\ okSince'[m] = IF m \in affected THEN NoTs
                         ELSE IF okSince[m] = NoTs THEN t ELSE okSince[m]
    BY DEF Coordinate, Watch
  <1>2. /\ e.started = eps[m].started /\ e.initialDue = eps[m].initialDue
        /\ m \in ToAnnounce(eps, t) => e.sent /\ e.updateDue = NoTs
        /\ m \notin ToAnnounce(eps, t) =>
             /\ e.updateDue = eps[m].updateDue
             /\ e.sent = (eps[m].sent \/ (SendsStartup /\ Active(eps[m])))
    BY EpisodeAfterTick
  <1>3. since[m] \in Times /\ since[m] <= now /\ now \in Nat /\ active[m] \in Episode
        /\ (~active[m].sent => active[m].updateDue = NoTs)
    BY Started DEF TypeOK
  <1>4. eps \in [Miners -> Episode]
    BY SeenType
  <1>5. Opening(t).started = t /\ Opening(t).initialDue = t + Coalesce /\ ~Opening(t).sent
        /\ Opening(t).updateDue = NoTs /\ t # NoTs
    <2>1. t # NoTs
      BY DEF NoTs
    <2>2. QED
      BY <2>1, OpeningType
  <1>6. m \notin ToAnnounce(eps, t) =>
          /\ Active(eps[m]) /\ ~eps[m].sent => t < eps[m].initialDue
          /\ eps[m].updateDue # NoTs => t < eps[m].updateDue
    <2> HIDE DEF eps
    <2> SUFFICES ASSUME m \notin ToAnnounce(eps, t)
                 PROVE  /\ Active(eps[m]) /\ ~eps[m].sent => t < eps[m].initialDue
                        /\ eps[m].updateDue # NoTs => t < eps[m].updateDue
      OBVIOUS
    <2>1. ~UpdateIsDue(eps[m], t)
      BY DEF ToAnnounce
    <2>2. Active(eps[m]) /\ ~eps[m].sent => ~InitialIsDue(eps[m], t)
      BY DEF ToAnnounce, OpeningBatchDue
    <2>3. eps[m].initialDue \in Nat /\ eps[m].updateDue \in Times
      BY <1>4 DEF Episode
    <2>4. QED
      BY <2>1, <2>2, <2>3 DEF UpdateIsDue, InitialIsDue, Times, NoTs
  <1>7. CASE m \notin affected
    <2>1. eps[m] = NoEpisode
      BY <1>7, OpenFacts
    <2>2. m \notin ToAnnounce(eps, t)
      BY <2>1, NoEpisodeType DEF ToAnnounce, UpdateIsDue
    <2>3. ~Active(e) /\ e.started = NoTs /\ e.updateDue = NoTs
      BY <1>2, <2>1, <2>2, NoEpisodeType DEF Active
    <2>4. since'[m] = NoTs /\ okSince'[m] # NoTs
      BY <1>1, <1>7 DEF NoTs
    <2> HIDE DEF e, eps
    <2>5. QED
      BY <2>3, <2>4 DEF Tracked, e, NoTs
  <1>8. CASE m \in affected
    <2>1. eps[m] = Seen(restarted, t)[m]
      BY <1>8, OpenFacts
    <2>2. Active(eps[m]) /\ eps[m].started = since'[m] /\ since'[m] # NoTs /\ since'[m] <= t
      <3>1. CASE since[m] = NoTs
        BY <1>1, <1>8, <1>5, <2>1, <3>1, SeenFacts
      <3>2. CASE since[m] # NoTs
        BY <1>1, <1>3, <1>8, <2>1, <3>2, SeenFacts DEF Times, NoTs
      <3>3. QED
        BY <3>1, <3>2
    <2>3. eps[m].initialDue = since'[m] + Coalesce
      <3>1. CASE since[m] = NoTs
        BY <1>1, <1>8, <1>5, <2>1, <3>1, SeenFacts
      <3>2. CASE since[m] # NoTs
        BY <1>1, <1>8, <2>1, <3>2, SeenFacts
      <3>3. QED
        BY <3>1, <3>2
    <2>4. ~eps[m].sent => eps[m].updateDue = NoTs
      <3>1. CASE since[m] = NoTs
        BY <1>5, <2>1, <3>1, SeenFacts
      <3>2. CASE since[m] # NoTs
        BY <1>3, <2>1, <3>2, SeenFacts
      <3>3. QED
        BY <3>1, <3>2
    <2>5. okSince'[m] = NoTs
      BY <1>1, <1>8
    <2> HIDE DEF e, eps
    <2>6. /\ e.started = since'[m]
          /\ e.initialDue = since'[m] + Coalesce
          /\ ~e.sent => e.updateDue = NoTs
          /\ ~e.sent => now' < e.initialDue
          /\ e.updateDue # NoTs => now' < e.updateDue
      BY <1>2, <1>6, <2>2, <2>3, <2>4
    <2>7. QED
      BY <2>2, <2>5, <2>6 DEF Tracked, e
  <1>9. QED
    BY <1>7, <1>8

LEMMA EpisodeInvTick ==
    ASSUME TypeOK, EpisodeInv, Tick
    PROVE  EpisodeInv'
  <1>1. phase # "down" /\ phase' = "running" /\ now' \in Nat /\ now < now'
    BY TickFacts
  <1>2. PICK affected, restarted, healthy \in SUBSET Miners : Coordinate(affected, restarted, healthy, now')
    BY TickFacts
  <1>3. \A m \in Miners : Tracked(m)'
    BY <1>1, <1>2, TrackedAfterTick
  <1> DEFINE closed == Waiting(affected, restarted, now')
  <1>4. \A c \in closed : /\ c \in Closed /\ c.at <= now' /\ c.due <= c.at + Coalesce
                          /\ c.at > reported[c.miner]
    BY <1>1, WaitingFacts
  <1>5. /\ \/ ToReport(closed, now') = closed /\ recovered' = {}
           \/ /\ ToReport(closed, now') = {} /\ recovered' = closed
              /\ message'.recovered = {}
              /\ \A c \in closed : now' < c.due
    BY <1>1, <1>2, RecoveryAfterTick
  <1>6. \A m \in Miners :
          reported'[m] = IF \E c \in message'.recovered : c.miner = m THEN now' ELSE reported[m]
    BY <1>2 DEF Coordinate, Watch
  <1>7. \A m \in Miners : reported[m] <= now /\ reported[m] \in Int /\ now \in Nat
    BY DEF EpisodeInv, TypeOK, Times, NoTs
  <1> HIDE DEF closed
  <1>8. \A m \in Miners : reported'[m] <= now'
    BY <1>1, <1>6, <1>7
  <1>9. \A c \in recovered' :
          /\ c.at <= now' /\ c.due <= c.at + Coalesce
          /\ c.at > reported'[c.miner] /\ now' < c.due
    <2>1. ASSUME NEW c \in recovered'
          PROVE  /\ c.at <= now' /\ c.due <= c.at + Coalesce
                 /\ c.at > reported'[c.miner] /\ now' < c.due
      <3>1. c \in closed /\ message'.recovered = {} /\ now' < c.due
        BY <1>5, <2>1
      <3>2. c.miner \in Miners /\ c.at > reported[c.miner]
            /\ c.at <= now' /\ c.due <= c.at + Coalesce
        BY <1>4, <3>1 DEF Closed
      <3>3. reported'[c.miner] = reported[c.miner]
        BY <1>6, <3>1, <3>2
      <3>4. QED
        BY <3>1, <3>2, <3>3
    <2>2. QED
      BY <2>1
  <1>10. QED
    BY <1>1, <1>3, <1>8, <1>9 DEF EpisodeInv

LEMMA EpisodeInvInit == Init => EpisodeInv
  BY DEF Init, EpisodeInv, Never, NoTs

LEMMA EpisodeInvStep == TypeOK /\ EpisodeInv /\ [Next]_vars => EpisodeInv'
  <1> SUFFICES ASSUME TypeOK, EpisodeInv, [Next]_vars PROVE EpisodeInv'
    OBVIOUS
  <1>1. CASE Boot
    BY <1>1 DEF Boot, EpisodeInv, ghosts
  <1>2. CASE Crash
    BY <1>2 DEF Crash, EpisodeInv, coordinator
  <1>3. CASE Tick
    BY <1>3, EpisodeInvTick
  <1>4. CASE UNCHANGED vars
    BY <1>4 DEF vars, coordinator, ghosts, EpisodeInv, Tracked
  <1>5. QED
    BY <1>1, <1>2, <1>3, <1>4 DEF Next

(* Every execution reports a recovery once: a batch takes everything that waits *)
(* or nothing of it (pop_due 374-389), so nothing is held back behind a report. *)
THEOREM ReportedOnce == Spec => RecoveriesReportedOnce
  <1>1. TypeOK /\ EpisodeInv /\ [Next]_vars =>
          [now' # now => \A c \in message'.recovered : c.at > reported[c.miner]]_vars
    <2> SUFFICES ASSUME TypeOK, EpisodeInv, [Next]_vars, now' # now
                 PROVE  \A c \in message'.recovered : c.at > reported[c.miner]
      BY DEF vars
    <2>1. Tick
      BY DEF Next, Boot, Crash, vars
    <2>2. PICK affected, restarted, healthy \in SUBSET Miners : Coordinate(affected, restarted, healthy, now')
      BY <2>1, TickFacts
    <2>3. phase # "down" /\ now' \in Nat /\ now < now'
      BY <2>1, TickFacts
    <2>4. message'.recovered \subseteq Waiting(affected, restarted, now')
      BY <2>2, <2>3, RecoveryAfterTick
    <2>5. QED
      BY <2>3, <2>4, WaitingFacts
  <1>2. QED
    BY <1>1, TypeInit, TypeStep, EpisodeInvInit, EpisodeInvStep, PTL
       DEF Spec, RecoveriesReportedOnce
-------------------------------------------------------------------------------
(* What the operator has been told.                                             *)

LEMMA MessageFacts ==
    ASSUME NEW affected, NEW restarted, NEW healthy, NEW t, Coordinate(affected, restarted, healthy, t),
           ~Muted, phase \in {"first", "running"}
    PROVE  /\ phase = "first" /\ NotifyStartup =>
                SendsStartup /\ message' = [Nothing EXCEPT !.startup = TRUE]
           /\ phase = "first" /\ ~NotifyStartup => ~SendsStartup /\ message' = Nothing
           /\ phase = "running" =>
                /\ ~SendsStartup
                /\ message' = Batch(Open(affected, restarted, t),
                                    Waiting(affected, restarted, t), t)
  BY DEF Coordinate, Sent, SendsStartup

LEMMA FirstTickAnnouncesNothing ==
    ASSUME TypeOK, EpisodeInv, phase = "first", Coalesce > 0,
           NEW affected \in SUBSET Miners, NEW restarted \in SUBSET Miners, NEW t \in Nat
    PROVE  \A m \in Miners : /\ m \notin ToAnnounce(Open(affected, restarted, t), t)
                             /\ ~Open(affected, restarted, t)[m].sent
  <1> DEFINE eps == Open(affected, restarted, t)
  <1>1. ASSUME NEW m \in Miners
        PROVE  /\ ~eps[m].sent /\ eps[m].updateDue = NoTs
               /\ Active(eps[m]) => t < eps[m].initialDue
    <2>1. since[m] = NoTs
      BY DEF EpisodeInv, Never
    <2>2. Seen(restarted, t)[m] = Opening(t)
      BY <2>1, SeenFacts
    <2>3. eps[m] = NoEpisode \/ eps[m] = Opening(t)
      BY <2>2, OpenFacts
    <2> HIDE DEF eps
    <2>4. CASE eps[m] = NoEpisode
      BY <2>4, NoEpisodeType
    <2>5. CASE eps[m] = Opening(t)
      <3>1. /\ ~Opening(t).sent /\ Opening(t).updateDue = NoTs
            /\ Opening(t).initialDue = t + Coalesce
        BY OpeningType
      <3>2. t < t + Coalesce
        BY EpisodesAssumption
      <3>3. QED
        BY <2>5, <3>1, <3>2
    <2>6. QED
      BY <2>3, <2>4, <2>5
  <1>2. eps \in [Miners -> Episode]
    BY SeenType
  <1> HIDE DEF eps
  <1>3. \A m \in Miners : ~InitialIsDue(eps[m], t) /\ ~UpdateIsDue(eps[m], t)
    BY <1>1, <1>2 DEF InitialIsDue, UpdateIsDue, Episode
  <1>4. \A m \in Miners : m \notin ToAnnounce(eps, t)
    BY <1>3 DEF ToAnnounce, OpeningBatchDue
  <1>5. QED
    BY <1>1, <1>4 DEF eps

LEMMA ToldInvTick ==
    ASSUME TypeOK, EpisodeInv, ToldInv, Tick, NotifyStartup \/ Coalesce > 0
    PROVE  ToldInv'
  <1>1. phase # "down" /\ phase' = "running" /\ now' \in Nat /\ now < now'
    BY TickFacts
  <1>2. PICK affected, restarted, healthy \in SUBSET Miners : Coordinate(affected, restarted, healthy, now')
    BY TickFacts
  <1> SUFFICES ASSUME ~Muted, NEW m \in Miners, Active(active'[m]), active'[m].sent
               PROVE  toldAt'[m] >= since'[m]
    BY DEF ToldInv, Settled
  <1> DEFINE t == now'
             eps == Open(affected, restarted, t)
  <1>3. Tracked(m)'
    BY <1>1, <1>2, TrackedAfterTick
  <1>4. since'[m] # NoTs /\ since'[m] <= now'
    BY <1>3 DEF Tracked, Active
  <1>5. /\ since'[m] = IF m \notin affected THEN NoTs
                       ELSE IF since[m] = NoTs THEN t ELSE since[m]
        /\ toldAt'[m] =
             IF m \in message'.opened \cup message'.persistent
                  \/ (message'.startup /\ m \in affected)
             THEN t ELSE toldAt[m]
    BY <1>2 DEF Coordinate, Watch
  <1>6. m \in affected
    BY <1>4, <1>5
  <1>7. /\ m \notin ToAnnounce(eps, t) =>
             active'[m].sent = (eps[m].sent \/ (SendsStartup /\ Active(eps[m])))
    BY <1>1, <1>2, EpisodeAfterTick
  <1>8. SUFFICES ASSUME toldAt'[m] = toldAt[m], toldAt'[m] # t
                 PROVE  toldAt[m] >= since'[m]
    BY <1>1, <1>4, <1>5
  <1>9. phase \in {"first", "running"}
    BY <1>1 DEF TypeOK
  <1>10. CASE phase = "first" /\ NotifyStartup
    <2>1. message'.startup
      BY <1>2, <1>9, <1>10, MessageFacts DEF Nothing
    <2>2. QED
      BY <1>5, <1>6, <1>8, <2>1
  <1>11. CASE phase = "first" /\ ~NotifyStartup
    <2>1. m \notin ToAnnounce(eps, t) /\ ~eps[m].sent
      BY <1>1, <1>11, FirstTickAnnouncesNothing
    <2>2. ~SendsStartup
      BY <1>2, <1>9, <1>11, MessageFacts
    <2>3. QED
      BY <1>7, <2>1, <2>2
  <1>12. CASE phase = "running"
    <2>1. ~SendsStartup /\ message'.opened = ToAnnounce(eps, t)
      BY <1>2, <1>9, <1>12, MessageFacts DEF Batch
    <2>2. m \notin ToAnnounce(eps, t)
      BY <1>5, <1>8, <2>1
    <2>3. eps[m].sent
      BY <1>7, <2>1, <2>2
    <2>4. eps[m] = Seen(restarted, t)[m]
      BY <1>6, OpenFacts
    <2>5. since[m] # NoTs /\ active[m].sent
      <3>1. /\ since[m] = NoTs => Seen(restarted, t)[m] = Opening(t)
            /\ since[m] # NoTs => Seen(restarted, t)[m].sent = active[m].sent
        BY <1>1, SeenFacts
      <3>2. ~Opening(t).sent
        BY <1>1, OpeningType
      <3>3. Seen(restarted, t)[m].sent
        BY <2>3, <2>4
      <3>4. QED
        BY <3>1, <3>2, <3>3
    <2>6. Active(active[m])
      BY <1>1, <2>5, Started DEF Active
    <2>7. toldAt[m] >= since[m]
      BY <1>12, <2>5, <2>6 DEF ToldInv, Settled
    <2>8. QED
      BY <1>5, <1>6, <2>5, <2>7
  <1>13. QED
    BY <1>9, <1>10, <1>11, <1>12

LEMMA ToldInvStep ==
    ASSUME NotifyStartup \/ Coalesce > 0
    PROVE  TypeOK /\ EpisodeInv /\ ToldInv /\ [Next]_vars => ToldInv'
  <1> SUFFICES ASSUME TypeOK, EpisodeInv, ToldInv, [Next]_vars PROVE ToldInv'
    OBVIOUS
  <1>1. CASE Boot
    BY <1>1 DEF Boot, ToldInv, Settled
  <1>2. CASE Crash
    BY <1>2 DEF Crash, ToldInv, Settled
  <1>3. CASE Tick
    BY <1>3, ToldInvTick
  <1>4. CASE UNCHANGED vars
    BY <1>4 DEF vars, coordinator, ghosts, ToldInv, Settled
  <1>5. QED
    BY <1>1, <1>2, <1>3, <1>4 DEF Next

LEMMA Announced == TypeOK /\ EpisodeInv /\ ToldInv => AnnouncedInTime
  <1> SUFFICES ASSUME TypeOK, EpisodeInv, ToldInv, Settled, NEW m \in Miners,
                      since[m] # NoTs, now - since[m] >= Coalesce
               PROVE  toldAt[m] >= since[m]
    BY DEF AnnouncedInTime
  <1>1. Tracked(m) /\ now \in Nat /\ since[m] \in Times /\ active[m] \in Episode
    BY DEF EpisodeInv, Settled, TypeOK
  <1>2. Active(active[m]) /\ active[m].initialDue = since[m] + Coalesce
    BY <1>1 DEF Tracked, Active
  <1>3. ~(now < active[m].initialDue)
    BY <1>1, <1>2 DEF Times, NoTs
  <1>4. active[m].sent
    BY <1>1, <1>2, <1>3 DEF Tracked
  <1>5. QED
    BY <1>2, <1>4 DEF ToldInv

(* Whenever a tick ends, every miner that has been irregular for Coalesce has   *)
(* been presented as affected, for every fleet, schedule and sequence of        *)
(* crashes - unless both the grouping window and STARTUP are switched off, when *)
(* the first tick drops its batch (main 4539-4554).                             *)
THEOREM AlwaysAnnounced ==
    NotifyStartup \/ Coalesce > 0 => (Spec => []AnnouncedInTime)
  <1> SUFFICES ASSUME NotifyStartup \/ Coalesce > 0 PROVE Spec => []AnnouncedInTime
    OBVIOUS
  <1>1. Init => TypeOK /\ EpisodeInv /\ ToldInv
    BY TypeInit, EpisodeInvInit DEF Init, ToldInv, Settled
  <1>2. TypeOK /\ EpisodeInv /\ ToldInv /\ [Next]_vars => (TypeOK /\ EpisodeInv /\ ToldInv)'
    BY TypeStep, EpisodeInvStep, ToldInvStep
  <1>3. QED
    BY <1>1, <1>2, Announced, PTL DEF Spec-------------------------------------------------------------------------------
(* Restarts within an episode.                                                  *)

LEMMA RestartInvTick ==
    ASSUME TypeOK, EpisodeInv, RestartInv, Tick, Coalesce > 0
    PROVE  RestartInv'
  <1>1. phase # "down" /\ now' \in Nat /\ now < now'
    BY TickFacts
  <1>2. PICK affected, restarted, healthy \in SUBSET Miners : Coordinate(affected, restarted, healthy, now')
    BY TickFacts
  <1> SUFFICES ASSUME ~Muted, NEW m \in Miners, restartAt'[m] # NoTs
               PROVE  /\ since'[m] # NoTs /\ since'[m] <= restartAt'[m]
                      /\ active'[m].sent => active'[m].updateDue = restartAt'[m] + Coalesce
    BY DEF RestartInv, Settled
  <1> DEFINE t == now'
             eps == Open(affected, restarted, t)
             seen == Seen(restarted, t)[m]
  <1>3. /\ since'[m] = IF m \notin affected THEN NoTs
                       ELSE IF since[m] = NoTs THEN t ELSE since[m]
        /\ restartAt'[m] =
             IF m \notin affected \/ m \in message'.opened \/ message'.startup THEN NoTs
             ELSE IF m \in restarted THEN t ELSE restartAt[m]
    BY <1>2 DEF Coordinate, Watch
  <1>4. m \in affected /\ m \notin message'.opened /\ ~message'.startup
    BY <1>3
  <1>5. restartAt'[m] = IF m \in restarted THEN t ELSE restartAt[m]
    BY <1>3, <1>4
  <1>6. since'[m] = IF since[m] = NoTs THEN t ELSE since[m]
    BY <1>3, <1>4
  <1>7. since[m] <= now /\ since[m] \in Int /\ now \in Nat
    BY <1>1, Started DEF Times, NoTs, TypeOK
  <1>8. phase \in {"first", "running"} /\ ~SendsStartup
    <2>1. phase \in {"first", "running"}
      BY <1>1 DEF TypeOK
    <2>2. CASE phase = "first" /\ NotifyStartup
      <3>1. message' = [Nothing EXCEPT !.startup = TRUE]
        BY <1>2, <2>1, <2>2, MessageFacts
      <3>2. message'.startup
        BY <3>1 DEF Nothing
      <3>3. QED
        BY <1>4, <3>2
    <2>3. CASE phase = "running" \/ ~NotifyStartup
      BY <2>1, <2>3 DEF SendsStartup
    <2>4. QED
      BY <2>1, <2>2, <2>3
  <1>9. m \notin ToAnnounce(eps, t) =>
          active'[m].updateDue = eps[m].updateDue /\ (active'[m].sent <=> eps[m].sent)
    <2>1. m \notin ToAnnounce(eps, t) =>
            /\ active'[m].updateDue = eps[m].updateDue
            /\ active'[m].sent = (eps[m].sent \/ (SendsStartup /\ Active(eps[m])))
      BY <1>1, <1>2, EpisodeAfterTick
    <2>2. QED
      BY <1>8, <2>1
  <1>10. eps[m] = seen
    BY <1>4, OpenFacts
  <1>11. CASE phase = "first"
    <2>1. m \notin ToAnnounce(eps, t) /\ ~eps[m].sent
      BY <1>1, <1>11, FirstTickAnnouncesNothing
    <2>2. ~active'[m].sent
      BY <1>9, <2>1
    <2>3. since[m] = NoTs /\ restartAt[m] = NoTs
      BY <1>11 DEF EpisodeInv, Never
    <2>4. since'[m] = t /\ restartAt'[m] = t
      BY <1>5, <1>6, <2>3
    <2>5. QED
      BY <1>1, <2>2, <2>4 DEF NoTs
  <1>12. CASE phase = "running"
    <2>1. message'.opened = ToAnnounce(eps, t)
      <3>1. message' = Batch(eps, Waiting(affected, restarted, t), t)
        BY <1>2, <1>8, <1>12, MessageFacts
      <3>2. QED
        BY <3>1 DEF Batch
    <2>2. active'[m].updateDue = seen.updateDue /\ (active'[m].sent <=> seen.sent)
      BY <1>4, <1>9, <1>10, <2>1
    <2>3. restartAt[m] # NoTs => since[m] # NoTs /\ since[m] <= restartAt[m]
      BY <1>12 DEF RestartInv, Settled
    <2>4. since'[m] # NoTs /\ since'[m] <= restartAt'[m]
      BY <1>1, <1>5, <1>6, <1>7, <2>3 DEF NoTs
    <2>5. ASSUME seen.sent PROVE seen.updateDue = restartAt'[m] + Coalesce
      <3>1. since[m] # NoTs
        <4>1. since[m] = NoTs => seen = Opening(t)
          BY <1>1, SeenFacts
        <4>2. ~Opening(t).sent
          BY <1>1, OpeningType
        <4>3. QED
          BY <2>5, <4>1, <4>2
      <3>2. /\ seen.sent = active[m].sent
            /\ m \in restarted /\ active[m].sent => seen.updateDue = t + Coalesce
            /\ ~(m \in restarted /\ active[m].sent) => seen.updateDue = active[m].updateDue
        BY <1>1, <3>1, SeenFacts
      <3>3. active[m].sent
        BY <2>5, <3>2
      <3>4. CASE m \in restarted
        BY <1>5, <3>2, <3>3, <3>4
      <3>5. CASE m \notin restarted
        <4>1. restartAt'[m] = restartAt[m] /\ seen.updateDue = active[m].updateDue
          BY <1>5, <3>2, <3>5
        <4>2. active[m].updateDue = restartAt[m] + Coalesce
          BY <1>12, <3>3, <4>1 DEF RestartInv, Settled
        <4>3. QED
          BY <4>1, <4>2
      <3>6. QED
        BY <3>4, <3>5
    <2>6. QED
      BY <2>2, <2>4, <2>5
  <1>13. QED
    BY <1>8, <1>11, <1>12

LEMMA RestartInvStep ==
    ASSUME Coalesce > 0
    PROVE  TypeOK /\ EpisodeInv /\ RestartInv /\ [Next]_vars => RestartInv'
  <1> SUFFICES ASSUME TypeOK, EpisodeInv, RestartInv, [Next]_vars PROVE RestartInv'
    OBVIOUS
  <1>1. CASE Boot
    BY <1>1 DEF Boot, RestartInv, Settled
  <1>2. CASE Crash
    BY <1>2 DEF Crash, RestartInv, Settled
  <1>3. CASE Tick
    BY <1>3, RestartInvTick
  <1>4. CASE UNCHANGED vars
    BY <1>4 DEF vars, coordinator, ghosts, RestartInv, Settled
  <1>5. QED
    BY <1>1, <1>2, <1>3, <1>4 DEF Next

LEMMA Visible == TypeOK /\ EpisodeInv /\ RestartInv => RestartVisible
  <1> SUFFICES ASSUME TypeOK, EpisodeInv, RestartInv, Settled, NEW m \in Miners,
                      restartAt[m] # NoTs
               PROVE  now - restartAt[m] < Coalesce
    BY DEF RestartVisible
  <1>1. Tracked(m)
    BY DEF EpisodeInv, Settled
  <1>2. /\ now \in Nat /\ restartAt[m] \in Nat /\ since[m] \in Int
        /\ Coalesce \in Nat
    BY EpisodesAssumption DEF TypeOK, Times, NoTs
  <1>3. since[m] # NoTs /\ since[m] <= restartAt[m]
    BY DEF RestartInv
  <1>4. Active(active[m])
    BY <1>1, <1>3 DEF Tracked, Active
  <1>5. CASE active[m].sent
    <2>1. active[m].updateDue = restartAt[m] + Coalesce
      BY <1>5 DEF RestartInv
    <2>2. active[m].updateDue # NoTs
      BY <1>2, <2>1 DEF NoTs
    <2>3. now < active[m].updateDue
      BY <1>1, <2>2 DEF Tracked
    <2>4. QED
      BY <1>2, <2>1, <2>3
  <1>6. CASE ~active[m].sent
    <2>1. now < active[m].initialDue /\ active[m].initialDue = since[m] + Coalesce
      BY <1>1, <1>4, <1>6 DEF Tracked
    <2>2. QED
      BY <1>2, <1>3, <2>1
  <1>7. QED
    BY <1>5, <1>6

(* No restart of an irregular miner, other than one that STARTUP swallows, stays *)
(* out of the messages for Coalesce, in any execution.                          *)
THEOREM RestartReported ==
    Coalesce > 0 => (Spec => []RestartVisible)
  <1> SUFFICES ASSUME Coalesce > 0 PROVE Spec => []RestartVisible
    OBVIOUS
  <1>1. Init => TypeOK /\ EpisodeInv /\ RestartInv
    BY TypeInit, EpisodeInvInit DEF Init, RestartInv, Settled
  <1>2. TypeOK /\ EpisodeInv /\ RestartInv /\ [Next]_vars =>
          (TypeOK /\ EpisodeInv /\ RestartInv)'
    BY TypeStep, EpisodeInvStep, RestartInvStep
  <1>3. QED
    BY <1>1, <1>2, Visible, PTL DEF Spec-------------------------------------------------------------------------------
(* The last word about a miner that recovered.                                  *)

(* A recovery that waits is reported or goes on waiting: nothing else removes   *)
(* it while the monitor runs.                                                   *)
LEMMA ReportedOrWaiting ==
    ASSUME TypeOK, EpisodeInv, phase = "running", ~Muted,
           NEW affected \in SUBSET Miners, NEW restarted \in SUBSET Miners, NEW healthy \in SUBSET Miners,
           NEW t \in Nat, now < t, Coordinate(affected, restarted, healthy, t),
           NEW c \in Waiting(affected, restarted, t)
    PROVE  c \in message'.recovered \/ c \in recovered'
  <1> DEFINE closed == Waiting(affected, restarted, t)
  <1>1. /\ message'.recovered = ToReport(closed, t)
        /\ \/ ToReport(closed, t) = closed /\ recovered' = {}
           \/ /\ ToReport(closed, t) = {} /\ recovered' = closed
              /\ message'.recovered = {}
              /\ \A d \in closed : t < d.due
    BY RecoveryAfterTick
  <1>2. QED
    BY <1>1

LEMMA WordInvTick ==
    ASSUME TypeOK, EpisodeInv, WordInv, Tick, NotifyStartup
    PROVE  WordInv'
  <1>1. phase # "down" /\ now' \in Nat /\ now < now'
    BY TickFacts
  <1>2. PICK affected, restarted, healthy \in SUBSET Miners : Coordinate(affected, restarted, healthy, now')
    BY TickFacts
  <1> SUFFICES ASSUME ~Muted, NEW m \in Miners, okSince'[m] # NoTs, lastWord'[m] = "affected"
               PROVE  \E c \in recovered' : c.miner = m /\ c.due <= okSince'[m] + Coalesce
    BY DEF WordInv, Settled
  <1> DEFINE t == now'
             eps == Open(affected, restarted, t)
             closed == Waiting(affected, restarted, t)
  <1>3. /\ okSince'[m] = IF m \in affected THEN NoTs
                         ELSE IF okSince[m] = NoTs THEN t ELSE okSince[m]
        /\ lastWord'[m] = LastWord(m, message', affected, healthy)
    BY <1>2 DEF Coordinate, Watch
  <1>4. m \notin affected /\ okSince'[m] = IF okSince[m] = NoTs THEN t ELSE okSince[m]
    BY <1>3
  <1>5. phase = "first" => message'.startup
    <2>1. phase = "first" => message' = [Nothing EXCEPT !.startup = TRUE]
      BY <1>2, MessageFacts
    <2>2. QED
      BY <2>1 DEF Nothing
  <1>6. message'.startup => lastWord'[m] \in {"ok", "unconfirmed"}
    BY <1>3, <1>4 DEF LastWord
  <1>7. phase = "running"
    BY <1>1, <1>5, <1>6 DEF TypeOK
  <1>8. message' = Batch(eps, closed, t)
    BY <1>2, <1>7, MessageFacts
  <1>9. eps[m] = NoEpisode
    BY <1>4, OpenFacts
  <1>10. eps \in [Miners -> Episode]
    BY <1>1, SeenType
  <1>11. m \notin ToAnnounce(eps, t) /\ m \notin ToRemind(eps, t)
    BY <1>9, NoEpisodeType
       DEF ToAnnounce, ToRemind, UpdateIsDue, NextReminderDue
  <1>12. m \notin message'.opened \cup message'.persistent /\ ~message'.startup
    BY <1>8, <1>11 DEF Batch
  <1>13. /\ ~(\E c \in message'.recovered : c.miner = m)
         /\ lastWord[m] = "affected"
    BY <1>3, <1>12 DEF LastWord
  <1>14. PICK c \in closed : c.miner = m /\ c.due <= okSince'[m] + Coalesce
    <2>1. CASE okSince[m] # NoTs
      <3>1. PICK c \in recovered : c.miner = m /\ c.due <= okSince[m] + Coalesce
        BY <1>7, <1>13, <2>1 DEF WordInv, Settled
      <3>2. c \in closed
        BY <3>1 DEF Waiting
      <3>3. QED
        BY <1>4, <2>1, <3>1, <3>2
    <2>2. CASE okSince[m] = NoTs
      <3> DEFINE c == [miner |-> m, at |-> t, due |-> RecoveryDue(Seen(restarted, t)[m], t)]
      <3>1. since[m] # NoTs
        BY <1>7, <2>2 DEF EpisodeInv, Tracked
      <3>2. Active(active[m])
        BY <1>1, <3>1, Started DEF Active
      <3>3. m \in Ended(affected, restarted)
        BY <1>4, <3>2 DEF Ended
      <3>4. c \in closed
        BY <3>3 DEF Waiting
      <3>5. c.due <= c.at + Coalesce
        BY <1>1, <3>4, WaitingFacts
      <3>6. c.miner = m /\ c.at = t
        OBVIOUS
      <3> HIDE DEF c
      <3>7. QED
        BY <1>4, <2>2, <3>4, <3>5, <3>6
    <2>3. QED
      BY <2>1, <2>2
  <1>15. c \in message'.recovered \/ c \in recovered'
    BY <1>1, <1>2, <1>7, <1>14, ReportedOrWaiting
  <1>16. QED
    BY <1>13, <1>14, <1>15

LEMMA WordInvStep ==
    ASSUME NotifyStartup
    PROVE  TypeOK /\ EpisodeInv /\ WordInv /\ [Next]_vars => WordInv'
  <1> SUFFICES ASSUME TypeOK, EpisodeInv, WordInv, [Next]_vars PROVE WordInv'
    OBVIOUS
  <1>1. CASE Boot
    BY <1>1 DEF Boot, WordInv, Settled
  <1>2. CASE Crash
    BY <1>2 DEF Crash, WordInv, Settled
  <1>3. CASE Tick
    BY <1>3, WordInvTick
  <1>4. CASE UNCHANGED vars
    BY <1>4 DEF vars, coordinator, ghosts, WordInv, Settled
  <1>5. QED
    BY <1>1, <1>2, <1>3, <1>4 DEF Next

LEMMA WordHolds == TypeOK /\ EpisodeInv /\ WordInv => RecoveryHasLastWord
  <1> SUFFICES ASSUME TypeOK, EpisodeInv, WordInv, Settled, NEW m \in Miners,
                      okSince[m] # NoTs, now - okSince[m] >= Coalesce,
                      lastWord[m] = "affected"
               PROVE  FALSE
    BY DEF RecoveryHasLastWord
  <1>1. PICK c \in recovered : c.miner = m /\ c.due <= okSince[m] + Coalesce
    BY DEF WordInv
  <1>2. now < c.due
    BY DEF EpisodeInv, Settled
  <1>3. now \in Nat /\ okSince[m] \in Int /\ c.due \in Nat /\ Coalesce \in Nat
    BY EpisodesAssumption DEF TypeOK, Times, NoTs, Closed
  <1>4. QED
    BY <1>1, <1>2, <1>3

(* With STARTUP, whatever happened while the monitor was down, a miner that has *)
(* been OK for Coalesce is not left in the chat as affected, but for the label   *)
(* STARTUP gives a bad reading that no state confirms. Without STARTUP this is   *)
(* false: the restarted coordinator does not know what it once announced.       *)
THEOREM LastWordIsRecovery ==
    NotifyStartup => (Spec => []RecoveryHasLastWord)
  <1> SUFFICES ASSUME NotifyStartup PROVE Spec => []RecoveryHasLastWord
    OBVIOUS
  <1>1. Init => TypeOK /\ EpisodeInv /\ WordInv
    BY TypeInit, EpisodeInvInit DEF Init, WordInv, Settled
  <1>2. TypeOK /\ EpisodeInv /\ WordInv /\ [Next]_vars => (TypeOK /\ EpisodeInv /\ WordInv)'
    BY TypeStep, EpisodeInvStep, WordInvStep
  <1>3. QED
    BY <1>1, <1>2, WordHolds, PTL DEF Spec
-------------------------------------------------------------------------------
(* Reminders.                                                                   *)

(* _advance_missed_schedule stops at an age that has been reached.              *)
Missed(age) == Cardinality({i \in DOMAIN Schedule : Schedule[i] <= age})

LEMMA Ages ==
    /\ Coalesce \in Nat /\ Repeat \in Nat \ {0}
    /\ Len(Schedule) \in Nat \ {0} /\ DOMAIN Schedule = 1..Len(Schedule)
    /\ \A i \in 1..Len(Schedule) : Schedule[i] \in Nat \ {0}
    /\ \A i, j \in 1..Len(Schedule) : i <= j => Schedule[i] <= Schedule[j]
  <1>1. ASSUME NEW i \in 1..Len(Schedule), NEW j \in 1..Len(Schedule), i <= j
        PROVE  Schedule[i] <= Schedule[j]
    <2>1. CASE i = j
      BY <2>1, ScheduleFacts
    <2>2. CASE i # j
      <3>1. i < j /\ Schedule[i] \in Nat /\ Schedule[j] \in Nat
        BY <1>1, <2>2, ScheduleFacts
      <3>2. QED
        BY <3>1, ScheduleFacts
    <2>3. QED
      BY <2>1, <2>2
  <1>2. QED
    BY <1>1, ScheduleFacts

HIDE EpisodesAssumption DEF EpisodesAssumption

LEMMA MissedType ==
    ASSUME NEW age
    PROVE  Missed(age) \in 0..Len(Schedule) /\ Missed(age) \in Nat
  <1>1. Missed(age) \in 0..Len(Schedule)
    BY MissedCount DEF Missed
  <1>2. QED
    BY <1>1, Ages

LEMMA MissedIsReached ==
    ASSUME NEW age \in Int, Missed(age) > 0
    PROVE  Missed(age) \in 1..Len(Schedule) /\ Schedule[Missed(age)] <= age
  <1> DEFINE n == Missed(age)
             past == {i \in 1..Len(Schedule) : Schedule[i] <= age}
  <1>1. n \in 1..Len(Schedule) /\ n \in Nat
    BY MissedType, Ages
  <1>2. n = Cardinality(past)
    BY Ages DEF Missed
  <1> HIDE DEF n
  <1>3. SUFFICES ASSUME ~(Schedule[n] <= age) PROVE FALSE
    BY <1>1 DEF n
  <1>4. ASSUME NEW i \in past PROVE i \in 1..(n - 1)
    <2>1. i \in 1..Len(Schedule) /\ Schedule[i] <= age
      BY <1>4
    <2>2. n <= i => Schedule[n] <= Schedule[i]
      BY <1>1, <2>1, Ages
    <2>3. Schedule[n] \in Nat /\ Schedule[i] \in Nat /\ i \in Nat /\ i >= 1
      BY <1>1, <2>1, Ages
    <2>4. i < n
      BY <1>1, <1>3, <2>1, <2>2, <2>3
    <2>5. QED
      BY <1>1, <2>3, <2>4
  <1>5. past \subseteq 1..(n - 1)
    BY <1>4
  <1> HIDE DEF past
  <1>6. IsFiniteSet(1..(n - 1)) /\ Cardinality(1..(n - 1)) = n - 1
    <2>1. n - 1 \in Nat /\ 1 \in Int /\ n - 1 \in Int
      BY <1>1
    <2>2. IsFiniteSet(1..(n - 1))
            /\ Cardinality(1..(n - 1)) = IF 1 > n - 1 THEN 0 ELSE (n - 1) - 1 + 1
      BY <2>1, FS_Interval
    <2>3. QED
      BY <2>1, <2>2
  <1>7. Cardinality(past) <= Cardinality(1..(n - 1))
    BY <1>5, <1>6, FS_Subset
  <1>8. QED
    BY <1>1, <1>2, <1>6, <1>7

LEMMA AnnouncedIndices ==
    ASSUME NEW e \in Episode, NEW age
    PROVE  /\ AfterAnnouncement(e, age).reminderIndex = Later(e.reminderIndex, Missed(age))
           /\ AfterAnnouncement(e, age).repeatIndex = e.repeatIndex
  BY DEF AfterAnnouncement, AdvanceMissed, Missed, Episode

LEMMA RemindedIndices ==
    ASSUME NEW e \in Episode, NEW age
    PROVE  /\ InSchedule(e) =>
                /\ AfterReminder(e, age).reminderIndex = Later(e.reminderIndex + 1, Missed(age))
                /\ AfterReminder(e, age).repeatIndex = e.repeatIndex
           /\ ~InSchedule(e) =>
                /\ AfterReminder(e, age).reminderIndex = e.reminderIndex
                /\ AfterReminder(e, age).repeatIndex = e.repeatIndex + 1
  BY DEF AfterReminder, AdvanceMissed, Missed, Episode

(* A message sent at t recalls the episode at its last age, or up to Coalesce   *)
(* before it.                                                                   *)
RecalledAt(e, t) ==
    /\ e.repeatIndex >= 1 /\ (InSchedule(e) => e.repeatIndex = 1)
    /\ e.reminderIndex > 0 => t >= e.started + LastAge(e) - Coalesce

LEMMA AgeTypes ==
    ASSUME NEW e \in Episode
    PROVE  /\ NextAge(e) \in Nat
           /\ e.reminderIndex > 0 => LastAge(e) \in Int
  <1>1. e.reminderIndex \in 0..Len(Schedule) /\ e.repeatIndex \in Nat
    BY DEF Episode
  <1>2. CASE InSchedule(e)
    <2>1. e.reminderIndex + 1 \in 1..Len(Schedule)
      BY <1>1, <1>2, Ages DEF InSchedule
    <2>2. NextAge(e) \in Nat
      BY <1>2, <2>1, Ages DEF NextAge
    <2>3. e.reminderIndex > 0 => e.reminderIndex \in 1..Len(Schedule)
      BY <1>1, Ages
    <2>4. e.reminderIndex > 0 => LastAge(e) \in Int
      BY <1>2, <2>3, Ages DEF LastAge
    <2>5. QED
      BY <2>2, <2>4
  <1>3. CASE ~InSchedule(e)
    <2>1. Schedule[Len(Schedule)] \in Nat
      BY Ages
    <2>2. Repeat * e.repeatIndex \in Nat /\ Repeat * (e.repeatIndex - 1) \in Int
      BY <1>1, Ages
    <2>3. NextAge(e) \in Nat
      BY <1>3, <2>1, <2>2 DEF NextAge
    <2>4. LastAge(e) \in Int
      BY <1>3, <2>1, <2>2 DEF LastAge
    <2>5. QED
      BY <2>3, <2>4
  <1>4. QED
    BY <1>2, <1>3

LEMMA AnnouncementRecalls ==
    ASSUME NEW e \in Episode, Active(e), NEW t \in Nat, NEW told \in Int, told <= t,
           CountsReminders(e), RecalledAt(e, told) \/ ~e.sent
    PROVE  RecalledAt(AfterAnnouncement(e, t - e.started), t)
  <1> DEFINE age == t - e.started
             f == AfterAnnouncement(e, age)
  <1>0. /\ e.started \in Nat /\ age \in Int /\ e.reminderIndex \in 0..Len(Schedule)
        /\ e.reminderIndex \in Nat /\ e.repeatIndex \in Nat
        /\ Missed(age) \in 0..Len(Schedule) /\ Missed(age) \in Nat
        /\ Coalesce \in Nat
    <2>1. Missed(age) \in 0..Len(Schedule) /\ Missed(age) \in Nat
      BY MissedType
    <2>2. e.started \in Nat
      BY DEF Episode, Active, Times, NoTs
    <2>3. e.reminderIndex \in 0..Len(Schedule) /\ e.repeatIndex \in Nat
      BY DEF Episode
    <2>4. QED
      BY <2>1, <2>2, <2>3, Ages
  <1>1. /\ f.started = e.started /\ f.repeatIndex = e.repeatIndex
        /\ f.reminderIndex = Later(e.reminderIndex, Missed(age))
    BY AfterAnnouncementType, AnnouncedIndices
  <1> SUFFICES RecalledAt(f, t)
    OBVIOUS
  <1> HIDE DEF f
  <1>2. CASE f.reminderIndex = e.reminderIndex
    <2>1. LastAge(f) = LastAge(e) /\ InSchedule(f) = InSchedule(e)
      BY <1>1, <1>2 DEF LastAge, InSchedule
    <2>2. e.reminderIndex > 0 => LastAge(e) \in Int
      BY AgeTypes
    <2>3. f.repeatIndex >= 1 /\ (InSchedule(f) => f.repeatIndex = 1)
      BY <1>1, <2>1 DEF CountsReminders
    <2>4. ASSUME f.reminderIndex > 0 PROVE t >= f.started + LastAge(f) - Coalesce
      <3>1. RecalledAt(e, told) /\ e.reminderIndex > 0
        BY <1>0, <1>2, <2>4 DEF CountsReminders
      <3>2. told >= e.started + LastAge(e) - Coalesce
        BY <3>1 DEF RecalledAt
      <3>3. PICK last \in Int : last = LastAge(e) /\ last = LastAge(f)
        BY <2>1, <2>2, <3>1
      <3>4. t >= e.started + last - Coalesce
        <4>1. told \in Int /\ told <= t /\ t \in Nat
          OBVIOUS
        <4>2. e.started \in Nat /\ Coalesce \in Nat
          BY <1>0
        <4>3. told >= e.started + last - Coalesce
          BY <3>2, <3>3
        <4>4. QED
          BY <3>3, <4>1, <4>2, <4>3
      <3>5. QED
        BY <1>1, <3>3, <3>4
    <2>5. QED
      BY <2>3, <2>4 DEF RecalledAt
  <1>3. CASE f.reminderIndex # e.reminderIndex
    <2>1. f.reminderIndex = Missed(age) /\ Missed(age) > e.reminderIndex
      BY <1>0, <1>1, <1>3 DEF Later
    <2>2. InSchedule(e) /\ e.repeatIndex = 1
      BY <1>0, <2>1, Ages DEF InSchedule, CountsReminders
    <2>3. Missed(age) \in 1..Len(Schedule) /\ Schedule[Missed(age)] <= age
      BY <1>0, <2>1, MissedIsReached
    <2>4. LastAge(f) = Schedule[Missed(age)]
      BY <1>1, <2>1, <2>2, <2>3, Ages DEF LastAge, InSchedule
    <2>5. QED
      BY <1>0, <1>1, <2>2, <2>3, <2>4, Ages DEF RecalledAt
  <1>4. QED
    BY <1>2, <1>3

LEMMA ReminderRecalls ==
    ASSUME NEW e \in Episode, Active(e), NEW t \in Nat, CountsReminders(e),
           e.started + NextAge(e) <= t + Coalesce
    PROVE  RecalledAt(AfterReminder(e, t - e.started), t)
  <1> DEFINE age == t - e.started
             f == AfterReminder(e, age)
  <1>0. /\ e.started \in Nat /\ age \in Int /\ e.reminderIndex \in 0..Len(Schedule)
        /\ e.reminderIndex \in Nat /\ e.repeatIndex \in Nat
        /\ Missed(age) \in 0..Len(Schedule) /\ Missed(age) \in Nat
        /\ Coalesce \in Nat
    <2>1. Missed(age) \in 0..Len(Schedule) /\ Missed(age) \in Nat
      BY MissedType
    <2>2. e.started \in Nat
      BY DEF Episode, Active, Times, NoTs
    <2>3. e.reminderIndex \in 0..Len(Schedule) /\ e.repeatIndex \in Nat
      BY DEF Episode
    <2>4. QED
      BY <2>1, <2>2, <2>3, Ages
  <1>1. f.started = e.started
    BY AfterReminderType
  <1> SUFFICES RecalledAt(f, t)
    OBVIOUS
  <1>2. CASE InSchedule(e)
    <2>1. /\ f.reminderIndex = Later(e.reminderIndex + 1, Missed(age))
          /\ f.repeatIndex = e.repeatIndex /\ e.repeatIndex = 1
      BY <1>2, RemindedIndices DEF CountsReminders
    <2> HIDE DEF f
    <2>2. f.reminderIndex \in 1..Len(Schedule)
      BY <1>0, <1>2, <2>1, Ages DEF Later, InSchedule
    <2>3. LastAge(f) = Schedule[f.reminderIndex]
      BY <2>1, <2>2, Ages DEF LastAge, InSchedule
    <2>4. Schedule[f.reminderIndex] <= age + Coalesce
      <3>1. CASE f.reminderIndex = e.reminderIndex + 1
        <4>1. NextAge(e) = Schedule[f.reminderIndex]
          BY <1>2, <3>1 DEF NextAge
        <4>2. Schedule[f.reminderIndex] \in Nat
          BY <2>2, Ages
        <4>3. QED
          BY <1>0, <4>1, <4>2, Ages
      <3>2. CASE f.reminderIndex = Missed(age)
        <4>1. Missed(age) > 0
          BY <2>2, <3>2, Ages
        <4>2. Schedule[Missed(age)] <= age
          BY <1>0, <4>1, MissedIsReached
        <4>3. Schedule[f.reminderIndex] \in Nat /\ Schedule[f.reminderIndex] <= age
          BY <2>2, <3>2, <4>2, Ages
        <4> HIDE DEF age
        <4>4. QED
          BY <1>0, <4>3
      <3>3. QED
        BY <2>1, <3>1, <3>2 DEF Later
    <2>5. QED
      BY <1>0, <1>1, <2>1, <2>2, <2>3, <2>4, Ages DEF RecalledAt
  <1>3. CASE ~InSchedule(e)
    <2>1. f.reminderIndex = e.reminderIndex /\ f.repeatIndex = e.repeatIndex + 1
      BY <1>3, RemindedIndices
    <2> HIDE DEF f
    <2>2. ~InSchedule(f)
      BY <1>3, <2>1 DEF InSchedule
    <2>3. f.repeatIndex - 1 = e.repeatIndex
      BY <1>0, <2>1
    <2>4. LastAge(f) = Schedule[Len(Schedule)] + Repeat * e.repeatIndex
      BY <2>2, <2>3 DEF LastAge
    <2>5. LastAge(f) = NextAge(e)
      BY <1>3, <2>4 DEF NextAge
    <2>6. NextAge(e) \in Int
      BY AgeTypes
    <2>7. f.repeatIndex >= 1 /\ (InSchedule(f) => f.repeatIndex = 1)
      BY <1>0, <2>1, <2>2
    <2>8. t >= f.started + LastAge(f) - Coalesce
      <3>1. PICK next \in Int : next = NextAge(e)
        BY <2>6
      <3>2. QED
        BY <1>0, <1>1, <2>5, <3>1
    <2>9. QED
      BY <2>7, <2>8 DEF RecalledAt
  <1>4. QED
    BY <1>2, <1>3

LEMMA ObservedIndices ==
    ASSUME NEW e \in Episode, NEW r \in BOOLEAN, NEW t \in Nat, Active(e)
    PROVE  /\ Observed(e, r, t).reminderIndex = e.reminderIndex
           /\ Observed(e, r, t).repeatIndex = e.repeatIndex
  BY DEF Observed, Episode

(* An episode keeps its account when it is observed.                            *)
LEMMA SeenRecalled ==
    ASSUME TypeOK, EpisodeInv, ReminderInv, phase # "down", ~Muted, NotifyPersistent,
           NEW restarted \in SUBSET Miners, NEW t \in Nat, NEW m \in Miners
    PROVE  LET d == Seen(restarted, t)[m]
           IN  /\ CountsReminders(d)
               /\ d.sent => phase = "running" /\ RecalledAt(d, toldAt[m])
               /\ d.updateDue # NoTs =>
                    d.sent /\ (restartAt[m] # NoTs \/ m \in restarted)
  <1> DEFINE d == Seen(restarted, t)[m]
             e == active[m]
  <1>1. e \in Episode /\ d \in Episode /\ (Active(e) <=> since[m] # NoTs)
    BY SeenFacts, Started DEF TypeOK, Active
  <1>2. CASE since[m] = NoTs
    <2>1. d = Opening(t)
      BY <1>2, SeenFacts
    <2>2. d.reminderIndex = 0 /\ d.repeatIndex = 1 /\ ~d.sent /\ d.updateDue = NoTs
      BY <2>1 DEF Opening
    <2> HIDE DEF d
    <2>3. CountsReminders(d)
      BY <2>2 DEF CountsReminders
    <2>4. QED
      BY <2>2, <2>3 DEF d
  <1>3. CASE since[m] # NoTs
    <2>1. phase = "running"
      BY <1>3 DEF EpisodeInv, Never, TypeOK
    <2>2. Recalled(m)
      BY <1>1, <1>3, <2>1 DEF ReminderInv, Settled
    <2>3. d.reminderIndex = e.reminderIndex /\ d.repeatIndex = e.repeatIndex
      <3>1. CASE m \in restarted
        <4>1. d = Observed(e, TRUE, t)
          BY <3>1 DEF Seen, Observed
        <4>2. QED
          BY <1>1, <1>3, <4>1, ObservedIndices
      <3>2. CASE m \notin restarted
        <4>1. d = Observed(e, FALSE, t)
          BY <3>2 DEF Seen, Observed
        <4>2. QED
          BY <1>1, <1>3, <4>1, ObservedIndices
      <3>3. QED
        BY <3>1, <3>2
    <2>4. /\ d.started = since[m] /\ d.sent = e.sent
          /\ m \in restarted /\ e.sent => d.updateDue = t + Coalesce
          /\ ~(m \in restarted /\ e.sent) => d.updateDue = e.updateDue
      BY <1>3, SeenFacts
    <2>5. ~e.sent => e.updateDue = NoTs
      BY Started
    <2> HIDE DEF d, e
    <2>6. CountsReminders(d)
      BY <2>2, <2>3, <2>4 DEF Recalled, CountsReminders, InSchedule, e
    <2>7. d.sent => RecalledAt(d, toldAt[m])
      <3>1. LastAge(d) = LastAge(e) /\ (InSchedule(d) <=> InSchedule(e))
        BY <2>3 DEF LastAge, InSchedule
      <3>2. QED
        BY <2>2, <2>3, <2>4, <2>6, <3>1 DEF Recalled, RecalledAt, CountsReminders, e
    <2>8. d.updateDue # NoTs => d.sent /\ (restartAt[m] # NoTs \/ m \in restarted)
      BY <2>2, <2>4, <2>5 DEF Recalled, e
    <2>9. QED
      BY <2>1, <2>6, <2>7, <2>8 DEF d
  <1>4. QED
    BY <1>2, <1>3

(* A tick moves the indices as pop_due does: STARTUP leaves them alone.         *)
LEMMA IndicesAfterTick ==
    ASSUME TypeOK, NEW affected \in SUBSET Miners, NEW restarted \in SUBSET Miners, NEW healthy \in SUBSET Miners,
           NEW t \in Nat, Coordinate(affected, restarted, healthy, t), NEW m \in Miners
    PROVE  LET pop == Popped(Open(affected, restarted, t), t)
           IN  /\ active'[m].reminderIndex = pop[m].reminderIndex
               /\ active'[m].repeatIndex = pop[m].repeatIndex
               /\ active'[m].started = pop[m].started
  <1> DEFINE eps == Open(affected, restarted, t)
             pop == Popped(eps, t)
  <1>1. eps \in [Miners -> Episode]
    BY SeenType
  <1>2. pop[m] \in Episode
    BY <1>1, PoppedFacts
  <1>3. active' = IF SendsStartup THEN Acknowledged(pop) ELSE pop
    BY DEF Coordinate
  <1> HIDE DEF eps, pop
  <1>4. Acknowledged(pop)[m] = IF Active(pop[m]) THEN [pop[m] EXCEPT !.sent = TRUE] ELSE pop[m]
    BY DEF Acknowledged
  <1>5. /\ Acknowledged(pop)[m].reminderIndex = pop[m].reminderIndex
        /\ Acknowledged(pop)[m].repeatIndex = pop[m].repeatIndex
        /\ Acknowledged(pop)[m].started = pop[m].started
    BY <1>2, <1>4 DEF Episode
  <1>6. QED
    BY <1>3, <1>5 DEF pop, eps

LEMMA PoppedCases ==
    ASSUME NEW eps \in [Miners -> Episode], NEW t \in Nat, NEW m \in Miners
    PROVE  /\ m \in ToAnnounce(eps, t) =>
                Popped(eps, t)[m] = AfterAnnouncement(eps[m], t - eps[m].started)
           /\ m \notin ToAnnounce(eps, t) /\ m \in ToRemind(eps, t) =>
                Popped(eps, t)[m] = AfterReminder(eps[m], t - eps[m].started)
           /\ m \notin ToAnnounce(eps, t) /\ m \notin ToRemind(eps, t) =>
                Popped(eps, t)[m] = eps[m]
  <1> DEFINE age == t - eps[m].started
  <1>0. ~(m \in ToAnnounce(eps, t) /\ m \in ToRemind(eps, t))
    BY DEF ToRemind
  <1> HIDE DEF age
  <1>1. m \in ToAnnounce(eps, t) => Popped(eps, t)[m] = AfterAnnouncement(eps[m], age)
    BY <1>0 DEF Popped, age
  <1>2. m \notin ToAnnounce(eps, t) /\ m \in ToRemind(eps, t) =>
          Popped(eps, t)[m] = AfterReminder(eps[m], age)
    BY DEF Popped, age
  <1>3. m \notin ToAnnounce(eps, t) /\ m \notin ToRemind(eps, t) => Popped(eps, t)[m] = eps[m]
    BY DEF Popped
  <1>4. QED
    BY <1>1, <1>2, <1>3 DEF age

LEMMA DueFacts ==
    ASSUME NEW e \in Episode
    PROVE  /\ NextReminderDue(e) # NoTs => e.sent /\ e.updateDue = NoTs
           /\ e.sent /\ e.updateDue = NoTs => NextReminderDue(e) = e.started + NextAge(e)
  <1>1. CASE e.sent /\ e.updateDue = NoTs /\ InSchedule(e)
    <2>1. NextReminderDue(e) = e.started + Schedule[e.reminderIndex + 1]
      BY <1>1 DEF NextReminderDue
    <2>2. NextAge(e) = Schedule[e.reminderIndex + 1]
      BY <1>1 DEF NextAge
    <2>3. QED
      BY <1>1, <2>1, <2>2
  <1>2. CASE e.sent /\ e.updateDue = NoTs /\ ~InSchedule(e)
    <2>1. NextReminderDue(e) = e.started + Schedule[Len(Schedule)] + Repeat * e.repeatIndex
      BY <1>2 DEF NextReminderDue
    <2>2. NextAge(e) = Schedule[Len(Schedule)] + Repeat * e.repeatIndex
      BY <1>2 DEF NextAge
    <2>3. /\ e.started \in Int /\ Schedule[Len(Schedule)] \in Int
          /\ Repeat * e.repeatIndex \in Int
      BY Ages DEF Episode, Times, NoTs
    <2>4. QED
      BY <1>2, <2>1, <2>2, <2>3
  <1>3. CASE ~e.sent \/ e.updateDue # NoTs
    BY <1>3 DEF NextReminderDue
  <1>4. QED
    BY <1>1, <1>2, <1>3

LEMMA ReminderInvTick ==
    ASSUME TypeOK, EpisodeInv, ReminderInv, Tick, NotifyStartup \/ Coalesce > 0
    PROVE  ReminderInv'
  <1>1. phase # "down" /\ phase' = "running" /\ now' \in Nat /\ now < now' /\ now \in Nat
    BY TickFacts DEF TypeOK
  <1>2. PICK affected, restarted, healthy \in SUBSET Miners : Coordinate(affected, restarted, healthy, now')
    BY TickFacts
  <1> DEFINE t == now'
             eps == Open(affected, restarted, t)
  <1>3. ASSUME NEW m \in Miners
        PROVE  /\ toldAt'[m] =
                    IF m \in message'.opened \cup message'.persistent
                         \/ (message'.startup /\ m \in affected)
                    THEN t ELSE toldAt[m]
               /\ restartAt'[m] =
                    IF m \notin affected \/ m \in message'.opened \/ message'.startup
                    THEN NoTs ELSE IF m \in restarted THEN t ELSE restartAt[m]
               /\ since'[m] = IF m \notin affected THEN NoTs
                             ELSE IF since[m] = NoTs THEN t ELSE since[m]
    BY <1>2 DEF Coordinate, Watch
  <1>4. ASSUME NEW m \in Miners PROVE toldAt'[m] <= t /\ toldAt[m] <= t /\ toldAt[m] \in Int
    <2>1. toldAt[m] <= now /\ toldAt[m] \in Int
      BY DEF ReminderInv, TypeOK, Times, NoTs
    <2>2. toldAt'[m] = t \/ toldAt'[m] = toldAt[m]
      BY <1>3
    <2>3. QED
      BY <1>1, <2>1, <2>2
  <1>5. ASSUME ~Muted, NotifyPersistent, NEW m \in Miners, Active(active'[m])
        PROVE  Recalled(m)'
    <2> DEFINE d == eps[m]
               e == active'[m]
    <2>1. Tracked(m)'
      BY <1>1, <1>2, TrackedAfterTick
    <2>2. since'[m] = e.started /\ since'[m] # NoTs /\ since'[m] <= t
      BY <1>5, <2>1 DEF Tracked, Active
    <2>3. m \in affected /\ d = Seen(restarted, t)[m]
      BY <1>3, <2>2, OpenFacts
    <2>4. /\ CountsReminders(d) /\ d \in Episode /\ Active(d)
          /\ d.sent => phase = "running" /\ RecalledAt(d, toldAt[m])
          /\ d.updateDue # NoTs => d.sent /\ (restartAt[m] # NoTs \/ m \in restarted)
      BY <1>1, <1>5, <2>3, SeenRecalled, SeenFacts
    <2>5. /\ e \in Episode /\ e.started = d.started
          /\ m \in ToAnnounce(eps, t) => e.sent /\ e.updateDue = NoTs
          /\ m \notin ToAnnounce(eps, t) => e.updateDue = d.updateDue
          /\ m \notin ToAnnounce(eps, t) => (e.sent <=> (d.sent \/ SendsStartup))
      <3>1. active' \in [Miners -> Episode]
        BY <1>1, <1>2, EpisodeAfterTick
      <3>2. /\ e.started = d.started
            /\ m \in ToAnnounce(eps, t) => e.sent /\ e.updateDue = NoTs
            /\ m \notin ToAnnounce(eps, t) =>
                 /\ e.updateDue = d.updateDue
                 /\ e.sent = (d.sent \/ (SendsStartup /\ Active(d)))
        BY <1>1, <1>2, EpisodeAfterTick
      <3> HIDE DEF eps, d
      <3>3. QED
        BY <2>4, <3>1, <3>2
    <2>6. phase \in {"first", "running"}
      BY <1>1 DEF TypeOK
    <2>7. phase = "first" /\ NotifyStartup => toldAt'[m] = t
      <3>1. SUFFICES ASSUME phase = "first", NotifyStartup PROVE message'.startup
        BY <1>3, <2>3
      <3>2. QED
        BY <1>2, <1>5, <2>6, <3>1, MessageFacts DEF Nothing
    <2>8. phase = "running" =>
            /\ message'.opened = ToAnnounce(eps, t) /\ message'.persistent = ToRemind(eps, t)
            /\ ~message'.startup /\ ~SendsStartup
      BY <1>2, <1>5, <2>6, MessageFacts DEF Batch
    <2>9. phase = "first" /\ ~NotifyStartup =>
            m \notin ToAnnounce(eps, t) /\ ~SendsStartup
      BY <1>1, FirstTickAnnouncesNothing DEF SendsStartup
    <2> DEFINE pop == Popped(eps, t)
    <2>10. /\ e.reminderIndex = pop[m].reminderIndex /\ e.repeatIndex = pop[m].repeatIndex
           /\ e.started = pop[m].started
      BY <1>1, <1>2, IndicesAfterTick
    <2>11. /\ m \in ToAnnounce(eps, t) => pop[m] = AfterAnnouncement(d, t - d.started)
           /\ m \notin ToAnnounce(eps, t) /\ m \in ToRemind(eps, t) =>
                pop[m] = AfterReminder(d, t - d.started)
           /\ m \notin ToAnnounce(eps, t) /\ m \notin ToRemind(eps, t) => pop[m] = d
      <3>1. eps \in [Miners -> Episode]
        BY <1>1, SeenType
      <3> HIDE DEF eps
      <3>2. QED
        BY <1>1, <3>1, PoppedCases
    <2>12. pop[m].started = since'[m]
      BY <2>2, <2>10
    <2>13. PICK p : p = pop[m]
      OBVIOUS
    <2>14. /\ e.reminderIndex = p.reminderIndex /\ e.repeatIndex = p.repeatIndex
           /\ e.started = p.started
      BY <2>10, <2>13
    <2> HIDE DEF pop, d
    <2>15. /\ LastAge(e) = LastAge(p) /\ NextAge(e) = NextAge(p)
           /\ InSchedule(e) <=> InSchedule(p)
      BY <2>14 DEF LastAge, NextAge, InSchedule
    <2>16. ASSUME toldAt'[m] = t, RecalledAt(p, t), e.sent, e.updateDue = NoTs
           PROVE  Recalled(m)'
      BY <2>2, <2>14, <2>15, <2>16 DEF Recalled, RecalledAt, CountsReminders
    <2>17. CASE m \in ToAnnounce(eps, t)
      <3>1. toldAt'[m] = t
        BY <1>3, <2>6, <2>7, <2>8, <2>9, <2>17
      <3>2. RecalledAt(AfterAnnouncement(d, t - d.started), t)
        BY <1>1, <1>4, <2>4, AnnouncementRecalls
      <3>3. RecalledAt(p, t)
        BY <2>11, <2>13, <2>17, <3>2
      <3>4. QED
        BY <2>5, <2>16, <2>17, <3>1, <3>3
    <2>18. CASE m \notin ToAnnounce(eps, t) /\ m \in ToRemind(eps, t)
      <3>1. NextReminderDue(d) # NoTs /\ NextReminderDue(d) <= t + Coalesce
        BY <2>18 DEF ToRemind, d
      <3>2. d.sent /\ d.updateDue = NoTs /\ d.started + NextAge(d) <= t + Coalesce
        BY <2>4, <3>1, DueFacts
      <3>3. toldAt'[m] = t
        BY <1>3, <2>4, <2>8, <2>18, <3>2
      <3>4. RecalledAt(AfterReminder(d, t - d.started), t)
        BY <1>1, <2>4, <3>2, ReminderRecalls
      <3>5. RecalledAt(p, t)
        BY <2>11, <2>13, <2>18, <3>4
      <3>6. QED
        BY <2>5, <2>16, <2>18, <3>2, <3>3, <3>5
    <2>19. CASE m \notin ToAnnounce(eps, t) /\ m \notin ToRemind(eps, t)
      <3>1. p = d
        BY <2>11, <2>13, <2>19
      <3>2. CountsReminders(e)
        BY <2>4, <2>5, <2>14, <2>15, <2>19, <3>1 DEF CountsReminders
      <3>3. CASE phase = "first"
        <4>1. ~d.sent /\ d.reminderIndex = 0 /\ d.updateDue = NoTs
          BY <2>4, <3>3 DEF CountsReminders
        <4>2. e.reminderIndex = 0 /\ e.updateDue = NoTs
          BY <2>5, <2>14, <2>19, <3>1, <4>1
        <4>3. e.sent => toldAt'[m] = t
          BY <2>5, <2>7, <2>9, <2>19, <3>3, <4>1
        <4>4. QED
          BY <3>2, <4>2, <4>3 DEF Recalled
      <3>4. CASE phase = "running"
        <4>1. toldAt'[m] = toldAt[m]
              /\ restartAt'[m] = IF m \in restarted THEN t ELSE restartAt[m]
          BY <1>3, <2>3, <2>8, <2>19, <3>4
        <4>2. (e.sent <=> d.sent) /\ e.updateDue = d.updateDue
          BY <2>5, <2>8, <2>19, <3>4
        <4>3. e.updateDue # NoTs => restartAt'[m] # NoTs
          BY <1>1, <2>4, <4>1, <4>2 DEF NoTs
        <4>4. e.sent => RecalledAt(d, toldAt[m])
          BY <2>4, <4>2
        <4>5. e.sent /\ e.reminderIndex > 0 =>
                toldAt'[m] >= since'[m] + LastAge(e) - Coalesce
          BY <2>2, <2>14, <2>15, <3>1, <4>1, <4>4 DEF RecalledAt
        <4>6. ASSUME e.sent, restartAt'[m] = NoTs PROVE t - since'[m] < NextAge(e)
          <5>1. d.sent /\ d.updateDue = NoTs
            BY <1>1, <2>4, <4>1, <4>2, <4>6 DEF NoTs
          <5>2. NextReminderDue(d) = d.started + NextAge(d)
            BY <2>4, <5>1, DueFacts
          <5>3. NextAge(d) \in Nat /\ d.started \in Nat /\ Coalesce \in Nat
            BY <2>4, AgeTypes, Ages DEF Episode, Active, Times, NoTs
          <5>4. ~(t >= d.started + NextAge(d))
            <6>1. SUFFICES ASSUME t >= d.started + NextAge(d) PROVE FALSE
              OBVIOUS
            <6>2. NextReminderDue(d) # NoTs /\ t >= NextReminderDue(d)
              BY <5>2, <5>3, <6>1 DEF NoTs
            <6>3. PersistentBatchDue(eps, t)
              BY <6>2 DEF PersistentBatchDue, ReminderIsDue, d
            <6>4. NextReminderDue(d) <= t + Coalesce
              BY <1>1, <5>2, <5>3, <6>1
            <6>5. QED
              BY <2>19, <6>2, <6>3, <6>4 DEF ToRemind, d
          <5>5. NextAge(e) = NextAge(d) /\ since'[m] = d.started
            BY <2>2, <2>5, <2>15, <3>1
          <5>6. QED
            BY <1>1, <5>3, <5>4, <5>5
        <4>7. QED
          BY <3>2, <4>3, <4>5, <4>6 DEF Recalled
      <3>5. QED
        BY <2>6, <3>3, <3>4
    <2>20. QED
      BY <2>17, <2>18, <2>19
  <1>6. QED
    BY <1>4, <1>5 DEF ReminderInv, Settled

LEMMA ReminderInvStep ==
    ASSUME NotifyStartup \/ Coalesce > 0
    PROVE  TypeOK /\ EpisodeInv /\ ReminderInv /\ [Next]_vars => ReminderInv'
  <1> SUFFICES ASSUME TypeOK, EpisodeInv, ReminderInv, [Next]_vars PROVE ReminderInv'
    OBVIOUS
  <1>1. CASE Boot
    BY <1>1 DEF Boot, ReminderInv, Settled, ghosts
  <1>2. CASE Crash
    BY <1>2 DEF Crash, ReminderInv, Settled
  <1>3. CASE Tick
    BY <1>3, ReminderInvTick
  <1>4. CASE UNCHANGED vars
    <2>1. UNCHANGED <<now, phase, active, since, restartAt, toldAt>>
      BY <1>4 DEF vars, coordinator, ghosts
    <2>2. \A m \in Miners : Recalled(m) => Recalled(m)'
      BY <2>1 DEF Recalled
    <2>3. QED
      BY <2>1, <2>2 DEF ReminderInv, Settled
  <1>5. QED
    BY <1>1, <1>2, <1>3, <1>4 DEF Next

(* An age below the next one is at most the last one.                           *)
LEMMA AgeReached ==
    ASSUME NEW x \in Int, NEW a \in ReminderAges(x)
    PROVE  a \in Int /\ a <= x
  <1>1. \/ \E j \in 1..Len(Schedule) : a = Schedule[j] /\ Schedule[j] <= x
        \/ \E k \in 1..x : a = Schedule[Len(Schedule)] + Repeat * k /\ a <= x
    BY Ages DEF ReminderAges
  <1>2. ASSUME NEW k \in 1..x PROVE Schedule[Len(Schedule)] + Repeat * k \in Int
    <2>1. Repeat * k \in Int /\ Schedule[Len(Schedule)] \in Int
      BY Ages
    <2>2. QED
      BY <2>1
  <1>3. QED
    BY <1>1, <1>2, Ages

LEMMA Monotone ==
    ASSUME NEW r \in Nat, NEW j \in Nat, NEW k \in Nat, j <= k
    PROVE  r * j <= r * k
  <1>1. PICK d \in Nat : k = j + d
    <2>1. k - j \in Nat /\ k = j + (k - j)
      OBVIOUS
    <2>2. QED
      BY <2>1
  <1>2. r * k = r * j + r * d /\ r * d \in Nat /\ r * j \in Nat
    BY <1>1
  <1>3. QED
    BY <1>2

LEMMA AgesBetween ==
    ASSUME NEW e \in Episode, CountsReminders(e), NEW x \in Int,
           NEW a \in ReminderAges(x), a < NextAge(e)
    PROVE  e.reminderIndex > 0 /\ a <= LastAge(e) /\ LastAge(e) \in Int /\ a \in Int
  <1> DEFINE n == Len(Schedule)
             i == e.reminderIndex
             rep == e.repeatIndex
  <1>1. n \in Nat \ {0} /\ i \in 0..n /\ rep \in Nat /\ rep >= 1
    BY Ages DEF Episode, CountsReminders
  <1>2. \/ \E j \in 1..n : a = Schedule[j]
        \/ \E k \in 1..x : a = Schedule[n] + Repeat * k
    BY Ages DEF ReminderAges
  <1>3. CASE InSchedule(e)
    <2>1. i + 1 \in 1..n /\ NextAge(e) = Schedule[i + 1] /\ LastAge(e) = Schedule[i]
      BY <1>1, <1>3 DEF InSchedule, NextAge, LastAge
    <2>2. CASE \E j \in 1..n : a = Schedule[j]
      <3>1. PICK j \in 1..n : a = Schedule[j]
        BY <2>2
      <3>2. ~(i + 1 <= j)
        <4>1. i + 1 <= j => Schedule[i + 1] <= Schedule[j]
          BY <2>1, Ages
        <4>2. Schedule[i + 1] \in Nat /\ Schedule[j] \in Nat
          BY <2>1, Ages
        <4>3. QED
          BY <2>1, <3>1, <4>1, <4>2
      <3>3. i \in 1..n /\ j <= i
        BY <1>1, <3>2
      <3>4. Schedule[j] <= Schedule[i] /\ Schedule[i] \in Nat /\ Schedule[j] \in Nat
        BY <3>3, Ages
      <3>5. QED
        BY <2>1, <3>1, <3>3, <3>4
    <2>3. CASE \E k \in 1..x : a = Schedule[n] + Repeat * k
      <3>1. PICK k \in 1..x : a = Schedule[n] + Repeat * k
        BY <2>3
      <3>2. Repeat * k \in Nat
        BY Ages
      <3>3. n \in 1..n /\ i + 1 <= n
        BY <1>1, <2>1
      <3>4. Schedule[i + 1] <= Schedule[n] /\ Schedule[n] \in Nat /\ Schedule[i + 1] \in Nat
        BY <2>1, <3>3, Ages
      <3>5. QED
        BY <2>1, <3>1, <3>2, <3>4
    <2>4. QED
      BY <1>2, <2>2, <2>3
  <1>4. CASE ~InSchedule(e)
    <2>1. /\ i = n /\ NextAge(e) = Schedule[n] + Repeat * rep
          /\ LastAge(e) = Schedule[n] + Repeat * (rep - 1)
      BY <1>1, <1>4 DEF InSchedule, NextAge, LastAge
    <2>2. n \in 1..n /\ Schedule[n] \in Nat /\ rep - 1 \in Nat
      BY <1>1, Ages
    <2>3. Repeat * (rep - 1) \in Nat /\ Repeat * rep \in Nat
      BY <1>1, <2>2, Ages
    <2>4. CASE \E j \in 1..n : a = Schedule[j]
      <3>1. PICK j \in 1..n : a = Schedule[j]
        BY <2>4
      <3>2. j <= n /\ Schedule[j] \in Nat /\ Schedule[j] <= Schedule[n]
        BY <1>1, <2>2, Ages
      <3>3. LastAge(e) >= Schedule[n] /\ LastAge(e) \in Int
        BY <2>1, <2>2, <2>3
      <3>4. QED
        BY <1>1, <2>1, <2>2, <3>1, <3>2, <3>3
    <2>5. CASE \E k \in 1..x : a = Schedule[n] + Repeat * k
      <3>1. PICK k \in 1..x : a = Schedule[n] + Repeat * k
        BY <2>5
      <3>2. k \in Nat /\ Repeat * k \in Nat
        BY Ages
      <3>3. Repeat * k < Repeat * rep
        BY <2>1, <2>2, <2>3, <3>1, <3>2
      <3>4. k <= rep - 1 => Repeat * k <= Repeat * (rep - 1)
        BY <2>2, <3>2, Ages, Monotone
      <3>5. rep <= k => Repeat * rep <= Repeat * k
        BY <1>1, <3>2, Ages, Monotone
      <3>6. k <= rep - 1
        <4>1. PICK A, B \in Nat : A = Repeat * k /\ B = Repeat * rep
          BY <2>3, <3>2
        <4>2. rep > k
          BY <1>1, <3>2, <3>3, <3>5, <4>1
        <4>3. QED
          BY <1>1, <3>2, <4>2
      <3>7. Repeat * k <= Repeat * (rep - 1)
        BY <3>4, <3>6
      <3>8. i > 0 /\ a <= Schedule[n] + Repeat * (rep - 1)
        <4>1. PICK A, B, C \in Int : /\ A = Schedule[n] /\ B = Repeat * k
                                      /\ C = Repeat * (rep - 1)
          BY <2>2, <2>3, <3>2
        <4>2. A + B <= A + C
          BY <3>7, <4>1
        <4>3. i > 0
          BY <1>1, <2>1
        <4>4. QED
          BY <3>1, <4>1, <4>2, <4>3
      <3>9. Schedule[n] + Repeat * (rep - 1) \in Int /\ a \in Int
        BY <2>2, <2>3, <3>1, <3>2
      <3>10. QED
        BY <2>1, <3>8, <3>9
    <2>6. QED
      BY <1>2, <2>4, <2>5
  <1>5. QED
    BY <1>3, <1>4

LEMMA OnSchedule == TypeOK /\ EpisodeInv /\ ReminderInv => RemindedOnSchedule
  <1> SUFFICES ASSUME TypeOK, EpisodeInv, ReminderInv, Settled, NotifyPersistent,
                      NEW m \in Miners, since[m] # NoTs, now - since[m] >= Coalesce,
                      restartAt[m] = NoTs, NEW a \in ReminderAges(now - since[m])
               PROVE  toldAt[m] >= since[m] + a - Coalesce
    BY DEF RemindedOnSchedule
  <1> DEFINE e == active[m]
  <1>1. /\ Tracked(m) /\ now \in Nat /\ since[m] \in Nat /\ e \in Episode
        /\ toldAt[m] \in Int /\ Coalesce \in Nat
    BY Ages DEF EpisodeInv, Settled, TypeOK, Times, NoTs
  <1>2. Active(e) /\ e.initialDue = since[m] + Coalesce
    BY <1>1 DEF Tracked, Active
  <1>3. e.sent
    <2>1. ~(now < e.initialDue)
      BY <1>1, <1>2
    <2>2. QED
      BY <1>1, <1>2, <2>1 DEF Tracked
  <1>4. Recalled(m)
    BY <1>2 DEF ReminderInv
  <1>5. a \in Int /\ a <= now - since[m]
    BY <1>1, AgeReached
  <1> HIDE DEF e
  <1>6. CASE toldAt[m] = now
    BY <1>1, <1>5, <1>6
  <1>7. CASE now - since[m] < NextAge(e)
    <2>1. NextAge(e) \in Nat
      BY <1>1, AgeTypes
    <2>2. a < NextAge(e)
      BY <1>1, <1>5, <1>7, <2>1
    <2>3. CountsReminders(e) /\ now - since[m] \in Int
      BY <1>1, <1>4 DEF Recalled, e
    <2>4. e.reminderIndex > 0 /\ a <= LastAge(e) /\ LastAge(e) \in Int
      BY <1>1, <2>2, <2>3, AgesBetween
    <2>5. toldAt[m] >= since[m] + LastAge(e) - Coalesce
      BY <1>3, <1>4, <2>4 DEF Recalled, e
    <2>6. QED
      BY <1>1, <1>5, <2>4, <2>5
  <1>8. QED
    BY <1>3, <1>4, <1>6, <1>7 DEF Recalled, e

(* No reminder age of an announced episode passes in silence, for every         *)
(* schedule, repetition interval and spacing of the ticks. The condition is the *)
(* one of AlwaysAnnounced: otherwise the dropped first batch counts as read.    *)
THEOREM RemindersAreOnSchedule ==
    NotifyStartup \/ Coalesce > 0 => (Spec => []RemindedOnSchedule)
  <1> SUFFICES ASSUME NotifyStartup \/ Coalesce > 0 PROVE Spec => []RemindedOnSchedule
    OBVIOUS
  <1>1. Init => ReminderInv
    <2>1. SUFFICES ASSUME Init, NEW m \in Miners PROVE toldAt[m] <= now /\ ~Settled
      BY DEF ReminderInv
    <2>2. QED
      BY <2>1 DEF Init, Never, NoTs, Settled
  <1>2. Init => TypeOK /\ EpisodeInv /\ ReminderInv
    BY <1>1, TypeInit, EpisodeInvInit
  <1>3. TypeOK /\ EpisodeInv /\ ReminderInv /\ [Next]_vars =>
          (TypeOK /\ EpisodeInv /\ ReminderInv)'
    BY TypeStep, EpisodeInvStep, ReminderInvStep
  <1>4. QED
    BY <1>2, <1>3, OnSchedule, PTL DEF Spec
-------------------------------------------------------------------------------
(* No reminder in two ticks in a row.                                           *)

(* Two ticks and the grouping window fit between any two reminder ages.         *)
SpacedAges ==
    \A g, h \in Gaps :
        /\ g + h + Coalesce <= Repeat
        /\ \A i \in 2..Len(Schedule) : Schedule[i - 1] + g + h + Coalesce <= Schedule[i]

(* A miner that does not restart is reminded of in two ticks in a row: that of  *)
(* one that does may be, when its notices have held the reminders back.         *)
SteadyRemindersAreSpaced ==
    [][now' # now => message.persistent \cap message'.persistent \subseteq Restarting]_vars

(* The next reminder of a miner that does not restart is not due, and after a   *)
(* reminder it cannot be, nor join others, in the next tick.                    *)
FarAhead(e) == \A g \in Gaps : now + g + Coalesce < e.started + NextAge(e)

Ahead(m) ==
    /\ active[m].sent => active[m].updateDue = NoTs /\ now < active[m].started + NextAge(active[m])
    /\ m \in message.persistent => active[m].sent /\ FarAhead(active[m])

AheadInv ==
    /\ \A m \in Miners : active[m].repeatIndex >= 1
    /\ phase # "running" => message.persistent = {}
    /\ phase = "running" => \A m \in Miners \ Restarting : Ahead(m)

LEMMA GapTypes == Gaps \subseteq Nat \ {0}
  BY EpisodesAssumption DEF EpisodesAssumption

(* _advance_missed_schedule stops before an age that has not been reached.      *)
LEMMA NotMissed ==
    ASSUME NEW age \in Int, NEW i \in 1..Len(Schedule), i > Missed(age)
    PROVE  age < Schedule[i]
  <1> DEFINE past == {j \in 1..Len(Schedule) : Schedule[j] <= age}
             n == Missed(age)
  <1>0. n = Cardinality(past)
    BY Ages DEF Missed
  <1>1. n \in Nat /\ i \in Nat /\ Schedule[i] \in Nat
    BY MissedType, Ages
  <1> HIDE DEF n
  <1>2. SUFFICES ASSUME Schedule[i] <= age PROVE FALSE
    BY <1>1
  <1>3. ASSUME NEW j \in 1..i PROVE j \in past
    <2>1. j \in 1..Len(Schedule) /\ j <= i
      BY <1>1, Ages
    <2>2. Schedule[j] <= Schedule[i] /\ Schedule[j] \in Nat
      BY <2>1, Ages
    <2>3. QED
      BY <1>1, <1>2, <2>1, <2>2
  <1>4. 1..i \subseteq past /\ past \subseteq 1..Len(Schedule)
    BY <1>3
  <1> HIDE DEF past
  <1>5. IsFiniteSet(1..Len(Schedule)) /\ Cardinality(1..i) = i
    <2>1. 1 \in Int /\ i \in Int /\ i >= 1 /\ Len(Schedule) \in Int
      BY <1>1, Ages
    <2>2. IsFiniteSet(1..Len(Schedule))
            /\ Cardinality(1..i) = IF 1 > i THEN 0 ELSE i - 1 + 1
      BY <2>1, FS_Interval
    <2>3. QED
      BY <2>1, <2>2
  <1>6. IsFiniteSet(past)
    BY <1>4, <1>5, FS_Subset
  <1>7. Cardinality(1..i) <= Cardinality(past)
    BY <1>4, <1>6, FS_Subset
  <1>8. n < i
    BY <1>1 DEF n
  <1>9. QED
    BY <1>0, <1>1, <1>5, <1>7, <1>8

LEMMA AtLeastOnce ==
    ASSUME NEW r \in Nat, NEW k \in Nat, k >= 1
    PROVE  r <= r * k /\ r * k \in Nat
  <1>1. r * 1 <= r * k
    BY Monotone
  <1>2. r * 1 = r /\ r * k \in Nat
    OBVIOUS
  <1>3. QED
    BY <1>1, <1>2

(* After its announcement an episode is recalled at an age still to come.       *)
LEMMA AnnouncementIsAhead ==
    ASSUME NEW e \in Episode, NEW age \in Int, e.repeatIndex >= 1, age < Repeat
    PROVE  age < NextAge(AfterAnnouncement(e, age))
  <1> DEFINE f == AfterAnnouncement(e, age)
             n == Len(Schedule)
  <1>1. f \in Episode /\ f.reminderIndex = Later(e.reminderIndex, Missed(age))
        /\ f.repeatIndex = e.repeatIndex
    BY AfterAnnouncementType, AnnouncedIndices
  <1> SUFFICES age < NextAge(f)
    OBVIOUS
  <1> HIDE DEF f
  <1>2. /\ f.reminderIndex \in 0..n /\ f.reminderIndex \in Nat /\ f.repeatIndex \in Nat
        /\ e.reminderIndex \in Nat /\ n \in Nat \ {0} /\ Missed(age) \in Nat
    BY <1>1, Ages, MissedType DEF Episode
  <1>3. f.reminderIndex >= Missed(age)
    BY <1>1, <1>2 DEF Later
  <1>4. CASE InSchedule(f)
    <2>1. f.reminderIndex + 1 \in 1..n /\ f.reminderIndex + 1 > Missed(age)
      BY <1>2, <1>3, <1>4 DEF InSchedule
    <2>2. age < Schedule[f.reminderIndex + 1]
      BY <2>1, NotMissed
    <2>3. QED
      BY <1>4, <2>2 DEF NextAge
  <1>5. CASE ~InSchedule(f)
    <2>1. NextAge(f) = Schedule[n] + Repeat * f.repeatIndex
      BY <1>5 DEF NextAge
    <2>2. Schedule[n] \in Nat
      BY Ages
    <2>3. Repeat <= Repeat * f.repeatIndex /\ Repeat * f.repeatIndex \in Nat /\ Repeat \in Nat
      BY <1>1, <1>2, Ages, AtLeastOnce
    <2>4. PICK A, B \in Nat : A = Schedule[n] /\ B = Repeat * f.repeatIndex
      BY <2>2, <2>3
    <2>5. QED
      BY <2>1, <2>3, <2>4
  <1>6. QED
    BY <1>4, <1>5

(* A reminder moves the next one on by two ticks and the window, or more.       *)
LEMMA ReminderGoesAhead ==
    ASSUME NEW e \in Episode, NEW age \in Int, e.repeatIndex >= 1,
           NEW step \in Nat, step <= Repeat,
           \A i \in 2..Len(Schedule) : Schedule[i - 1] + step <= Schedule[i]
    PROVE  NextAge(e) + step <= NextAge(AfterReminder(e, age))
  <1> DEFINE f == AfterReminder(e, age)
             n == Len(Schedule)
  <1>1. /\ e.reminderIndex \in 0..n /\ e.reminderIndex \in Nat /\ e.repeatIndex \in Nat
        /\ n \in Nat \ {0} /\ Missed(age) \in Nat /\ f \in Episode
    BY Ages, MissedType, AfterReminderType DEF Episode
  <1>2. PICK next \in Nat : next = NextAge(e)
    BY AgeTypes
  <1>3. PICK later \in Nat : later = NextAge(f)
    BY <1>1, AgeTypes
  <1> SUFFICES next + step <= later
    BY <1>2, <1>3
  <1>4. Repeat \in Nat
    BY Ages
  <1>5. CASE InSchedule(e)
    <2>1. PICK i \in 1..n : i = e.reminderIndex + 1
      BY <1>1, <1>5 DEF InSchedule
    <2>2. next = Schedule[i]
      BY <1>2, <1>5, <2>1 DEF NextAge
    <2>3. /\ f.reminderIndex = Later(i, Missed(age)) /\ f.repeatIndex = e.repeatIndex
          /\ f.reminderIndex \in 0..n
      BY <1>1, <1>5, <2>1, RemindedIndices DEF Episode
    <2> HIDE DEF f
    <2>4. f.reminderIndex \in 1..n /\ i <= f.reminderIndex
      BY <1>1, <2>1, <2>3 DEF Later
    <2>5. PICK last \in Nat : last = Schedule[f.reminderIndex]
      BY <2>4, Ages
    <2>6. next <= last
      BY <2>1, <2>2, <2>4, <2>5, Ages
    <2>7. CASE InSchedule(f)
      <3>1. PICK j \in 2..n : j = f.reminderIndex + 1
        BY <1>1, <2>4, <2>7 DEF InSchedule
      <3>2. later = Schedule[j] /\ j - 1 = f.reminderIndex
        BY <1>1, <1>3, <2>4, <2>7, <3>1 DEF NextAge
      <3>3. last + step <= later
        BY <2>5, <3>1, <3>2
      <3>4. QED
        BY <2>6, <3>3
    <2>8. CASE ~InSchedule(f)
      <3>1. PICK A \in Nat : A = Schedule[n]
        BY <1>1, Ages
      <3>2. PICK B \in Nat : B = Repeat * f.repeatIndex /\ Repeat <= B
        BY <1>1, <1>4, <2>3, AtLeastOnce
      <3>3. later = A + B
        BY <1>3, <2>8, <3>1, <3>2 DEF NextAge
      <3>4. next <= A
        BY <1>1, <2>1, <2>2, <3>1, Ages
      <3>5. QED
        BY <1>4, <3>2, <3>3, <3>4
    <2>9. QED
      BY <2>7, <2>8
  <1>6. CASE ~InSchedule(e)
    <2>1. f.reminderIndex = e.reminderIndex /\ f.repeatIndex = e.repeatIndex + 1
      BY <1>6, RemindedIndices
    <2> HIDE DEF f
    <2>2. PICK A \in Nat : A = Schedule[n]
      BY <1>1, Ages
    <2>3. PICK B \in Nat : B = Repeat * e.repeatIndex
      BY <1>1, <1>4
    <2>4. Repeat * (e.repeatIndex + 1) = B + Repeat
      BY <1>1, <1>4, <2>3
    <2>5. next = A + B
      BY <1>2, <1>6, <2>2, <2>3 DEF NextAge
    <2>6. later = A + (B + Repeat)
      BY <1>3, <1>6, <2>1, <2>2, <2>4 DEF NextAge, InSchedule
    <2>7. QED
      BY <1>4, <2>5, <2>6
  <1>7. QED
    BY <1>5, <1>6

LEMMA TickSteps ==
    ASSUME Tick
    PROVE  /\ phase # "down" /\ phase' = "running"
           /\ \E gap \in Gaps, affected \in SUBSET Miners, restarted \in SUBSET Restarting,
             healthy \in SUBSET Miners :
                now' = now + gap /\ Coordinate(affected, restarted, healthy, now')
  <1>1. PICK gap \in Gaps, irregular \in SUBSET Miners, restarted \in SUBSET Restarting,
             healthy \in IF phase = "first" THEN SUBSET Miners ELSE {{}} :
               now' = now + gap /\ Coordinate(irregular \ healthy, restarted, healthy, now + gap)
    BY DEF Tick
  <1>2. irregular \ healthy \in SUBSET Miners /\ Coordinate(irregular \ healthy, restarted, healthy, now')
    BY <1>1
  <1>3. QED
    BY <1>1, <1>2 DEF Tick

(* What pop_due reminds of is what was due, or due within the window.           *)
LEMMA OnlyDueAreRemindedOf ==
    ASSUME NEW affected, NEW restarted, NEW healthy, NEW t, Coordinate(affected, restarted, healthy, t)
    PROVE  /\ message'.persistent \subseteq ToRemind(Open(affected, restarted, t), t)
           /\ message'.persistent # {} => phase = "running"
  <1>1. message' = Sent(Open(affected, restarted, t), Waiting(affected, restarted, t), t)
    BY DEF Coordinate
  <1>2. CASE message' = [Nothing EXCEPT !.startup = TRUE] \/ message' = Nothing
    BY <1>2 DEF Nothing
  <1>3. CASE /\ phase = "running"
             /\ message' = Batch(Open(affected, restarted, t), Waiting(affected, restarted, t), t)
    BY <1>3 DEF Batch
  <1>4. QED
    BY <1>1, <1>2, <1>3 DEF Sent, SendsStartup

LEMMA SeenAsBefore ==
    ASSUME NEW restarted, NEW t, NEW m \in Miners \ restarted, Active(active[m])
    PROVE  Seen(restarted, t)[m] = active[m]
  BY DEF Seen, Observed

(* What a tick observes of a miner that did not restart: nothing, an episode    *)
(* that begins, one that waits for its announcement or one that was announced.  *)
LEMMA ObservedOfTheRest ==
    ASSUME TypeOK, EpisodeInv, AheadInv, phase # "down",
           NEW affected \in SUBSET Miners, NEW restarted \in SUBSET Restarting,
           NEW t \in Nat, NEW m \in Miners \ Restarting
    PROVE  LET d == Open(affected, restarted, t)[m]
           IN  \/ ~d.sent /\ d.updateDue = NoTs /\ ~Active(d)
               \/ ~d.sent /\ d.updateDue = NoTs /\ d.started = t /\ d.reminderIndex = 0
               \/ /\ ~d.sent /\ d.updateDue = NoTs /\ phase = "running"
                  /\ d.started <= now /\ now < d.started + Coalesce
               \/ /\ d.sent /\ d.updateDue = NoTs /\ phase = "running"
                  /\ d.started \in Nat /\ now < d.started + NextAge(d)
  <1> DEFINE d == Open(affected, restarted, t)[m]
  <1>1. CASE m \notin affected
    BY <1>1, OpenFacts DEF NoEpisode, Opening, Active
  <1>2. CASE m \in affected /\ ~Active(active[m])
    <2>1. since[m] = NoTs /\ restarted \in SUBSET Miners
      BY <1>2, Started, EpisodesAssumption DEF Active, EpisodesAssumption
    <2>2. d = Opening(t)
      BY <1>2, <2>1, OpenFacts, SeenFacts
    <2>3. QED
      BY <2>2 DEF Opening
  <1>3. CASE m \in affected /\ Active(active[m])
    <2>1. d = active[m]
      BY <1>3, OpenFacts, SeenAsBefore
    <2>2. phase = "running"
      <3>1. phase = "first" => ~Active(active[m])
        BY NoEpisodeType DEF EpisodeInv, Active
      <3>2. QED
        BY <1>3, <3>1 DEF TypeOK
    <2>3. /\ Tracked(m) /\ Ahead(m) /\ active[m] \in Episode /\ active[m].started \in Nat
          /\ active[m].started <= now
      BY <1>3, <2>2, Started DEF EpisodeInv, AheadInv, Tracked, TypeOK, Active, Episode, Times, NoTs
    <2>4. CASE active[m].sent
      BY <2>1, <2>2, <2>3, <2>4 DEF Ahead
    <2>5. CASE ~active[m].sent
      BY <1>3, <2>1, <2>2, <2>3, <2>5 DEF Tracked
    <2>6. QED
      BY <2>4, <2>5
  <1>4. QED
    BY <1>1, <1>2, <1>3

(* An episode that is announced is younger than the window and a tick.          *)
LEMMA AheadTick ==
    ASSUME TypeOK, EpisodeInv, AheadInv, SpacedAges, Tick
    PROVE  AheadInv'
  <1>1. PICK gap \in Gaps, affected \in SUBSET Miners, restarted \in SUBSET Restarting,
             healthy \in SUBSET Miners :
          now' = now + gap /\ Coordinate(affected, restarted, healthy, now')
    BY TickSteps
  <1> DEFINE t == now'
             eps == Open(affected, restarted, t)
  <1>2. /\ phase # "down" /\ phase' = "running" /\ now \in Nat /\ t \in Nat /\ now < t
        /\ gap \in Nat \ {0} /\ Coalesce \in Nat /\ Repeat \in Nat
        /\ phase \in {"first", "running"} /\ restarted \in SUBSET Miners
    <2>1. Restarting \subseteq Miners
      BY EpisodesAssumption DEF EpisodesAssumption
    <2>2. QED
      BY <1>1, <2>1, TickSteps, GapTypes, Ages DEF TypeOK
  <1>3. \A g \in Gaps : g \in Nat /\ gap + g + Coalesce <= Repeat
    BY GapTypes DEF SpacedAges
  <1>4. eps \in [Miners -> Episode]
    BY <1>1, <1>2, SeenType
  <1>5. ASSUME NEW m \in Miners
        PROVE  LET d == eps[m]
                   e == active'[m]
               IN  /\ d \in Episode /\ e \in Episode /\ d.repeatIndex >= 1 /\ e.repeatIndex >= 1
                   /\ e.started = d.started
                   /\ m \in ToAnnounce(eps, t) =>
                        /\ e.updateDue = NoTs
                        /\ NextAge(e) = NextAge(AfterAnnouncement(d, t - d.started))
                   /\ m \notin ToAnnounce(eps, t) =>
                        /\ e.updateDue = d.updateDue
                        /\ e.sent = (d.sent \/ (SendsStartup /\ Active(d)))
                   /\ m \notin ToAnnounce(eps, t) /\ m \in ToRemind(eps, t) =>
                        NextAge(e) = NextAge(AfterReminder(d, t - d.started))
                   /\ m \notin ToAnnounce(eps, t) /\ m \notin ToRemind(eps, t) =>
                        NextAge(e) = NextAge(d)
    <2> DEFINE d == eps[m]
               e == active'[m]
               pop == Popped(eps, t)
               f == AfterAnnouncement(d, t - d.started)
               r == AfterReminder(d, t - d.started)
    <2>1. d \in Episode /\ e \in Episode
      BY <1>1, <1>2, <1>4, EpisodeAfterTick
    <2>2. d.repeatIndex >= 1 /\ d.repeatIndex \in Nat
      <3>1. CASE m \notin affected
        BY <3>1, OpenFacts DEF NoEpisode, Opening
      <3>2. CASE m \in affected
        <4>1. d = Observed(active[m], m \in restarted, t)
          BY <3>2, OpenFacts DEF Seen
        <4>2. active[m] \in Episode /\ active[m].repeatIndex >= 1
          BY DEF TypeOK, AheadInv
        <4>3. Observed(active[m], m \in restarted, t).repeatIndex >= 1
          BY <4>2 DEF Observed, Opening, Episode
        <4>4. QED
          BY <2>1, <4>1, <4>3 DEF Episode
      <3>3. QED
        BY <3>1, <3>2
    <2>3. /\ e.reminderIndex = pop[m].reminderIndex /\ e.repeatIndex = pop[m].repeatIndex
          /\ e.started = pop[m].started
      BY <1>1, <1>2, IndicesAfterTick
    <2>4. /\ m \in ToAnnounce(eps, t) => pop[m] = f
          /\ m \notin ToAnnounce(eps, t) /\ m \in ToRemind(eps, t) => pop[m] = r
          /\ m \notin ToAnnounce(eps, t) /\ m \notin ToRemind(eps, t) => pop[m] = d
      <3> HIDE DEF eps
      <3>1. QED
        BY <1>2, <1>4, PoppedCases
    <2>5. /\ e.started = d.started
          /\ m \in ToAnnounce(eps, t) => e.updateDue = NoTs
          /\ m \notin ToAnnounce(eps, t) =>
               /\ e.updateDue = d.updateDue
               /\ e.sent = (d.sent \/ (SendsStartup /\ Active(d)))
      BY <1>1, <1>2, EpisodeAfterTick
    <2>6. f.repeatIndex >= 1 /\ r.repeatIndex >= 1
      <3>1. f.repeatIndex = d.repeatIndex
        BY <2>1, AnnouncedIndices
      <3>2. r.repeatIndex \in {d.repeatIndex, d.repeatIndex + 1}
        BY <2>1, RemindedIndices
      <3> HIDE DEF f, r, d
      <3>3. QED
        BY <2>2, <3>1, <3>2
    <2>7. PICK p : p = pop[m]
      OBVIOUS
    <2> HIDE DEF f, r, d, e, pop, eps
    <2>8. NextAge(e) = NextAge(p)
      BY <2>3, <2>7 DEF NextAge, InSchedule
    <2>9. e.repeatIndex >= 1
      BY <2>2, <2>3, <2>4, <2>6, <2>7
    <2>10. QED
      BY <2>1, <2>2, <2>4, <2>5, <2>7, <2>8, <2>9 DEF f, r, d, e
  <1>6. ASSUME NEW m \in Miners \ Restarting PROVE Ahead(m)'
    <2> DEFINE d == eps[m]
               e == active'[m]
               age == t - d.started
    <2>1. /\ d \in Episode /\ e \in Episode /\ d.repeatIndex >= 1 /\ e.started = d.started
          /\ m \in ToAnnounce(eps, t) =>
               e.updateDue = NoTs /\ NextAge(e) = NextAge(AfterAnnouncement(d, age))
          /\ m \notin ToAnnounce(eps, t) =>
               e.updateDue = d.updateDue /\ e.sent = (d.sent \/ (SendsStartup /\ Active(d)))
          /\ m \notin ToAnnounce(eps, t) /\ m \in ToRemind(eps, t) =>
               NextAge(e) = NextAge(AfterReminder(d, age))
          /\ m \notin ToAnnounce(eps, t) /\ m \notin ToRemind(eps, t) => NextAge(e) = NextAge(d)
      BY <1>5
    <2>2. m \in message'.persistent => m \in ToRemind(eps, t)
      BY <1>1, OnlyDueAreRemindedOf
    <2>3. /\ NextAge(d) \in Nat /\ NextAge(e) \in Nat /\ (Active(d) => d.started \in Nat)
          /\ d.started \in Int
      <3>1. NextAge(d) \in Nat /\ NextAge(e) \in Nat
        BY <2>1, AgeTypes
      <3>2. d.started \in Times
        BY <2>1 DEF Episode
      <3> HIDE DEF d, e
      <3>3. QED
        BY <3>1, <3>2 DEF Active, Times, NoTs
    <2>4. \/ ~d.sent /\ d.updateDue = NoTs /\ ~Active(d)
          \/ ~d.sent /\ d.updateDue = NoTs /\ d.started = t /\ d.reminderIndex = 0
          \/ /\ ~d.sent /\ d.updateDue = NoTs /\ phase = "running"
             /\ d.started <= now /\ now < d.started + Coalesce
          \/ /\ d.sent /\ d.updateDue = NoTs /\ phase = "running"
             /\ d.started \in Nat /\ now < d.started + NextAge(d)
      BY <1>1, <1>2, <1>6, ObservedOfTheRest
    <2>5. /\ m \in ToRemind(eps, t) =>
               m \notin ToAnnounce(eps, t) /\ d.sent /\ d.started + NextAge(d) <= t + Coalesce
          /\ d.updateDue = NoTs /\ m \in ToAnnounce(eps, t) => Active(d) /\ ~d.sent
      <3>1. m \in ToRemind(eps, t) =>
              /\ m \notin ToAnnounce(eps, t) /\ NextReminderDue(d) # NoTs
              /\ NextReminderDue(d) <= t + Coalesce
        BY DEF ToRemind
      <3>2. NextReminderDue(d) # NoTs =>
              d.sent /\ NextReminderDue(d) = d.started + NextAge(d)
        BY <2>1, DueFacts
      <3>3. d.updateDue = NoTs /\ m \in ToAnnounce(eps, t) => Active(d) /\ ~d.sent
        BY DEF ToAnnounce, UpdateIsDue
      <3>4. QED
        BY <3>1, <3>2, <3>3
    <2>6. ASSUME e.sent, e.updateDue = NoTs, t < e.started + NextAge(e),
                 m \in ToRemind(eps, t) =>
                   \A g \in Gaps : t + g + Coalesce < e.started + NextAge(e)
          PROVE  Ahead(m)'
      BY <2>2, <2>6 DEF Ahead, FarAhead
    <2>7. ASSUME ~e.sent, ~d.sent PROVE Ahead(m)'
      BY <2>2, <2>5, <2>7 DEF Ahead
    <2>8. CASE ~d.sent /\ d.updateDue = NoTs /\ ~Active(d)
      BY <2>1, <2>5, <2>7, <2>8
    <2>9. ASSUME ~d.sent, d.updateDue = NoTs, d.started \in Int,
                 m \in ToAnnounce(eps, t), t < d.started + gap + Coalesce
          PROVE  Ahead(m)'
      <3>1. age \in Int /\ age < Repeat
        <4>1. gap + gap + Coalesce <= Repeat
          BY <1>3
        <4>2. QED
          BY <1>2, <2>9, <4>1
      <3>2. age < NextAge(e)
        BY <2>1, <2>9, <3>1, AnnouncementIsAhead
      <3>3. t < e.started + NextAge(e)
        BY <1>2, <2>1, <2>3, <2>9, <3>2
      <3>4. e.sent
        BY <1>1, <1>2, <2>9, EpisodeAfterTick
      <3>5. QED
        BY <2>1, <2>5, <2>6, <2>9, <3>3, <3>4
    <2>10. CASE ~d.sent /\ d.updateDue = NoTs /\ d.started = t /\ d.reminderIndex = 0
      <3>1. CASE m \in ToAnnounce(eps, t)
        <4>1. t < t + gap + Coalesce
          <5>1. t \in Nat /\ gap \in Nat /\ gap > 0 /\ Coalesce \in Nat
            BY <1>2
          <5> HIDE DEF t
          <5>2. QED
            BY <5>1
        <4>2. t < d.started + gap + Coalesce
          BY <2>10, <4>1
        <4>3. QED
          BY <2>3, <2>9, <2>10, <3>1, <4>2
      <3>2. CASE m \notin ToAnnounce(eps, t)
        <4>1. m \notin ToRemind(eps, t) /\ e.updateDue = NoTs /\ NextAge(e) = NextAge(d)
          BY <2>1, <2>5, <2>10, <3>2
        <4>2. NextAge(d) >= 1
          BY <2>10, Ages DEF NextAge, InSchedule
        <4>3. t < e.started + NextAge(e)
          BY <1>2, <2>1, <2>3, <2>10, <4>1, <4>2
        <4>4. QED
          BY <2>6, <2>7, <2>10, <4>1, <4>3
      <3>3. QED
        BY <3>1, <3>2
    <2>11. CASE /\ ~d.sent /\ d.updateDue = NoTs /\ phase = "running"
                /\ d.started <= now /\ now < d.started + Coalesce
      <3>1. CASE m \in ToAnnounce(eps, t)
        <4>1. t < d.started + gap + Coalesce
          BY <1>1, <1>2, <2>3, <2>11
        <4>2. QED
          BY <2>3, <2>9, <2>11, <3>1, <4>1
      <3>2. CASE m \notin ToAnnounce(eps, t)
        <4>1. ~e.sent
          BY <2>1, <2>11, <3>2 DEF SendsStartup
        <4>2. QED
          BY <2>7, <2>11, <4>1
      <3>3. QED
        BY <3>1, <3>2
    <2>12. CASE /\ d.sent /\ d.updateDue = NoTs /\ phase = "running"
                /\ d.started \in Nat /\ now < d.started + NextAge(d)
      <3>1. m \notin ToAnnounce(eps, t) /\ e.sent /\ e.updateDue = NoTs
        BY <2>1, <2>5, <2>12
      <3>2. CASE m \in ToRemind(eps, t)
        <4>1. NextAge(e) = NextAge(AfterReminder(d, age)) /\ age \in Int
          BY <1>2, <2>1, <2>12, <3>1, <3>2
        <4>2. ASSUME NEW g \in Gaps PROVE t + g + Coalesce < e.started + NextAge(e)
          <5>1. PICK step \in Nat : step = gap + g + Coalesce
            BY <1>2, <1>3
          <5>2. /\ step <= Repeat
                /\ \A i \in 2..Len(Schedule) : Schedule[i - 1] + step <= Schedule[i]
            <6>1. step <= Repeat
              BY <1>3, <5>1
            <6>2. ASSUME NEW i \in 2..Len(Schedule) PROVE Schedule[i - 1] + step <= Schedule[i]
              <7>1. Schedule[i - 1] + gap + g + Coalesce <= Schedule[i]
                BY DEF SpacedAges
              <7>2. i - 1 \in 1..Len(Schedule) /\ i \in 1..Len(Schedule)
                BY Ages
              <7>3. PICK A \in Nat : A = Schedule[i - 1]
                BY <7>2, Ages
              <7>4. A + gap + g + Coalesce = A + step
                BY <1>2, <1>3, <5>1
              <7>5. QED
                BY <7>1, <7>3, <7>4
            <6>3. QED
              BY <6>1, <6>2
          <5>3. NextAge(d) + step <= NextAge(e)
            BY <2>1, <4>1, <5>2, ReminderGoesAhead
          <5>4. QED
            BY <1>1, <1>2, <1>3, <2>1, <2>3, <2>12, <5>1, <5>3
        <4>3. t < e.started + NextAge(e)
          <5>1. t + gap + Coalesce < e.started + NextAge(e) /\ e.started \in Nat
            BY <2>1, <2>12, <4>2
          <5>2. QED
            BY <1>2, <2>3, <5>1
        <4>4. QED
          BY <2>6, <3>1, <4>2, <4>3
      <3>3. CASE m \notin ToRemind(eps, t)
        <4>1. NextAge(e) = NextAge(d)
          BY <2>1, <3>1, <3>3
        <4>2. ~(t >= d.started + NextAge(d))
          <5>1. SUFFICES ASSUME t >= d.started + NextAge(d) PROVE FALSE
            OBVIOUS
          <5>2. NextReminderDue(d) = d.started + NextAge(d)
            BY <2>1, <2>12, DueFacts
          <5>3. NextReminderDue(d) # NoTs /\ t >= NextReminderDue(d)
            BY <2>3, <2>12, <5>1, <5>2 DEF NoTs
          <5>4. PersistentBatchDue(eps, t)
            BY <5>3 DEF PersistentBatchDue, ReminderIsDue
          <5>5. NextReminderDue(d) <= t + Coalesce
            BY <1>2, <2>3, <2>12, <5>1, <5>2
          <5>6. QED
            BY <3>1, <3>3, <5>3, <5>4, <5>5 DEF ToRemind
        <4>3. t < e.started + NextAge(e)
          BY <1>2, <2>1, <2>3, <2>12, <4>1, <4>2
        <4>4. QED
          BY <2>6, <3>1, <3>3, <4>3
      <3>4. QED
        BY <3>2, <3>3
    <2>13. QED
      BY <2>4, <2>8, <2>10, <2>11, <2>12
  <1>7. QED
    BY <1>2, <1>5, <1>6, OnlyDueAreRemindedOf DEF AheadInv

LEMMA AheadStep ==
    ASSUME SpacedAges
    PROVE  TypeOK /\ EpisodeInv /\ AheadInv /\ [Next]_vars => AheadInv'
  <1> SUFFICES ASSUME TypeOK, EpisodeInv, AheadInv, [Next]_vars PROVE AheadInv'
    OBVIOUS
  <1>1. CASE Boot
    <2>1. phase' = "first" /\ message' = message /\ phase = "down"
      BY <1>1 DEF Boot
    <2>2. \A m \in Miners : active'[m].repeatIndex >= 1
      BY <1>1 DEF Boot, NoEpisode, Opening
    <2>3. QED
      BY <2>1, <2>2 DEF AheadInv
  <1>2. CASE Crash
    BY <1>2 DEF Crash, AheadInv, coordinator, Nothing
  <1>3. CASE Tick
    BY <1>3, AheadTick
  <1>4. CASE UNCHANGED vars
    BY <1>4 DEF vars, coordinator, AheadInv, Ahead, FarAhead
  <1>5. QED
    BY <1>1, <1>2, <1>3, <1>4 DEF Next

(* A tick reminds of nobody it could have left for later.                       *)
LEMMA NotTwice ==
    ASSUME TypeOK, EpisodeInv, AheadInv, [Next]_vars, now' # now
    PROVE  message.persistent \cap message'.persistent \subseteq Restarting
  <1>1. Tick
    BY DEF Next, Boot, Crash, vars
  <1>2. PICK gap \in Gaps, affected \in SUBSET Miners, restarted \in SUBSET Restarting,
             healthy \in SUBSET Miners :
          now' = now + gap /\ Coordinate(affected, restarted, healthy, now')
    BY <1>1, TickSteps
  <1> DEFINE t == now'
             eps == Open(affected, restarted, t)
  <1>3. /\ phase # "down" /\ now \in Nat /\ t \in Nat /\ gap \in Nat /\ Coalesce \in Nat
        /\ restarted \in SUBSET Miners
    <2>1. Restarting \subseteq Miners
      BY EpisodesAssumption DEF EpisodesAssumption
    <2>2. QED
      BY <1>1, <1>2, <2>1, GapTypes, TickSteps, Ages DEF TypeOK
  <1>4. SUFFICES ASSUME NEW m \in Miners \ Restarting,
                        m \in message.persistent, m \in message'.persistent
                 PROVE  FALSE
    BY DEF TypeOK, Message
  <1> DEFINE d == eps[m]
  <1>5. phase = "running" /\ m \in ToRemind(eps, t)
    BY <1>2, <1>4, OnlyDueAreRemindedOf
  <1>6. active[m].sent /\ active[m] \in Episode /\ now + gap + Coalesce < active[m].started + NextAge(active[m])
    BY <1>2, <1>4, <1>5 DEF AheadInv, Ahead, FarAhead, TypeOK
  <1>7. d \in Episode /\ NextReminderDue(d) # NoTs /\ NextReminderDue(d) <= t + Coalesce
    <2>1. eps \in [Miners -> Episode]
      BY <1>3, SeenType
    <2>2. NextReminderDue(d) # NoTs /\ NextReminderDue(d) <= t + Coalesce
      BY <1>5 DEF ToRemind
    <2>3. QED
      BY <2>1, <2>2
  <1>8. d.sent /\ NextReminderDue(d) = d.started + NextAge(d)
    BY <1>7, DueFacts
  <1>9. d = active[m]
    <2>1. m \in affected
      BY <1>8, OpenFacts DEF NoEpisode, Opening
    <2>2. CASE Active(active[m])
      BY <1>2, <1>4, <2>1, <2>2, OpenFacts, SeenAsBefore
    <2>3. CASE ~Active(active[m])
      <3>1. since[m] = NoTs
        BY <1>3, <1>5, <2>3, Started DEF Active
      <3>2. d = Opening(t)
        BY <1>3, <2>1, <3>1, OpenFacts, SeenFacts
      <3>3. QED
        BY <1>8, <3>2 DEF Opening
    <2>4. QED
      BY <2>2, <2>3
  <1>10. NextAge(d) \in Nat /\ d.started \in Int
    BY <1>7, AgeTypes DEF Episode, Times, NoTs
  <1>11. QED
    BY <1>2, <1>3, <1>6, <1>7, <1>8, <1>9, <1>10

(* With reminder ages further apart than two ticks and the grouping window, no  *)
(* miner is reminded of in two ticks in a row, unless it restarts: notices of   *)
(* restarts hold the repetitions of a reminder back, and then they come one per *)
(* tick (alert_episodes.py 298, 353-368 and 443).                               *)
THEOREM RemindersAreSpaced ==
    SpacedAges => /\ Spec => SteadyRemindersAreSpaced
                  /\ Restarting = {} => (Spec => NoPollingTickSpam)
  <1> SUFFICES ASSUME SpacedAges
               PROVE  /\ Spec => SteadyRemindersAreSpaced
                      /\ Restarting = {} => (Spec => NoPollingTickSpam)
    OBVIOUS
  <1>1. Init => TypeOK /\ EpisodeInv /\ AheadInv
    <2>1. Init => AheadInv
      BY DEF Init, AheadInv, NoEpisode, Opening, Nothing
    <2>2. QED
      BY <2>1, TypeInit, EpisodeInvInit
  <1>2. TypeOK /\ EpisodeInv /\ AheadInv /\ [Next]_vars => (TypeOK /\ EpisodeInv /\ AheadInv)'
    BY TypeStep, EpisodeInvStep, AheadStep
  <1>3. TypeOK /\ EpisodeInv /\ AheadInv /\ [Next]_vars =>
          [now' # now => message.persistent \cap message'.persistent \subseteq Restarting]_vars
    BY NotTwice
  <1>4. Spec => SteadyRemindersAreSpaced
    BY <1>1, <1>2, <1>3, PTL DEF Spec, SteadyRemindersAreSpaced
  <1>5. ASSUME Restarting = {} PROVE Spec => NoPollingTickSpam
    <2>1. [now' # now => message.persistent \cap message'.persistent \subseteq Restarting]_vars =>
            [now' # now => message.persistent \cap message'.persistent = {}]_vars
      BY <1>5
    <2>2. QED
      BY <1>4, <2>1, PTL DEF SteadyRemindersAreSpaced, NoPollingTickSpam
  <1>6. QED
    BY <1>4, <1>5
===============================================================================
