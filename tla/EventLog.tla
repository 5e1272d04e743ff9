-------------------------------- MODULE EventLog --------------------------------
(***************************************************************************)
(* The operational events of src/app/event_store.py: what the main loop and   *)
(* the poller record of a miner, the retention, and the two questions of the   *)
(* operator, /events and /event <id>, the second of which reconstructs the     *)
(* outage the event belongs to.                                             *)
(*                                                                         *)
(* Every operation of the store is one transaction under its lock, so that     *)
(* each is one step; SQLite may refuse a write (the file is locked by the       *)
(* collector for longer than busy_timeout), which the callers never notice.     *)
(* LOW and HASHBOARD are one irregular state: the queries treat them alike.     *)
(*                                                                         *)
(* The main loop dates what it records by the start of its tick, the poller by   *)
(* the confirmation of the operator, whose action it carries out before it        *)
(* records the outcome: rows are not written in the order of their times.        *)
(***************************************************************************)
EXTENDS Integers, FiniteSetsExt

CONSTANTS
    Miners,
    Kinds,       \* event types of the main loop, other than state_transition, an episode shows
    Window,      \* max_window_seconds
    Limit,       \* of list_episode_events
    Shown,       \* of list_events
    CallTime,    \* how long the CLI may take over the miners of a confirmation
    Retention,   \* event_retention_days
    MaxRows, MaxNow, MaxMishaps   \* bounds

ASSUME EventLogAssumption ==
    /\ IsFiniteSet(Miners) /\ {"state_transition", "manual"} \cap Kinds = {}
    /\ Window \in Nat \ {0} /\ Limit \in Nat \ {0} /\ Shown \in Nat \ {0} /\ Retention \in Nat \ {0}
    /\ CallTime \in Nat /\ MaxRows \in Nat /\ MaxNow \in Nat /\ MaxMishaps \in Nat

States == {"OK", "LOW", "OFFLINE"}
Irregular == States \ {"OK"}
NoOutage == 0
Nothing == [id |-> 0, serial |-> 0]

\* A row of operational_events; the last two fields are observations.  The outage is that of the
\* miner when the main loop writes the row; a row of the poller has none.
Row == [id : Nat, ts : Nat, miner : Miners, kind : Kinds \cup {"state_transition", "manual"},
        prev : States, new : States, serial : Nat, outage : Nat]
-------------------------------------------------------------------------------
VARIABLES
    now,
    tick,      \* now_ts of the running tick: when it started
    state,     \* MinerState.state of each miner
    first,     \* first_tick
    done,      \* the miners the tick has found in another state
    rows,      \* the table
    sequence,  \* sqlite_sequence: the last id AUTOINCREMENT gave out
    (* observation variables *)
    written,   \* rows ever written
    outage,    \* the number of the miner's outage, NoOutage while it is OK
    outages,   \* its outages so far
    missing,   \* miners with a change that has no row
    noted,     \* [id, serial]: the event whose id the operator has written down
    mishaps

table == <<rows, sequence, written>>
miners == <<state, done, outage, outages, missing>>
eventVars == <<now, tick, first, miners, table, noted, mishaps>>

EventsInit ==
    /\ now = 1 /\ tick = 1 /\ first = TRUE /\ done = {} /\ state = [m \in Miners |-> "OK"]
    /\ rows = {} /\ sequence = 0 /\ written = 0
    /\ outage = [m \in Miners |-> NoOutage] /\ outages = [m \in Miners |-> 0]
    /\ missing = {} /\ noted = Nothing /\ mishaps = 0

\* Mutant: an id column without AUTOINCREMENT.
HighestId == IF rows = {} THEN 0 ELSE Max({r.id : r \in rows})
LastId == sequence

\* INSERT INTO operational_events.
Insert(m, kind, ts, new, number) ==
    /\ written < MaxRows
    /\ rows' = rows \cup {[id |-> LastId + 1, ts |-> ts, miner |-> m, kind |-> kind,
                           prev |-> state[m], new |-> new,
                           serial |-> written + 1, outage |-> number]}
    /\ sequence' = LastId + 1 /\ written' = written + 1

\* sqlite3.Error: logged, and None is returned to a caller that goes on.
Refused == mishaps < MaxMishaps /\ mishaps' = mishaps + 1 /\ UNCHANGED table

NewNumber(m, new) ==
    IF new = "OK" THEN NoOutage ELSE IF state[m] = "OK" THEN outages[m] + 1 ELSE outage[m]

\* The number of the outage a change belongs to: the one it opens, continues or closes.
Belongs(m, new) == IF new = "OK" THEN outage[m] ELSE NewNumber(m, new)

\* The next tick starts.
StartTick ==
    /\ tick < now /\ tick' = now /\ first' = FALSE /\ done' = {}
    /\ UNCHANGED <<now, state, outage, outages, missing, table, noted, mishaps>>

\* The tick finds m in another state; in the first tick of a process that is not recorded.
Change(m, new) ==
    /\ new # state[m] /\ m \notin done /\ done' = done \cup {m}
    /\ state' = [state EXCEPT ![m] = new]
    /\ outage' = [outage EXCEPT ![m] = NewNumber(m, new)]
    /\ outages' = IF state[m] = "OK" THEN [outages EXCEPT ![m] = @ + 1] ELSE outages
    /\ \/ /\ ~first /\ Insert(m, "state_transition", tick, new, Belongs(m, new))
          /\ UNCHANGED <<missing, mishaps>>
       \/ ~first /\ Refused /\ missing' = missing \cup {m}
       \/ first /\ missing' = missing \cup {m} /\ UNCHANGED <<table, mishaps>>
    /\ UNCHANGED <<now, tick, first, noted>>

\* A restart of the miner, or an automatic reboot, is recorded before the change the tick finds.
Record(m, kind) ==
    /\ m \notin done
    /\ Insert(m, kind, tick, state[m], outage[m])
    /\ UNCHANGED <<now, tick, first, miners, noted, mishaps>>

\* The poller has carried out for m what the operator confirmed some time ago: it has called the
\* CLI, perhaps for other miners before, and records the outcome with the time of the confirmation.
Outcome(m) ==
    /\ \E confirmed \in {t \in 1..now : now - t <= CallTime} :
          Insert(m, "manual", confirmed, state[m], NoOutage)
    /\ UNCHANGED <<now, tick, first, miners, noted, mishaps>>

Expired(r) == r.ts < tick - Retention

\* prune, at the start of the process and once a day.
Prune ==
    /\ \E r \in rows : Expired(r)
    /\ rows' = {r \in rows : ~Expired(r)}
    /\ UNCHANGED <<now, tick, first, miners, sequence, written, noted, mishaps>>

\* The monitor is started again, and its first tick with it; state.json has kept the states.
Restart ==
    /\ mishaps < MaxMishaps /\ mishaps' = mishaps + 1
    /\ tick < now /\ tick' = now /\ first' = TRUE /\ done' = {}
    /\ UNCHANGED <<now, state, outage, outages, missing, table, noted>>

Advance ==
    /\ now < MaxNow /\ now' = now + 1
    /\ UNCHANGED <<tick, first, miners, table, noted, mishaps>>
-------------------------------------------------------------------------------
(* The queries *)

Before(r, s) == r.ts < s.ts \/ (r.ts = s.ts /\ r.id < s.id)

\* list_events: the latest of all miners or of one.
Latest(set) == {r \in set : Cardinality({s \in set : Before(r, s)}) < Shown}

ListEvents ==
    /\ noted = Nothing
    /\ \E set \in {rows} \cup {{r \in rows : r.miner = m} : m \in Miners} :
          \E r \in Latest(set) : noted' = [id |-> r.id, serial |-> r.serial]
    /\ UNCHANGED <<now, tick, first, miners, table, mishaps>>

\* get_event.
Event(id) == {r \in rows : r.id = id}

\* Mutant: the events of an episode are looked up by kind only.
AnyMiner(r, m) == TRUE
OfMiner(r, m) == r.miner = m

\* start_ts and end_ts of list_episode_events: the last change out of OK before the anchor, the
\* first change into OK after it, each within the window, or the bounds of the window.
StartRows(a) == {r \in rows : /\ OfMiner(r, a.miner) /\ r.kind = "state_transition"
                              /\ r.prev = "OK" /\ r.new \in Irregular
                              /\ r.ts <= a.ts /\ r.ts >= a.ts - Window}
EndRows(a) == {r \in rows : /\ OfMiner(r, a.miner) /\ r.kind = "state_transition" /\ r.new = "OK"
                            /\ r.ts >= a.ts /\ r.ts <= a.ts + Window}

StartTs(a) == IF StartRows(a) = {} THEN a.ts - Window ELSE Max({r.ts : r \in StartRows(a)})
EndTs(a) == IF EndRows(a) # {} THEN Min({r.ts : r \in EndRows(a)})
            ELSE IF now < a.ts + Window THEN now ELSE a.ts + Window

\* The oldest rows between the two, of every miner.
Episode(a) ==
    LET within == {r \in rows : r.ts >= StartTs(a) /\ r.ts <= EndTs(a)}
    IN  {r \in within : Cardinality({s \in within : Before(s, r)}) < Limit}
-------------------------------------------------------------------------------
EventsNext ==
    \/ Advance \/ StartTick \/ Prune \/ Restart \/ ListEvents
    \/ \E m \in Miners :
        \/ Outcome(m)
        \/ \E new \in States : Change(m, new)
        \/ \E kind \in Kinds : Record(m, kind)

EventsSpec == EventsInit /\ [][EventsNext]_eventVars
-------------------------------------------------------------------------------
(* The id the operator has read names the event he read it of, or nothing, for as long as the
   database lives, whatever retention removed since (/event <id> after /events). *)
IdsNameOneEvent ==
    \A r \in Event(noted.id) : r.serial = noted.serial

(* The history of an event that the main loop recorded of an outage is the history of that
   outage: nothing it recorded of another outage of the miner is mixed into it, and all that it
   recorded of this one within the window is there, unless the limit cut it off.  This holds
   while every change of the miner has its row; one refused write, or one change seen by the
   first tick after a restart, and it may not.  Nothing is said of where the outcomes of the
   operator's actions fall: they are dated and written on another clock
   (event_store.py:614-685, miner_monitor.py:4022, 4350, 4407; specs/020 User Story 2). *)
EpisodeIsOneOutage ==
    \A a \in rows :
        a.outage # NoOutage /\ a.miner \notin missing =>
            LET own == {r \in rows : r.miner = a.miner}
            IN  /\ \A r \in Episode(a) \cap own : r.outage \in {a.outage, NoOutage}
                /\ \/ Cardinality(Episode(a)) = Limit
                   \/ \A r \in own :
                        r.outage = a.outage /\ r.ts >= a.ts - Window /\ r.ts <= a.ts + Window
                            => r \in Episode(a)
===============================================================================
