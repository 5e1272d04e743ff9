----------------------------- MODULE TelegramQueue -----------------------------
(***************************************************************************)
(* What leaves for Telegram: send_telegram and its direct fallback, called by *)
(* the main loop and by the poller, the bounded queue between them and         *)
(* telegram_sender_worker (src/app/miner_monitor.py:982-1271, 3784-3793).     *)
(*                                                                         *)
(* A text is a model value; what is compared of it is the hash of a part,     *)
(* <<text, part, parts>>.  A post ends with an answer of Telegram (200 or not) *)
(* or with an exception, whose message Telegram may have got all the same.    *)
(***************************************************************************)
EXTENDS Integers, Sequences, FiniteSets

CONSTANTS
    Messages,    \* what may be sent: [type, text, parts, command]
    Types,
    MaxSize,     \* of the queue: 200
    Window,      \* _COALESCE_WINDOWS: type |-> seconds, 0 for none
    Outcomes,    \* how a post may end: "ok", "refused" (an answer other than 200), "exception"
    Forever,     \* the type whose repeated text is never sent again: STATE_CHANGE
    DedupeAge,   \* of the other types: 60 s
    MaxOffers, MaxNow, MaxRestarts   \* bounds

MessageKind == [type : Types, text : {"x", "y"}, parts : Nat \ {0}, command : BOOLEAN]

ASSUME TelegramAssumption ==
    /\ Messages \subseteq MessageKind /\ Window \in [Types -> Nat] /\ Forever \in Types
    /\ Outcomes \subseteq {"ok", "refused", "exception"}
    /\ MaxSize \in Nat \ {0} /\ DedupeAge \in Nat
    /\ MaxOffers \in Nat /\ MaxNow \in Nat /\ MaxRestarts \in Nat

NoTs == -1
NoHash == <<>>
Nobody == [msg |-> 0, part |-> 0, at |-> NoTs]
-------------------------------------------------------------------------------
VARIABLES
    now,
    queue,         \* parts waiting: [msg, part, at]
    lastEnqueued,  \* _LAST_ENQUEUED
    lastHash,      \* _LAST_SENT_HASH
    lastSent,      \* _LAST_SENT_TS
    sender,        \* the part telegram_sender_worker is posting
    direct,        \* the part the poller is posting itself, the queue being full
    (* observation variables *)
    offered,       \* every message, in the order send_telegram was called
    acceptedAt,    \* when the queue accepted it, NoTs if it did not
    posted,        \* posts in the order they ended: [msg, part, outcome]
    skipped, dropped,   \* messages left out by the sender, refused by a full queue
    boot           \* [restarts, offers]: how often the process was restarted, after how many messages

memory == <<queue, lastEnqueued, lastHash, lastSent, sender, direct>>
ghosts == <<offered, acceptedAt, posted, skipped, dropped, boot>>
vars == <<now, memory, ghosts>>

Fresh ==
    /\ queue' = <<>> /\ sender' = Nobody /\ direct' = Nobody
    /\ lastEnqueued' = [t \in Types |-> 0] /\ lastSent' = [t \in Types |-> 0]
    /\ lastHash' = [t \in Types |-> NoHash]

Init ==
    /\ now = 1 /\ queue = <<>> /\ sender = Nobody /\ direct = Nobody
    /\ lastEnqueued = [t \in Types |-> 0] /\ lastSent = [t \in Types |-> 0]
    /\ lastHash = [t \in Types |-> NoHash]
    /\ offered = <<>> /\ acceptedAt = <<>> /\ posted = <<>> /\ skipped = {} /\ dropped = {}
    /\ boot = [restarts |-> 0, offers |-> 0]

Advance ==
    /\ now < MaxNow /\ now' = now + 1
    /\ UNCHANGED <<memory, ghosts>>
-------------------------------------------------------------------------------
(* send_telegram *)

Parts(m, n) == [p \in 1..m.parts |-> [msg |-> n, part |-> p, at |-> now]]

HasCapacity(m) == Len(queue) + m.parts <= MaxSize

\* Mutant: a full queue drops whatever comes.
NoBypass(m) == FALSE

Bypasses(m) == m.command /\ ~HasCapacity(m)

\* The poller takes one command at a time: none while it posts an answer itself.
Offer(m) ==
    /\ Len(offered) < MaxOffers
    /\ m.command => direct = Nobody
    /\ offered' = Append(offered, m)
    /\ LET n == Len(offered) + 1
       IN  \/ /\ HasCapacity(m)
              /\ queue' = queue \o Parts(m, n)
              /\ lastEnqueued' = [lastEnqueued EXCEPT ![m.type] = now]
              /\ acceptedAt' = Append(acceptedAt, now)
              /\ UNCHANGED <<direct, dropped>>
           \/ /\ Bypasses(m)
              /\ direct' = [msg |-> n, part |-> 1, at |-> now]
              /\ acceptedAt' = Append(acceptedAt, NoTs)
              /\ UNCHANGED <<queue, lastEnqueued, dropped>>
           \/ /\ ~HasCapacity(m) /\ ~Bypasses(m)
              /\ dropped' = dropped \cup {n}
              /\ acceptedAt' = Append(acceptedAt, NoTs)
              /\ UNCHANGED <<queue, lastEnqueued, direct>>
    /\ UNCHANGED <<now, lastHash, lastSent, sender, posted, skipped, boot>>

Post(item, outcome) ==
    posted' = Append(posted, [msg |-> item.msg, part |-> item.part, outcome |-> outcome])

\* _send_telegram_direct: part by part, up to the first that fails.
PostDirect ==
    /\ direct # Nobody
    /\ \E outcome \in Outcomes :
        /\ Post(direct, outcome)
        /\ direct' = IF outcome = "ok" /\ direct.part < offered[direct.msg].parts
                     THEN [direct EXCEPT !.part = @ + 1] ELSE Nobody
    /\ UNCHANGED <<now, queue, lastEnqueued, lastHash, lastSent, sender, offered, acceptedAt, skipped,
                   dropped, boot>>
-------------------------------------------------------------------------------
(* telegram_sender_worker *)

Message(item) == offered[item.msg]
Hash(item) == <<Message(item).text, item.part, Message(item).parts>>
MayBeLeftOut(item) == Message(item).parts = 1 /\ ~Message(item).command

\* Mutant: the newest one is left out too.
CoalescedAll(item) == MayBeLeftOut(item) /\ lastEnqueued[Message(item).type] - item.at < Window[Message(item).type]

Outdated(item) ==
    LET t == Message(item).type
    IN  item.at < lastEnqueued[t] /\ lastEnqueued[t] - item.at <= Window[t]

Coalesced(item) == MayBeLeftOut(item) /\ Window[Message(item).type] # 0 /\ Outdated(item)

Repeated(item) ==
    LET t == Message(item).type
    IN  /\ MayBeLeftOut(item) /\ lastHash[t] = Hash(item)
        /\ t = Forever \/ now - lastSent[t] < DedupeAge

\* Mutant: the last one put in comes out first.
Newest == queue[Len(queue)]

Oldest == Head(queue)

\* Mutant: a message left out goes back to the end of the queue.
PutBack == IF Coalesced(Oldest) \/ Repeated(Oldest) THEN Append(Tail(queue), Oldest) ELSE Tail(queue)

Rest == Tail(queue)

Get ==
    /\ sender = Nobody /\ queue # <<>>
    /\ queue' = Rest
    /\ IF Coalesced(Oldest) \/ Repeated(Oldest)
       THEN skipped' = skipped \cup {Oldest.msg} /\ UNCHANGED sender
       ELSE sender' = Oldest /\ UNCHANGED skipped
    /\ UNCHANGED <<now, lastEnqueued, lastHash, lastSent, direct, offered, acceptedAt, posted,
                   dropped, boot>>

\* An answer other than 200 is remembered like a success.
Remembered(outcome) == outcome # "exception"

PostQueued ==
    /\ sender # Nobody
    /\ \E outcome \in Outcomes :
        /\ Post(sender, outcome)
        /\ IF Remembered(outcome)
           THEN /\ lastHash' = [lastHash EXCEPT ![Message(sender).type] = Hash(sender)]
                /\ lastSent' = [lastSent EXCEPT ![Message(sender).type] = now]
           ELSE UNCHANGED <<lastHash, lastSent>>
    /\ sender' = Nobody
    /\ UNCHANGED <<now, queue, lastEnqueued, direct, offered, acceptedAt, skipped, dropped, boot>>

\* The process stops and starts again; queue and memory are gone.
Restart ==
    /\ boot.restarts < MaxRestarts
    /\ boot' = [restarts |-> boot.restarts + 1, offers |-> Len(offered)]
    /\ Fresh
    /\ UNCHANGED <<now, offered, acceptedAt, posted, skipped, dropped>>

Next ==
    \/ Advance \/ Restart
    \/ \E m \in Messages : Offer(m)
    \/ PostDirect \/ Get \/ PostQueued

Spec == Init /\ [][Next]_vars

\* The sender thread runs and every post ends: its timeouts bound it.
Fairness == WF_vars(Get) /\ WF_vars(PostQueued) /\ WF_vars(PostDirect)
-------------------------------------------------------------------------------
SinceBoot == {n \in DOMAIN offered : n > boot.offers}
Quiet == queue = <<>> /\ sender = Nobody /\ direct = Nobody
Posts(n) == {i \in DOMAIN posted : posted[i].msg = n}

\* An answer to a command is never coalesced, taken for a repetition or dropped (FR-005,
\* FR-008): once nothing is pending, each of its parts was posted, or a post of it failed.
CommandsAttempted ==
    Quiet => \A n \in SinceBoot :
        offered[n].command => \/ {posted[i].part : i \in Posts(n)} = 1..offered[n].parts
                              \/ \E i \in Posts(n) : posted[i].outcome # "ok"

\* The parts of a message and the notifications among themselves are posted in the order
\* in which they were written, although two threads post (FR-006).
PostedInOrder ==
    \A i, j \in DOMAIN posted : i < j =>
        \/ posted[i].msg = posted[j].msg /\ posted[i].part < posted[j].part
        \/ posted[i].msg < posted[j].msg
        \/ posted[i].msg # posted[j].msg /\ \E k \in {i, j} : offered[posted[k].msg].command

\* The queue accepted a newer message of its type within the window of the type.
Displaced(n) ==
    \E k \in SinceBoot :
        /\ k > n /\ offered[k].type = offered[n].type
        /\ acceptedAt[n] < acceptedAt[k] /\ acceptedAt[k] - acceptedAt[n] <= Window[offered[n].type]

\* Coalescing keeps the newest: once nothing is pending, a notification the queue accepted was
\* posted, or its very text was and did not raise, or a message of its type that the queue accepted
\* later, within the window of the type, displaced it: another notification, of which the same
\* can be said, or an answer of that type, as the one to /status is (1040, 1171-1178).
NewestSurvives ==
    Quiet => \A n \in SinceBoot \ dropped :
        \/ offered[n].command
        \/ Posts(n) # {}
        \/ Displaced(n)
        \/ \E i \in DOMAIN posted :
              /\ posted[i].msg \in SinceBoot /\ posted[i].outcome # "exception"
              /\ offered[posted[i].msg].type = offered[n].type /\ offered[posted[i].msg].text = offered[n].text

\* The queue always drains, whatever Telegram answers: the sender survives every failure.
QueueDrains == queue # <<>> ~> queue = <<>>
===============================================================================
