----------------------------- MODULE TelegramProofs -----------------------------
(* Theorems about TelegramQueue: the order of the posts, the answers to        *)
(* commands and coalescing, for every set of messages and any capacity.        *)
EXTENDS TelegramQueue, TLAPS

Item == [msg : Nat \ {0}, part : Nat \ {0}, at : Nat]
Posted == [msg : Nat \ {0}, part : Nat \ {0}, outcome : Outcomes]

TypeOK ==
    /\ now \in Nat \ {0}
    /\ queue \in Seq(Item) /\ sender \in Item \cup {Nobody} /\ direct \in Item \cup {Nobody}
    /\ lastEnqueued \in [Types -> Nat] /\ lastSent \in [Types -> Nat]
    /\ DOMAIN lastHash = Types
    /\ offered \in Seq(Messages) /\ posted \in Seq(Posted)
    /\ acceptedAt \in Seq(Nat \cup {NoTs}) /\ Len(acceptedAt) = Len(offered)
    /\ dropped \subseteq 1..Len(offered)
    /\ boot \in [restarts : Nat, offers : 0..Len(offered)]

(* What waits, or is being posted, is a part of a message of this process.     *)
PartOf(item) ==
    /\ item.msg \in SinceBoot /\ item.part \in 1..offered[item.msg].parts
    /\ item.at <= now

PartsInv ==
    /\ \A i \in DOMAIN queue : PartOf(queue[i])
    /\ sender # Nobody => PartOf(sender)
    /\ direct # Nobody => PartOf(direct) /\ offered[direct.msg].command
    /\ \A i \in DOMAIN posted : posted[i].msg \in DOMAIN offered
                                /\ posted[i].part \in 1..offered[posted[i].msg].parts
    /\ \A t \in Types : lastEnqueued[t] <= now

Before(a, b) == a.msg < b.msg \/ (a.msg = b.msg /\ a.part < b.part)

(* An answer may overtake anything but its own parts.                          *)
Ordered(a, b) == Before(a, b) \/ (a.msg # b.msg /\ (offered[a.msg].command \/ offered[b.msg].command))

(* What was posted, what is being posted and what waits are in this order; the  *)
(* message of the direct fallback is in neither.                              *)
OrderInv ==
    /\ \A i, j \in DOMAIN posted : i < j => Ordered(posted[i], posted[j])
    /\ \A i \in DOMAIN posted, j \in DOMAIN queue : Ordered(posted[i], queue[j])
    /\ \A i, j \in DOMAIN queue : i < j => Before(queue[i], queue[j])
    /\ sender # Nobody => /\ \A i \in DOMAIN posted : Ordered(posted[i], sender)
                          /\ \A j \in DOMAIN queue : Before(sender, queue[j])
    /\ direct # Nobody => /\ \A i \in DOMAIN posted : posted[i].msg = direct.msg => posted[i].part < direct.part
                          /\ \A j \in DOMAIN queue : queue[j].msg # direct.msg
                          /\ sender.msg # direct.msg

(* Where a part of a message is.                                              *)
Waiting(n, p) == \E j \in DOMAIN queue : queue[j].msg = n /\ queue[j].part = p
Sending(n, p) == sender.msg = n /\ sender.part = p
Answering(n, p) == direct.msg = n /\ direct.part <= p
WasPosted(n, p) == \E i \in DOMAIN posted : posted[i].msg = n /\ posted[i].part = p
Failed(n) == \E i \in DOMAIN posted : posted[i].msg = n /\ posted[i].outcome # "ok"

(* No part of an answer is ever lost from sight before a post of it fails.      *)
AnswerInv ==
    \A n \in SinceBoot :
        offered[n].command =>
            \/ Failed(n)
            \/ \A p \in 1..offered[n].parts : Waiting(n, p) \/ Sending(n, p) \/ Answering(n, p) \/ WasPosted(n, p)

(* A post, of this process, of a message of type t with this text.              *)
Said(t, text) ==
    \E i \in DOMAIN posted :
        /\ posted[i].msg \in SinceBoot /\ posted[i].outcome # "exception"
        /\ offered[posted[i].msg].type = t /\ offered[posted[i].msg].text = text

(* _LAST_ENQUEUED tells whether a newer message of the type came in its window, and *)
(* _LAST_SENT_HASH that a post of the text was made; no notification leaves the *)
(* queue for another reason than a post.                                      *)
NewestInv ==
    /\ \A j \in DOMAIN queue :
        /\ queue[j].at = acceptedAt[queue[j].msg]
        /\ Outdated(queue[j]) => Displaced(queue[j].msg)
    /\ \A t \in Types : lastHash[t] # NoHash => \E part, parts \in Nat, text \in {"x", "y"} :
                                                   lastHash[t] = <<text, part, parts>> /\ Said(t, text)
    /\ \A n \in SinceBoot \ dropped :
        \/ offered[n].command \/ Displaced(n) \/ Said(offered[n].type, offered[n].text)
        \/ \E p \in 1..offered[n].parts : Waiting(n, p) \/ Sending(n, p) \/ WasPosted(n, p)

QueueInv == TypeOK /\ PartsInv /\ OrderInv /\ AnswerInv /\ NewestInv
-------------------------------------------------------------------------------
(* Sequences *)

(* A sequence with an element at its end.                                      *)
LEMMA Longer ==
    ASSUME NEW S, NEW q \in Seq(S), NEW x \in S
    PROVE  /\ Append(q, x) \in Seq(S) /\ Len(Append(q, x)) = Len(q) + 1
           /\ DOMAIN Append(q, x) = 1..Len(q) + 1 /\ DOMAIN q = 1..Len(q) /\ Len(q) \in Nat
           /\ \A i \in DOMAIN q : Append(q, x)[i] = q[i]
           /\ Append(q, x)[Len(q) + 1] = x
  OBVIOUS

(* A sequence without its first element.                                       *)
LEMMA Shorter ==
    ASSUME NEW S, NEW q \in Seq(S), q # <<>>
    PROVE  /\ Tail(q) \in Seq(S) /\ Head(q) = q[1] /\ 1 \in DOMAIN q /\ q[1] \in S
           /\ DOMAIN q = 1..Len(q) /\ Len(q) \in Nat \ {0}
           /\ DOMAIN Tail(q) = 1..Len(q) - 1
           /\ \A i \in 1..Len(q) - 1 : Tail(q)[i] = q[i + 1]
  OBVIOUS

(* A sequence followed by another.                                             *)
LEMMA Joined ==
    ASSUME NEW S, NEW a \in Seq(S), NEW b \in Seq(S)
    PROVE  /\ a \o b \in Seq(S) /\ DOMAIN (a \o b) = 1..Len(a) + Len(b)
           /\ \A i \in 1..Len(a) + Len(b) : (a \o b)[i] = IF i <= Len(a) THEN a[i] ELSE b[i - Len(a)]
  OBVIOUS

(* The parts of a message.                                                     *)
LEMMA PartsOfMessage ==
    ASSUME TypeOK, NEW m \in MessageKind, NEW n \in Nat \ {0}
    PROVE  Parts(m, n) \in Seq(Item) /\ Len(Parts(m, n)) = m.parts
<1>1. m.parts \in Nat \ {0}
  BY DEF MessageKind
<1>2. \A p \in 1..m.parts : [msg |-> n, part |-> p, at |-> now] \in Item
  BY <1>1 DEF TypeOK, Item
<1>3. Parts(m, n) \in [1..m.parts -> Item]
  BY <1>2 DEF Parts
<1> QED
  BY <1>1, <1>3

(* Queue q is the queue with the parts of message n, which is m, at its end.     *)
PartsAdded(q, m, n) ==
    /\ q \in Seq(Item)
    /\ \A i \in DOMAIN queue : i \in DOMAIN q /\ q[i] = queue[i]
    /\ \A i \in DOMAIN q \ DOMAIN queue : \E p \in 1..m.parts :
          i = Len(queue) + p /\ q[i] = [msg |-> n, part |-> p, at |-> now]
    /\ \A p \in 1..m.parts :
          Len(queue) + p \in DOMAIN q /\ q[Len(queue) + p] = [msg |-> n, part |-> p, at |-> now]

LEMMA Enqueued ==
    ASSUME TypeOK, NEW m \in MessageKind, NEW n \in Nat \ {0}, NEW q, q = queue \o Parts(m, n)
    PROVE  PartsAdded(q, m, n)
<1>1. /\ queue \in Seq(Item) /\ Len(queue) \in Nat /\ DOMAIN queue = 1..Len(queue)
      /\ m.parts \in Nat \ {0}
  BY DEF TypeOK, MessageKind
<1>2. Parts(m, n) \in Seq(Item) /\ Len(Parts(m, n)) = m.parts
  BY PartsOfMessage
<1>3. /\ q \in Seq(Item) /\ DOMAIN q = 1..Len(queue) + m.parts
      /\ \A i \in 1..Len(queue) + m.parts :
            q[i] = IF i <= Len(queue) THEN queue[i] ELSE Parts(m, n)[i - Len(queue)]
  <2>1. Parts(m, n) \in Seq(Item)
    BY <1>2
  <2> QED
    BY <1>1, <1>2, <2>1, Joined
<1>4. \A p \in 1..m.parts : Parts(m, n)[p] = [msg |-> n, part |-> p, at |-> now]
  BY DEF Parts
<1>5. \A i \in DOMAIN queue : i \in DOMAIN q /\ q[i] = queue[i]
  BY <1>1, <1>3
<1>6. \A p \in 1..m.parts :
        Len(queue) + p \in DOMAIN q /\ q[Len(queue) + p] = [msg |-> n, part |-> p, at |-> now]
  <2> SUFFICES ASSUME NEW p \in 1..m.parts
               PROVE  /\ Len(queue) + p \in DOMAIN q
                      /\ q[Len(queue) + p] = [msg |-> n, part |-> p, at |-> now]
    OBVIOUS
  <2>1. PICK i \in Nat : i = Len(queue) + p
    BY <1>1
  <2>2. i \in 1..Len(queue) + m.parts /\ ~(i <= Len(queue)) /\ i - Len(queue) = p
    BY <1>1, <2>1
  <2>3. q[i] = Parts(m, n)[p]
    BY <1>3, <2>2
  <2> QED
    BY <1>3, <1>4, <2>1, <2>2, <2>3
<1>7. \A i \in DOMAIN q \ DOMAIN queue : \E p \in 1..m.parts :
         i = Len(queue) + p /\ q[i] = [msg |-> n, part |-> p, at |-> now]
  <2> SUFFICES ASSUME NEW i \in DOMAIN q \ DOMAIN queue
               PROVE  \E p \in 1..m.parts : i = Len(queue) + p /\ q[i] = [msg |-> n, part |-> p, at |-> now]
    OBVIOUS
  <2>1. i - Len(queue) \in 1..m.parts /\ i = Len(queue) + (i - Len(queue))
    BY <1>1, <1>3
  <2> QED
    BY <1>6, <2>1
<1> QED
  BY <1>3, <1>5, <1>6, <1>7 DEF PartsAdded
-------------------------------------------------------------------------------
(* Facts every step uses *)

(* The messages and what the sequences of the state are made of.               *)
LEMMA Shapes ==
    ASSUME TypeOK
    PROVE  /\ DOMAIN offered = 1..Len(offered) /\ Len(offered) \in Nat
           /\ \A n \in DOMAIN offered : /\ offered[n].parts \in Nat \ {0} /\ offered[n].type \in Types
                                        /\ offered[n].text \in {"x", "y"} /\ offered[n].command \in BOOLEAN
           /\ DOMAIN queue = 1..Len(queue) /\ Len(queue) \in Nat
           /\ \A j \in DOMAIN queue : queue[j] \in Item
           /\ DOMAIN posted = 1..Len(posted) /\ Len(posted) \in Nat
           /\ \A i \in DOMAIN posted : posted[i] \in Posted
           /\ SinceBoot \subseteq DOMAIN offered
<1>1. offered \in Seq(MessageKind)
  BY TelegramAssumption DEF TypeOK
<1>2. \A n \in DOMAIN offered : offered[n] \in MessageKind
  BY <1>1
<1> QED
  BY <1>1, <1>2 DEF TypeOK, MessageKind, SinceBoot

(* Nobody is no item.                                                          *)
LEMMA Nobodys ==
    ASSUME NEW x \in Item \cup {Nobody}
    PROVE  /\ x # Nobody => x \in Item /\ x.msg \in Nat \ {0} /\ x.part \in Nat \ {0} /\ x.at \in Nat
           /\ x = Nobody => x.msg = 0
           /\ x \in Item => x # Nobody
  BY DEF Item, Nobody
-------------------------------------------------------------------------------
(* The steps that touch neither the messages nor the queue *)

LEMMA InitQueue == Init => QueueInv
<1> SUFFICES ASSUME Init PROVE QueueInv
  OBVIOUS
<1>1. TypeOK
  BY DEF Init, TypeOK
<1>2. SinceBoot = {} /\ DOMAIN queue = {} /\ DOMAIN posted = {} /\ DOMAIN offered = {}
  BY DEF Init, SinceBoot
<1>3. PartsInv
  BY <1>2 DEF Init, PartsInv
<1>4. OrderInv
  BY <1>2 DEF Init, OrderInv
<1>5. AnswerInv /\ NewestInv
  BY <1>2 DEF Init, AnswerInv, NewestInv
<1> QED
  BY <1>1, <1>3, <1>4, <1>5 DEF QueueInv

LEMMA AdvanceQueue == QueueInv /\ Advance => QueueInv'
<1> SUFFICES ASSUME QueueInv, Advance PROVE QueueInv'
  OBVIOUS
<1>1. /\ now' = now + 1 /\ queue' = queue /\ sender' = sender /\ direct' = direct
      /\ lastEnqueued' = lastEnqueued /\ lastSent' = lastSent /\ lastHash' = lastHash
      /\ offered' = offered /\ posted' = posted /\ dropped' = dropped /\ boot' = boot
      /\ acceptedAt' = acceptedAt
  BY DEF Advance, memory, ghosts
<1>2. TypeOK'
  BY <1>1 DEF QueueInv, TypeOK
<1>3. SinceBoot' = SinceBoot
  BY <1>1 DEF SinceBoot
<1>4. now \in Nat /\ \A x \in Nat : x <= now => x <= now + 1
  BY DEF QueueInv, TypeOK
<1>5. \A x \in Item : PartOf(x) => PartOf(x)'
  BY <1>1, <1>3, <1>4 DEF PartOf, Item
<1>6. /\ \A i \in DOMAIN queue : queue[i] \in Item
      /\ sender # Nobody => sender \in Item
      /\ direct # Nobody => direct \in Item
      /\ \A t \in Types : lastEnqueued[t] \in Nat
  BY Shapes DEF QueueInv, TypeOK
<1>7. PartsInv'
  BY <1>1, <1>4, <1>5, <1>6 DEF QueueInv, PartsInv
<1>8. OrderInv'
  BY <1>1 DEF QueueInv, OrderInv, Ordered
<1>9. AnswerInv'
  BY <1>1, <1>3 DEF QueueInv, AnswerInv, Waiting, Sending, Answering, WasPosted, Failed
<1>10. NewestInv'
  BY <1>1, <1>3 DEF QueueInv, NewestInv, Outdated, Message, Displaced, Said, Waiting, Sending, WasPosted
<1> QED
  BY <1>2, <1>7, <1>8, <1>9, <1>10 DEF QueueInv

LEMMA StutterQueue == QueueInv /\ UNCHANGED vars => QueueInv'
<1> SUFFICES ASSUME QueueInv, UNCHANGED vars PROVE QueueInv'
  OBVIOUS
<1>1. /\ now' = now /\ queue' = queue /\ sender' = sender /\ direct' = direct
      /\ lastEnqueued' = lastEnqueued /\ lastSent' = lastSent /\ lastHash' = lastHash
      /\ offered' = offered /\ posted' = posted /\ dropped' = dropped /\ boot' = boot
      /\ acceptedAt' = acceptedAt
  BY DEF vars, memory, ghosts
<1>2. TypeOK'
  BY <1>1 DEF QueueInv, TypeOK
<1>3. SinceBoot' = SinceBoot
  BY <1>1 DEF SinceBoot
<1>4. PartsInv'
  BY <1>1, <1>3 DEF QueueInv, PartsInv, PartOf
<1>5. OrderInv'
  BY <1>1 DEF QueueInv, OrderInv, Ordered
<1>6. AnswerInv'
  BY <1>1, <1>3 DEF QueueInv, AnswerInv, Waiting, Sending, Answering, WasPosted, Failed
<1>7. NewestInv'
  BY <1>1, <1>3 DEF QueueInv, NewestInv, Outdated, Message, Displaced, Said, Waiting, Sending, WasPosted
<1> QED
  BY <1>2, <1>4, <1>5, <1>6, <1>7 DEF QueueInv

(* After a restart no message of this process exists, and nothing waits.        *)
LEMMA RestartQueue == QueueInv /\ Restart => QueueInv'
<1> SUFFICES ASSUME QueueInv, Restart PROVE QueueInv'
  OBVIOUS
<1>1. /\ now' = now /\ queue' = <<>> /\ sender' = Nobody /\ direct' = Nobody
      /\ lastEnqueued' = [t \in Types |-> 0] /\ lastSent' = [t \in Types |-> 0]
      /\ lastHash' = [t \in Types |-> NoHash]
      /\ offered' = offered /\ acceptedAt' = acceptedAt /\ posted' = posted /\ dropped' = dropped
      /\ boot' = [restarts |-> boot.restarts + 1, offers |-> Len(offered)]
  BY DEF Restart, Fresh
<1>2. DOMAIN offered = 1..Len(offered) /\ Len(offered) \in Nat
  BY Shapes DEF QueueInv
<1>3. boot.restarts \in Nat
  BY DEF QueueInv, TypeOK
<1>4. boot' \in [restarts : Nat, offers : 0..Len(offered')]
  BY <1>1, <1>2, <1>3
<1>5. TypeOK'
  BY <1>1, <1>4 DEF QueueInv, TypeOK
<1>6. SinceBoot' = {} /\ DOMAIN queue' = {}
  BY <1>1, <1>2 DEF SinceBoot
<1>7. 0 <= now
  BY DEF QueueInv, TypeOK
<1>8. PartsInv'
  BY <1>1, <1>6, <1>7 DEF QueueInv, PartsInv
<1>9. OrderInv'
  BY <1>1, <1>6 DEF QueueInv, OrderInv, Ordered
<1>10. AnswerInv' /\ NewestInv'
  BY <1>1, <1>6 DEF AnswerInv, NewestInv
<1> QED
  BY <1>5, <1>8, <1>9, <1>10 DEF QueueInv
-------------------------------------------------------------------------------
(* Posts *)

(* The posts after one more.                                                   *)
LEMMA OnePost ==
    ASSUME TypeOK, NEW item \in Item, NEW o \in Outcomes, Post(item, o), NEW k, k = Len(posted) + 1
    PROVE  /\ posted' \in Seq(Posted) /\ k \in DOMAIN posted'
           /\ posted'[k].msg = item.msg /\ posted'[k].part = item.part /\ posted'[k].outcome = o
           /\ \A i \in DOMAIN posted : i \in DOMAIN posted' /\ posted'[i] = posted[i] /\ i < k
           /\ \A i \in DOMAIN posted' : (i = k \/ i \in DOMAIN posted) /\ ~(k < i)
<1>1. DEFINE p == [msg |-> item.msg, part |-> item.part, outcome |-> o]
<1>2. p \in Posted
  BY DEF Item, Posted
<1>3. posted \in Seq(Posted) /\ posted' = Append(posted, p)
  BY DEF TypeOK, Post
<1> HIDE DEF p
<1>4. /\ posted' \in Seq(Posted)
      /\ DOMAIN posted' = 1..Len(posted) + 1 /\ DOMAIN posted = 1..Len(posted) /\ Len(posted) \in Nat
      /\ \A i \in DOMAIN posted : posted'[i] = posted[i]
      /\ posted'[Len(posted) + 1] = p
  BY <1>2, <1>3, Longer
<1>5. p.msg = item.msg /\ p.part = item.part /\ p.outcome = o
  BY DEF p
<1> QED
  BY <1>4, <1>5

(* After a post of an item everything that was said, posted or failed still is. *)
LEMMA PostsStay ==
    ASSUME TypeOK, PartsInv, NEW item \in Item, NEW o \in Outcomes, Post(item, o), UNCHANGED <<offered, boot>>
    PROVE  /\ \A n, p : WasPosted(n, p) => WasPosted(n, p)'
           /\ \A n : Failed(n) => Failed(n)'
           /\ \A t, x : Said(t, x) => Said(t, x)'
           /\ WasPosted(item.msg, item.part)'
           /\ o # "ok" => Failed(item.msg)'
           /\ item.msg \in SinceBoot /\ o # "exception"
                 => Said(offered[item.msg].type, offered[item.msg].text)'
<1>1. PICK k : k = Len(posted) + 1
  OBVIOUS
<1>2. /\ k \in DOMAIN posted'
      /\ posted'[k].msg = item.msg /\ posted'[k].part = item.part /\ posted'[k].outcome = o
      /\ \A i \in DOMAIN posted : i \in DOMAIN posted' /\ posted'[i] = posted[i]
  BY <1>1, OnePost
<1>3. SinceBoot' = SinceBoot /\ offered' = offered
  BY DEF SinceBoot
<1>4. \A n, p : WasPosted(n, p) => WasPosted(n, p)'
  BY <1>2 DEF WasPosted
<1>5. \A n : Failed(n) => Failed(n)'
  BY <1>2 DEF Failed
<1>6. \A t, x : Said(t, x) => Said(t, x)'
  BY <1>2, <1>3 DEF Said
<1>7. WasPosted(item.msg, item.part)' /\ (o # "ok" => Failed(item.msg)')
  BY <1>2 DEF WasPosted, Failed
<1>8. item.msg \in SinceBoot /\ o # "exception"
        => Said(offered[item.msg].type, offered[item.msg].text)'
  BY <1>2, <1>3 DEF Said
<1> QED
  BY <1>4, <1>5, <1>6, <1>7, <1>8

(* The post of the fallback: an answer may come between the others, its parts   *)
(* come one after the other.                                                  *)
LEMMA PostDirectQueue == QueueInv /\ PostDirect => QueueInv'
<1> SUFFICES ASSUME QueueInv, PostDirect PROVE QueueInv'
  OBVIOUS
<1> USE DEF QueueInv
<1>1. PICK o \in Outcomes :
        /\ Post(direct, o)
        /\ direct' = IF o = "ok" /\ direct.part < offered[direct.msg].parts
                     THEN [direct EXCEPT !.part = @ + 1] ELSE Nobody
  BY DEF PostDirect
<1>2. /\ now' = now /\ queue' = queue /\ sender' = sender /\ direct # Nobody
      /\ lastEnqueued' = lastEnqueued /\ lastSent' = lastSent /\ lastHash' = lastHash
      /\ offered' = offered /\ acceptedAt' = acceptedAt /\ dropped' = dropped /\ boot' = boot
  BY DEF PostDirect
<1>3. direct \in Item /\ PartOf(direct) /\ offered[direct.msg].command
  BY <1>2 DEF TypeOK, PartsInv
<1>4. /\ direct.msg \in Nat \ {0} /\ direct.part \in Nat \ {0}
      /\ direct.msg \in SinceBoot /\ direct.part \in 1..offered[direct.msg].parts
      /\ direct.msg \in DOMAIN offered /\ offered[direct.msg].parts \in Nat \ {0}
  BY <1>3, Shapes DEF Item, PartOf
<1>5. SinceBoot' = SinceBoot
  BY <1>2 DEF SinceBoot
<1>6. PICK k : k = Len(posted) + 1
  OBVIOUS
<1>7. /\ posted' \in Seq(Posted) /\ k \in DOMAIN posted'
      /\ posted'[k].msg = direct.msg /\ posted'[k].part = direct.part /\ posted'[k].outcome = o
      /\ \A i \in DOMAIN posted : i \in DOMAIN posted' /\ posted'[i] = posted[i] /\ i < k
      /\ \A i \in DOMAIN posted' : (i = k \/ i \in DOMAIN posted) /\ ~(k < i)
  BY <1>1, <1>3, <1>6, OnePost
<1>8. \/ o # "ok" /\ direct' = Nobody
      \/ o = "ok" /\ direct.part = offered[direct.msg].parts /\ direct' = Nobody
      \/ /\ o = "ok" /\ direct.part + 1 \in 1..offered[direct.msg].parts
         /\ direct' \in Item /\ direct'.msg = direct.msg /\ direct'.part = direct.part + 1
         /\ direct'.at = direct.at
  BY <1>1, <1>3, <1>4 DEF Item
<1>9. TypeOK'
  BY <1>2, <1>7, <1>8 DEF TypeOK
<1>10. PartsInv'
  <2>1. \A i \in DOMAIN posted' : posted'[i].msg \in DOMAIN offered'
                                 /\ posted'[i].part \in 1..offered'[posted'[i].msg].parts
    BY <1>2, <1>4, <1>7 DEF PartsInv
  <2>2. direct' # Nobody => PartOf(direct)' /\ offered'[direct'.msg].command
    BY <1>2, <1>3, <1>4, <1>5, <1>8 DEF PartOf
  <2> QED
    BY <1>2, <1>5, <2>1, <2>2 DEF PartsInv, PartOf
<1>11. OrderInv'
  <2>1. \A i \in DOMAIN posted : Ordered(posted[i], posted'[k])
    BY <1>2, <1>3, <1>7 DEF OrderInv, Ordered, Before
  <2>2. (\A i, j \in DOMAIN posted : i < j => Ordered(posted[i], posted[j]))'
    BY <1>2, <1>7, <2>1 DEF OrderInv, Ordered, Before
  <2>3. \A j \in DOMAIN queue : Ordered(posted'[k], queue[j])
    BY <1>2, <1>3, <1>7 DEF OrderInv, Ordered
  <2>4. (\A i \in DOMAIN posted, j \in DOMAIN queue : Ordered(posted[i], queue[j]))'
    BY <1>2, <1>7, <2>3 DEF OrderInv, Ordered, Before
  <2>5. (sender # Nobody => \A i \in DOMAIN posted : Ordered(posted[i], sender))'
    BY <1>2, <1>3, <1>7 DEF OrderInv, Ordered, Before
  <2>6. direct' # Nobody => /\ \A i \in DOMAIN posted' : posted'[i].msg = direct'.msg => posted'[i].part < direct'.part
                            /\ \A j \in DOMAIN queue' : queue'[j].msg # direct'.msg
                            /\ sender'.msg # direct'.msg
    <3> SUFFICES ASSUME direct' # Nobody
                 PROVE  /\ \A i \in DOMAIN posted' : posted'[i].msg = direct'.msg => posted'[i].part < direct'.part
                        /\ \A j \in DOMAIN queue' : queue'[j].msg # direct'.msg
                        /\ sender'.msg # direct'.msg
      OBVIOUS
    <3>1. direct'.msg = direct.msg /\ direct'.part = direct.part + 1
      BY <1>8
    <3>2. \A i \in DOMAIN posted : posted[i].part \in Nat
      BY Shapes DEF Posted
    <3>3. \A i \in DOMAIN posted : posted[i].msg = direct.msg => posted[i].part < direct.part + 1
      BY <1>2, <1>4, <3>2 DEF OrderInv
    <3> QED
      BY <1>2, <1>4, <1>7, <3>1, <3>3 DEF OrderInv
  <2> QED
    BY <1>2, <2>2, <2>4, <2>5, <2>6 DEF OrderInv
<1>12. /\ \A n, p : WasPosted(n, p) => WasPosted(n, p)'
       /\ \A n : Failed(n) => Failed(n)'
       /\ \A t, x : Said(t, x) => Said(t, x)'
       /\ \A n, p : n = direct.msg /\ p = direct.part => WasPosted(n, p)'
       /\ \A n : n = direct.msg /\ o # "ok" => Failed(n)'
  <2>1. PICK d \in Item : d = direct
    BY <1>3
  <2>2. Post(d, o) /\ UNCHANGED <<offered, boot>>
    BY <1>1, <1>2, <2>1
  <2>3. /\ \A n, p : WasPosted(n, p) => WasPosted(n, p)'
        /\ \A n : Failed(n) => Failed(n)'
        /\ \A t, x : Said(t, x) => Said(t, x)'
        /\ WasPosted(d.msg, d.part)'
        /\ o # "ok" => Failed(d.msg)'
    BY <2>2, PostsStay
  <2> QED
    BY <2>1, <2>3
<1>13. AnswerInv'
  <2> SUFFICES ASSUME NEW n \in SinceBoot, offered[n].command, ~Failed(n)', NEW p \in 1..offered[n].parts
               PROVE  Waiting(n, p)' \/ Sending(n, p)' \/ Answering(n, p)' \/ WasPosted(n, p)'
    BY <1>2, <1>5 DEF AnswerInv
  <2>1. Waiting(n, p) \/ Sending(n, p) \/ Answering(n, p) \/ WasPosted(n, p)
    BY <1>12 DEF AnswerInv
  <2>2. CASE Waiting(n, p) \/ Sending(n, p) \/ WasPosted(n, p)
    BY <1>2, <1>12, <2>2 DEF Waiting, Sending
  <2>3. CASE Answering(n, p)
    <3>1. direct.msg = n /\ direct.part <= p /\ o = "ok"
      BY <1>12, <2>3 DEF Answering
    <3>2. CASE p = direct.part
      BY <1>12, <3>1, <3>2
    <3>3. CASE p # direct.part
      <4>1. direct.part + 1 <= p /\ direct.part # offered[direct.msg].parts
        BY <1>4, <3>1, <3>3
      <4> QED
        BY <1>8, <3>1, <4>1 DEF Answering
    <3> QED
      BY <3>2, <3>3
  <2> QED
    BY <2>1, <2>2, <2>3
<1>14. NewestInv'
  BY <1>2, <1>5, <1>12 DEF NewestInv, Outdated, Message, Displaced, Waiting, Sending
<1> QED
  BY <1>9, <1>10, <1>11, <1>13, <1>14
(* The post of the sender: what it posts was before all that waits.            *)
LEMMA PostQueuedQueue == QueueInv /\ PostQueued => QueueInv'
<1> SUFFICES ASSUME QueueInv, PostQueued PROVE QueueInv'
  OBVIOUS
<1> USE DEF QueueInv
<1>1. PICK o \in Outcomes :
        /\ Post(sender, o)
        /\ IF Remembered(o)
           THEN /\ lastHash' = [lastHash EXCEPT ![Message(sender).type] = Hash(sender)]
                /\ lastSent' = [lastSent EXCEPT ![Message(sender).type] = now]
           ELSE UNCHANGED <<lastHash, lastSent>>
  BY DEF PostQueued
<1>2. /\ now' = now /\ queue' = queue /\ sender' = Nobody /\ sender # Nobody /\ direct' = direct
      /\ lastEnqueued' = lastEnqueued /\ offered' = offered /\ dropped' = dropped /\ boot' = boot
      /\ acceptedAt' = acceptedAt
  BY DEF PostQueued
<1>3. PICK s \in Item : s = sender
  BY <1>2 DEF TypeOK
<1>4. /\ s.msg \in Nat \ {0} /\ s.part \in Nat \ {0}
      /\ s.msg \in SinceBoot /\ s.part \in 1..offered[s.msg].parts
      /\ s.msg \in DOMAIN offered /\ offered[s.msg].parts \in Nat \ {0}
      /\ offered[s.msg].type \in Types /\ offered[s.msg].text \in {"x", "y"}
  BY <1>2, <1>3, Shapes DEF Item, PartOf, PartsInv
<1>5. SinceBoot' = SinceBoot
  BY <1>2 DEF SinceBoot
<1>6. PICK k : k = Len(posted) + 1
  OBVIOUS
<1>7. /\ posted' \in Seq(Posted) /\ k \in DOMAIN posted'
      /\ posted'[k].msg = s.msg /\ posted'[k].part = s.part /\ posted'[k].outcome = o
      /\ \A i \in DOMAIN posted : i \in DOMAIN posted' /\ posted'[i] = posted[i] /\ i < k
      /\ \A i \in DOMAIN posted' : (i = k \/ i \in DOMAIN posted) /\ ~(k < i)
  BY <1>1, <1>3, <1>6, OnePost
<1>8. PICK u \in Types : u = offered[s.msg].type
  BY <1>4
<1>9. /\ DOMAIN lastHash' = Types /\ lastSent' \in [Types -> Nat]
      /\ \A t \in Types : \/ lastHash'[t] = lastHash[t]
                          \/ t = u /\ o # "exception" /\ lastHash'[t] = <<offered[s.msg].text, s.part, offered[s.msg].parts>>
  <2>1. CASE Remembered(o)
    BY <1>1, <1>3, <1>8, <2>1 DEF TypeOK, Message, Hash, Remembered
  <2>2. CASE ~Remembered(o)
    BY <1>1, <2>2 DEF TypeOK
  <2> QED
    BY <2>1, <2>2
<1>10. TypeOK'
  BY <1>2, <1>7, <1>9 DEF TypeOK
<1>11. PartsInv'
  <2>1. (\A i \in DOMAIN posted : posted[i].msg \in DOMAIN offered
                                 /\ posted[i].part \in 1..offered[posted[i].msg].parts)'
    BY <1>2, <1>4, <1>7 DEF PartsInv
  <2> QED
    BY <1>2, <1>5, <2>1 DEF PartsInv, PartOf
<1>12. OrderInv'
  <2>1. \A i \in DOMAIN posted : Ordered(posted[i], posted'[k])
    BY <1>2, <1>3, <1>7 DEF OrderInv, Ordered, Before
  <2>2. (\A i, j \in DOMAIN posted : i < j => Ordered(posted[i], posted[j]))'
    BY <1>2, <1>7, <2>1 DEF OrderInv, Ordered, Before
  <2>3. \A j \in DOMAIN queue : Ordered(posted'[k], queue[j])
    BY <1>2, <1>3, <1>7 DEF OrderInv, Ordered, Before
  <2>4. (\A i \in DOMAIN posted, j \in DOMAIN queue : Ordered(posted[i], queue[j]))'
    BY <1>2, <1>7, <2>3 DEF OrderInv, Ordered, Before
  <2>5. (direct # Nobody => /\ \A i \in DOMAIN posted : posted[i].msg = direct.msg => posted[i].part < direct.part
                            /\ \A j \in DOMAIN queue : queue[j].msg # direct.msg
                            /\ sender.msg # direct.msg)'
    <3> SUFFICES ASSUME direct # Nobody
                 PROVE  (/\ \A i \in DOMAIN posted : posted[i].msg = direct.msg => posted[i].part < direct.part
                         /\ \A j \in DOMAIN queue : queue[j].msg # direct.msg
                         /\ sender.msg # direct.msg)'
      BY <1>2
    <3>1. direct.msg # 0 /\ sender'.msg = 0
      BY <1>2, Nobodys DEF TypeOK, Item, Nobody
    <3> QED
      BY <1>2, <1>3, <1>7, <3>1 DEF OrderInv
  <2>6. (\A i, j \in DOMAIN queue : i < j => Before(queue[i], queue[j]))'
    BY <1>2 DEF OrderInv, Before
  <2>7. (sender # Nobody => /\ \A i \in DOMAIN posted : Ordered(posted[i], sender)
                            /\ \A j \in DOMAIN queue : Before(sender, queue[j]))'
    BY <1>2
  <2> QED
    BY <2>2, <2>4, <2>5, <2>6, <2>7 DEF OrderInv
<1>13. /\ \A n, p : WasPosted(n, p) => WasPosted(n, p)'
       /\ \A n : Failed(n) => Failed(n)'
       /\ \A t, x : Said(t, x) => Said(t, x)'
       /\ WasPosted(s.msg, s.part)'
       /\ o # "exception" => Said(offered[s.msg].type, offered[s.msg].text)'
  <2>1. Post(s, o) /\ UNCHANGED <<offered, boot>>
    BY <1>1, <1>2, <1>3
  <2> QED
    BY <1>4, <2>1, PostsStay
<1>14. AnswerInv'
  <2> SUFFICES ASSUME NEW n \in SinceBoot, offered[n].command, ~Failed(n)', NEW p \in 1..offered[n].parts
               PROVE  Waiting(n, p)' \/ Sending(n, p)' \/ Answering(n, p)' \/ WasPosted(n, p)'
    BY <1>2, <1>5 DEF AnswerInv
  <2>1. Waiting(n, p) \/ Sending(n, p) \/ Answering(n, p) \/ WasPosted(n, p)
    BY <1>13 DEF AnswerInv
  <2> QED
    BY <1>2, <1>3, <1>13, <2>1 DEF Waiting, Sending, Answering
<1>15. NewestInv'
  <2>1. (\A j \in DOMAIN queue :
          /\ queue[j].at = acceptedAt[queue[j].msg]
          /\ Outdated(queue[j]) => Displaced(queue[j].msg))'
    BY <1>2, <1>5 DEF NewestInv, Outdated, Message, Displaced
  <2>2. (\A t \in Types : lastHash[t] # NoHash => \E part, parts \in Nat, text \in {"x", "y"} :
                                                   lastHash[t] = <<text, part, parts>> /\ Said(t, text))'
    <3> SUFFICES ASSUME NEW t \in Types, lastHash'[t] # NoHash
                 PROVE  \E part, parts \in Nat, text \in {"x", "y"} :
                          lastHash'[t] = <<text, part, parts>> /\ Said(t, text)'
      OBVIOUS
    <3>1. CASE lastHash'[t] = lastHash[t]
      BY <1>13, <3>1 DEF NewestInv
    <3>2. CASE t = u /\ o # "exception" /\ lastHash'[t] = <<offered[s.msg].text, s.part, offered[s.msg].parts>>
      <4>1. PICK x \in {"x", "y"} : x = offered[s.msg].text
        BY <1>4
      <4>2. Said(t, x)'
        BY <1>2, <1>8, <1>13, <3>2, <4>1 DEF Said
      <4>3. PICK part \in Nat, parts \in Nat : part = s.part /\ parts = offered[s.msg].parts
        BY <1>4
      <4> QED
        BY <3>2, <4>1, <4>2, <4>3
    <3> QED
      BY <1>9, <3>1, <3>2
  <2>3. (\A n \in SinceBoot \ dropped :
          \/ offered[n].command \/ Displaced(n) \/ Said(offered[n].type, offered[n].text)
          \/ \E p \in 1..offered[n].parts : Waiting(n, p) \/ Sending(n, p) \/ WasPosted(n, p))'
    <3> SUFFICES ASSUME NEW n \in SinceBoot \ dropped, ~offered[n].command, ~Displaced(n),
                        ~Said(offered[n].type, offered[n].text)'
                 PROVE  \E p \in 1..offered[n].parts : Waiting(n, p)' \/ Sending(n, p)' \/ WasPosted(n, p)'
      BY <1>2, <1>5 DEF Displaced
    <3>1. ~Said(offered[n].type, offered[n].text)
      <4>1. PICK t, x : t = offered[n].type /\ x = offered[n].text
        OBVIOUS
      <4>2. ~Said(t, x)'
        BY <1>2, <4>1 DEF Said
      <4> QED
        BY <1>13, <4>1, <4>2
    <3>2. PICK p \in 1..offered[n].parts : Waiting(n, p) \/ Sending(n, p) \/ WasPosted(n, p)
      BY <3>1 DEF NewestInv
    <3> QED
      BY <1>2, <1>3, <1>13, <3>2 DEF Waiting, Sending
  <2> QED
    BY <2>1, <2>2, <2>3 DEF NewestInv
<1> QED
  BY <1>10, <1>11, <1>12, <1>14, <1>15-------------------------------------------------------------------------------
(* The sender takes the oldest part *)

(* An answer is never left out.  A notification is left out only when _LAST_ENQUEUED says *)
(* that a newer one of its type was queued within the window, or the hash that its text was posted.         *)
LEMMA LeftOut ==
    ASSUME QueueInv, NEW h \in Item, h.msg \in SinceBoot, Coalesced(h) \/ Repeated(h),
           Outdated(h) => Displaced(h.msg)
    PROVE  /\ ~offered[h.msg].command
           /\ Displaced(h.msg) \/ Said(offered[h.msg].type, offered[h.msg].text)
<1>1. ~offered[h.msg].command
  BY DEF Coalesced, Repeated, MayBeLeftOut, Message
<1>2. CASE Coalesced(h)
  BY <1>1, <1>2 DEF Coalesced
<1>3. CASE Repeated(h)
  <2>1. PICK t \in Types : t = offered[h.msg].type
    BY Shapes DEF QueueInv
  <2>. PICK x : x = offered[h.msg].text
    OBVIOUS
  <2>2. lastHash[t] = <<x, h.part, offered[h.msg].parts>>
    BY <1>3, <2>1 DEF Repeated, Message, Hash
  <2>3. lastHash[t] # NoHash
    BY <2>2 DEF NoHash
  <2>4. PICK part \in Nat, parts \in Nat, text \in {"x", "y"} : lastHash[t] = <<text, part, parts>> /\ Said(t, text)
    BY <2>3 DEF QueueInv, NewestInv
  <2>5. text = x
    BY <2>2, <2>4
  <2> QED
    BY <1>1, <2>1, <2>4, <2>5
<1> QED
  BY <1>2, <1>3

LEMMA GetQueue == QueueInv /\ Get => QueueInv'
<1> SUFFICES ASSUME QueueInv, Get PROVE QueueInv'
  OBVIOUS
<1> USE DEF QueueInv
<1>1. /\ now' = now /\ direct' = direct /\ sender = Nobody /\ queue # <<>> /\ queue' = Tail(queue)
      /\ lastEnqueued' = lastEnqueued /\ lastSent' = lastSent /\ lastHash' = lastHash
      /\ offered' = offered /\ posted' = posted /\ dropped' = dropped /\ boot' = boot
      /\ acceptedAt' = acceptedAt
  BY DEF Get, Rest
<1>2. PICK h \in Item : h = Head(queue)
  BY <1>1, Shorter DEF TypeOK
<1>3. /\ 1 \in DOMAIN queue /\ queue[1] = h /\ queue' \in Seq(Item)
      /\ \A i \in DOMAIN queue' : i + 1 \in DOMAIN queue /\ queue'[i] = queue[i + 1]
                                 /\ 1 < i + 1 /\ i \in Nat
      /\ \A j \in DOMAIN queue : j = 1 \/ (j - 1 \in DOMAIN queue' /\ queue'[j - 1] = queue[j])
  <2>1. queue \in Seq(Item) /\ queue # <<>>
    BY <1>1 DEF TypeOK
  <2>2. /\ queue' \in Seq(Item) /\ queue[1] = h /\ 1 \in DOMAIN queue
        /\ DOMAIN queue = 1..Len(queue) /\ Len(queue) \in Nat \ {0}
        /\ DOMAIN queue' = 1..Len(queue) - 1
        /\ \A i \in 1..Len(queue) - 1 : queue'[i] = queue[i + 1]
    BY <1>1, <1>2, <2>1, Shorter
  <2>3. PICK len \in Nat : len = Len(queue)
    BY <2>2
  <2> QED
    BY <2>2, <2>3
<1>4. /\ h.msg \in SinceBoot /\ h.part \in 1..offered[h.msg].parts /\ h.at <= now
      /\ h.msg \in Nat \ {0} /\ h.part \in Nat \ {0}
      /\ Outdated(h) => Displaced(h.msg)
      /\ \A i \in DOMAIN posted : Ordered(posted[i], h)
      /\ \A i \in DOMAIN queue' : Before(h, queue'[i])
      /\ direct # Nobody => h.msg # direct.msg
  <2>1. PartOf(h) /\ (Outdated(h) => Displaced(h.msg))
    BY <1>3 DEF PartsInv, NewestInv
  <2>2. \A i \in DOMAIN posted : Ordered(posted[i], h)
    BY <1>3 DEF OrderInv
  <2>3. \A i \in DOMAIN queue' : Before(h, queue'[i])
    BY <1>3 DEF OrderInv
  <2>4. direct # Nobody => h.msg # direct.msg
    BY <1>3 DEF OrderInv
  <2> QED
    BY <2>1, <2>2, <2>3, <2>4 DEF PartOf, Item
<1>5. SinceBoot' = SinceBoot
  BY <1>1 DEF SinceBoot
<1>6. \/ Coalesced(h) \/ Repeated(h)
      \/ sender' = h
  BY <1>2 DEF Get, Oldest
<1>7. sender' \in {Nobody, h}
  BY <1>1, <1>2 DEF Get, Oldest
<1>8. TypeOK'
  BY <1>1, <1>3, <1>7 DEF TypeOK
<1>9. PartsInv'
  <2>1. (\A i \in DOMAIN queue : PartOf(queue[i]))'
    BY <1>1, <1>3, <1>5 DEF PartsInv, PartOf
  <2>2. (sender # Nobody => PartOf(sender))'
    BY <1>1, <1>4, <1>5, <1>7 DEF PartOf
  <2> QED
    BY <1>1, <1>5, <2>1, <2>2 DEF PartsInv, PartOf
<1>10. OrderInv'
  <2>1. (\A i, j \in DOMAIN posted : i < j => Ordered(posted[i], posted[j]))'
    BY <1>1 DEF OrderInv, Ordered, Before
  <2>2. (\A i \in DOMAIN posted, j \in DOMAIN queue : Ordered(posted[i], queue[j]))'
    BY <1>1, <1>3 DEF OrderInv, Ordered, Before
  <2>3. (\A i, j \in DOMAIN queue : i < j => Before(queue[i], queue[j]))'
    <3> SUFFICES ASSUME NEW i \in DOMAIN queue', NEW j \in DOMAIN queue', i < j
                 PROVE  Before(queue'[i], queue'[j])
      BY DEF Before
    <3>1. PICK a \in DOMAIN queue, b \in DOMAIN queue : a = i + 1 /\ b = j + 1
      BY <1>3
    <3>2. a < b /\ queue'[i] = queue[a] /\ queue'[j] = queue[b]
      BY <1>3, <3>1
    <3>3. Before(queue[a], queue[b])
      BY <3>2 DEF OrderInv
    <3> QED
      BY <3>2, <3>3 DEF Before
  <2>4. (sender # Nobody => \A i \in DOMAIN posted : Ordered(posted[i], sender))'
    BY <1>1, <1>4, <1>7 DEF Ordered, Before
  <2>5. (sender # Nobody => \A j \in DOMAIN queue : Before(sender, queue[j]))'
    BY <1>4, <1>7 DEF Before
  <2>6. (direct # Nobody => \A i \in DOMAIN posted : posted[i].msg = direct.msg => posted[i].part < direct.part)'
    BY <1>1 DEF OrderInv
  <2>7. (direct # Nobody => \A j \in DOMAIN queue : queue[j].msg # direct.msg)'
    BY <1>1, <1>3 DEF OrderInv
  <2>8. (direct # Nobody => sender.msg # direct.msg)'
    BY <1>1, <1>4, <1>7 DEF OrderInv
  <2> QED
    BY <2>1, <2>2, <2>3, <2>4, <2>5, <2>6, <2>7, <2>8 DEF OrderInv
<1>11. \A n \in SinceBoot : \A p : Waiting(n, p) \/ Sending(n, p)
         => \/ Waiting(n, p)' \/ (n = h.msg /\ p = h.part)
  <2> SUFFICES ASSUME NEW n \in SinceBoot, NEW p, Waiting(n, p) \/ Sending(n, p), ~Waiting(n, p)'
               PROVE  n = h.msg /\ p = h.part
    OBVIOUS
  <2>1. n # 0
    BY Shapes
  <2>2. sender.msg = 0
    BY <1>1, Nobodys DEF Nobody
  <2> QED
    BY <1>3, <2>1, <2>2 DEF Waiting, Sending
<1>12. AnswerInv'
  <2> SUFFICES ASSUME NEW n \in SinceBoot, offered[n].command, ~Failed(n)', NEW p \in 1..offered[n].parts
               PROVE  Waiting(n, p)' \/ Sending(n, p)' \/ Answering(n, p)' \/ WasPosted(n, p)'
    BY <1>1, <1>5 DEF AnswerInv
  <2>1. Waiting(n, p) \/ Sending(n, p) \/ Answering(n, p) \/ WasPosted(n, p)
    BY <1>1 DEF AnswerInv, Failed
  <2>2. CASE Answering(n, p) \/ WasPosted(n, p)
    BY <1>1, <2>2 DEF Answering, WasPosted
  <2>3. CASE n = h.msg /\ p = h.part
    <3>1. sender' = h
      BY <1>4, <1>6, <2>3, LeftOut
    <3> QED
      BY <2>3, <3>1 DEF Sending
  <2> QED
    BY <1>11, <2>1, <2>2, <2>3
<1>13. NewestInv'
  <2>1. (\A j \in DOMAIN queue :
          /\ queue[j].at = acceptedAt[queue[j].msg]
          /\ Outdated(queue[j]) => Displaced(queue[j].msg))'
    <3> SUFFICES ASSUME NEW j \in DOMAIN queue'
                 PROVE  /\ queue'[j].at = acceptedAt[queue'[j].msg]
                        /\ Outdated(queue'[j]) => Displaced(queue'[j].msg)
      BY <1>1, <1>5 DEF Outdated, Message, Displaced
    <3>1. PICK i \in DOMAIN queue : queue'[j] = queue[i]
      BY <1>3
    <3> QED
      BY <3>1 DEF NewestInv
  <2>2. (\A t \in Types : lastHash[t] # NoHash => \E part, parts \in Nat, text \in {"x", "y"} :
                                                   lastHash[t] = <<text, part, parts>> /\ Said(t, text))'
    <3>1. \A t, x : Said(t, x)' <=> Said(t, x)
      BY <1>1, <1>5 DEF Said
    <3> QED
      BY <1>1, <3>1 DEF NewestInv
  <2>3. (\A n \in SinceBoot \ dropped :
          \/ offered[n].command \/ Displaced(n) \/ Said(offered[n].type, offered[n].text)
          \/ \E p \in 1..offered[n].parts : Waiting(n, p) \/ Sending(n, p) \/ WasPosted(n, p))'
    <3> SUFFICES ASSUME NEW n \in SinceBoot \ dropped, ~offered[n].command, ~Displaced(n),
                        ~Said(offered[n].type, offered[n].text)
                 PROVE  \E p \in 1..offered[n].parts : Waiting(n, p)' \/ Sending(n, p)' \/ WasPosted(n, p)'
      BY <1>1, <1>5 DEF Displaced, Said
    <3>1. PICK p \in 1..offered[n].parts : Waiting(n, p) \/ Sending(n, p) \/ WasPosted(n, p)
      BY DEF NewestInv
    <3>2. CASE WasPosted(n, p)
      BY <1>1, <3>2 DEF WasPosted
    <3>3. CASE n = h.msg /\ p = h.part
      <4>1. sender' = h
        BY <1>4, <1>6, <3>3, LeftOut
      <4> QED
        BY <3>3, <4>1 DEF Sending
    <3> QED
      BY <1>11, <3>1, <3>2, <3>3
  <2> QED
    BY <2>1, <2>2, <2>3 DEF NewestInv
<1> QED
  BY <1>8, <1>9, <1>10, <1>12, <1>13-------------------------------------------------------------------------------
(* A message is offered *)

(* It is the newest of all; those before it stay as they were.                 *)
LEMMA Numbered ==
    ASSUME TypeOK, NEW m \in Messages, offered' = Append(offered, m), boot' = boot, NEW n, n = Len(offered) + 1,
           NEW ts \in Nat \cup {NoTs}, acceptedAt' = Append(acceptedAt, ts)
    PROVE  /\ m \in MessageKind /\ m.parts \in Nat \ {0} /\ m.type \in Types
           /\ n \in Nat \ {0} /\ n \notin DOMAIN offered /\ n \in DOMAIN offered' /\ offered'[n] = m
           /\ \A k \in DOMAIN offered : k \in DOMAIN offered' /\ offered'[k] = offered[k] /\ k < n /\ k # n
           /\ SinceBoot' = SinceBoot \cup {n} /\ SinceBoot \subseteq DOMAIN offered
           /\ n \notin dropped /\ dropped \subseteq 1..Len(offered') /\ n \in 1..Len(offered')
           /\ offered' \in Seq(Messages) /\ boot' \in [restarts : Nat, offers : 0..Len(offered')]
           /\ acceptedAt' \in Seq(Nat \cup {NoTs}) /\ Len(acceptedAt') = Len(offered')
           /\ acceptedAt'[n] = ts
           /\ \A k \in DOMAIN offered : acceptedAt'[k] = acceptedAt[k] /\ acceptedAt[k] \in Nat \cup {NoTs}
<1>8. /\ acceptedAt' \in Seq(Nat \cup {NoTs}) /\ Len(acceptedAt') = Len(acceptedAt) + 1
      /\ \A k \in 1..Len(acceptedAt) : acceptedAt'[k] = acceptedAt[k] /\ acceptedAt[k] \in Nat \cup {NoTs}
      /\ acceptedAt'[Len(acceptedAt) + 1] = ts /\ Len(acceptedAt) = Len(offered)
  <2>1. acceptedAt \in Seq(Nat \cup {NoTs}) /\ Len(acceptedAt) = Len(offered)
    BY DEF TypeOK
  <2> QED
    BY <2>1, Longer
<1>1. /\ offered' \in Seq(Messages) /\ Len(offered') = Len(offered) + 1
      /\ DOMAIN offered' = 1..Len(offered) + 1 /\ DOMAIN offered = 1..Len(offered) /\ Len(offered) \in Nat
      /\ \A k \in DOMAIN offered : offered'[k] = offered[k]
      /\ offered'[Len(offered) + 1] = m
  BY Longer DEF TypeOK
<1>2. m \in MessageKind /\ m.parts \in Nat \ {0} /\ m.type \in Types
  BY TelegramAssumption DEF MessageKind
<1>3. PICK len \in Nat : len = Len(offered)
  BY <1>1
<1>4. boot.offers \in 0..len /\ boot.restarts \in Nat
      /\ boot = [restarts |-> boot.restarts, offers |-> boot.offers]
  BY <1>3 DEF TypeOK
<1>5. SinceBoot' = SinceBoot \cup {n} /\ SinceBoot \subseteq DOMAIN offered
  BY <1>1, <1>3, <1>4 DEF SinceBoot
<1>6. n \notin dropped /\ dropped \subseteq 1..Len(offered')
  BY <1>1, <1>3 DEF TypeOK
<1>7. boot' \in [restarts : Nat, offers : 0..Len(offered')]
  BY <1>1, <1>3, <1>4
<1> QED
  BY <1>1, <1>2, <1>3, <1>5, <1>6, <1>7, <1>8

(* What was said, posted, failed, superseded or ordered still is.               *)
LEMMA OlderStay ==
    ASSUME QueueInv, NEW m \in Messages, offered' = Append(offered, m), dropped \subseteq dropped',
           dropped' \subseteq dropped \cup {Len(offered) + 1},
           NEW ts \in Nat \cup {NoTs}, acceptedAt' = Append(acceptedAt, ts),
           UNCHANGED <<boot, posted, now>>
    PROVE  /\ \A t, x : Said(t, x) => Said(t, x)'
           /\ \A n, p : WasPosted(n, p) => WasPosted(n, p)'
           /\ \A n : Failed(n) => Failed(n)'
           /\ \A n \in SinceBoot : Displaced(n) => Displaced(n)'
           /\ \A x : PartOf(x) => PartOf(x)'
           /\ \A a, b : a.msg \in DOMAIN offered /\ b.msg \in DOMAIN offered /\ Ordered(a, b) => Ordered(a, b)'
           /\ \A i \in DOMAIN posted : posted[i].msg \in DOMAIN offered
<1> USE DEF QueueInv
<1>1. PICK n : n = Len(offered) + 1
  OBVIOUS
<1>2. /\ n \notin DOMAIN offered /\ SinceBoot' = SinceBoot \cup {n} /\ SinceBoot \subseteq DOMAIN offered
      /\ \A k \in DOMAIN offered : /\ k \in DOMAIN offered' /\ offered'[k] = offered[k]
                                   /\ acceptedAt'[k] = acceptedAt[k]
  BY <1>1, Numbered
<1>3. \A i \in DOMAIN posted : posted[i].msg \in DOMAIN offered
  BY DEF PartsInv
<1>4. \A t, x : Said(t, x) => Said(t, x)'
  BY <1>2 DEF Said
<1>5. (\A k, p : WasPosted(k, p) => WasPosted(k, p)') /\ \A k : Failed(k) => Failed(k)'
  BY DEF WasPosted, Failed
<1>6. \A k \in SinceBoot : Displaced(k) => Displaced(k)'
  <2> SUFFICES ASSUME NEW k \in SinceBoot, Displaced(k) PROVE Displaced(k)'
    OBVIOUS
  <2>1. PICK j \in SinceBoot : /\ j > k /\ offered[j].type = offered[k].type
                              /\ acceptedAt[k] < acceptedAt[j]
                              /\ acceptedAt[j] - acceptedAt[k] <= Window[offered[k].type]
    BY DEF Displaced
  <2>2. /\ j \in SinceBoot' /\ offered'[j] = offered[j] /\ offered'[k] = offered[k]
        /\ acceptedAt'[j] = acceptedAt[j] /\ acceptedAt'[k] = acceptedAt[k]
    BY <1>1, <1>2, <2>1
  <2> QED
    BY <2>1, <2>2 DEF Displaced
<1>7. \A x : PartOf(x) => PartOf(x)'
  BY <1>2 DEF PartOf
<1>8. \A a, b : a.msg \in DOMAIN offered /\ b.msg \in DOMAIN offered /\ Ordered(a, b) => Ordered(a, b)'
  BY <1>2 DEF Ordered, Before
<1> QED
  BY <1>3, <1>4, <1>5, <1>6, <1>7, <1>8

(* The queue is full and the message is no answer: nothing changes but dropped. *)
LEMMA OfferDropped ==
    ASSUME QueueInv, NEW m \in Messages, offered' = Append(offered, m),
           ~HasCapacity(m) /\ ~Bypasses(m), dropped' = dropped \cup {Len(offered) + 1},
           acceptedAt' = Append(acceptedAt, NoTs),
           UNCHANGED <<now, queue, lastEnqueued, lastHash, lastSent, direct, sender, posted, skipped, boot>>
    PROVE  QueueInv'
<1> USE DEF QueueInv
<1>1. PICK n : n = Len(offered) + 1
  OBVIOUS
<1>2. /\ n \notin DOMAIN offered /\ SinceBoot' = SinceBoot \cup {n} /\ SinceBoot \subseteq DOMAIN offered
      /\ \A k \in DOMAIN offered : k \in DOMAIN offered' /\ offered'[k] = offered[k]
      /\ \A k \in DOMAIN offered : acceptedAt'[k] = acceptedAt[k]
      /\ offered'[n] = m /\ ~m.command /\ dropped' = dropped \cup {n}
  BY <1>1, Numbered DEF Bypasses
<1>3. TypeOK'
  <2>1. /\ dropped \subseteq 1..Len(offered') /\ n \in 1..Len(offered')
        /\ offered' \in Seq(Messages) /\ boot' \in [restarts : Nat, offers : 0..Len(offered')]
        /\ acceptedAt' \in Seq(Nat \cup {NoTs}) /\ Len(acceptedAt') = Len(offered')
    BY <1>1, Numbered
  <2> QED
    BY <1>2, <2>1 DEF TypeOK
<1>4. /\ \A t, x : Said(t, x) => Said(t, x)'
      /\ \A k, p : WasPosted(k, p) => WasPosted(k, p)'
      /\ \A k : Failed(k) => Failed(k)'
      /\ \A k \in SinceBoot : Displaced(k) => Displaced(k)'
      /\ \A x : PartOf(x) => PartOf(x)'
      /\ \A a, b : a.msg \in DOMAIN offered /\ b.msg \in DOMAIN offered /\ Ordered(a, b) => Ordered(a, b)'
      /\ \A i \in DOMAIN posted : posted[i].msg \in DOMAIN offered
  BY <1>2, OlderStay
<1>5. PartsInv'
  <2>1. \A x : PartOf(x) => x.msg \in DOMAIN offered
    BY <1>2 DEF PartOf
  <2> QED
    BY <1>2, <1>4, <2>1 DEF PartsInv, PartOf
<1>6. OrderInv'
  <2>1. /\ \A j \in DOMAIN queue : queue[j].msg \in DOMAIN offered
        /\ sender # Nobody => sender.msg \in DOMAIN offered
    BY <1>2 DEF PartsInv, PartOf
  <2> QED
    BY <1>2, <1>4, <2>1 DEF OrderInv, Ordered, Before
<1>7. AnswerInv'
  <2> SUFFICES ASSUME NEW k \in SinceBoot, offered[k].command, ~Failed(k)', NEW p \in 1..offered[k].parts
               PROVE  Waiting(k, p)' \/ Sending(k, p)' \/ Answering(k, p)' \/ WasPosted(k, p)'
    BY <1>2 DEF AnswerInv
  <2>1. Waiting(k, p) \/ Sending(k, p) \/ Answering(k, p) \/ WasPosted(k, p)
    BY <1>4 DEF AnswerInv
  <2> QED
    BY <1>4, <2>1 DEF Waiting, Sending, Answering
<1>8. NewestInv'
  <2>1. (\A j \in DOMAIN queue :
          /\ queue[j].at = acceptedAt[queue[j].msg]
          /\ Outdated(queue[j]) => Displaced(queue[j].msg))'
    BY <1>2, <1>4 DEF NewestInv, PartsInv, PartOf, Outdated, Message
  <2>2. (\A t \in Types : lastHash[t] # NoHash => \E part, parts \in Nat, text \in {"x", "y"} :
                                                   lastHash[t] = <<text, part, parts>> /\ Said(t, text))'
    BY <1>4 DEF NewestInv
  <2>3. (\A k \in SinceBoot \ dropped :
          \/ offered[k].command \/ Displaced(k) \/ Said(offered[k].type, offered[k].text)
          \/ \E p \in 1..offered[k].parts : Waiting(k, p) \/ Sending(k, p) \/ WasPosted(k, p))'
    <3> SUFFICES ASSUME NEW k \in SinceBoot \ dropped, ~offered[k].command, ~Displaced(k),
                        ~Said(offered[k].type, offered[k].text)
                 PROVE  \E p \in 1..offered[k].parts : Waiting(k, p)' \/ Sending(k, p)' \/ WasPosted(k, p)'
      BY <1>2, <1>4
    <3> QED
      BY <1>4 DEF NewestInv, Waiting, Sending, WasPosted
  <2> QED
    BY <2>1, <2>2, <2>3 DEF NewestInv
<1> QED
  BY <1>3, <1>5, <1>6, <1>7, <1>8

(* The queue is full and the message is an answer: the poller posts it itself.  *)
LEMMA OfferBypassed ==
    ASSUME QueueInv, NEW m \in Messages, offered' = Append(offered, m),
           m.command, direct = Nobody, direct' = [msg |-> Len(offered) + 1, part |-> 1, at |-> now],
           acceptedAt' = Append(acceptedAt, NoTs),
           UNCHANGED <<now, queue, lastEnqueued, lastHash, lastSent, dropped, sender, posted, skipped, boot>>
    PROVE  QueueInv'
<1> USE DEF QueueInv
<1>1. PICK n : n = Len(offered) + 1
  OBVIOUS
<1>2. /\ n \notin DOMAIN offered /\ SinceBoot' = SinceBoot \cup {n} /\ SinceBoot \subseteq DOMAIN offered
      /\ \A k \in DOMAIN offered : k \in DOMAIN offered' /\ offered'[k] = offered[k]
      /\ \A k \in DOMAIN offered : acceptedAt'[k] = acceptedAt[k]
      /\ offered'[n] = m /\ dropped' = dropped /\ n \in Nat \ {0} /\ m.parts \in Nat \ {0}
  BY <1>1, Numbered
<1>3. direct'.msg = n /\ direct'.part = 1 /\ direct'.at = now /\ direct' \in Item
  BY <1>1, <1>2 DEF TypeOK, Item
<1>4. TypeOK'
  <2>1. /\ dropped \subseteq 1..Len(offered')
        /\ offered' \in Seq(Messages) /\ boot' \in [restarts : Nat, offers : 0..Len(offered')]
        /\ acceptedAt' \in Seq(Nat \cup {NoTs}) /\ Len(acceptedAt') = Len(offered')
    BY <1>1, Numbered
  <2> QED
    BY <1>2, <1>3, <2>1 DEF TypeOK
<1>5. /\ \A t, x : Said(t, x) => Said(t, x)'
      /\ \A k, p : WasPosted(k, p) => WasPosted(k, p)'
      /\ \A k : Failed(k) => Failed(k)'
      /\ \A k \in SinceBoot : Displaced(k) => Displaced(k)'
      /\ \A x : PartOf(x) => PartOf(x)'
      /\ \A a, b : a.msg \in DOMAIN offered /\ b.msg \in DOMAIN offered /\ Ordered(a, b) => Ordered(a, b)'
      /\ \A i \in DOMAIN posted : posted[i].msg \in DOMAIN offered
  BY <1>2, OlderStay
<1>6. /\ \A j \in DOMAIN queue : queue[j].msg \in DOMAIN offered
      /\ sender # Nobody => sender.msg \in DOMAIN offered
      /\ sender = Nobody => sender.msg = 0
  BY <1>2 DEF PartsInv, PartOf, Nobody
<1>7. PartsInv'
  <2>1. (PartOf(direct) /\ offered[direct.msg].command)'
    BY <1>2, <1>3 DEF PartOf, TypeOK
  <2>2. \A x : PartOf(x) => x.msg \in DOMAIN offered
    BY <1>2 DEF PartOf
  <2> QED
    BY <1>2, <1>5, <2>1, <2>2 DEF PartsInv, PartOf
<1>8. OrderInv'
  <2>1. (/\ \A i \in DOMAIN posted : posted[i].msg # direct.msg
         /\ \A j \in DOMAIN queue : queue[j].msg # direct.msg
         /\ sender.msg # direct.msg)'
    BY <1>2, <1>5, <1>3, <1>6
  <2> QED
    BY <1>2, <1>5, <1>6, <2>1 DEF OrderInv, Ordered, Before
<1>9. AnswerInv'
  <2>1. \A k \in SinceBoot : k # 0
    BY <1>2, Shapes
  <2>2. ASSUME NEW k \in SinceBoot, offered[k].command, ~Failed(k)', NEW p \in 1..offered[k].parts
        PROVE  Waiting(k, p)' \/ Sending(k, p)' \/ Answering(k, p)' \/ WasPosted(k, p)'
    <3>1. Waiting(k, p) \/ Sending(k, p) \/ Answering(k, p) \/ WasPosted(k, p)
      BY <1>5, <2>2 DEF AnswerInv
    <3>2. ~Answering(k, p)
      BY <2>1 DEF Answering, Nobody
    <3> QED
      BY <1>5, <3>1, <3>2 DEF Waiting, Sending
  <2>3. ASSUME NEW p \in 1..m.parts PROVE Answering(n, p)'
    BY <1>3 DEF Answering
  <2> QED
    BY <1>2, <2>2, <2>3 DEF AnswerInv
<1>10. NewestInv'
  <2>1. (\A j \in DOMAIN queue :
          /\ queue[j].at = acceptedAt[queue[j].msg]
          /\ Outdated(queue[j]) => Displaced(queue[j].msg))'
    BY <1>2, <1>5 DEF NewestInv, PartsInv, PartOf, Outdated, Message
  <2>2. (\A t \in Types : lastHash[t] # NoHash => \E part, parts \in Nat, text \in {"x", "y"} :
                                                   lastHash[t] = <<text, part, parts>> /\ Said(t, text))'
    BY <1>5 DEF NewestInv
  <2>3. (\A k \in SinceBoot \ dropped :
          \/ offered[k].command \/ Displaced(k) \/ Said(offered[k].type, offered[k].text)
          \/ \E p \in 1..offered[k].parts : Waiting(k, p) \/ Sending(k, p) \/ WasPosted(k, p))'
    <3> SUFFICES ASSUME NEW k \in SinceBoot \ dropped, ~offered[k].command, ~Displaced(k),
                        ~Said(offered[k].type, offered[k].text)
                 PROVE  \E p \in 1..offered[k].parts : Waiting(k, p)' \/ Sending(k, p)' \/ WasPosted(k, p)'
      BY <1>2, <1>5
    <3> QED
      BY <1>5 DEF NewestInv, Waiting, Sending, WasPosted
  <2> QED
    BY <2>1, <2>2, <2>3 DEF NewestInv
<1> QED
  BY <1>4, <1>7, <1>8, <1>9, <1>10
(* There is room: all the parts go to the end of the queue.                    *)
LEMMA OfferQueued ==
    ASSUME QueueInv, NEW m \in Messages, offered' = Append(offered, m),
           queue' = queue \o Parts(m, Len(offered) + 1),
           lastEnqueued' = [lastEnqueued EXCEPT ![m.type] = now],
           acceptedAt' = Append(acceptedAt, now),
           UNCHANGED <<now, direct, dropped, lastHash, lastSent, sender, posted, skipped, boot>>
    PROVE  QueueInv'
<1> USE DEF QueueInv
<1>0. TypeOK /\ now \in Nat /\ now \in Nat \cup {NoTs}
  BY DEF TypeOK
<1>1. PICK n : n = Len(offered) + 1
  OBVIOUS
<1>2. /\ n \notin DOMAIN offered /\ SinceBoot' = SinceBoot \cup {n} /\ SinceBoot \subseteq DOMAIN offered
      /\ \A k \in DOMAIN offered : k \in DOMAIN offered' /\ offered'[k] = offered[k] /\ k < n
      /\ \A k \in DOMAIN offered : acceptedAt'[k] = acceptedAt[k]
      /\ offered'[n] = m /\ dropped' = dropped /\ n \in Nat \ {0} /\ m.parts \in Nat \ {0}
      /\ m \in MessageKind /\ m.type \in Types /\ n \notin dropped /\ acceptedAt'[n] = now
  BY <1>0, <1>1, Numbered
<1>3. /\ queue' \in Seq(Item)
      /\ \A i \in DOMAIN queue : i \in DOMAIN queue' /\ queue'[i] = queue[i]
      /\ \A i \in DOMAIN queue' \ DOMAIN queue : \E p \in 1..m.parts :
            i = Len(queue) + p /\ queue'[i] = [msg |-> n, part |-> p, at |-> now]
      /\ \A p \in 1..m.parts :
            Len(queue) + p \in DOMAIN queue' /\ queue'[Len(queue) + p] = [msg |-> n, part |-> p, at |-> now]
  <2>1. PICK q : q = queue'
    OBVIOUS
  <2>2. q = queue \o Parts(m, n)
    BY <1>1, <2>1
  <2>3. TypeOK /\ m \in MessageKind /\ n \in Nat \ {0}
    BY <1>2
  <2>4. PartsAdded(q, m, n)
    BY <2>2, <2>3, Enqueued
  <2> QED
    BY <2>1, <2>4 DEF PartsAdded
<1>4. \A i \in DOMAIN queue : i \in DOMAIN queue' /\ queue'[i] = queue[i]
  BY <1>3
<1>5. queue' \in Seq(Item) /\ DOMAIN queue' = 1..Len(queue') /\ Len(queue') \in Nat
  BY <1>3
<1>6. /\ lastEnqueued' \in [Types -> Nat] /\ now \in Nat
      /\ \A t \in Types : lastEnqueued'[t] = IF t = m.type THEN now ELSE lastEnqueued[t]
  BY <1>2 DEF TypeOK
<1>7. TypeOK'
  <2>1. /\ dropped \subseteq 1..Len(offered')
        /\ offered' \in Seq(Messages) /\ boot' \in [restarts : Nat, offers : 0..Len(offered')]
        /\ acceptedAt' \in Seq(Nat \cup {NoTs}) /\ Len(acceptedAt') = Len(offered')
    BY <1>0, <1>1, Numbered
  <2> QED
    BY <1>6, <1>5, <2>1 DEF TypeOK
<1>8. /\ \A t, x : Said(t, x) => Said(t, x)'
      /\ \A k, p : WasPosted(k, p) => WasPosted(k, p)'
      /\ \A k : Failed(k) => Failed(k)'
      /\ \A k \in SinceBoot : Displaced(k) => Displaced(k)'
      /\ \A x : PartOf(x) => PartOf(x)'
      /\ \A a, b : a.msg \in DOMAIN offered /\ b.msg \in DOMAIN offered /\ Ordered(a, b) => Ordered(a, b)'
      /\ \A i \in DOMAIN posted : posted[i].msg \in DOMAIN offered
  <2>1. dropped' \subseteq dropped \cup {Len(offered) + 1} /\ dropped \subseteq dropped'
    BY <1>2
  <2> QED
    BY <1>0, <2>1, OlderStay
<1>9. /\ \A j \in DOMAIN queue : queue[j].msg \in DOMAIN offered /\ queue[j].msg \in SinceBoot
      /\ sender # Nobody => sender.msg \in DOMAIN offered
      /\ direct # Nobody => direct.msg \in DOMAIN offered
  BY <1>2 DEF PartsInv, PartOf
(* The new parts of the queue. *)
<1>10. ASSUME NEW j \in DOMAIN queue', j \notin DOMAIN queue
       PROVE  /\ queue'[j].msg = n /\ queue'[j].part \in 1..m.parts /\ queue'[j].at = now
              /\ queue'[j].part = j - Len(queue)
  <2>1. PICK p \in 1..m.parts : j = Len(queue) + p /\ queue'[j] = [msg |-> n, part |-> p, at |-> now]
    BY <1>3, <1>10
  <2>2. PICK len \in Nat : len = Len(queue)
    BY Shapes
  <2> QED
    BY <2>1, <2>2
<1>11. PartsInv'
  <2>1. (\A j \in DOMAIN queue : PartOf(queue[j]))'
    <3> SUFFICES ASSUME NEW j \in DOMAIN queue' PROVE PartOf(queue[j])'
      OBVIOUS
    <3>1. CASE j \in DOMAIN queue
      <4>1. PICK x : x = queue[j] /\ queue'[j] = x
        BY <1>4, <3>1
      <4>2. PartOf(x)'
        BY <1>8, <3>1, <4>1 DEF PartsInv
      <4> QED
        BY <4>1, <4>2 DEF PartOf
    <3>2. CASE j \notin DOMAIN queue
      <4>1. queue'[j].msg = n /\ queue'[j].part \in 1..m.parts /\ queue'[j].at = now
        BY <1>10, <3>2
      <4>2. n \in SinceBoot' /\ offered'[n].parts = m.parts /\ now <= now'
        BY <1>2, <1>6
      <4> QED
        BY <4>1, <4>2 DEF PartOf
    <3> QED
      BY <3>1, <3>2
  <2>2. \A t \in Types : lastEnqueued'[t] <= now'
    BY <1>6 DEF PartsInv
  <2>3. \A x : PartOf(x) => x.msg \in DOMAIN offered
    BY <1>2 DEF PartOf
  <2>4. (\A i \in DOMAIN posted : posted[i].msg \in DOMAIN offered
                                  /\ posted[i].part \in 1..offered[posted[i].msg].parts)'
    <3> SUFFICES ASSUME NEW i \in DOMAIN posted
                 PROVE  posted[i].msg \in DOMAIN offered' /\ posted[i].part \in 1..offered'[posted[i].msg].parts
      OBVIOUS
    <3>1. posted[i].msg \in DOMAIN offered /\ posted[i].part \in 1..offered[posted[i].msg].parts
      BY DEF PartsInv
    <3> QED
      BY <1>2, <3>1
  <2>5. sender # Nobody => PartOf(sender)'
    BY <1>8 DEF PartsInv
  <2>6. direct # Nobody => PartOf(direct)' /\ offered'[direct.msg].command
    BY <1>2, <1>8, <2>3 DEF PartsInv
  <2> QED
    BY <2>1, <2>2, <2>4, <2>5, <2>6 DEF PartsInv, PartOf
<1>12. OrderInv'
  <2>1. (\A i, j \in DOMAIN posted : i < j => Ordered(posted[i], posted[j]))'
    BY <1>8 DEF OrderInv, Ordered, Before
  <2>2. (\A i \in DOMAIN posted, j \in DOMAIN queue : Ordered(posted[i], queue[j]))'
    <3> SUFFICES ASSUME NEW i \in DOMAIN posted, NEW j \in DOMAIN queue' PROVE Ordered(posted[i], queue[j])'
      OBVIOUS
    <3>1. CASE j \in DOMAIN queue
      <4>1. PICK a, b : a = posted[i] /\ b = queue[j] /\ queue'[j] = b
        BY <1>4, <3>1
      <4>2. Ordered(a, b)'
        BY <1>8, <1>9, <3>1, <4>1 DEF OrderInv
      <4> QED
        BY <4>1, <4>2 DEF Ordered, Before
    <3>2. CASE j \notin DOMAIN queue
      BY <1>2, <1>8, <1>10, <3>2 DEF Ordered, Before
    <3> QED
      BY <3>1, <3>2
  <2>3. (\A i, j \in DOMAIN queue : i < j => Before(queue[i], queue[j]))'
    <3> SUFFICES ASSUME NEW i \in DOMAIN queue', NEW j \in DOMAIN queue', i < j
                 PROVE  Before(queue'[i], queue'[j])
      BY DEF Before
    <3>1. PICK len \in Nat : len = Len(queue) /\ DOMAIN queue = 1..len /\ i \in Nat /\ j \in Nat
      <4>1. PICK len \in Nat : len = Len(queue) /\ DOMAIN queue = 1..len
        BY Shapes
      <4>2. i \in Nat /\ j \in Nat
        BY <1>5
      <4> QED
        BY <4>1, <4>2
    <3>2. CASE j \in DOMAIN queue
      <4>1. i \in DOMAIN queue
        BY <1>4, <3>1, <3>2
      <4> QED
        BY <1>4, <3>2, <4>1 DEF OrderInv
    <3>3. CASE j \notin DOMAIN queue /\ i \in DOMAIN queue
      BY <1>2, <1>4, <1>9, <1>10, <3>3 DEF Before
    <3>4. CASE j \notin DOMAIN queue /\ i \notin DOMAIN queue
      <4>1. /\ queue'[i].msg = n /\ queue'[i].part = i - len
            /\ queue'[j].msg = n /\ queue'[j].part = j - len
        BY <1>10, <3>1, <3>4
      <4> QED
        BY <3>1, <4>1 DEF Before
    <3> QED
      BY <3>2, <3>3, <3>4
  <2>4. (sender # Nobody => \A i \in DOMAIN posted : Ordered(posted[i], sender))'
    BY <1>8, <1>9 DEF OrderInv, Ordered, Before
  <2>5. (sender # Nobody => \A j \in DOMAIN queue : Before(sender, queue[j]))'
    <3> SUFFICES ASSUME sender # Nobody, NEW j \in DOMAIN queue' PROVE Before(sender, queue[j])'
      OBVIOUS
    <3>1. CASE j \in DOMAIN queue
      BY <1>4, <3>1 DEF OrderInv, Before
    <3>2. CASE j \notin DOMAIN queue
      BY <1>2, <1>9, <1>10, <3>2 DEF Before
    <3> QED
      BY <3>1, <3>2
  <2>6. (direct # Nobody => \A i \in DOMAIN posted : posted[i].msg = direct.msg => posted[i].part < direct.part)'
    BY DEF OrderInv
  <2>7. (direct # Nobody => \A j \in DOMAIN queue : queue[j].msg # direct.msg)'
    <3> SUFFICES ASSUME direct # Nobody, NEW j \in DOMAIN queue' PROVE queue'[j].msg # direct.msg
      OBVIOUS
    <3>1. CASE j \in DOMAIN queue
      BY <1>4, <3>1 DEF OrderInv
    <3>2. CASE j \notin DOMAIN queue
      BY <1>2, <1>9, <1>10, <3>2
    <3> QED
      BY <3>1, <3>2
  <2>8. (direct # Nobody => sender.msg # direct.msg)'
    BY DEF OrderInv
  <2> QED
    BY <2>1, <2>2, <2>3, <2>4, <2>5, <2>6, <2>7, <2>8 DEF OrderInv
<1>13. \A k, p : Waiting(k, p) => Waiting(k, p)'
  BY <1>4 DEF Waiting
<1>14. \A p \in 1..m.parts : Waiting(n, p)'
  <2> SUFFICES ASSUME NEW p \in 1..m.parts PROVE Waiting(n, p)'
    OBVIOUS
  <2>1. PICK j \in DOMAIN queue' : queue'[j] = [msg |-> n, part |-> p, at |-> now]
    BY <1>3
  <2>2. queue'[j].msg = n /\ queue'[j].part = p
    BY <2>1
  <2> QED
    BY <2>2 DEF Waiting
<1>15. AnswerInv'
  <2>1. ASSUME NEW k \in SinceBoot, offered[k].command, ~Failed(k)', NEW p \in 1..offered[k].parts
        PROVE  Waiting(k, p)' \/ Sending(k, p)' \/ Answering(k, p)' \/ WasPosted(k, p)'
    <3>1. Waiting(k, p) \/ Sending(k, p) \/ Answering(k, p) \/ WasPosted(k, p)
      BY <1>8, <2>1 DEF AnswerInv
    <3> QED
      BY <1>8, <1>13, <3>1 DEF Sending, Answering
  <2> QED
    BY <1>2, <1>14, <2>1 DEF AnswerInv
<1>16. NewestInv'
  <2>1. (\A j \in DOMAIN queue :
          /\ queue[j].at = acceptedAt[queue[j].msg]
          /\ Outdated(queue[j]) => Displaced(queue[j].msg))'
    <3> SUFFICES ASSUME NEW j \in DOMAIN queue'
                 PROVE  /\ queue'[j].at = acceptedAt'[queue'[j].msg]
                        /\ Outdated(queue[j])' => Displaced(queue[j].msg)'
      OBVIOUS
    <3>1. CASE j \in DOMAIN queue
      <4>1. PICK k \in SinceBoot : k = queue[j].msg /\ queue'[j].msg = k /\ k \in DOMAIN offered
        BY <1>4, <1>9, <3>1
      <4>2. queue'[j].at = acceptedAt'[queue'[j].msg]
        <5>1. queue[j].at = acceptedAt[k]
          BY <3>1, <4>1 DEF NewestInv
        <5>2. acceptedAt'[k] = acceptedAt[k] /\ queue'[j] = queue[j]
          BY <1>2, <1>4, <3>1, <4>1
        <5> QED
          BY <4>1, <5>1, <5>2
      <4>3. ASSUME Outdated(queue[j])', offered[k].type = m.type PROVE Displaced(queue[j].msg)'
        <5>1. /\ n \in SinceBoot' /\ n > k /\ offered'[n].type = offered'[k].type
              /\ offered'[k].type = m.type /\ acceptedAt'[n] = now
          BY <1>2, <4>1, <4>3, Shapes
        <5>2. lastEnqueued'[m.type] = now
          BY <1>2, <1>6
        <5>3. acceptedAt'[k] < now /\ now - acceptedAt'[k] <= Window[m.type]
          BY <4>1, <4>2, <4>3, <5>1, <5>2 DEF Outdated, Message
        <5>4. \E q \in SinceBoot' : /\ q > k /\ offered'[q].type = offered'[k].type
                                    /\ acceptedAt'[k] < acceptedAt'[q]
                                    /\ acceptedAt'[q] - acceptedAt'[k] <= Window[offered'[k].type]
          BY <5>1, <5>3
        <5> QED
          BY <4>1, <5>4 DEF Displaced
      <4>4. ASSUME Outdated(queue[j])', offered[k].type # m.type PROVE Displaced(queue[j].msg)'
        <5>1. offered[k].type \in Types /\ offered'[k] = offered[k]
          BY <1>2, <4>1, Shapes
        <5>2. Outdated(queue[j])
          BY <1>4, <1>6, <3>1, <4>1, <4>4, <5>1 DEF Outdated, Message
        <5>3. Displaced(k)
          BY <3>1, <4>1, <5>2 DEF NewestInv
        <5>4. Displaced(k)'
          BY <1>8, <5>3
        <5> QED
          BY <4>1, <5>4 DEF Displaced
      <4> QED
        BY <4>2, <4>3, <4>4
    <3>2. CASE j \notin DOMAIN queue
      <4>1. queue'[j].msg = n /\ queue'[j].at = now
        BY <1>10, <3>2
      <4>2. acceptedAt'[n] = now
        BY <1>2
      <4>3. ~Outdated(queue[j])'
        <5>1. offered'[queue'[j].msg].type = m.type /\ lastEnqueued'[m.type] = now
          BY <1>2, <1>6, <4>1
        <5>2. ~(now < now)
          BY <1>6
        <5>3. ~(queue'[j].at < lastEnqueued'[offered'[queue'[j].msg].type])
          BY <4>1, <5>1, <5>2, Zenon
        <5> QED
          BY <5>3 DEF Outdated, Message
      <4> QED
        BY <4>1, <4>2, <4>3
    <3> QED
      BY <3>1, <3>2
  <2>2. (\A t \in Types : lastHash[t] # NoHash => \E part, parts \in Nat, text \in {"x", "y"} :
                                                   lastHash[t] = <<text, part, parts>> /\ Said(t, text))'
    BY <1>8 DEF NewestInv
  <2>3. (\A k \in SinceBoot \ dropped :
          \/ offered[k].command \/ Displaced(k) \/ Said(offered[k].type, offered[k].text)
          \/ \E p \in 1..offered[k].parts : Waiting(k, p) \/ Sending(k, p) \/ WasPosted(k, p))'
    <3>1. ASSUME NEW k \in SinceBoot \ dropped, ~offered[k].command, ~Displaced(k),
                 ~Said(offered[k].type, offered[k].text)
          PROVE  \E p \in 1..offered[k].parts : Waiting(k, p)' \/ Sending(k, p)' \/ WasPosted(k, p)'
      BY <1>8, <1>13, <3>1 DEF NewestInv, Sending
    <3>2. 1 \in 1..m.parts /\ Waiting(n, 1)'
      BY <1>2, <1>14
    <3>3. ASSUME NEW k \in SinceBoot \ dropped, Said(offered[k].type, offered[k].text)
          PROVE  Said(offered[k].type, offered[k].text)'
      <4>1. PICK t, x : t = offered[k].type /\ x = offered[k].text
        OBVIOUS
      <4>2. Said(t, x)'
        BY <1>8, <3>3, <4>1
      <4> QED
        BY <1>2, <4>1, <4>2 DEF Said
    <3> QED
      BY <1>2, <1>8, <3>1, <3>2, <3>3
  <2> QED
    BY <2>1, <2>2, <2>3 DEF NewestInv
<1> QED
  BY <1>7, <1>11, <1>12, <1>15, <1>16-------------------------------------------------------------------------------
(* The theorems *)

LEMMA OfferQueue == QueueInv /\ (\E m \in Messages : Offer(m)) => QueueInv'
<1> SUFFICES ASSUME QueueInv, NEW m \in Messages, Offer(m) PROVE QueueInv'
  OBVIOUS
<1>1. offered' = Append(offered, m) /\ UNCHANGED <<now, lastHash, lastSent, sender, posted, skipped, boot>>
  BY DEF Offer
<1>2. CASE /\ queue' = queue \o Parts(m, Len(offered) + 1)
           /\ lastEnqueued' = [lastEnqueued EXCEPT ![m.type] = now]
           /\ acceptedAt' = Append(acceptedAt, now)
           /\ UNCHANGED <<direct, dropped>>
  BY <1>1, <1>2, OfferQueued
<1>3. CASE /\ Bypasses(m) /\ direct' = [msg |-> Len(offered) + 1, part |-> 1, at |-> now]
           /\ acceptedAt' = Append(acceptedAt, NoTs)
           /\ UNCHANGED <<queue, lastEnqueued, dropped>>
  <2>1. m.command /\ direct = Nobody
    BY <1>3 DEF Offer, Bypasses
  <2> QED
    BY <1>1, <1>3, <2>1, OfferBypassed
<1>4. CASE /\ ~HasCapacity(m) /\ ~Bypasses(m) /\ dropped' = dropped \cup {Len(offered) + 1}
           /\ acceptedAt' = Append(acceptedAt, NoTs)
           /\ UNCHANGED <<queue, lastEnqueued, direct>>
  BY <1>1, <1>4, OfferDropped
<1> QED
  BY <1>2, <1>3, <1>4 DEF Offer

LEMMA QueueInductive == QueueInv /\ [Next]_vars => QueueInv'
  BY AdvanceQueue, RestartQueue, OfferQueue, PostDirectQueue, GetQueue, PostQueuedQueue, StutterQueue DEF Next

LEMMA QueueInvariant == Spec => []QueueInv
  BY InitQueue, QueueInductive, PTL DEF Spec

(* send_telegram, its fallback and telegram_sender_worker keep their state well *)
(* formed: the queue holds parts of messages, numbered from 1.                  *)
THEOREM TelegramTypeCorrect == Spec => []TypeOK
<1>1. QueueInv => TypeOK
  BY DEF QueueInv
<1> QED
  BY <1>1, QueueInvariant, PTL

(* The parts of a message and the notifications among themselves are posted in  *)
(* the order in which send_telegram was called, though the poller posts answers *)
(* itself while telegram_sender_worker posts the queue (FR-006).                *)
THEOREM PostsAreInOrder == Spec => []PostedInOrder
<1>1. QueueInv => PostedInOrder
  <2> SUFFICES ASSUME QueueInv, NEW i \in DOMAIN posted, NEW j \in DOMAIN posted, i < j
               PROVE  \/ posted[i].msg = posted[j].msg /\ posted[i].part < posted[j].part
                      \/ posted[i].msg < posted[j].msg
                      \/ posted[i].msg # posted[j].msg /\ \E k \in {i, j} : offered[posted[k].msg].command
    BY DEF PostedInOrder
  <2>1. Ordered(posted[i], posted[j])
    BY DEF QueueInv, OrderInv
  <2> QED
    BY <2>1 DEF Ordered, Before
<1> QED
  BY <1>1, QueueInvariant, PTL

(* Nothing waits: every message is nowhere but among the posts.                 *)
LEMMA QuietPlaces ==
    ASSUME QueueInv, Quiet, NEW n \in SinceBoot, NEW p
    PROVE  ~Waiting(n, p) /\ ~Sending(n, p) /\ ~Answering(n, p)
<1>1. DOMAIN queue = {} /\ sender.msg = 0 /\ direct.msg = 0
  BY DEF Quiet, Nobody
<1>2. n # 0
  BY Shapes DEF QueueInv
<1> QED
  BY <1>1, <1>2 DEF Waiting, Sending, Answering

(* An answer to a command is never coalesced, taken for a repetition or dropped *)
(* (FR-005, FR-008): when nothing is pending each of its parts was posted, or a  *)
(* post of it failed.                                                         *)
THEOREM AnswersAreAttempted == Spec => []CommandsAttempted
<1>1. QueueInv => CommandsAttempted
  <2> SUFFICES ASSUME QueueInv, Quiet, NEW n \in SinceBoot, offered[n].command, ~Failed(n)
               PROVE  {posted[i].part : i \in Posts(n)} = 1..offered[n].parts
    BY DEF CommandsAttempted, Failed, Posts
  <2>1. \A p \in 1..offered[n].parts : WasPosted(n, p)
    BY QuietPlaces DEF QueueInv, AnswerInv
  <2>2. \A p \in 1..offered[n].parts : p \in {posted[i].part : i \in Posts(n)}
    BY <2>1 DEF WasPosted, Posts
  <2>3. \A i \in Posts(n) : posted[i].part \in 1..offered[n].parts
    BY DEF Posts, QueueInv, PartsInv
  <2> QED
    BY <2>2, <2>3
<1> QED
  BY <1>1, QueueInvariant, PTL

(* Coalescing keeps the newest: when nothing is pending, a notification that the *)
(* queue accepted was posted, or its very text was and did not raise, or a newer *)
(* message of its type, accepted within the window of the type, displaced it.   *)
THEOREM NewestIsKept == Spec => []NewestSurvives
<1>1. QueueInv => NewestSurvives
  <2> SUFFICES ASSUME QueueInv, Quiet, NEW n \in SinceBoot \ dropped, ~offered[n].command, ~Displaced(n),
                      ~Said(offered[n].type, offered[n].text)
               PROVE  Posts(n) # {}
    BY DEF NewestSurvives, Said
  <2>1. PICK p \in 1..offered[n].parts : WasPosted(n, p)
    BY QuietPlaces DEF QueueInv, NewestInv
  <2> QED
    BY <2>1 DEF WasPosted, Posts
<1> QED
  BY <1>1, QueueInvariant, PTL
===============================================================================
