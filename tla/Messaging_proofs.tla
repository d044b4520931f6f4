--------------------------- MODULE Messaging_proofs ---------------------------
(***************************************************************************)
(* Proofs about Messaging, for every number of processes, subscriptions,   *)
(* coroutines, messages and faults: the type invariant, what consumer      *)
(* groups and the adapter of RabbitMQ promise, and that both backends      *)
(* implement MessageDelivery.                                              *)
(***************************************************************************)
EXTENDS Messaging, FiniteSetTheorems, TLAPS

\* The counters: no process has lost more connections than there were faults, and
\* a queue was bound before the messages that are still to come.
Counted ==
    /\ \A p \in Processes : conn[p] <= faults
    /\ \A s \in Subscriptions : since[s] = None \/ since[s] <= sent

\* What the broker keeps or has delivered is a copy it has made,
Routed(s) == {m \in 1 .. sent : IsRouted(m, s)}

CopiesRouted ==
    /\ \A s \in Subscriptions : ready[s] \subseteq Routed(s)
    /\ \A c \in Consumers : unacked[c] \subseteq Routed(c[2]) /\ got[c] \subseteq Routed(c[2])

\* and it is in one place: in the queue or with one consumer.
OnePlace ==
    /\ \A c \in Consumers : unacked[c] \cap ready[c[2]] = {}
    /\ \A c, d \in Consumers : c # d /\ c[2] = d[2] => unacked[c] \cap unacked[d] = {}

\* A coroutine outside of a call has nothing in hand; it acknowledges what it has
\* pulled and handled.  Deliveries are popped on RabbitMQ only.
CallsInOrder ==
    \A c \in Consumers :
        /\ pc[c] = "idle" => got[c] = {}
        /\ pc[c] \in {"acknowledge", "ack"} => got[c] \subseteq processed[c[2]]
        /\ \A d \in acks[c] : pc[c] = "ack" /\ d.message \in got[c]
        /\ pc[c] = "ack" => backend = "rabbitmq"

\* Nothing is out over a closed connection, and nobody is about to get anything.
Connected ==
    backend = "rabbitmq" =>
        \A c \in Consumers : closed[c[1]] => unacked[c] = {} /\ pc[c] # "pull"

IInv ==
    /\ TypeOK /\ Counted /\ CopiesRouted /\ OnePlace /\ CallsInOrder /\ Connected /\ AckReachesBroker
-------------------------------------------------------------------------------
(* The operators.                                                            *)

\* Consumers are pairs of a process and a subscription.
LEMMA ConsumersArePairs ==
    /\ \A c \in Consumers : c[1] \in Processes /\ c[2] \in Subscriptions /\ c = <<c[1], c[2]>>
    /\ \A c, d \in Consumers : c[1] = d[1] /\ c[2] = d[2] => c = d
  BY MessagingAssumption

\* A set of messages has an oldest one.
LEMMA FirstIn ==
    ASSUME NEW S \in SUBSET Nat, S # {}
    PROVE  First(S) \in S
<1> DEFINE upTo(k) == S \cap (0 .. k)
<1> DEFINE R == StrictSubsetOrdering(Nat)
<1> DEFINE T == {upTo(k) : k \in S}
<1>1. \A k \in S : IsFiniteSet(0 .. k)
  BY FS_Interval
<1>2. T \subseteq FiniteSubsetsOf(Nat) /\ T # {}
  <2>1. \A k \in S : IsFiniteSet(upTo(k)) /\ upTo(k) \in SUBSET Nat
    BY <1>1, FS_Intersection
  <2> QED
    BY <2>1 DEF FiniteSubsetsOf
<1>3. IsWellFoundedOn(R, FiniteSubsetsOf(Nat))
  BY FS_StrictSubsetOrderingWellFounded
<1>4. \E x \in T : \A y \in T : <<y, x>> \notin R
  <2> HIDE DEF T, R
  <2> QED
    BY <1>2, <1>3, WFMin
<1>5. PICK k \in S : \A y \in T : <<y, upTo(k)>> \notin R
  BY <1>4
<1>6. \A n \in S : k <= n
  <2> SUFFICES ASSUME NEW n \in S, n < k PROVE FALSE
    OBVIOUS
  <2>1. upTo(n) \subseteq upTo(k) /\ k \in upTo(k) /\ k \notin upTo(n) /\ upTo(n) \in T
    OBVIOUS
  <2> QED
    BY <1>5, <2>1 DEF StrictSubsetOrdering
<1> QED
  BY <1>6 DEF First

\* A connection is replaced only if it was closed, and then nothing is remembered
\* of the old one.
LEMMA ConnectionEnsured ==
    ASSUME TypeOK, NEW p \in Processes, EnsureConnection(p)
    PROVE  /\ pending' \in [Processes -> SUBSET Delivery]
           /\ closed' \in [Processes -> BOOLEAN] /\ ~closed'[p]
           /\ \A q \in Processes : closed'[q] => closed[q]
           /\ \A q \in Processes : pending'[q] = pending[q] \/ (closed[q] /\ pending'[q] = {})
  BY DEF TypeOK, EnsureConnection

\* What was out over a connection is ready again.
LEMMA Requeued ==
    ASSUME TypeOK, OnePlace, CopiesRouted, NEW p \in Processes, Requeue(p)
    PROVE  /\ ready' \in [Subscriptions -> SUBSET (1 .. sent)]
           /\ \A s \in Subscriptions : \A m \in ready'[s] :
                 m \in ready[s] \/ \E c \in Consumers : c[1] = p /\ c[2] = s /\ m \in unacked[c]
           /\ \A s \in Subscriptions : ready[s] \subseteq ready'[s]
           /\ \A c \in Consumers : c[1] = p => unacked[c] \subseteq ready'[c[2]]
           /\ unacked' \in [Consumers -> SUBSET (1 .. sent)]
           /\ \A c \in Consumers : unacked'[c] = IF c[1] = p THEN {} ELSE unacked[c]
           /\ conn' \in [Processes -> Nat] /\ conn'[p] = conn[p] + 1
           /\ \A q \in Processes \ {p} : conn'[q] = conn[q]
<1>1. \A s \in Subscriptions :
         ready'[s] = ready[s] \cup UNION {unacked[c] : c \in Consumers \cap {<<p, s>>}}
  BY DEF Requeue
<1>2. \A s \in Subscriptions : \A m : m \in ready'[s] <=>
         m \in ready[s] \/ \E c \in Consumers : c = <<p, s>> /\ m \in unacked[c]
  BY <1>1
<1>3. \A s \in Subscriptions : \A m : m \in ready'[s] <=>
         m \in ready[s] \/ \E c \in Consumers : c[1] = p /\ c[2] = s /\ m \in unacked[c]
  BY <1>2, ConsumersArePairs
<1>4. \A s \in Subscriptions : ready'[s] \subseteq 1 .. sent
  BY <1>3 DEF TypeOK
<1>5. ready' \in [Subscriptions -> SUBSET (1 .. sent)]
  BY <1>4 DEF Requeue
<1>6. /\ unacked' \in [Consumers -> SUBSET (1 .. sent)]
      /\ \A c \in Consumers : unacked'[c] = IF c[1] = p THEN {} ELSE unacked[c]
  BY DEF Requeue, TypeOK
<1>7. /\ conn' \in [Processes -> Nat] /\ conn'[p] = conn[p] + 1
      /\ \A q \in Processes \ {p} : conn'[q] = conn[q]
  BY MessagingAssumption DEF Requeue, TypeOK
<1> QED
  BY <1>3, <1>5, <1>6, <1>7, ConsumersArePairs

\* It is then nowhere else.
LEMMA RequeuedOnce ==
    ASSUME TypeOK, OnePlace, CopiesRouted, NEW p \in Processes, Requeue(p)
    PROVE  OnePlace'
<1>1. ASSUME NEW c \in Consumers, NEW m \in unacked'[c], m \in ready'[c[2]] PROVE FALSE
  <2>1. c[1] # p /\ m \in unacked[c] /\ c[2] \in Subscriptions
    BY <1>1, Requeued, ConsumersArePairs
  <2>2. CASE m \in ready[c[2]]
    BY <2>1, <2>2 DEF TypeOK, OnePlace
  <2>3. CASE \E d \in Consumers : d[1] = p /\ d[2] = c[2] /\ m \in unacked[d]
    BY <2>1, <2>3 DEF TypeOK, OnePlace
  <2> QED
    BY <1>1, <2>1, <2>2, <2>3, Requeued
<1>2. \A c \in Consumers : unacked'[c] = {} \/ unacked'[c] = unacked[c]
  BY Requeued
<1>3. ASSUME NEW c \in Consumers, NEW d \in Consumers, c # d, c[2] = d[2]
      PROVE  unacked'[c] \cap unacked'[d] = {}
  <2>1. unacked[c] \cap unacked[d] = {}
    BY <1>3 DEF OnePlace
  <2> QED
    BY <1>2, <2>1
<1> QED
  BY <1>1, <1>3 DEF OnePlace

\* An XADD has a new number, and reaches the streams' groups as ready.
LEMMA InvAddEntry ==
    ASSUME IInv, AddEntry
    PROVE  IInv'
<1> USE DEF broker, adapter, local
<1>1. TypeOK'
  BY MessagingAssumption, ConsumersArePairs DEF IInv, TypeOK, Phase, AddEntry, Enqueue
<1>2. Counted'
  BY DEF IInv, TypeOK, Counted, AddEntry, Enqueue
<1>3. CopiesRouted'
  BY MessagingAssumption, ConsumersArePairs
  DEF IInv, TypeOK, CopiesRouted, Routed, IsRouted, Counted, CallsInOrder, AddEntry, Enqueue
<1>4. OnePlace'
  BY ConsumersArePairs DEF IInv, TypeOK, OnePlace, AddEntry, Enqueue
<1>5. CallsInOrder'
  BY DEF IInv, TypeOK, CallsInOrder, AddEntry, Enqueue
<1>6. Connected'
  BY DEF IInv, TypeOK, Connected, AddEntry, Enqueue
<1>7. AckReachesBroker'
  BY DEF IInv, TypeOK, AckReachesBroker, AddEntry, Enqueue
<1> QED
  BY <1>1, <1>2, <1>3, <1>4, <1>5, <1>6, <1>7 DEF IInv

\* A publish has a new number, and reaches the queues that are bound.
LEMMA InvPublish ==
    ASSUME IInv, NEW p \in Processes, Publish(p)
    PROVE  IInv'
<1> USE DEF broker, adapter, local
<1>1. TypeOK'
  <2>1. TypeOK /\ Enqueue /\ EnsureConnection(p)
    BY DEF IInv, Publish
  <2>2. pending' \in [Processes -> SUBSET Delivery] /\ closed' \in [Processes -> BOOLEAN]
    BY <2>1, ConnectionEnsured
  <2>3. sent' \in Nat /\ sent' = sent + 1 /\ 1 .. sent \subseteq 1 .. sent'
    BY <2>1 DEF TypeOK, Enqueue
  <2>4. sent' <= MaxMessages
    BY <2>1, MessagingAssumption DEF TypeOK, Enqueue
  <2>5. ready' \in [Subscriptions -> SUBSET (1 .. sent')]
    BY <2>1, <2>3 DEF TypeOK, Enqueue
  <2>6. \A q \in Processes : \A d, e \in pending'[q] : d.message = e.message => d = e
    BY <2>1, ConnectionEnsured DEF TypeOK
  <2>7. /\ backend' \in Backends /\ faults' \in 0 .. MaxFaults /\ sent' \in 0 .. MaxMessages
        /\ since' \in [Subscriptions -> 0 .. MaxMessages \cup {None}]
        /\ conn' \in [Processes -> 0 .. MaxFaults] /\ pc' \in [Consumers -> Phase]
        /\ acks' \in [Consumers -> SUBSET Delivery]
    BY <2>1, <2>3, <2>4 DEF TypeOK, Enqueue
  <2>8. /\ unacked' \in [Consumers -> SUBSET (1 .. sent')]
        /\ got' \in [Consumers -> SUBSET (1 .. sent')]
        /\ processed' \in [Subscriptions -> SUBSET (1 .. sent')]
    BY <2>1, <2>3 DEF TypeOK, Enqueue
  <2> QED
    BY <2>2, <2>5, <2>6, <2>7, <2>8 DEF TypeOK
<1>2. Counted'
  BY DEF IInv, TypeOK, Counted, Publish, Enqueue, EnsureConnection
<1>3. CopiesRouted'
  BY MessagingAssumption, ConsumersArePairs
  DEF IInv, TypeOK, CopiesRouted, Routed, IsRouted, Counted, CallsInOrder, Publish, Enqueue,
      EnsureConnection
<1>4. OnePlace'
  BY ConsumersArePairs DEF IInv, TypeOK, OnePlace, Publish, Enqueue, EnsureConnection
<1>5. CallsInOrder'
  BY DEF IInv, TypeOK, CallsInOrder, Publish, Enqueue, EnsureConnection
<1>6. Connected'
  BY DEF IInv, TypeOK, Connected, Publish, Enqueue, EnsureConnection
<1>7. AckReachesBroker'
  BY ConnectionEnsured, ConsumersArePairs
  DEF IInv, TypeOK, Connected, AckReachesBroker, Publish, Enqueue
<1> QED
  BY <1>1, <1>2, <1>3, <1>4, <1>5, <1>6, <1>7 DEF IInv

\* A group that is created late finds what the stream holds from its start on.
LEMMA InvEnsureConsumerGroup ==
    ASSUME IInv, NEW c \in Consumers, EnsureConsumerGroup(c)
    PROVE  IInv'
<1> USE DEF adapter
<1>a. c[2] \in Subscriptions /\ sent \in Nat /\ None \notin Nat
  BY MessagingAssumption, ConsumersArePairs DEF IInv, TypeOK
<1>b. /\ since' \in [Subscriptions -> 0 .. sent \cup {None}] /\ since'[c[2]] # None
      /\ ready' \in [Subscriptions -> SUBSET (1 .. sent)]
      /\ \A s \in Subscriptions : \/ since'[s] = since[s] /\ ready'[s] = ready[s]
                                  \/ s = c[2] /\ since[s] = None /\ since'[s] = 0
  <2>1. since \in [Subscriptions -> 0 .. sent \cup {None}]
    BY DEF IInv, TypeOK, Counted
  <2>2. CASE since[c[2]] = None
    <3>1. /\ since' = [since EXCEPT ![c[2]] = 0] /\ ready' = [ready EXCEPT ![c[2]] = 1 .. sent]
      BY <2>2 DEF EnsureConsumerGroup
    <3> QED
      BY <1>a, <2>1, <2>2, <3>1 DEF IInv, TypeOK
  <2>3. CASE since[c[2]] # None
    BY <2>1, <2>3 DEF EnsureConsumerGroup, IInv, TypeOK
  <2> QED
    BY <2>2, <2>3
<1>c. \A s \in Subscriptions : since[s] = None =>
         \A d \in Consumers : d[2] = s => unacked[d] = {} /\ got[d] = {}
  BY DEF IInv, TypeOK, CopiesRouted, Routed, IsRouted
<1>d. /\ UNCHANGED <<backend, sent, unacked, conn, closed, pending, got, acks, processed, faults>>
      /\ pc' = [pc EXCEPT ![c] = "pull"]
  BY DEF EnsureConsumerGroup, Goto
<1>e. \A e \in Consumers :
         \/ ready'[e[2]] = ready[e[2]] /\ since'[e[2]] = since[e[2]]
         \/ unacked[e] = {} /\ got[e] = {}
  BY <1>b, <1>c, ConsumersArePairs
<1>1. TypeOK'
  <2>1. since' \in [Subscriptions -> 0 .. MaxMessages \cup {None}]
    BY <1>a, <1>b, MessagingAssumption DEF IInv, TypeOK
  <2> QED
    BY <1>b, <1>d, <2>1 DEF IInv, TypeOK, Phase
<1>2. Counted'
  BY <1>b, <1>d DEF IInv, TypeOK, Counted
<1>3. CopiesRouted'
  <2>1. \A s \in Subscriptions : ready'[s] \subseteq Routed(s)'
    BY <1>a, <1>b, <1>d DEF IInv, TypeOK, CopiesRouted, Routed, IsRouted
  <2>2. \A e \in Consumers : unacked[e] \subseteq Routed(e[2])' /\ got[e] \subseteq Routed(e[2])'
    BY <1>d, <1>e DEF IInv, TypeOK, CopiesRouted, Routed, IsRouted
  <2> QED
    BY <1>d, <2>1, <2>2 DEF CopiesRouted
<1>4. OnePlace'
  BY <1>d, <1>e DEF IInv, TypeOK, OnePlace
<1>5. CallsInOrder'
  BY DEF IInv, TypeOK, CallsInOrder, EnsureConsumerGroup, Goto
<1>6. Connected'
  BY DEF IInv, TypeOK, Connected, EnsureConsumerGroup, Goto
<1>7. AckReachesBroker'
  BY DEF IInv, TypeOK, AckReachesBroker, EnsureConsumerGroup, Goto
<1> QED
  BY <1>1, <1>2, <1>3, <1>4, <1>5, <1>6, <1>7 DEF IInv, TypeOK

\* XREADGROUP moves entries from ready to the pending list of the one who reads.
LEMMA InvReadGroup ==
    ASSUME IInv, NEW c \in Consumers, ReadGroup(c)
    PROVE  IInv'
<1> USE DEF broker, adapter, local
<1>1. TypeOK'
  BY ConsumersArePairs DEF IInv, TypeOK, Phase, ReadGroup, Goto, Oldest
<1>2. Counted'
  BY DEF IInv, TypeOK, Counted, ReadGroup, Goto, Oldest
<1>3. CopiesRouted'
  BY ConsumersArePairs DEF IInv, TypeOK, CopiesRouted, Routed, IsRouted, ReadGroup, Goto, Oldest
<1>4. OnePlace'
  BY ConsumersArePairs DEF IInv, TypeOK, OnePlace, ReadGroup, Goto, Oldest
<1>5. CallsInOrder'
  BY DEF IInv, TypeOK, CallsInOrder, ReadGroup, Goto, Oldest
<1>6. Connected'
  BY DEF IInv, TypeOK, Connected, ReadGroup, Goto, Oldest
<1>7. AckReachesBroker'
  BY DEF IInv, TypeOK, AckReachesBroker, ReadGroup, Goto, Oldest
<1> QED
  BY <1>1, <1>2, <1>3, <1>4, <1>5, <1>6, <1>7 DEF IInv

\* The same when the reply is lost: nobody has the entries in hand.
LEMMA InvLoseBatch ==
    ASSUME IInv, NEW c \in Consumers, LoseBatch(c)
    PROVE  IInv'
<1> USE DEF broker, adapter, local
<1>1. TypeOK'
  BY MessagingAssumption, ConsumersArePairs
  DEF IInv, TypeOK, Phase, LoseBatch, EndCall, Goto, Oldest
<1>2. Counted'
  BY DEF IInv, TypeOK, Counted, LoseBatch, EndCall, Goto, Oldest
<1>3. CopiesRouted'
  BY ConsumersArePairs
  DEF IInv, TypeOK, CopiesRouted, Routed, IsRouted, LoseBatch, EndCall, Goto, Oldest
<1>4. OnePlace'
  BY ConsumersArePairs DEF IInv, TypeOK, OnePlace, LoseBatch, EndCall, Goto, Oldest
<1>5. CallsInOrder'
  BY DEF IInv, TypeOK, CallsInOrder, LoseBatch, EndCall, Goto, Oldest
<1>6. Connected'
  BY DEF IInv, TypeOK, Connected, LoseBatch, EndCall, Goto, Oldest
<1>7. AckReachesBroker'
  BY DEF IInv, TypeOK, AckReachesBroker, LoseBatch, EndCall, Goto, Oldest
<1> QED
  BY <1>1, <1>2, <1>3, <1>4, <1>5, <1>6, <1>7 DEF IInv

\* XACK removes entries from the pending list of their consumer.
LEMMA InvAcknowledgeEntries ==
    ASSUME IInv, NEW c \in Consumers, AcknowledgeEntries(c)
    PROVE  IInv'
<1> USE DEF broker, adapter, local
<1>1. TypeOK'
  BY DEF IInv, TypeOK, Phase, AcknowledgeEntries, EndCall, Goto
<1>2. Counted'
  BY DEF IInv, TypeOK, Counted, AcknowledgeEntries, EndCall, Goto
<1>3. CopiesRouted'
  BY DEF IInv, TypeOK, CopiesRouted, Routed, IsRouted, AcknowledgeEntries, EndCall, Goto
<1>4. OnePlace'
  BY DEF IInv, TypeOK, OnePlace, AcknowledgeEntries, EndCall, Goto
<1>5. CallsInOrder'
  BY DEF IInv, TypeOK, CallsInOrder, AcknowledgeEntries, EndCall, Goto
<1>6. Connected'
  BY DEF IInv, TypeOK, Connected, AcknowledgeEntries, EndCall, Goto
<1>7. AckReachesBroker'
  BY DEF IInv, TypeOK, AckReachesBroker, AcknowledgeEntries, EndCall, Goto
<1> QED
  BY <1>1, <1>2, <1>3, <1>4, <1>5, <1>6, <1>7 DEF IInv

\* A queue that is bound late gets what is published afterwards.
LEMMA InvEnsureQueueAndBind ==
    ASSUME IInv, NEW c \in Consumers, EnsureQueueAndBind(c)
    PROVE  IInv'
<1> USE DEF broker, adapter, local
<1>1. TypeOK'
  BY DEF IInv, TypeOK, Phase, EnsureQueueAndBind, EnsureConnection, Goto
<1>2. Counted'
  BY DEF IInv, TypeOK, Counted, EnsureQueueAndBind, EnsureConnection, Goto
<1>3. CopiesRouted'
  BY DEF IInv, TypeOK, CopiesRouted, Routed, IsRouted, EnsureQueueAndBind, EnsureConnection, Goto
<1>4. OnePlace'
  BY DEF IInv, TypeOK, OnePlace, EnsureQueueAndBind, EnsureConnection, Goto
<1>5. CallsInOrder'
  BY DEF IInv, TypeOK, CallsInOrder, EnsureQueueAndBind, EnsureConnection, Goto
<1>6. Connected'
  BY ConsumersArePairs DEF IInv, TypeOK, Connected, EnsureQueueAndBind, EnsureConnection, Goto
<1>7. AckReachesBroker'
  BY MessagingAssumption, ConsumersArePairs
  DEF IInv, TypeOK, Delivery, CallsInOrder, OnePlace, CopiesRouted, Routed, Connected,
      AckReachesBroker, EnsureQueueAndBind, EnsureConnection, Goto
<1> QED
  BY <1>1, <1>2, <1>3, <1>4, <1>5, <1>6, <1>7 DEF IInv

\* basic_get moves one message to the unacknowledged ones of the connection, which
\* the entry of _pending_messages remembers.
LEMMA InvGetMessage ==
    ASSUME IInv, NEW c \in Consumers, GetMessage(c)
    PROVE  IInv'
<1> DEFINE m == First(ready[c[2]])
<1> DEFINE d == [message |-> m, queue |-> c[2], conn |-> conn[c[1]]]
<1>a. /\ c[1] \in Processes /\ c[2] \in Subscriptions
      /\ m \in ready[c[2]] /\ m \in 1 .. sent /\ m \in Messages
  <2>1. c[1] \in Processes /\ c[2] \in Subscriptions
    BY ConsumersArePairs
  <2>2. ready[c[2]] \in SUBSET (1 .. sent) /\ ready[c[2]] # {} /\ sent \in 0 .. MaxMessages
    BY <2>1 DEF IInv, TypeOK, GetMessage
  <2>3. m \in ready[c[2]]
    BY <2>2, FirstIn
  <2> QED
    BY <2>1, <2>2, <2>3, MessagingAssumption DEF Messages
<1>b. d \in Delivery
  BY <1>a DEF IInv, TypeOK, Delivery
<1>c. /\ ready' = [ready EXCEPT ![c[2]] = @ \ {m}] /\ unacked' = [unacked EXCEPT ![c] = @ \cup {m}]
      /\ pending' = [pending EXCEPT ![c[1]] = {e \in @ : e.message # m} \cup {d}]
      /\ got' = [got EXCEPT ![c] = @ \cup {m}]
      /\ UNCHANGED <<backend, sent, since, conn, closed, pc, acks, processed, faults>>
      /\ backend = "rabbitmq" /\ pc[c] = "pull"
  BY DEF GetMessage
<1> HIDE DEF m, d
<1>d. pending' \in [Processes -> SUBSET Delivery]
  BY <1>a, <1>b, <1>c DEF IInv, TypeOK
<1>e. /\ \A s \in Subscriptions : ready'[s] \subseteq ready[s]
      /\ \A e \in Consumers \ {c} : unacked'[e] = unacked[e] /\ got'[e] = got[e]
      /\ unacked'[c] = unacked[c] \cup {m} /\ got'[c] = got[c] \cup {m} /\ m \notin ready'[c[2]]
  BY <1>a, <1>c DEF IInv, TypeOK
<1>1. TypeOK'
  <2>1. \A p \in Processes : \A e, f \in pending'[p] : e.message = f.message => e = f
    BY <1>c DEF d, IInv, TypeOK
  <2> QED
    BY <1>a, <1>c, <1>d, <2>1 DEF IInv, TypeOK
<1>2. Counted'
  BY <1>c DEF IInv, TypeOK, Counted
<1>3. CopiesRouted'
  BY <1>a, <1>c, <1>e DEF IInv, TypeOK, CopiesRouted, Routed, IsRouted
<1>4. OnePlace'
  <2>1. \A e \in Consumers : unacked'[e] \cap ready'[e[2]] = {}
    BY <1>e, ConsumersArePairs DEF IInv, TypeOK, OnePlace
  <2>2. \A e \in Consumers : e # c /\ e[2] = c[2] => m \notin unacked[e]
    BY <1>a DEF IInv, TypeOK, OnePlace
  <2>3. \A e, f \in Consumers : e # f /\ e[2] = f[2] => unacked'[e] \cap unacked'[f] = {}
    BY <1>e, <2>2 DEF IInv, TypeOK, OnePlace
  <2> QED
    BY <2>1, <2>3 DEF OnePlace
<1>5. CallsInOrder'
  BY <1>c, <1>e DEF IInv, TypeOK, CallsInOrder
<1>6. Connected'
  BY <1>c, <1>e DEF IInv, TypeOK, Connected
<1>7. AckReachesBroker'
  <2> SUFFICES ASSUME NEW e \in Consumers, NEW n \in got'[e],
                      pc[e] \in {"pull", "handle", "acknowledge"}, n \in unacked'[e],
                      \A f \in Consumers : f[1] = e[1] /\ f # e =>
                         n \notin processed[f[2]] /\ n \notin unacked'[f]
               PROVE  [message |-> n, queue |-> e[2], conn |-> conn[e[1]]] \in pending'[e[1]]
    BY <1>c DEF AckReachesBroker
  <2>1. CASE e = c /\ n = m
    <3>1. d \in pending'[c[1]]
      BY <1>a, <1>c DEF IInv, TypeOK
    <3> QED
      BY <2>1, <3>1 DEF d
  <2>2. CASE e[1] # c[1]
    BY <1>c, <1>e, <2>2 DEF IInv, TypeOK, AckReachesBroker
  <2>3. CASE e[1] = c[1] /\ n # m
    <3>1. [message |-> n, queue |-> e[2], conn |-> conn[e[1]]] \in pending[e[1]]
      BY <1>c, <1>e, <2>3 DEF IInv, TypeOK, AckReachesBroker
    <3> QED
      BY <1>c, <2>3, <3>1 DEF IInv, TypeOK
  <2>4. CASE e[1] = c[1] /\ n = m /\ e # c
    BY <1>e, <2>4
  <2> QED
    BY <2>1, <2>2, <2>3, <2>4
<1> QED
  BY <1>1, <1>2, <1>3, <1>4, <1>5, <1>6, <1>7 DEF IInv, TypeOK

\* The end of read() hands the batch over.
LEMMA InvReturnBatch ==
    ASSUME IInv, NEW c \in Consumers, ReturnBatch(c)
    PROVE  IInv'
<1> USE DEF broker, adapter, local
<1>1. TypeOK'
  BY DEF IInv, TypeOK, Phase, ReturnBatch, Goto
<1>2. Counted'
  BY DEF IInv, TypeOK, Counted, ReturnBatch, Goto
<1>3. CopiesRouted'
  BY DEF IInv, TypeOK, CopiesRouted, Routed, IsRouted, ReturnBatch, Goto
<1>4. OnePlace'
  BY DEF IInv, TypeOK, OnePlace, ReturnBatch, Goto
<1>5. CallsInOrder'
  BY DEF IInv, TypeOK, CallsInOrder, ReturnBatch, Goto
<1>6. Connected'
  BY DEF IInv, TypeOK, Connected, ReturnBatch, Goto
<1>7. AckReachesBroker'
  BY DEF IInv, TypeOK, AckReachesBroker, ReturnBatch, Goto
<1> QED
  BY <1>1, <1>2, <1>3, <1>4, <1>5, <1>6, <1>7 DEF IInv

\* acknowledge() takes its entries out of _pending_messages.
LEMMA InvPopDeliveries ==
    ASSUME IInv, NEW c \in Consumers, PopDeliveries(c)
    PROVE  IInv'
<1> USE DEF broker, adapter, local
<1>1. TypeOK'
  BY ConsumersArePairs DEF IInv, TypeOK, Phase, PopDeliveries, Goto
<1>2. Counted'
  BY DEF IInv, TypeOK, Counted, PopDeliveries, Goto
<1>3. CopiesRouted'
  BY DEF IInv, TypeOK, CopiesRouted, Routed, IsRouted, PopDeliveries, Goto
<1>4. OnePlace'
  BY DEF IInv, TypeOK, OnePlace, PopDeliveries, Goto
<1>5. CallsInOrder'
  BY DEF IInv, TypeOK, CallsInOrder, PopDeliveries, Goto
<1>6. Connected'
  BY DEF IInv, TypeOK, Connected, PopDeliveries, Goto
<1>7. AckReachesBroker'
  <2>1. AckReachesBroker /\ pc \in [Consumers -> Phase] /\ Goto(c, "ack")
    BY DEF IInv, TypeOK, PopDeliveries
  <2>2. pc'[c] = "ack" /\ \A b \in Consumers \ {c} : pc'[b] = pc[b]
    BY <2>1 DEF Goto
  <2>3. UNCHANGED <<unacked, conn, got>>
    BY DEF PopDeliveries
  <2> QED
    BY <2>1, <2>2, <2>3 DEF IInv, TypeOK, AckReachesBroker, CallsInOrder, PopDeliveries
<1> QED
  BY <1>1, <1>2, <1>3, <1>4, <1>5, <1>6, <1>7 DEF IInv

\* It acknowledges on the connection the message came from, or not at all.
LEMMA InvAckDelivery ==
    ASSUME IInv, NEW c \in Consumers, AckDelivery(c)
    PROVE  IInv'
<1>a. PICK d \in acks[c] :
         IF d.conn = conn[c[1]]
           THEN /\ unacked' = [unacked EXCEPT ![<<c[1], d.queue>>] = @ \ {d.message}]
                /\ acks' = [acks EXCEPT ![c] = @ \ {d}]
                /\ UNCHANGED <<pc, got>>
           ELSE EndCall(c) /\ UNCHANGED unacked
  BY DEF AckDelivery
<1>b. /\ unacked' \in [Consumers -> SUBSET (1 .. sent)]
      /\ \A e \in Consumers : /\ unacked'[e] \subseteq unacked[e]
                              /\ unacked[e] \ unacked'[e] \subseteq {d.message}
                              /\ e[1] # c[1] => unacked'[e] = unacked[e]
  <2> DEFINE k == <<c[1], d.queue>>
  <2>1. k[1] = c[1]
    OBVIOUS
  <2>2. unacked' = unacked \/ unacked' = [unacked EXCEPT ![k] = @ \ {d.message}]
    BY <1>a
  <2> HIDE DEF k
  <2> QED
    BY <2>1, <2>2 DEF IInv, TypeOK
<1>c. /\ acks' \in [Consumers -> SUBSET Delivery]
      /\ \A e \in Consumers : acks'[e] \subseteq acks[e] /\ (e # c => acks'[e] = acks[e])
      /\ pc' \in [Consumers -> Phase] /\ got' \in [Consumers -> SUBSET (1 .. sent)]
      /\ \A e \in Consumers \ {c} : pc'[e] = pc[e] /\ got'[e] = got[e]
      /\ \/ pc'[c] = "idle" /\ got'[c] = {} /\ acks'[c] = {}
         \/ pc'[c] = "ack" /\ got'[c] = got[c]
  <2>1. CASE d.conn = conn[c[1]]
    <3>1. acks' = [acks EXCEPT ![c] = @ \ {d}] /\ UNCHANGED <<pc, got>> /\ pc[c] = "ack"
      BY <1>a, <2>1 DEF AckDelivery
    <3> QED
      BY <3>1 DEF IInv, TypeOK
  <2>2. CASE d.conn # conn[c[1]]
    BY <1>a, <2>2 DEF AckDelivery, EndCall, Goto, Phase, IInv, TypeOK
  <2> QED
    BY <2>1, <2>2
<1>d. /\ UNCHANGED <<backend, sent, since, ready, conn, closed, pending, processed, faults>>
      /\ pc[c] = "ack" /\ backend = "rabbitmq" /\ d.message \in processed[c[2]]
  BY DEF AckDelivery, adapter, IInv, TypeOK, CallsInOrder
<1>1. TypeOK'
  BY <1>b, <1>c, <1>d DEF IInv, TypeOK
<1>2. Counted'
  BY <1>d DEF IInv, TypeOK, Counted
<1>3. CopiesRouted'
  BY <1>b, <1>c, <1>d DEF IInv, TypeOK, CopiesRouted, Routed, IsRouted
<1>4. OnePlace'
  BY <1>b, <1>d DEF IInv, TypeOK, OnePlace
<1>5. CallsInOrder'
  BY <1>c, <1>d DEF IInv, TypeOK, CallsInOrder
<1>6. Connected'
  BY <1>b, <1>c, <1>d DEF IInv, TypeOK, Connected
<1>7. AckReachesBroker'
  <2> SUFFICES ASSUME NEW e \in Consumers, NEW n \in got'[e],
                      pc'[e] \in {"pull", "handle", "acknowledge"}, n \in unacked'[e],
                      \A f \in Consumers : f[1] = e[1] /\ f # e =>
                         n \notin processed[f[2]] /\ n \notin unacked'[f]
               PROVE  [message |-> n, queue |-> e[2], conn |-> conn[e[1]]] \in pending[e[1]]
    BY <1>d DEF AckReachesBroker
  <2>1. e # c /\ n \in got[e] /\ pc[e] = pc'[e] /\ n \in unacked[e]
    BY <1>b, <1>c DEF IInv, TypeOK
  <2>2. e[1] = c[1] => n # d.message
    BY <1>d, <2>1
  <2>3. \A f \in Consumers : f[1] = e[1] /\ f # e => n \notin unacked[f]
    BY <1>b, <2>2 DEF IInv, TypeOK
  <2> QED
    BY <1>d, <2>1, <2>3 DEF IInv, TypeOK, AckReachesBroker
<1> QED
  BY <1>1, <1>2, <1>3, <1>4, <1>5, <1>6, <1>7 DEF IInv, TypeOK

\* It ends when nothing is left to acknowledge.
LEMMA InvEndAcknowledge ==
    ASSUME IInv, NEW c \in Consumers, EndAcknowledge(c)
    PROVE  IInv'
<1> USE DEF broker, adapter, local
<1>1. TypeOK'
  BY DEF IInv, TypeOK, Phase, EndAcknowledge, EndCall, Goto
<1>2. Counted'
  BY DEF IInv, TypeOK, Counted, EndAcknowledge, EndCall, Goto
<1>3. CopiesRouted'
  BY DEF IInv, TypeOK, CopiesRouted, Routed, IsRouted, EndAcknowledge, EndCall, Goto
<1>4. OnePlace'
  BY DEF IInv, TypeOK, OnePlace, EndAcknowledge, EndCall, Goto
<1>5. CallsInOrder'
  BY DEF IInv, TypeOK, CallsInOrder, EndAcknowledge, EndCall, Goto
<1>6. Connected'
  BY DEF IInv, TypeOK, Connected, EndAcknowledge, EndCall, Goto
<1>7. AckReachesBroker'
  BY DEF IInv, TypeOK, AckReachesBroker, EndAcknowledge, EndCall, Goto
<1> QED
  BY <1>1, <1>2, <1>3, <1>4, <1>5, <1>6, <1>7 DEF IInv

\* The caller has processed a batch.
LEMMA InvHandle ==
    ASSUME IInv, NEW c \in Consumers, Handle(c)
    PROVE  IInv'
<1> USE DEF broker, adapter, local
<1>1. TypeOK'
  BY DEF IInv, TypeOK, Phase, Handle, Goto
<1>2. Counted'
  BY DEF IInv, TypeOK, Counted, Handle, Goto
<1>3. CopiesRouted'
  BY DEF IInv, TypeOK, CopiesRouted, Routed, IsRouted, Handle, Goto
<1>4. OnePlace'
  BY DEF IInv, TypeOK, OnePlace, Handle, Goto
<1>5. CallsInOrder'
  BY ConsumersArePairs DEF IInv, TypeOK, CallsInOrder, Handle, Goto
<1>6. Connected'
  BY DEF IInv, TypeOK, Connected, Handle, Goto
<1>7. AckReachesBroker'
  BY DEF IInv, TypeOK, AckReachesBroker, Handle, Goto
<1> QED
  BY <1>1, <1>2, <1>3, <1>4, <1>5, <1>6, <1>7 DEF IInv

\* A lost connection returns what it had not acknowledged to the queues.
LEMMA InvDisconnect ==
    ASSUME IInv, NEW p \in Processes, Disconnect(p)
    PROVE  IInv'
<1> USE DEF broker, adapter, local
<1>1. TypeOK'
  BY MessagingAssumption, ConsumersArePairs
  DEF IInv, TypeOK, Phase, Counted, CallsInOrder, Disconnect, Requeue
<1>2. Counted'
  BY DEF IInv, TypeOK, Counted, Disconnect, Requeue
<1>3. CopiesRouted'
  BY DEF IInv, TypeOK, CopiesRouted, Routed, IsRouted, Disconnect, Requeue
<1>4. OnePlace'
  BY RequeuedOnce DEF IInv, Disconnect
<1>5. CallsInOrder'
  BY DEF IInv, TypeOK, CallsInOrder, Disconnect, Requeue
<1>6. Connected'
  BY DEF IInv, TypeOK, Connected, Disconnect, Requeue
<1>7. AckReachesBroker'
  BY DEF IInv, TypeOK, AckReachesBroker, Disconnect, Requeue
<1> QED
  BY <1>1, <1>2, <1>3, <1>4, <1>5, <1>6, <1>7 DEF IInv

\* So does a process that dies, and it forgets what it had in hand.
LEMMA InvCrash ==
    ASSUME IInv, NEW p \in Processes, Crash(p)
    PROVE  IInv'
<1> USE DEF broker, adapter, local
<1>1. TypeOK'
  <2>1. /\ ready' \in [Subscriptions -> SUBSET (1 .. sent)]
        /\ unacked' \in [Consumers -> SUBSET (1 .. sent)] /\ conn' \in [Processes -> 0 .. MaxFaults]
    <3>1. CASE backend = "rabbitmq"
      <4>1. conn[p] + 1 \in 0 .. MaxFaults
        BY MessagingAssumption DEF IInv, TypeOK, Counted, Crash
      <4>2. conn' = [conn EXCEPT ![p] = @ + 1]
        BY <3>1 DEF Crash, Requeue
      <4>3. conn' \in [Processes -> 0 .. MaxFaults]
        BY <4>1, <4>2 DEF IInv, TypeOK
      <4> QED
        BY <3>1, <4>3, Requeued DEF IInv, Crash
    <3>2. CASE backend # "rabbitmq"
      BY <3>2 DEF IInv, TypeOK, Crash
    <3> QED
      BY <3>1, <3>2
  <2>2. /\ closed' = [closed EXCEPT ![p] = TRUE] /\ pending' = [pending EXCEPT ![p] = {}]
        /\ pc' = [c \in Consumers |-> IF c[1] = p THEN "idle" ELSE pc[c]]
        /\ got' = [c \in Consumers |-> IF c[1] = p THEN {} ELSE got[c]]
        /\ acks' = [c \in Consumers |-> IF c[1] = p THEN {} ELSE acks[c]]
        /\ UNCHANGED <<backend, sent, since, processed>>
        /\ faults' = faults + 1 /\ faults < MaxFaults
    BY DEF Crash
  <2> QED
    BY <2>1, <2>2, MessagingAssumption DEF IInv, TypeOK, Phase
<1>2. Counted'
  <2>1. /\ UNCHANGED <<sent, since>> /\ faults' = faults + 1
        /\ conn' = conn \/ conn' = [conn EXCEPT ![p] = @ + 1]
    BY DEF Crash, Requeue
  <2> QED
    BY <2>1 DEF IInv, TypeOK, Counted
<1>3. CopiesRouted'
  BY DEF IInv, TypeOK, CopiesRouted, Routed, IsRouted, Crash, Requeue
<1>4. OnePlace'
  <2>1. CASE backend = "rabbitmq"
    BY <2>1, RequeuedOnce DEF IInv, Crash
  <2>2. CASE backend # "rabbitmq"
    BY <2>2 DEF IInv, TypeOK, OnePlace, Crash
  <2> QED
    BY <2>1, <2>2
<1>5. CallsInOrder'
  BY DEF IInv, TypeOK, CallsInOrder, Crash, Requeue
<1>6. Connected'
  BY DEF IInv, TypeOK, Connected, Crash, Requeue
<1>7. AckReachesBroker'
  BY ConsumersArePairs DEF IInv, TypeOK, AckReachesBroker, Crash, Requeue
<1> QED
  BY <1>1, <1>2, <1>3, <1>4, <1>5, <1>6, <1>7 DEF IInv

\* The start: nothing is published, bound or pulled.
LEMMA InvInit == Init => IInv
<1> SUFFICES ASSUME Init PROVE IInv
  OBVIOUS
<1>1. TypeOK
  BY MessagingAssumption DEF Init, TypeOK, Phase, Backends
<1>2. Counted /\ CopiesRouted /\ OnePlace
  BY MessagingAssumption, ConsumersArePairs
  DEF Init, Counted, CopiesRouted, OnePlace, Routed
<1>3. CallsInOrder /\ Connected /\ AckReachesBroker
  BY ConsumersArePairs DEF Init, CallsInOrder, Connected, AckReachesBroker
<1> QED
  BY <1>1, <1>2, <1>3 DEF IInv

\* All steps keep the invariant.
LEMMA InvNext == IInv /\ [Next]_vars => IInv'
<1> SUFFICES ASSUME IInv, [Next]_vars PROVE IInv'
  OBVIOUS
<1>1. CASE UNCHANGED vars
  <2> USE <1>1 DEF vars, broker, adapter, local, IInv
  <2>1. TypeOK'
    BY DEF TypeOK
  <2>2. Counted' /\ OnePlace' /\ CallsInOrder' /\ Connected'
    BY DEF Counted, OnePlace, CallsInOrder, Connected
  <2>3. CopiesRouted'
    BY DEF CopiesRouted, Routed, IsRouted
  <2>4. AckReachesBroker'
    BY DEF AckReachesBroker
  <2> QED
    BY <2>1, <2>2, <2>3, <2>4
<1>2. CASE AddEntry \/ \E p \in Processes : Publish(p) \/ Disconnect(p) \/ Crash(p)
  BY <1>2, InvAddEntry, InvPublish, InvDisconnect, InvCrash
<1>3. ASSUME NEW c \in Consumers,
             \/ EnsureConsumerGroup(c) \/ ReadGroup(c) \/ LoseBatch(c) \/ AcknowledgeEntries(c)
      PROVE  IInv'
  BY <1>3, InvEnsureConsumerGroup, InvReadGroup, InvLoseBatch, InvAcknowledgeEntries
<1>4. ASSUME NEW c \in Consumers,
             \/ EnsureQueueAndBind(c) \/ GetMessage(c) \/ ReturnBatch(c)
             \/ PopDeliveries(c) \/ AckDelivery(c) \/ EndAcknowledge(c) \/ Handle(c)
      PROVE  IInv'
  BY <1>4, InvEnsureQueueAndBind, InvGetMessage, InvReturnBatch, InvPopDeliveries,
     InvAckDelivery, InvEndAcknowledge, InvHandle
<1> QED
  BY <1>1, <1>2, <1>3, <1>4 DEF Next

\* The inductive invariant holds throughout.
LEMMA Invariant == Spec => []IInv
  BY InvInit, InvNext, PTL DEF Spec

\* Every variable of the broker and the adapter keeps its type; _pending_messages
\* never holds two deliveries of one message id.
THEOREM TypeCorrect == Spec => []TypeOK
<1>1. IInv => TypeOK
  BY DEF IInv
<1> QED
  BY <1>1, Invariant, PTL

\* What a step does to the entries of a stream that its groups have read.
LEMMA HandsOut ==
    ASSUME IInv, [Next]_vars, backend = "redis"
    PROVE  /\ \A c \in Consumers : got'[c] \ got[c] \subseteq ready[c[2]] \ ready'[c[2]]
           /\ \A s \in Subscriptions, m \in Messages :
                 IsRouted(m, s) /\ m \notin ready[s] => m \notin ready'[s]
<1> USE DEF IInv, TypeOK
<1>1. CASE \/ UNCHANGED vars
           \/ \E p \in Processes : Crash(p)
           \/ \E c \in Consumers :
                 LoseBatch(c) \/ AcknowledgeEntries(c) \/ AckDelivery(c) \/ EndAcknowledge(c) \/ Handle(c)
  <2>1. \A c \in Consumers : got'[c] \subseteq got[c]
    <3>1. ASSUME NEW c \in Consumers, EndCall(c) PROVE \A d \in Consumers : got'[d] \subseteq got[d]
      BY <3>1 DEF EndCall
    <3>2. ASSUME NEW p \in Processes, Crash(p) PROVE \A d \in Consumers : got'[d] \subseteq got[d]
      BY <3>2 DEF Crash
    <3>3. \/ got' = got \/ (\E p \in Processes : Crash(p)) \/ \E c \in Consumers : EndCall(c)
      BY <1>1 DEF vars, local, LoseBatch, AcknowledgeEntries, AckDelivery, EndAcknowledge, Handle
    <3> QED
      BY <3>1, <3>2, <3>3
  <2>2. \A s \in Subscriptions : ready'[s] \subseteq ready[s]
    BY <1>1 DEF vars, broker, Crash, LoseBatch, AcknowledgeEntries, AckDelivery, EndAcknowledge, Handle
  <2> QED
    BY <2>1, <2>2
<1>2. CASE AddEntry
  <2>1. got' = got /\ sent \in Nat
    BY <1>2, MessagingAssumption DEF AddEntry, Enqueue, local
  <2>2. \A s \in Subscriptions : ready'[s] \subseteq ready[s] \cup {sent + 1}
    BY <1>2 DEF AddEntry, Enqueue
  <2>3. \A s \in Subscriptions, m \in Messages : IsRouted(m, s) => m # sent + 1
    BY <2>1 DEF IsRouted, Messages
  <2> QED
    BY <2>1, <2>2, <2>3
<1>3. ASSUME NEW c \in Consumers, EnsureConsumerGroup(c)
      PROVE  /\ got' = got
             /\ \A s \in Subscriptions : since[s] = None \/ ready'[s] = ready[s]
  BY <1>3, ConsumersArePairs DEF EnsureConsumerGroup
<1>4. ASSUME NEW c \in Consumers, ReadGroup(c)
      PROVE  /\ \A d \in Consumers : got'[d] \ got[d] \subseteq ready[d[2]] \ ready'[d[2]]
             /\ \A s \in Subscriptions : ready'[s] \subseteq ready[s]
  <2> DEFINE batch == Oldest(ready[c[2]], BatchLimit)
  <2>1. /\ got' = [got EXCEPT ![c] = batch] /\ ready' = [ready EXCEPT ![c[2]] = @ \ batch]
        /\ batch \subseteq ready[c[2]]
    BY <1>4 DEF ReadGroup, Oldest
  <2> QED
    BY <2>1, ConsumersArePairs
<1>5. \/ UNCHANGED vars \/ AddEntry \/ \E p \in Processes : Crash(p)
      \/ \E c \in Consumers :
            \/ EnsureConsumerGroup(c) \/ ReadGroup(c)
            \/ LoseBatch(c) \/ AcknowledgeEntries(c) \/ AckDelivery(c) \/ EndAcknowledge(c) \/ Handle(c)
  BY DEF Next, Publish, EnsureQueueAndBind, GetMessage, ReturnBatch, PopDeliveries, Disconnect
<1> QED
  BY <1>1, <1>2, <1>3, <1>4, <1>5 DEF IsRouted

\* However consumers of a group die between a pull and its acknowledgement, what the
\* group has read is never unread again, and a pull takes unread entries only.
THEOREM GroupsHandOutOnce == Spec => StreamHandsOutOnce
<1>1. IInv /\ [Next]_vars =>
        [backend = "redis" =>
           /\ \A c \in Consumers : got'[c] \ got[c] \subseteq ready[c[2]] \ ready'[c[2]]
           /\ \A s \in Subscriptions, m \in Messages :
                 IsRouted(m, s) /\ m \notin ready[s] => m \notin ready'[s]]_vars
  BY HandsOut
<1> QED
  BY <1>1, Invariant, PTL DEF Spec, StreamHandsOutOnce

\* However coroutines of a process overwrite each other's entries of
\* _pending_messages and connections are replaced, a delivery that is out can be
\* acknowledged, but for the one case that AckReachesBroker names.
THEOREM DeliveryIsRemembered == Spec => []AckReachesBroker
<1>1. IInv => AckReachesBroker
  BY DEF IInv
<1> QED
  BY <1>1, Invariant, PTL
-------------------------------------------------------------------------------
(* The refinement of MessageDelivery, copy by copy.                          *)

\* The place of a copy, before and after a step.
LEMMA Places ==
    ASSUME IInv, IInv', NEW m \in Messages, NEW s \in Subscriptions
    PROVE  /\ Place(m, s) \in Promise!Places /\ Place(m, s)' \in Promise!Places
           /\ Place(m, s) = "none" <=> ~IsRouted(m, s)
           /\ Place(m, s) = "ready" <=> m \in ready[s]
           /\ Place(m, s) = "out" <=> IsOut(m, s)
           /\ Place(m, s)' = "none" <=> ~IsRouted(m, s)'
           /\ Place(m, s)' = "ready" <=> m \in ready'[s]
           /\ Place(m, s)' = "out" <=> IsOut(m, s)'
<1>1. /\ m \in ready[s] => IsRouted(m, s) /\ ~IsOut(m, s)
      /\ IsOut(m, s) => IsRouted(m, s)
  BY DEF IInv, TypeOK, CopiesRouted, Routed, OnePlace, IsOut
<1>2. /\ m \in ready'[s] => IsRouted(m, s)' /\ ~IsOut(m, s)'
      /\ IsOut(m, s)' => IsRouted(m, s)'
  BY DEF IInv, TypeOK, CopiesRouted, Routed, OnePlace, IsOut
<1>3. Place(m, s) = IF ~IsRouted(m, s) THEN "none" ELSE IF m \in ready[s] THEN "ready"
                    ELSE IF IsOut(m, s) THEN "out" ELSE "done"
  BY <1>1 DEF Place
<1>4. Place(m, s)' = IF ~IsRouted(m, s)' THEN "none" ELSE IF m \in ready'[s] THEN "ready"
                     ELSE IF IsOut(m, s)' THEN "out" ELSE "done"
  BY <1>2 DEF Place
<1> QED
  BY <1>1, <1>2, <1>3, <1>4 DEF Promise!Places

\* What a step may do to a copy.
CopyMoves(m, s) ==
    /\ IsRouted(m, s) => IsRouted(m, s)'
    /\ ~IsRouted(m, s) /\ IsRouted(m, s)' => m \in ready'[s]
    /\ m \in ready[s] => m \in ready'[s] \/ IsOut(m, s)'
    /\ IsOut(m, s) => m \in ready'[s] \/ IsOut(m, s)' \/ <<m, s>> \in Settleable
    /\ IsRouted(m, s) /\ m \notin ready[s] /\ ~IsOut(m, s) => m \notin ready'[s] /\ ~IsOut(m, s)'

Delivers == \A m \in Messages, s \in Subscriptions : CopyMoves(m, s)

\* That is what MessageDelivery allows.
LEMMA Allowed == IInv /\ IInv' /\ Delivers => Promise!Next
<1> SUFFICES ASSUME IInv, IInv', Delivers PROVE Promise!Next
  OBVIOUS
<1> DEFINE Copies == Messages \X Subscriptions
<1> DEFINE at == [k \in Copies |-> Place(k[1], k[2])]
<1>1. \A k \in Copies : k = <<k[1], k[2]>> /\ k[1] \in Messages /\ k[2] \in Subscriptions
  OBVIOUS
<1>2. ASSUME NEW k \in Copies PROVE at'[k] \in Promise!Places /\ Promise!Moves(k, at[k], at'[k])
  <2>1. at[k] = Place(k[1], k[2]) /\ at'[k] = Place(k[1], k[2])'
    OBVIOUS
  <2>2. CopyMoves(k[1], k[2]) /\ k[1] \in Messages /\ k[2] \in Subscriptions
    BY <1>1 DEF Delivers
  <2> HIDE DEF at
  <2>3. at'[k] \in Promise!Places
    BY <2>1, <2>2, Places
  <2> QED
    BY <1>1, <2>1, <2>2, Places DEF CopyMoves, Promise!Moves, Promise!Places
<1>3. Settleable' \subseteq Copies
  BY DEF Settleable, Handled
<1>4. at' \in [Copies -> Promise!Places]
  BY <1>2
<1> QED
  BY <1>2, <1>3, <1>4 DEF Promise!Next

\* A step that moves no copy.
LEMMA DeliversQuietly ==
    ASSUME IInv, UNCHANGED broker
    PROVE  Delivers
  BY DEF Delivers, CopyMoves, IsRouted, IsOut, broker

\* A message is published.
LEMMA DeliversEnqueue ==
    ASSUME IInv, Enqueue
    PROVE  Delivers
<1>1. /\ sent' = sent + 1 /\ UNCHANGED <<backend, since, unacked, processed>>
      /\ \A s \in Subscriptions :
            ready'[s] = IF since[s] = None THEN ready[s] ELSE ready[s] \cup {sent + 1}
      /\ sent \in Nat
  BY MessagingAssumption DEF Enqueue, IInv, TypeOK
<1>2. ASSUME NEW m \in Messages, NEW s \in Subscriptions PROVE CopyMoves(m, s)
  <2>1. IsOut(m, s)' <=> IsOut(m, s)
    BY <1>1 DEF IsOut
  <2>2. IsRouted(m, s)' <=> IsRouted(m, s) \/ (since[s] # None /\ since[s] < m /\ m = sent + 1)
    BY <1>1 DEF IsRouted, Messages
  <2>3. m \in ready'[s] <=> m \in ready[s] \/ (since[s] # None /\ m = sent + 1)
    <3>1. ready'[s] = IF since[s] = None THEN ready[s] ELSE ready[s] \cup {sent + 1}
      BY <1>1
    <3>2. CASE since[s] = None
      <4>1. ready'[s] = ready[s]
        BY <3>1, <3>2
      <4> QED
        BY <3>2, <4>1
    <3>3. CASE since[s] # None
      <4>1. ready'[s] = ready[s] \cup {sent + 1}
        BY <3>1, <3>3
      <4> QED
        BY <3>3, <4>1
    <3> QED
      BY <3>2, <3>3
  <2>4. IsRouted(m, s) => m # sent + 1
    BY <1>1 DEF IsRouted, Messages
  <2> QED
    BY <2>1, <2>2, <2>3, <2>4 DEF CopyMoves
<1> QED
  BY <1>2 DEF Delivers

\* A group is created, or a queue bound: a stream has kept everything for the
\* group, the queue gets what is published from now on.
LEMMA DeliversBind ==
    ASSUME IInv, NEW c \in Consumers, EnsureConsumerGroup(c) \/ EnsureQueueAndBind(c)
    PROVE  Delivers
<1>1. /\ UNCHANGED <<backend, sent, unacked, processed>> /\ sent \in 0 .. MaxMessages
      /\ c[2] \in Subscriptions /\ MaxMessages \in Nat /\ None \notin Nat
  BY MessagingAssumption, ConsumersArePairs
  DEF EnsureConsumerGroup, EnsureQueueAndBind, IInv, TypeOK
<1>2. \A s \in Subscriptions :
         \/ since'[s] = since[s] /\ ready'[s] = ready[s]
         \/ since[s] = None /\ since'[s] = 0 /\ ready'[s] = 1 .. sent
         \/ since[s] = None /\ since'[s] = sent /\ ready'[s] = ready[s]
  BY <1>1 DEF EnsureConsumerGroup, EnsureQueueAndBind, IInv, TypeOK
<1>3. ASSUME NEW m \in Messages, NEW s \in Subscriptions PROVE CopyMoves(m, s)
  <2>1. IsOut(m, s)' <=> IsOut(m, s)
    BY <1>1 DEF IsOut
  <2>2. IsOut(m, s) \/ m \in ready[s] => IsRouted(m, s)
    BY DEF IsOut, IInv, TypeOK, CopiesRouted, Routed
  <2>3. CASE since'[s] = since[s] /\ ready'[s] = ready[s]
    BY <1>1, <2>1, <2>3 DEF CopyMoves, IsRouted
  <2>4. CASE since[s] = None /\ since'[s] = 0 /\ ready'[s] = 1 .. sent
    BY <1>1, <2>1, <2>2, <2>4 DEF CopyMoves, IsRouted, Messages
  <2>5. CASE since[s] = None /\ since'[s] = sent /\ ready'[s] = ready[s]
    BY <1>1, <2>1, <2>2, <2>5 DEF CopyMoves, IsRouted, Messages
  <2> QED
    BY <1>2, <2>3, <2>4, <2>5
<1> QED
  BY <1>3 DEF Delivers

\* Copies that were ready go out to c.
LEMMA DeliversPull ==
    ASSUME IInv, NEW c \in Consumers, NEW batch \in SUBSET ready[c[2]],
           ready' = [ready EXCEPT ![c[2]] = @ \ batch],
           unacked' = [unacked EXCEPT ![c] = @ \cup batch],
           UNCHANGED <<sent, since>>
    PROVE  Delivers
<1>1. c[2] \in Subscriptions
  BY ConsumersArePairs
<1>2. \A s \in Subscriptions : \A m :
         m \in ready'[s] <=> m \in ready[s] /\ ~(s = c[2] /\ m \in batch)
  BY <1>1 DEF IInv, TypeOK
<1>3. \A d \in Consumers : \A m : m \in unacked'[d] <=> m \in unacked[d] \/ (d = c /\ m \in batch)
  BY DEF IInv, TypeOK
<1>4. \A s \in Subscriptions : \A m : IsOut(m, s)' <=> IsOut(m, s) \/ (s = c[2] /\ m \in batch)
  BY <1>3 DEF IsOut
<1>5. \A s \in Subscriptions : \A m : IsRouted(m, s)' <=> IsRouted(m, s)
  BY DEF IsRouted
<1> QED
  BY <1>2, <1>4, <1>5 DEF Delivers, CopyMoves

\* Copies that are out are settled, of messages that may be.
LEMMA DeliversSettle ==
    ASSUME IInv, UNCHANGED <<sent, since, ready>>,
           \A d \in Consumers : unacked'[d] \subseteq unacked[d],
           \A d \in Consumers : \A m \in unacked[d] \ unacked'[d] : <<m, d[2]>> \in Settleable
    PROVE  Delivers
<1>1. \A m, s : IsOut(m, s)' => IsOut(m, s)
  BY DEF IsOut
<1>2. \A m, s : IsOut(m, s) => IsOut(m, s)' \/ <<m, s>> \in Settleable
  BY DEF IsOut
<1>3. \A m, s : IsRouted(m, s)' <=> IsRouted(m, s)
  BY DEF IsRouted
<1> QED
  BY <1>1, <1>2, <1>3 DEF Delivers, CopyMoves

\* An acknowledgement removes the copies that it had read and processed.
LEMMA DeliversAck ==
    ASSUME IInv, NEW c \in Consumers, AcknowledgeEntries(c) \/ AckDelivery(c)
    PROVE  Delivers
<1>1. UNCHANGED <<sent, since, ready>>
  BY DEF AcknowledgeEntries, AckDelivery
<1>2. CASE AcknowledgeEntries(c)
  <2>1. /\ backend = "redis" /\ got[c] \subseteq processed[c[2]]
        /\ unacked' = [d \in Consumers |->
              IF d[2] = c[2] THEN unacked[d] \ got[c] ELSE unacked[d]]
    BY <1>2 DEF AcknowledgeEntries, IInv, CallsInOrder
  <2>2. \A d \in Consumers : unacked'[d] \subseteq unacked[d]
    BY <2>1
  <2>3. ASSUME NEW d \in Consumers, NEW m \in unacked[d] \ unacked'[d]
        PROVE  <<m, d[2]>> \in Settleable
    <3>1. d[2] = c[2] /\ m \in processed[c[2]] /\ d[2] \in Subscriptions /\ m \in Messages
      BY <2>1, <2>3, ConsumersArePairs, MessagingAssumption DEF IInv, TypeOK, Messages
    <3> QED
      BY <2>1, <3>1 DEF Settleable, Handled
  <2> QED
    BY <1>1, <2>2, <2>3, DeliversSettle
<1>3. CASE AckDelivery(c)
  <2>1. PICK d \in acks[c] :
           \/ unacked' = [unacked EXCEPT ![<<c[1], d.queue>>] = @ \ {d.message}]
           \/ unacked' = unacked
    BY <1>3 DEF AckDelivery
  <2>2. backend = "rabbitmq" /\ d.message \in processed[c[2]] /\ c[2] \in Subscriptions
    BY <1>3, ConsumersArePairs DEF AckDelivery, IInv, TypeOK, CallsInOrder
  <2>3. \A e \in Consumers : /\ unacked'[e] \subseteq unacked[e]
                             /\ unacked[e] \ unacked'[e] \subseteq {d.message}
                             /\ unacked[e] # unacked'[e] => e[1] = c[1]
    <3> DEFINE k == <<c[1], d.queue>>
    <3>1. unacked' = unacked \/ unacked' = [unacked EXCEPT ![k] = @ \ {d.message}]
      BY <2>1
    <3>2. k[1] = c[1]
      OBVIOUS
    <3> HIDE DEF k
    <3>3. \A e \in Consumers : /\ unacked'[e] \subseteq unacked[e]
                               /\ unacked[e] \ unacked'[e] \subseteq {d.message}
                               /\ unacked[e] # unacked'[e] => e = k
      BY <3>1 DEF IInv, TypeOK
    <3> QED
      BY <3>2, <3>3
  <2>4. ASSUME NEW e \in Consumers, NEW m \in unacked[e] \ unacked'[e]
        PROVE  <<m, e[2]>> \in Settleable
    <3>1. /\ m = d.message /\ e[1] = c[1] /\ e[2] \in Subscriptions /\ m \in Messages
          /\ m \in unacked[e]
      BY <2>3, <2>4, ConsumersArePairs, MessagingAssumption DEF IInv, TypeOK, Messages
    <3> QED
      BY <2>2, <2>4, <3>1 DEF Settleable
  <2> QED
    BY <1>1, <2>3, <2>4, DeliversSettle
<1> QED
  BY <1>2, <1>3

\* A lost connection, or a crash: what was out is ready again.
LEMMA DeliversRequeue ==
    ASSUME IInv, NEW p \in Processes, Disconnect(p) \/ Crash(p)
    PROVE  Delivers
<1>1. UNCHANGED <<sent, since>>
  BY DEF Disconnect, Crash
<1>2. CASE UNCHANGED <<ready, unacked>>
  BY <1>1, <1>2, DeliversQuietly DEF broker
<1>3. CASE Requeue(p)
  <2>1. ASSUME NEW m \in Messages, NEW s \in Subscriptions PROVE CopyMoves(m, s)
    <3>1. IsRouted(m, s)' <=> IsRouted(m, s)
      BY <1>1 DEF IsRouted
    <3>2. IsOut(m, s) \/ m \in ready[s] => IsRouted(m, s)
      BY DEF IsOut, IInv, TypeOK, CopiesRouted, Routed
    <3>3. m \in ready'[s] => m \in ready[s] \/ IsOut(m, s)
      BY <1>3, Requeued DEF IInv, IsOut
    <3>4. m \in ready[s] => m \in ready'[s]
      BY <1>3, Requeued DEF IInv
    <3>5. IsOut(m, s) => m \in ready'[s] \/ IsOut(m, s)'
      BY <1>3, Requeued DEF IInv, IsOut
    <3>6. IsOut(m, s)' => IsOut(m, s)
      BY <1>3, Requeued DEF IInv, IsOut
    <3> QED
      BY <3>1, <3>2, <3>3, <3>4, <3>5, <3>6 DEF CopyMoves
  <2> QED
    BY <2>1 DEF Delivers
<1> QED
  BY <1>2, <1>3 DEF Disconnect, Crash

\* Every step of the adapters moves the copies of messages as MessageDelivery allows.
LEMMA DeliversNext == IInv /\ [Next]_vars => Delivers
<1> SUFFICES ASSUME IInv, [Next]_vars PROVE Delivers
  OBVIOUS
<1>1. CASE UNCHANGED vars
  BY <1>1, DeliversQuietly DEF vars
<1>2. CASE AddEntry \/ \E p \in Processes : Publish(p)
  BY <1>2, DeliversEnqueue DEF AddEntry, Publish
<1>3. CASE \E p \in Processes : Disconnect(p) \/ Crash(p)
  BY <1>3, DeliversRequeue
<1>4. ASSUME NEW c \in Consumers, EnsureConsumerGroup(c) \/ EnsureQueueAndBind(c)
      PROVE  Delivers
  BY <1>4, DeliversBind
<1>5. ASSUME NEW c \in Consumers, ReadGroup(c) \/ LoseBatch(c) PROVE Delivers
  BY <1>5, DeliversPull DEF ReadGroup, LoseBatch, Oldest
<1>6. ASSUME NEW c \in Consumers, GetMessage(c) PROVE Delivers
  <2>1. c[2] \in Subscriptions
    BY ConsumersArePairs
  <2>2. ready[c[2]] \in SUBSET Nat /\ ready[c[2]] # {}
    BY <1>6, <2>1 DEF GetMessage, IInv, TypeOK
  <2>3. {First(ready[c[2]])} \in SUBSET ready[c[2]]
    BY <2>2, FirstIn
  <2> QED
    BY <1>6, <2>3, DeliversPull DEF GetMessage
<1>7. ASSUME NEW c \in Consumers, AcknowledgeEntries(c) \/ AckDelivery(c) PROVE Delivers
  BY <1>7, DeliversAck
<1>8. ASSUME NEW c \in Consumers,
             ReturnBatch(c) \/ PopDeliveries(c) \/ EndAcknowledge(c) \/ Handle(c)
      PROVE  Delivers
  BY <1>8, DeliversQuietly DEF ReturnBatch, PopDeliveries, EndAcknowledge, Handle
<1> QED
  BY <1>1, <1>2, <1>3, <1>4, <1>5, <1>6, <1>7, <1>8 DEF Next

\* Both backends keep what is left of the promise when processes serve several
\* subscriptions: through crashes, lost connections and failing calls a copy is in
\* the queue, out or settled, and it is settled only once its message was handled
\* for its subscription or, on RabbitMQ, for another one of the process that has it.
THEOREM DeliveryKept == Spec => ImplementsDelivery
<1>1. Init => Promise!Init
  BY DEF Init, Promise!Init, Place, IsRouted, Settleable, Handled
<1>2. IInv /\ IInv' /\ [Next]_vars => Promise!Next
  BY DeliversNext, Allowed
<1> QED
  BY <1>1, <1>2, Invariant, PTL DEF Spec, ImplementsDelivery, Promise!Spec

\* A process for every subscription it serves: no two coroutines share an adapter.
Dedicated == \A c, d \in Consumers : c[1] = d[1] => c = d

\* Both backends keep the whole promise of the ports if no process serves two
\* subscriptions: a copy is settled only once its message was handled for it.
THEOREM DedicatedDeliveryKept ==
    ASSUME Dedicated
    PROVE  Spec => SettlesOnlyHandled
<1>1. Settleable = Handled /\ Settleable' = Handled'
  BY DEF Settleable, Handled, Dedicated
<1>2. Init => PortPromise!Init
  BY DEF Init, PortPromise!Init, Place, IsRouted, Handled
<1>3. IInv /\ IInv' /\ [Next]_vars => PortPromise!Next
  BY <1>1, DeliversNext, Allowed
  DEF Promise!Next, PortPromise!Next, Promise!Places, PortPromise!Places, Promise!Moves, PortPromise!Moves
<1> QED
  BY <1>2, <1>3, Invariant, PTL DEF Spec, SettlesOnlyHandled, PortPromise!Spec
===============================================================================
