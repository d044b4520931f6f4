------------------------------- MODULE Messaging -------------------------------
(***************************************************************************)
(* One topic of apps/messaging on either backend.  A process has one       *)
(* adapter (create_message_publisher, create_message_receiver) and one     *)
(* coroutine for each subscription that pulls, handles what it got and     *)
(* acknowledges it; nothing in the repository calls the ports yet, so the  *)
(* caller is that loop.                                                    *)
(*                                                                         *)
(* Redis Streams: publish appends an entry to the stream, a subscription is *)
(* a consumer group that starts at the first entry, pull reads new entries *)
(* (">"), and an entry that was read stays pending until XACK; no code     *)
(* claims it.  RabbitMQ: publish routes to the queues that are bound at    *)
(* the time, pull gets one delivery after the other and remembers each     *)
(* under its message id, and the broker takes the deliveries of a lost     *)
(* connection back.                                                        *)
(***************************************************************************)
EXTENDS Naturals, FiniteSets

CONSTANTS
    Processes,      \* processes, each with its adapter
    Subscriptions,  \* consumer groups or queues of the topic
    Consumers,      \* coroutines, each of a process for a subscription
    MaxMessages,    \* bound: messages ever published
    BatchLimit,     \* max_messages of a pull
    MaxFaults,      \* bound: crashes, lost connections and lost replies
    None            \* Python's None

ASSUME MessagingAssumption ==
    /\ MaxMessages \in Nat /\ MaxFaults \in Nat /\ BatchLimit \in Nat \ {0}
    /\ None \notin Nat /\ Consumers \subseteq Processes \X Subscriptions

Messages == 1 .. MaxMessages

\* MessagingBackendType
Backends == {"redis", "rabbitmq"}

VARIABLES
    backend,   \* MESSAGING_BACKEND
    sent,      \* messages published; a message is its number
    since,     \* since[s]: messages before the first that s receives; None: no queue or group
    ready,     \* ready[s]: copies the broker may deliver to s
    unacked,   \* unacked[c]: copies delivered to c and not settled
    conn,      \* conn[p]: connections process p has lost
    closed,    \* closed[p]: whether _connection of p is closed
    pending,   \* pending[p]: _pending_messages, the delivery by message
    pc,        \* pc[c]: what coroutine c does next
    got,       \* got[c]: messages c has pulled and not acknowledged
    acks,      \* acks[c]: to_ack, deliveries c has popped
    processed, \* processed[s]: messages handled for s
    faults     \* faults so far

broker  == <<sent, since, ready, unacked>>
adapter == <<conn, closed, pending>>
local   == <<pc, got, acks>>
vars    == <<backend, broker, adapter, local, processed, faults>>

\* An AbstractIncomingMessage: its message, its queue and its connection.
Delivery == [message : Messages, queue : Subscriptions, conn : 0 .. MaxFaults]

Phase == {"idle", "pull", "handle", "acknowledge", "ack"}

TypeOK ==
    /\ backend \in Backends /\ sent \in 0 .. MaxMessages /\ faults \in 0 .. MaxFaults
    /\ since \in [Subscriptions -> 0 .. MaxMessages \cup {None}]
    /\ ready \in [Subscriptions -> SUBSET (1 .. sent)]
    /\ unacked \in [Consumers -> SUBSET (1 .. sent)]
    /\ conn \in [Processes -> 0 .. MaxFaults] /\ closed \in [Processes -> BOOLEAN]
    /\ pending \in [Processes -> SUBSET Delivery]
    /\ pc \in [Consumers -> Phase] /\ got \in [Consumers -> SUBSET (1 .. sent)]
    /\ acks \in [Consumers -> SUBSET Delivery]
    /\ processed \in [Subscriptions -> SUBSET (1 .. sent)]
    \* _pending_messages is a dict: one delivery for a message id.
    /\ \A p \in Processes : \A d, e \in pending[p] : d.message = e.message => d = e

\* create_message_publisher and create_message_receiver choose one backend.
Init ==
    /\ backend \in Backends
    /\ sent = 0 /\ faults = 0
    /\ since = [s \in Subscriptions |-> None]
    /\ ready = [s \in Subscriptions |-> {}] /\ unacked = [c \in Consumers |-> {}]
    /\ conn = [p \in Processes |-> 0] /\ closed = [p \in Processes |-> TRUE]
    /\ pending = [p \in Processes |-> {}]
    /\ pc = [c \in Consumers |-> "idle"] /\ got = [c \in Consumers |-> {}]
    /\ acks = [c \in Consumers |-> {}]
    /\ processed = [s \in Subscriptions |-> {}]

Goto(c, phase) == pc' = [pc EXCEPT ![c] = phase]

\* A call of c returns to the loop, or raises.
EndCall(c) ==
    /\ Goto(c, "idle")
    /\ got' = [got EXCEPT ![c] = {}] /\ acks' = [acks EXCEPT ![c] = {}]

First(S) == CHOOSE m \in S : \A n \in S : m <= n

\* The oldest n elements of S.
Oldest(S, n) == {m \in S : Cardinality({k \in S : k < m}) < n}

\* _ensure_connection: a closed connection is replaced, and what is known of the
\* old one forgotten.
EnsureConnection(p) ==
    /\ IF closed[p] THEN pending' = [pending EXCEPT ![p] = {}] ELSE UNCHANGED pending
    /\ closed' = [closed EXCEPT ![p] = FALSE]
-----------------------------------------------------------------------------
(* publish                                                                 *)

\* A message for every group or queue that there is.
Enqueue ==
    /\ sent < MaxMessages
    /\ sent' = sent + 1
    /\ ready' = [s \in Subscriptions |->
          IF since[s] = None THEN ready[s] ELSE ready[s] \cup {sent + 1}]
    /\ UNCHANGED <<backend, since, unacked, conn, local, processed, faults>>

\* XADD; a group that is created later starts at the first entry.
AddEntry ==
    /\ backend = "redis" /\ Enqueue
    /\ UNCHANGED <<closed, pending>>

\* basic_publish with mandatory=False: a message no queue is bound for is dropped.
Publish(p) ==
    /\ backend = "rabbitmq" /\ Enqueue
    /\ EnsureConnection(p)
-----------------------------------------------------------------------------
(* pull and acknowledge on Redis                                           *)

\* XGROUP CREATE ... 0 MKSTREAM; BUSYGROUP is fine.
EnsureConsumerGroup(c) ==
    /\ backend = "redis" /\ pc[c] = "idle"
    /\ IF since[c[2]] = None
         THEN /\ since' = [since EXCEPT ![c[2]] = 0]
              /\ ready' = [ready EXCEPT ![c[2]] = 1 .. sent]
         ELSE UNCHANGED <<since, ready>>
    /\ Goto(c, "pull")
    /\ UNCHANGED <<backend, sent, unacked, adapter, got, acks, processed, faults>>

\* Mutant: what is pending for the group is claimed.
ClaimsPending(c) ==
    /\ backend = "redis" /\ pc[c] = "pull"
    /\ LET old   == UNION {unacked[d] : d \in {e \in Consumers : e[2] = c[2]}}
           batch == Oldest(ready[c[2]] \cup old, BatchLimit)
       IN  /\ ready' = [ready EXCEPT ![c[2]] = @ \ batch]
           /\ unacked' = [unacked EXCEPT ![c] = @ \cup batch]
           /\ got' = [got EXCEPT ![c] = batch]
           /\ Goto(c, IF batch = {} THEN "idle" ELSE "handle")
    /\ UNCHANGED <<backend, sent, since, adapter, acks, processed, faults>>

\* XREADGROUP ">": new entries become pending for c.
ReadGroup(c) ==
    /\ backend = "redis" /\ pc[c] = "pull"
    /\ LET batch == Oldest(ready[c[2]], BatchLimit)
       IN  /\ ready' = [ready EXCEPT ![c[2]] = @ \ batch]
           /\ unacked' = [unacked EXCEPT ![c] = @ \cup batch]
           /\ got' = [got EXCEPT ![c] = batch]
           /\ Goto(c, IF batch = {} THEN "idle" ELSE "handle")
    /\ UNCHANGED <<backend, sent, since, adapter, acks, processed, faults>>

\* The reply is lost, or an entry another program wrote cannot be decoded: pull
\* raises and the entries of the batch stay pending.
LoseBatch(c) ==
    /\ backend = "redis" /\ pc[c] = "pull" /\ ready[c[2]] # {} /\ faults < MaxFaults
    /\ faults' = faults + 1
    /\ LET batch == Oldest(ready[c[2]], BatchLimit)
       IN  /\ ready' = [ready EXCEPT ![c[2]] = @ \ batch]
           /\ unacked' = [unacked EXCEPT ![c] = @ \cup batch]
    /\ EndCall(c)
    /\ UNCHANGED <<backend, sent, since, adapter, processed>>

\* XACK of the group, whichever consumer the entry is pending for.
AcknowledgeEntries(c) ==
    /\ backend = "redis" /\ pc[c] = "acknowledge"
    /\ unacked' = [d \in Consumers |->
          IF d[2] = c[2] THEN unacked[d] \ got[c] ELSE unacked[d]]
    /\ EndCall(c)
    /\ UNCHANGED <<backend, sent, since, ready, adapter, processed, faults>>
-----------------------------------------------------------------------------
(* pull and acknowledge on RabbitMQ                                        *)

\* Mutant: every pull connects anew as far as the adapter is concerned.
ForgetsDeliveries(c) ==
    /\ backend = "rabbitmq" /\ pc[c] = "idle"
    /\ closed' = [closed EXCEPT ![c[1]] = FALSE]
    /\ pending' = [pending EXCEPT ![c[1]] = {}]
    /\ since' = [since EXCEPT ![c[2]] = IF @ = None THEN sent ELSE @]
    /\ Goto(c, "pull")
    /\ UNCHANGED <<backend, sent, ready, unacked, conn, got, acks, processed, faults>>

\* The queue is declared and bound, which the broker has to do once.
EnsureQueueAndBind(c) ==
    /\ backend = "rabbitmq" /\ pc[c] = "idle"
    /\ EnsureConnection(c[1])
    /\ since' = [since EXCEPT ![c[2]] = IF @ = None THEN sent ELSE @]
    /\ Goto(c, "pull")
    /\ UNCHANGED <<backend, sent, ready, unacked, conn, got, acks, processed, faults>>

\* Mutant: both deliveries of a message id are kept.
KeepsBoth(c) ==
    /\ backend = "rabbitmq" /\ pc[c] = "pull"
    /\ Cardinality(got[c]) < BatchLimit /\ ready[c[2]] # {}
    /\ LET m == First(ready[c[2]])
           d == [message |-> m, queue |-> c[2], conn |-> conn[c[1]]]
       IN  /\ ready' = [ready EXCEPT ![c[2]] = @ \ {m}]
           /\ unacked' = [unacked EXCEPT ![c] = @ \cup {m}]
           /\ pending' = [pending EXCEPT ![c[1]] = @ \cup {d}]
           /\ got' = [got EXCEPT ![c] = @ \cup {m}]
    /\ UNCHANGED <<backend, sent, since, conn, closed, pc, acks, processed, faults>>

\* queue.get(no_ack=False), and the entry of _pending_messages for its message id
\* is replaced, whichever queue the older delivery came from.
GetMessage(c) ==
    /\ backend = "rabbitmq" /\ pc[c] = "pull"
    /\ Cardinality(got[c]) < BatchLimit /\ ready[c[2]] # {}
    /\ LET m == First(ready[c[2]])
           d == [message |-> m, queue |-> c[2], conn |-> conn[c[1]]]
       IN  /\ ready' = [ready EXCEPT ![c[2]] = @ \ {m}]
           /\ unacked' = [unacked EXCEPT ![c] = @ \cup {m}]
           /\ pending' = [pending EXCEPT ![c[1]] = {e \in @ : e.message # m} \cup {d}]
           /\ got' = [got EXCEPT ![c] = @ \cup {m}]
    /\ UNCHANGED <<backend, sent, since, conn, closed, pc, acks, processed, faults>>

\* max_messages were got, or the queue is empty at the deadline.
ReturnBatch(c) ==
    /\ backend = "rabbitmq" /\ pc[c] = "pull"
    /\ Cardinality(got[c]) = BatchLimit \/ ready[c[2]] = {}
    /\ Goto(c, IF got[c] = {} THEN "idle" ELSE "handle")
    /\ UNCHANGED <<backend, broker, adapter, got, acks, processed, faults>>

\* Mutant: everything that was delivered so far is acknowledged.
PopsEverything(c) ==
    /\ backend = "rabbitmq" /\ pc[c] = "acknowledge"
    /\ pending' = [pending EXCEPT ![c[1]] = {}]
    /\ acks' = [acks EXCEPT ![c] = pending[c[1]]]
    /\ Goto(c, "ack")
    /\ UNCHANGED <<backend, broker, conn, closed, got, processed, faults>>

\* acknowledge takes the deliveries of the ids out of _pending_messages.
PopDeliveries(c) ==
    /\ backend = "rabbitmq" /\ pc[c] = "acknowledge"
    /\ LET popped == {d \in pending[c[1]] : d.message \in got[c]}
       IN  /\ pending' = [pending EXCEPT ![c[1]] = @ \ popped]
           /\ acks' = [acks EXCEPT ![c] = popped]
    /\ Goto(c, "ack")
    /\ UNCHANGED <<backend, broker, conn, closed, got, processed, faults>>

\* message.ack() settles the copy of the queue it came from; on a connection that
\* was lost it raises, and the rest of to_ack is dropped.
AckDelivery(c) ==
    /\ pc[c] = "ack"
    /\ \E d \in acks[c] :
          IF d.conn = conn[c[1]]
            THEN /\ unacked' = [unacked EXCEPT ![<<c[1], d.queue>>] = @ \ {d.message}]
                 /\ acks' = [acks EXCEPT ![c] = @ \ {d}]
                 /\ UNCHANGED <<pc, got>>
            ELSE EndCall(c) /\ UNCHANGED unacked
    /\ UNCHANGED <<backend, sent, since, ready, adapter, processed, faults>>

EndAcknowledge(c) ==
    /\ pc[c] = "ack" /\ acks[c] = {}
    /\ EndCall(c)
    /\ UNCHANGED <<backend, broker, adapter, processed, faults>>
-----------------------------------------------------------------------------
(* The callers and the environment                                         *)

\* The caller handles what it pulled before it acknowledges it.
Handle(c) ==
    /\ pc[c] = "handle"
    /\ processed' = [processed EXCEPT ![c[2]] = @ \cup got[c]]
    /\ Goto(c, "acknowledge")
    /\ UNCHANGED <<backend, broker, adapter, got, acks, faults>>

\* RabbitMQ takes back what it had delivered over the connection of process p.
Requeue(p) ==
    /\ ready' = [s \in Subscriptions |->
          ready[s] \cup UNION {unacked[c] : c \in Consumers \cap {<<p, s>>}}]
    /\ unacked' = [c \in Consumers |-> IF c[1] = p THEN {} ELSE unacked[c]]
    /\ conn' = [conn EXCEPT ![p] = @ + 1]

\* The connection is lost.  connect_robust restores it, or closes it for good;
\* then the pulls that use it raise.
Disconnect(p) ==
    /\ backend = "rabbitmq" /\ ~closed[p] /\ faults < MaxFaults
    /\ faults' = faults + 1
    /\ Requeue(p)
    /\ \E forGood \in BOOLEAN :
          LET failing == {c \in Consumers : forGood /\ c[1] = p /\ pc[c] = "pull"}
          IN  /\ closed' = [closed EXCEPT ![p] = forGood]
              /\ pc' = [c \in Consumers |-> IF c \in failing THEN "idle" ELSE pc[c]]
              /\ got' = [c \in Consumers |-> IF c \in failing THEN {} ELSE got[c]]
    /\ UNCHANGED <<backend, sent, since, pending, acks, processed>>

\* A process dies and is started again; Redis keeps its entries pending for it.
Crash(p) ==
    /\ faults < MaxFaults
    /\ faults' = faults + 1
    /\ IF backend = "rabbitmq" THEN Requeue(p) ELSE UNCHANGED <<ready, unacked, conn>>
    /\ closed' = [closed EXCEPT ![p] = TRUE] /\ pending' = [pending EXCEPT ![p] = {}]
    /\ pc' = [c \in Consumers |-> IF c[1] = p THEN "idle" ELSE pc[c]]
    /\ got' = [c \in Consumers |-> IF c[1] = p THEN {} ELSE got[c]]
    /\ acks' = [c \in Consumers |-> IF c[1] = p THEN {} ELSE acks[c]]
    /\ UNCHANGED <<backend, sent, since, processed>>

Next ==
    \/ AddEntry
    \/ \E p \in Processes : Publish(p)
    \/ \E c \in Consumers :
          \/ EnsureConsumerGroup(c) \/ ReadGroup(c) \/ LoseBatch(c) \/ AcknowledgeEntries(c)
          \/ EnsureQueueAndBind(c) \/ GetMessage(c) \/ ReturnBatch(c)
          \/ PopDeliveries(c) \/ AckDelivery(c) \/ EndAcknowledge(c)
          \/ Handle(c)
    \/ \E p \in Processes : Disconnect(p) \/ Crash(p)

Spec == Init /\ [][Next]_vars
-----------------------------------------------------------------------------
(* Properties.                                                             *)

\* The broker has made a copy of message m for subscription s.
IsRouted(m, s) == since[s] # None /\ since[s] < m /\ m <= sent

IsOut(m, s) == \E c \in Consumers : c[2] = s /\ m \in unacked[c]

\* Where that copy is.
Place(m, s) ==
    IF ~IsRouted(m, s) THEN "none"
    ELSE CASE m \in ready[s] -> "ready"
           [] IsOut(m, s)    -> "out"
           [] OTHER          -> "done"

\* The copies whose message has been handled for their subscription.
Handled == {k \in Messages \X Subscriptions : k[1] \in processed[k[2]]}

\* RabbitMQ's adapter names a copy by the message id alone: what the process that
\* holds a copy has pulled for another subscription, and handled, may settle it too.
\* Where no process serves two subscriptions these are the handled copies.
Settleable ==
    Handled \cup
    {k \in Messages \X Subscriptions :
        /\ backend = "rabbitmq"
        /\ \E c, d \in Consumers : /\ c[1] = d[1] /\ c[2] = k[2]
                                  /\ k[1] \in unacked[c] \cap processed[d[2]]}

Promise == INSTANCE MessageDelivery WITH
    Copies  <- Messages \X Subscriptions,
    place   <- [k \in Messages \X Subscriptions |-> Place(k[1], k[2])],
    handled <- Settleable

PortPromise == INSTANCE MessageDelivery WITH
    Copies  <- Messages \X Subscriptions,
    place   <- [k \in Messages \X Subscriptions |-> Place(k[1], k[2])],
    handled <- Handled

\* The backends keep what is left of the ports' promise when a process serves
\* several subscriptions: a copy is neither lost nor delivered after it was settled,
\* through crashes, lost connections and failing calls, and it is settled only once
\* its message was handled for its subscription or, on RabbitMQ, for another
\* subscription of the process that holds it.
ImplementsDelivery == Promise!Spec

\* What the ports promise whatever else a process serves: an acknowledgement is for
\* one subscription, so a copy is settled only once its message was handled for it.
SettlesOnlyHandled == PortPromise!Spec

\* A consumer group hands an entry out once: a pull takes unread entries only, and
\* what was read is never unread again, nor pulled by anybody, even when the
\* process that got it has died.
StreamHandsOutOnce ==
    [][backend = "redis" =>
        /\ \A c \in Consumers : got'[c] \ got[c] \subseteq ready[c[2]] \ ready'[c[2]]
        /\ \A s \in Subscriptions, m \in Messages :
              IsRouted(m, s) /\ m \notin ready[s] => m \notin ready'[s]]_vars

\* What a coroutine is about to acknowledge is still remembered under its message
\* id with its own delivery, if that is still out, unless another subscription of
\* the process was delivered the same message or has handled it.
AckReachesBroker ==
    \A c \in Consumers : \A m \in got[c] :
        (/\ backend = "rabbitmq" /\ pc[c] \in {"pull", "handle", "acknowledge"}
         /\ m \in unacked[c]
         /\ \A d \in Consumers : d[1] = c[1] /\ d # c =>
               m \notin processed[d[2]] /\ m \notin unacked[d])
        => [message |-> m, queue |-> c[2], conn |-> conn[c[1]]] \in pending[c[1]]
=============================================================================
