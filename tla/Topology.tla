------------------------------ MODULE Topology ------------------------------
(***************************************************************************)
(* The exchanges, queues and bindings at the broker, who declares them,    *)
(* and the ways of an event through them:                                  *)
(*                                                                         *)
(*   pkg/messaging/rabbitmq/topology.go    DeclareConsumerTopology         *)
(*   pkg/messaging/rabbitmq/publisher.go   DeclareExchange, Publish        *)
(*   services/user/internal/platform/messaging/publisher.go                *)
(*                                                                         *)
(* Consumer looks at one queue and its worker in detail and takes the      *)
(* queue as given.  Here several consumers may bind queues of their own to *)
(* the one exchange, and each part exists from its declaration on.  A copy *)
(* of an event in a queue is identified by the queue and by its path: the  *)
(* consumers through whose retry queues it went, in order, which is what   *)
(* its x-death header records.                                             *)
(***************************************************************************)
EXTENDS Naturals, Sequences, FiniteSets

CONSTANTS
    Events,         \* events the user service may publish
    Consumers,      \* consumers, each with a queue of its own
    MaxRetries      \* retries before an event is parked

ASSUME TopologyAssumption == MaxRetries \in Nat

VARIABLES
    exchange,   \* the topic exchange has been declared
    declared,   \* declared[c]: the parts of c's own topology that exist
    retryTTL,   \* retryTTL[c]: x-message-ttl c's retry queue was created with
    fate,       \* fate[e]: what became of the publish of e
    place,      \* where each copy of an event is
    dlq         \* dlq[c][e]: copies of e in c's DLQ

broker == <<exchange, declared, retryTTL, fate, place, dlq>>

Parts  == {"exchange", "retry.exchange", "queue", "binding", "retry",
           "retry.binding", "dlq"}
TTLs   == {"none", "30s", "configured"}
Fates  == {"unpublished", "routed", "unrouted"}

(* In the consumer's hand, not yet acknowledged: "out" while the handler   *)
(* runs, "stored" once park has published its copy to the DLQ.             *)
InHand == {"out", "stored"}
Places == InHand \cup {"ready", "waiting", "parked", "handled", "lost"}

Copies == [event: Events, queue: Consumers, path: Seq(Consumers)]

Retries(c, path) == Cardinality({i \in DOMAIN path : path[i] = c})

BrokerTypeOK ==
    /\ exchange \in BOOLEAN
    /\ declared \in [Consumers -> SUBSET Parts]
    /\ retryTTL \in [Consumers -> TTLs]
    /\ fate     \in [Events -> Fates]
    /\ place    \in [DOMAIN place -> Places]
    /\ DOMAIN place \subseteq Copies
    /\ dlq      \in [Consumers -> [Events -> Nat]]
    /\ \A k \in DOMAIN place : Retries(k.queue, k.path) <= MaxRetries

BrokerInit ==
    /\ exchange = FALSE
    /\ declared = [c \in Consumers |-> {}]
    /\ retryTTL = [c \in Consumers |-> "none"]
    /\ fate     = [e \in Events |-> "unpublished"]
    /\ place    = [k \in {} |-> "ready"]
    /\ dlq      = [c \in Consumers |-> [e \in Events |-> 0]]

-----------------------------------------------------------------------------
(* Declarations *)

(* A bug of TopologySteps: nothing binds the retry queue. *)
StepsUnbound ==
    <<"exchange", "retry.exchange", "queue", "binding", "retry", "dlq">>

(* The order of DeclareConsumerTopology. *)
TopologySteps ==
    <<"exchange", "retry.exchange", "queue", "binding", "retry",
      "retry.binding", "dlq">>

(* A bug of Refused: what exists cannot be declared again. *)
RefusedIfThere(c, part, ttl) == part = "retry" /\ retryTTL[c] # "none"

(* A queue that exists with other arguments cannot be redeclared: the      *)
(* broker closes the channel.  The TTL is the only argument that varies.   *)
Refused(c, part, ttl) ==
    part = "retry" /\ retryTTL[c] \notin {"none", ttl}

Declare(c, part, ttl) ==
    /\ ~Refused(c, part, ttl)
    /\ exchange' = (exchange \/ part = "exchange")
    /\ declared' = [declared EXCEPT ![c] = @ \cup {part}]
    /\ retryTTL' = IF part = "retry" THEN [retryTTL EXCEPT ![c] = ttl]
                                     ELSE retryTTL
    /\ UNCHANGED <<fate, place, dlq>>

(* NewEventPublisher: the publisher declares the exchange and no queue. *)
DeclareExchange ==
    /\ exchange' = TRUE
    /\ UNCHANGED <<declared, retryTTL, fate, place, dlq>>

-----------------------------------------------------------------------------
(* The way of an event *)

Bound == {c \in Consumers : "binding" \in declared[c]}

(* The exchange copies a message to every queue bound to the routing key,  *)
(* the one routing key all the consumers of user.created bind.             *)
Routed(e, path) == {[event |-> e, queue |-> c, path |-> path] : c \in Bound}

(* The copies left after the given ones are gone and others arrived. *)
Deliver(gone, new) ==
    place' = [k \in (DOMAIN place \ gone) \cup new |->
                IF k \in new THEN "ready" ELSE place[k]]

(* The broker confirms a message it could route to no queue as well:       *)
(* Publish does not set the mandatory flag.                                *)
Publish(e) ==
    /\ exchange
    /\ fate[e] = "unpublished"
    /\ fate' = [fate EXCEPT ![e] =
                  IF Bound = {} THEN "unrouted" ELSE "routed"]
    /\ Deliver({}, Routed(e, <<>>))
    /\ UNCHANGED <<exchange, declared, retryTTL, dlq>>

Move(k, from, to) ==
    /\ k \in DOMAIN place
    /\ place[k] = from
    /\ place' = [place EXCEPT ![k] = to]
    /\ UNCHANGED <<exchange, declared, retryTTL, fate>>

(* One delivery of a queue is in its consumer's hand at a time; those that *)
(* wait in the client library's buffer count as ready.                     *)
Take(k) ==
    /\ \A l \in DOMAIN place : l.queue = k.queue => place[l] \notin InHand
    /\ Move(k, "ready", "out")
    /\ UNCHANGED dlq

Ack(k) == Move(k, "out", "handled") /\ UNCHANGED dlq

(* A bug of Nack: one retry too many. *)
NackOnceMore(k) ==
    /\ Retries(k.queue, k.path) <= MaxRetries
    /\ Move(k, "out", IF "retry.binding" \in declared[k.queue]
                        THEN "waiting" ELSE "lost")
    /\ UNCHANGED dlq

(* Nack(requeue=false) dead-letters to the retry exchange, which drops the *)
(* message if no queue is bound to it.                                     *)
Nack(k) ==
    /\ Retries(k.queue, k.path) < MaxRetries
    /\ Move(k, "out", IF "retry.binding" \in declared[k.queue]
                        THEN "waiting" ELSE "lost")
    /\ UNCHANGED dlq

(* park publishes a copy to the DLQ.  The default exchange drops it if the *)
(* queue is not there, and without confirms the publisher is not told.     *)
Park(k) ==
    /\ Retries(k.queue, k.path) >= MaxRetries
    /\ Move(k, "out", "stored")
    /\ dlq' = IF "dlq" \in declared[k.queue]
                THEN [dlq EXCEPT ![k.queue][k.event] = @ + 1] ELSE dlq

(* The publish fails: Nack(requeue=true). *)
ParkFailed(k) ==
    /\ Retries(k.queue, k.path) >= MaxRetries
    /\ Move(k, "out", "ready")
    /\ UNCHANGED dlq

(* park acknowledges the original.  Whatever comes before this step, a     *)
(* crash or the loss of the connection, leaves the event in the queue too. *)
AckParked(k) == Move(k, "stored", "parked") /\ UNCHANGED dlq

(* The TTL expires: the retry queue dead-letters to the shared exchange    *)
(* with the shared routing key.                                            *)
Expire(k) ==
    /\ k \in DOMAIN place
    /\ place[k] = "waiting"
    /\ Deliver({k}, Routed(k.event, Append(k.path, k.queue)))
    /\ UNCHANGED <<exchange, declared, retryTTL, fate, dlq>>

Returned(c) ==
    [k \in DOMAIN place |->
       IF k.queue = c /\ place[k] \in InHand THEN "ready" ELSE place[k]]

(* A bug of Disconnect: the queue is declared with autoDelete.  Its copies *)
(* go, as the broker deletes it with its last consumer.                    *)
DisconnectDeletes(c) ==
    /\ place' = [k \in {l \in DOMAIN place : l.queue # c} |-> place[k]]
    /\ declared' = [declared EXCEPT ![c] = {}]
    /\ retryTTL' = [retryTTL EXCEPT ![c] = "none"]
    /\ UNCHANGED <<exchange, fate, dlq>>

(* c's connection is lost or closed: what was delivered on it is ready     *)
(* again, and as everything is declared durable and without autoDelete,    *)
(* nothing else changes.                                                   *)
Disconnect(c) ==
    /\ place' = Returned(c)
    /\ UNCHANGED <<exchange, declared, retryTTL, fate, dlq>>

-----------------------------------------------------------------------------
(* The topology alone: consumers that declare, then take and settle.       *)

Complete(c) == "dlq" \in declared[c]

TopologyInit == BrokerInit

TopologyNext ==
    \/ DeclareExchange
    \/ \E c \in Consumers, i \in DOMAIN TopologySteps :
          /\ \A j \in 1 .. i - 1 : TopologySteps[j] \in declared[c]
          /\ Declare(c, TopologySteps[i], "30s")
    \/ \E e \in Events : Publish(e)
    \/ \E k \in DOMAIN place : Take(k) /\ Complete(k.queue)
    \/ \E k \in DOMAIN place :
          Ack(k) \/ Nack(k) \/ Park(k) \/ ParkFailed(k) \/ AckParked(k)
    \/ \E k \in DOMAIN place : Expire(k)

TopologySpec == TopologyInit /\ [][TopologyNext]_broker

-----------------------------------------------------------------------------
(* Properties *)

(* With one consumer the queues hold one copy of an event from the moment  *)
(* it was routed until it is settled: no declaration that is still missing *)
(* loses it and no retry doubles it, whenever the consumer was stopped     *)
(* while it declared.  It is parked only with a copy in the DLQ.  The DLQ  *)
(* may hold it earlier, and more than once: whatever interrupts park after *)
(* its publish leaves the event in the queue too (consumer.go:107-110).    *)
OneQueuedCopy ==
    /\ \A e \in Events :
          fate[e] = "routed" <=> \E k \in DOMAIN place : k.event = e
    /\ \A k, l \in DOMAIN place : k.event = l.event => k = l
    /\ \A k \in DOMAIN place :
          /\ place[k] # "lost"
          /\ place[k] \in {"stored", "parked"} => dlq[k.queue][k.event] > 0

(* Events are only missed before the queue is bound for the first time:    *)
(* once one event found its way, no later one is published into the void,  *)
(* whichever services are stopped or started again.                        *)
NoneMissedOnceBound ==
    [][(\E e \in Events : fate[e] = "routed") =>
         \A e \in Events : fate'[e] = "unrouted" => fate[e] = "unrouted"]_broker

(* topology.go:14-16: "one consumer's failures must not be retried against *)
(* the other's", so a copy in c's queue is a retry of c alone.             *)
OwnRetriesOnly ==
    \A k \in DOMAIN place : \A i \in DOMAIN k.path : k.path[i] = k.queue
=============================================================================
