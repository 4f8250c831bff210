------------------------------ MODULE Consumer ------------------------------
(***************************************************************************)
(* The user.created consumer of the notification service, from the moment  *)
(* the broker has accepted an event until the event is settled:            *)
(*                                                                         *)
(*   pkg/messaging/rabbitmq/consumer.go   Consume, handle, park            *)
(*   services/notification/internal/notification/service.go                *)
(*                                        HandleUserCreated, RecordFailure *)
(*   services/notification/cmd/api/main.go   start, cancel, exit           *)
(*                                                                         *)
(* The broker keeps one live copy of every event: ready in the main queue, *)
(* out on some consumer's channel, waiting in the retry queue, or gone.    *)
(* A worker is one notification process, whose single Consume loop handles *)
(* one delivery at a time while further deliveries wait in its buffer.     *)
(* Every remote call of the handler (database, SMTP, broker) is an action  *)
(* of its own, so anything may happen between two of them.                 *)
(***************************************************************************)
EXTENDS Naturals, FiniteSets

CONSTANTS
    Events,         \* messages that may reach the main queue
    Malformed,      \* those whose body is no Envelope (a foreign publisher)
    Poison,         \* those whose payload is no UserCreatedPayload
    Workers,        \* notification processes consuming the queue
    MaxRetries,     \* NOTIFICATION_CONSUMER_MAX_RETRIES
    Prefetch,       \* deliveries a channel may have unacknowledged
    FaultKinds,     \* which faults the environment may inject
    MaxFaults       \* bound: how many of them in one behaviour

AllFaults == {"crash", "channel", "park", "cancel"}

ASSUME ConsumerAssumption ==
    /\ Malformed \subseteq Events
    /\ Poison \subseteq Events
    /\ MaxRetries \in Nat
    /\ Prefetch \in Nat \ {0}
    /\ FaultKinds \subseteq AllFaults
    /\ MaxFaults \in Nat

VARIABLES
    place,      \* place[e]: where the broker holds the live copy of e
    deaths,     \* deaths[e]: x-death count of the retry queue on that copy
    dlq,        \* dlq[e]: copies of e in the dead-letter queue
    row,        \* row[e]: status of the notifications row with e's event_id
    mails,      \* mails[e]: messages the SMTP server accepted for e
    proc,       \* proc[w]: process down, Consume running, or returned
    open,       \* open[w]: the process' AMQP channel is usable
    cancelled,  \* cancelled[w]: consumerCtx is cancelled
    stage,      \* stage[w][e]: how far w is with its delivery of e
    header,     \* header[w][e]: the x-death count that delivery carries
    faults      \* faults injected so far

broker == <<place, deaths, dlq>>
store  == <<row, mails>>
worker == <<proc, open, cancelled>>
vars   == <<place, deaths, dlq, row, mails, proc, open, cancelled, stage,
            header, faults>>

Places == {"unsent", "main", "out", "retry", "done"}
Rows   == {"none", "sent", "failed"}
Procs  == {"down", "up", "stopped"}

(* The stages of a delivery inside a worker.  "none": w has no delivery of *)
(* e.  "buffered": received by the client library, not yet by Consume.     *)
(* "unseen": ExistsByEventID said no.  "dialled": connected to the SMTP    *)
(* server.  "mailed": Send returned nil.  "handled", "failed": the handler *)
(* returned nil, an error.  "park": OnExhausted is done.  "parked": the    *)
(* copy is in the DLQ and the original is still to be acknowledged.        *)
InHand == {"decoded", "unseen", "dialled", "mailed", "handled", "failed",
           "park", "parked"}
Stages == {"none", "buffered"} \cup InHand

TypeOK ==
    /\ place     \in [Events -> Places]
    /\ deaths    \in [Events -> Nat]
    /\ dlq       \in [Events -> Nat]
    /\ row       \in [Events -> Rows]
    /\ mails     \in [Events -> Nat]
    /\ proc      \in [Workers -> Procs]
    /\ open      \in [Workers -> BOOLEAN]
    /\ cancelled \in [Workers -> BOOLEAN]
    /\ stage     \in [Workers -> [Events -> Stages]]
    /\ header    \in [Workers -> [Events -> Nat]]
    /\ faults    \in Nat

Init ==
    /\ place     = [e \in Events |-> "unsent"]
    /\ deaths    = [e \in Events |-> 0]
    /\ dlq       = [e \in Events |-> 0]
    /\ row       = [e \in Events |-> "none"]
    /\ mails     = [e \in Events |-> 0]
    /\ proc      = [w \in Workers |-> "down"]
    /\ open      = [w \in Workers |-> FALSE]
    /\ cancelled = [w \in Workers |-> FALSE]
    /\ stage     = [w \in Workers |-> [e \in Events |-> "none"]]
    /\ header    = [w \in Workers |-> [e \in Events |-> 0]]
    /\ faults    = 0

-----------------------------------------------------------------------------
(* Helpers *)

Held(w)  == {e \in Events : stage[w][e] # "none"}
Idle(w)  == \A e \in Events : stage[w][e] \notin InHand
Goto(w, e, s) == stage' = [stage EXCEPT ![w][e] = s]

(* The x-death entry of the retry queue, as the delivery shows it. *)
RetriesSoFar(w, e) == header[w][e]

(* A fault of the given kind, charged to the budget. *)
Fault(kind) ==
    /\ kind \in FaultKinds
    /\ faults < MaxFaults
    /\ faults' = faults + 1

(* A bug of Settle: the call is taken to work whatever the channel is.     *)
SettleAnyway(w, e, to) ==
    Goto(w, e, "none") /\ place' = [place EXCEPT ![e] = to]

(* Ack and Nack: the broker moves the live copy to the given place, unless *)
(* the channel is closed: then the call fails, the error is only logged,   *)
(* and the broker has already taken the delivery back.                     *)
Settle(w, e, to) ==
    /\ Goto(w, e, "none")
    /\ place' = IF open[w] THEN [place EXCEPT ![e] = to] ELSE place

(* The broker requeues what a lost channel had unacknowledged. *)
Requeue(w) ==
    place' = [e \in Events |->
                IF open[w] /\ e \in Held(w) THEN "main" ELSE place[e]]

(* A bug of Insert: an upsert. *)
Upsert(e, status) == row' = [row EXCEPT ![e] = status]

(* INSERT under the unique constraint on event_id: it writes only if there *)
(* is no row yet.                                                          *)
Insert(e, status) ==
    row' = [row EXCEPT ![e] = IF @ = "none" THEN status ELSE @]

-----------------------------------------------------------------------------
(* Deviations: actions of the sections below with one plausible bug each.  *)
(* No specification uses them; put in the place of the original they show  *)
(* that the properties notice.                                             *)

(* Expire, counting the remaining retries down. *)
ExpireCountsDown(e) ==
    /\ place[e] = "retry"
    /\ place' = [place EXCEPT ![e] = "main"]
    /\ deaths' = [deaths EXCEPT ![e] = @ - 1]
    /\ UNCHANGED <<dlq, store, worker, stage, header, faults>>

(* ExistsByEventID, its answer ignored. *)
IgnoreExisting(w, e) ==
    /\ stage[w][e] = "decoded"
    /\ Goto(w, e, "unseen") \/ Goto(w, e, "failed")
    /\ UNCHANGED <<broker, store, worker, header, faults>>

(* Dial, with the audit row written before the mail is sent. *)
RecordThenDial(w, e) ==
    /\ stage[w][e] = "unseen"
    /\ \/ ~cancelled[w] /\ Goto(w, e, "dialled") /\ Insert(e, "sent")
       \/ Goto(w, e, "failed") /\ UNCHANGED row
    /\ UNCHANGED <<broker, mails, worker, header, faults>>

(* Transmit, its error logged and swallowed. *)
SwallowSendError(w, e) ==
    /\ stage[w][e] = "dialled"
    /\ \/ mails' = [mails EXCEPT ![e] = @ + 1] /\ Goto(w, e, "mailed")
       \/ Goto(w, e, "handled") /\ UNCHANGED mails
    /\ UNCHANGED <<broker, row, worker, header, faults>>

(* Retry, one cycle too many. *)
RetryOnceMore(w, e) ==
    /\ stage[w][e] = "failed" /\ RetriesSoFar(w, e) <= MaxRetries
    /\ Settle(w, e, "retry")
    /\ UNCHANGED <<deaths, dlq, store, worker, header, faults>>

(* Retry, by requeueing. *)
RetryByRequeue(w, e) ==
    /\ stage[w][e] = "failed" /\ RetriesSoFar(w, e) < MaxRetries
    /\ Settle(w, e, "main")
    /\ UNCHANGED <<deaths, dlq, store, worker, header, faults>>

(* ParkFailed, without the requeue, and with an Ack instead of it. *)
ParkFailedForgets(w, e) ==
    /\ stage[w][e] = "park"
    /\ IF open[w] THEN Fault("park") ELSE UNCHANGED faults
    /\ Goto(w, e, "none")
    /\ UNCHANGED <<broker, store, worker, header>>

ParkFailedAcks(w, e) ==
    /\ stage[w][e] = "park"
    /\ IF open[w] THEN Fault("park") ELSE UNCHANGED faults
    /\ Settle(w, e, "done")
    /\ UNCHANGED <<deaths, dlq, store, worker, header>>

(* Ack, forgotten after a park. *)
AckHandledOnly(w, e) ==
    /\ stage[w][e] \in {"handled", "parked"}
    /\ Settle(w, e, IF stage[w][e] = "handled" THEN "done" ELSE "main")
    /\ UNCHANGED <<deaths, dlq, store, worker, header, faults>>

-----------------------------------------------------------------------------
(* The broker *)

(* Publisher.Publish returned nil: the event is in the main queue. *)
Publish(e) ==
    /\ place[e] = "unsent"
    /\ place' = [place EXCEPT ![e] = "main"]
    /\ UNCHANGED <<deaths, dlq, store, worker, stage, header, faults>>

(* basic.deliver, within the channel's prefetch window.  It goes on for a  *)
(* while after ctx is cancelled: the library sends basic.cancel on its own *)
(* time, whether or not Consume has returned by then.                      *)
Deliver(w, e) ==
    /\ place[e] = "main"
    /\ proc[w] # "down" /\ open[w]
    /\ Cardinality(Held(w)) < Prefetch
    /\ place' = [place EXCEPT ![e] = "out"]
    /\ Goto(w, e, "buffered")
    /\ header' = [header EXCEPT ![w][e] = deaths[e]]
    /\ UNCHANGED <<deaths, dlq, store, worker, faults>>

(* x-message-ttl runs out: the retry queue dead-letters the event back to  *)
(* the main queue and counts one more "expired" death.                     *)
Expire(e) ==
    /\ place[e] = "retry"
    /\ place' = [place EXCEPT ![e] = "main"]
    /\ deaths' = [deaths EXCEPT ![e] = @ + 1]
    /\ UNCHANGED <<dlq, store, worker, stage, header, faults>>

-----------------------------------------------------------------------------
(* Consume and handle *)

(* The select picks a delivery: a body that is no Envelope is acked away.  *)
DropUndecodable(w, e) ==
    /\ proc[w] = "up" /\ Idle(w)
    /\ stage[w][e] = "buffered" /\ e \in Malformed
    /\ Settle(w, e, "done")
    /\ UNCHANGED <<deaths, dlq, store, worker, header, faults>>

(* Otherwise the handler starts; it fails at once if the payload does not  *)
(* decode.  With ctx cancelled or the channel closed the select may still  *)
(* pick a delivery that is already buffered.                               *)
Take(w, e) ==
    /\ proc[w] = "up" /\ Idle(w)
    /\ stage[w][e] = "buffered" /\ e \notin Malformed
    /\ Goto(w, e, IF e \in Poison THEN "failed" ELSE "decoded")
    /\ UNCHANGED <<broker, store, worker, header, faults>>

(* repo.ExistsByEventID.  Any query may fail, and with ctx cancelled it    *)
(* must.                                                                   *)
ExistsByEventID(w, e) ==
    /\ stage[w][e] = "decoded"
    /\ \/ ~cancelled[w] /\ Goto(w, e, IF row[e] = "none" THEN "unseen"
                                                         ELSE "handled")
       \/ Goto(w, e, "failed")
    /\ UNCHANGED <<broker, store, worker, header, faults>>

(* Send, first half: ctx bounds the dial and nothing after it. *)
Dial(w, e) ==
    /\ stage[w][e] = "unseen"
    /\ \/ ~cancelled[w] /\ Goto(w, e, "dialled")
       \/ Goto(w, e, "failed")
    /\ UNCHANGED <<broker, store, worker, header, faults>>

(* Send, second half: the server accepts the message or not, and an error  *)
(* can also come after it did (the reply to DATA or to QUIT is lost).      *)
Transmit(w, e) ==
    /\ stage[w][e] = "dialled"
    /\ \/ /\ mails' = [mails EXCEPT ![e] = @ + 1]
          /\ Goto(w, e, "mailed") \/ Goto(w, e, "failed")
       \/ Goto(w, e, "failed") /\ UNCHANGED mails
    /\ UNCHANGED <<broker, row, worker, header, faults>>

(* repo.Create(StatusSent).  Conflict counts as success; any other error   *)
(* fails the handler, also one that follows a commit.                      *)
CreateSent(w, e) ==
    /\ stage[w][e] = "mailed"
    /\ \/ /\ ~cancelled[w] /\ Insert(e, "sent")
          /\ Goto(w, e, "handled") \/ Goto(w, e, "failed")
       \/ Goto(w, e, "failed") /\ UNCHANGED row
    /\ UNCHANGED <<broker, mails, worker, header, faults>>

(* The handler failed and retries remain: Nack(requeue=false). *)
Retry(w, e) ==
    /\ stage[w][e] = "failed" /\ RetriesSoFar(w, e) < MaxRetries
    /\ Settle(w, e, "retry")
    /\ UNCHANGED <<deaths, dlq, store, worker, header, faults>>

(* No retries remain: OnExhausted, whose own error is only logged. *)
RecordFailure(w, e) ==
    /\ stage[w][e] = "failed" /\ RetriesSoFar(w, e) >= MaxRetries
    /\ Goto(w, e, "park")
    /\ \/ ~cancelled[w] /\ Insert(e, "failed")
       \/ UNCHANGED row
    /\ UNCHANGED <<broker, mails, worker, header, faults>>

(* park publishes the copy; ctx plays no part in an AMQP publish. *)
Park(w, e) ==
    /\ stage[w][e] = "park" /\ open[w]
    /\ dlq' = [dlq EXCEPT ![e] = @ + 1]
    /\ Goto(w, e, "parked")
    /\ UNCHANGED <<place, deaths, store, worker, header, faults>>

(* That publish failed, always so on a closed channel: Nack(requeue=true). *)
ParkFailed(w, e) ==
    /\ stage[w][e] = "park"
    /\ IF open[w] THEN Fault("park") ELSE UNCHANGED faults
    /\ Settle(w, e, "main")
    /\ UNCHANGED <<deaths, dlq, store, worker, header>>

(* Ack after a handled or a parked delivery. *)
Ack(w, e) ==
    /\ stage[w][e] \in {"handled", "parked"}
    /\ Settle(w, e, "done")
    /\ UNCHANGED <<deaths, dlq, store, worker, header, faults>>

(* Consume returns between two deliveries; what is buffered stays          *)
(* unacknowledged and the process stays up.                                *)
Return(w) ==
    /\ proc[w] = "up" /\ Idle(w)
    /\ cancelled[w] \/ ~open[w]
    /\ proc' = [proc EXCEPT ![w] = "stopped"]
    /\ UNCHANGED <<broker, store, open, cancelled, stage, header, faults>>

-----------------------------------------------------------------------------
(* The process and its channel *)

Start(w) ==
    /\ proc[w] = "down"
    /\ proc' = [proc EXCEPT ![w] = "up"]
    /\ open' = [open EXCEPT ![w] = TRUE]
    /\ UNCHANGED <<broker, store, cancelled, stage, header, faults>>

(* The process is gone and with it the connection and all local state. *)
Die(w) ==
    /\ Requeue(w)
    /\ proc' = [proc EXCEPT ![w] = "down"]
    /\ open' = [open EXCEPT ![w] = FALSE]
    /\ cancelled' = [cancelled EXCEPT ![w] = FALSE]
    /\ stage' = [stage EXCEPT ![w] = [e \in Events |-> "none"]]
    /\ UNCHANGED <<deaths, dlq, store, header>>

Crash(w) == proc[w] # "down" /\ Fault("crash") /\ Die(w)

(* SIGTERM: cancelConsumer. *)
Cancel(w) ==
    /\ proc[w] # "down" /\ ~cancelled[w]
    /\ Fault("cancel")
    /\ cancelled' = [cancelled EXCEPT ![w] = TRUE]
    /\ UNCHANGED <<broker, store, proc, open, stage, header>>

(* ... and main exits once Consume returned, or after 15 seconds. *)
Exit(w) == cancelled[w] /\ Die(w) /\ UNCHANGED faults

(* The broker or the network closes the channel.  Nothing reopens it; the  *)
(* delivery in hand goes on being handled.                                 *)
ChannelClose(w) ==
    /\ open[w] /\ Fault("channel")
    /\ Requeue(w)
    /\ open' = [open EXCEPT ![w] = FALSE]
    /\ UNCHANGED <<deaths, dlq, store, proc, cancelled, stage, header>>

-----------------------------------------------------------------------------
Consume(w, e) == DropUndecodable(w, e) \/ Take(w, e)

Handle(w, e) ==
    \/ ExistsByEventID(w, e) \/ Dial(w, e) \/ Transmit(w, e)
    \/ CreateSent(w, e) \/ Retry(w, e) \/ RecordFailure(w, e)
    \/ Park(w, e) \/ ParkFailed(w, e) \/ Ack(w, e)

Process(w) ==
    Start(w) \/ Return(w) \/ Crash(w) \/ Cancel(w) \/ Exit(w)
    \/ ChannelClose(w)

Next ==
    \/ \E e \in Events : Publish(e) \/ Expire(e)
    \/ \E w \in Workers, e \in Events :
            Deliver(w, e) \/ Consume(w, e) \/ Handle(w, e)
    \/ \E w \in Workers : Process(w)

Spec == Init /\ [][Next]_vars

(* The broker delivers and expires, a running process takes its next step, *)
(* a cancelled one exits and Docker starts one that is down again.         *)
(* Nothing restarts a process whose Consume has silently returned.         *)
Fairness ==
    /\ WF_vars(\E w \in Workers, e \in Events : Deliver(w, e))
    /\ WF_vars(\E e \in Events : Expire(e))
    /\ \A w \in Workers :
        /\ WF_vars(\E e \in Events : Consume(w, e) \/ Handle(w, e))
        /\ WF_vars(Exit(w))
        /\ WF_vars(Start(w))

FairSpec == Spec /\ Fairness

-----------------------------------------------------------------------------
(* Properties *)

(* The broker and the workers agree on who has an event: it is out exactly *)
(* while one open channel holds a delivery of it, and that delivery shows  *)
(* the current retry count.  So the Ack or Nack of a delivery that was     *)
(* taken back never settles the delivery another worker got instead.       *)
Custody ==
    \A e \in Events :
        /\ \A w \in Workers :
              open[w] /\ e \in Held(w) =>
                 /\ place[e] = "out"
                 /\ header[w][e] = deaths[e]
        /\ \A v, w \in Workers :
              open[v] /\ open[w] /\ e \in Held(v) /\ e \in Held(w) => v = w
        /\ place[e] = "out" => \E w \in Workers : open[w] /\ e \in Held(w)

(* An event that left the broker for good left a trace: an audit row or a  *)
(* copy in the DLQ.  Only an undecodable body is ever dropped silently.    *)
NoSilentLoss ==
    \A e \in Events \ Malformed :
        place[e] = "done" => row[e] # "none" \/ dlq[e] > 0

(* "sent" in the audit table means that the mail server took the mail.     *)
SentMeansMailed ==
    \A e \in Events : row[e] = "sent" => mails[e] > 0

(* The failure path is the last resort: a "failed" row or a DLQ copy only  *)
(* exists for an event that went through the retry queue MaxRetries times, *)
(* and no event goes through it more often.                                *)
ExhaustedOnlyAfterRetries ==
    \A e \in Events :
        /\ deaths[e] <= MaxRetries
        /\ row[e] = "failed" \/ dlq[e] > 0 => deaths[e] = MaxRetries

(* How often a user can be mailed for one event: once for the delivery,    *)
(* once per retry, and once per fault that made the broker redeliver it.   *)
MailBudget ==
    \A e \in Events : mails[e] <= 1 + deaths[e] + faults

(* Duplicate DLQ entries need a fault each: without one, exactly one copy. *)
DLQBudget ==
    \A e \in Events : dlq[e] <= 1 + faults

(* Once the event has its row, a delivery that has not passed the          *)
(* ExistsByEventID check yet sends nothing: only handlers that passed it   *)
(* before can still mail the user.                                         *)
PastCheck(e) == \E w \in Workers : stage[w][e] \in {"unseen", "dialled"}

NoMailAfterRow ==
    [][\A e \in Events :
         row[e] # "none" /\ ~PastCheck(e) =>
            UNCHANGED mails[e] /\ ~PastCheck(e)']_vars

(* The audit row is written once: neither a late failure record nor a late *)
(* success of a concurrent handler replaces what was recorded first.       *)
RowIsFinal ==
    [][\A e \in Events : row[e] # "none" => UNCHANGED row[e]]_vars

(* The promise of EventDelivery, as kept by this consumer. *)
Delivery == INSTANCE EventDelivery WITH
    Exempt   <- Malformed,
    status   <- [e \in Events |-> CASE place[e] = "unsent" -> "new"
                                    [] place[e] = "done"   -> "settled"
                                    [] OTHER               -> "outstanding"],
    evidence <- {e \in Events : row[e] # "none" \/ dlq[e] > 0}

(* No step of the consumer settles an event without evidence, revives a    *)
(* settled one or loses evidence.                                          *)
KeepsPromise == Delivery!Safety

(* Every accepted event is settled in the end, whatever crashes, shutdowns *)
(* and failing calls there are, as long as the channels stay open.         *)
DeliversPromise == Delivery!Spec

(* consumer.go:51-53: a permanently failing message "ends up visible in    *)
(* the DLQ", so no event is settled as failed without a copy there.        *)
ExhaustedVisibleInDLQ ==
    \A e \in Events : place[e] = "done" /\ row[e] = "failed" => dlq[e] > 0

(* service.go:79-81: a "failed" row means that "no email was ever sent".   *)
FailedMeansNoMail ==
    \A e \in Events : row[e] = "failed" => mails[e] = 0
=============================================================================
