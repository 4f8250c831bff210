# Verification of the microservice backend

TLA+ models of the three Go services in this repository (`auth`, `user`,
`notification`) and of the broker, database, Redis and SMTP calls they make,
model-checked with TLC and, for the most important results, proved with TLAPS.
All paths below are relative to the repository (`src/`).

## The system

| Component | State it keeps | Operations | Talks to |
|---|---|---|---|
| Refresh-token sessions (`services/auth/internal/auth`) | Redis keys `refresh:<token>` | Login, Refresh, Logout | Redis; the user service (gRPC `GetByEmail`) |
| Registration (`auth.Register`, `clients/user`, `grpcmiddleware.Timeout`) | none | Register | gRPC `ExistsByEmail` and `Create`, each with a deadline |
| User accounts (`services/user/internal/user`) | table `users`, `email` unique | create (HTTP and gRPC), Update, Delete, lists | PostgreSQL; the event publisher |
| Event publisher (`pkg/messaging/rabbitmq/publisher.go`) | one channel in confirm mode | Publish | RabbitMQ |
| Queue topology (`topology.go`) | exchange, main queue, retry queue, DLQ, all durable | DeclareConsumerTopology, NewEventPublisher | RabbitMQ |
| Event consumer (`consumer.go`) | one channel, deliveries in its buffer | Consume, handle, park | RabbitMQ; its handler |
| Notification service (`services/notification/internal/notification`) | table `notifications`, `event_id` unique | HandleUserCreated, RecordFailure, lists | PostgreSQL, SMTP |
| Processes (`cmd/api/main.go`) | listeners, connections, contexts | start, graceful shutdown | all of them |
| Configuration (`internal/config`, `pkg/config`) | the environment | LoadConfig | files, environment |
| HTTP and gRPC middleware (`pkg/middleware`, `pkg/grpcmiddleware`, `internal/router`) | request ids, access log | the two chains around every handler | |
| Lists (`pkg/pagination`, `pkg/query`) | none | Parse, NewParams, the COUNT and the SELECT | PostgreSQL |
| Error codes (`pkg/apperror`, `pkg/response`, `toGRPCError`, `fromGRPCError`) | none | translation between error, HTTP status and gRPC code | |
| Rate limiter, JWT, gateway, docs, health checks | | not modelled, see below | |

A registration passes through all of it: `auth` asks `user` whether the address
is free and to create the user; `user` inserts the row and then publishes
`user.created`; `notification` consumes the event, sends a mail and records the
outcome. Only the last leg is retried.

What is hard in it is what no single function shows. Nothing spans a database
and a broker, so each pair of steps can be cut in two by a crash, an ended
context or a lost reply. Each check (`ExistsByEmail`, `ExistsByEventID`, the
GET of a refresh token) is a statement before the write it protects. RabbitMQ
redelivers whatever is unacknowledged as soon as a channel is gone, while the
old handler may still run. And a context is shared: a shutdown or an RPC
deadline ends the query or the confirmation that happens to be under way. The
order of a start, of a shutdown and of a middleware chain is written once and
must be right for every point at which it can be interrupted. The
list in `PROJECT.json` under "hazards" names each of these at its line, with
the property that watches it or the reason why none does yet.

## Modules

| Module | Models | Used by |
|---|---|---|
| `EventDelivery` | what the pipeline promises about an accepted event, without broker or worker | refined by `Consumer` |
| `Consumer` | broker queues, Consume/handle/park, the notification handler, the process | `MCConsumer`, `ConsumerProofs` |
| `ConsumerBudgets` | (proofs about `Consumer` that count) | extends `ConsumerProofs` |
| `TokenRotation` | what the auth service promises about its refresh tokens, without commands that fail | refined by `AuthSessions` |
| `AuthSessions` | refresh tokens in Redis and the requests that use them | `MCAuthSessions`, `AuthSessionsProofs` |
| `UserRegistry` | what the user service promises about its accounts, without requests and their checks | refined by `UserAccounts` |
| `UserAccounts` | the users table, its writers, Register's deadlines, the publish | `MCUserAccounts`, `UserAccountsProofs` |
| `Topology` | what is declared at the broker, and the ways of an event's copies through it | `Deployment`, `MCTopology` |
| `Config` | which settings a service needs and what it makes of them | `Deployment` |
| `Deployment` | the three processes from start to exit, composed with `Topology` and `Config` | `MCDeployment`, `DeploymentProofs` |
| `ListQuery` | page arithmetic, query parsing, the two statements of a list | `Requests`, `ListQueryProofs` |
| `ListQueryProofs` | (proofs about `ListQuery`) | extended by `RequestsProofs` |
| `ErrorCodes` | the translations of an error | `Requests` |
| `Requests` | requests through both middleware chains and both services, composed with `ListQuery` and `ErrorCodes` | `MCRequests`, `RequestsProofs` |

`Consumer`, `UserAccounts` and `AuthSessions` look at one leg each with every
remote call a step; `Deployment` and `Requests` cut across the services, one at
the processes and one at a request, and leave to the other three what a handler
does in detail.

Each component module has a section "Deviations": copies of one action with one
plausible bug each. No specification uses them. Put in the place of the
original (the list "mutants" in `PROJECT.json` says which), each makes the
property it is listed with fail, so that property depends on that code.

### Consumer

The broker keeps one live copy of each event: `place[e]` is the main queue, out
on a channel, the retry queue, or gone, and `deaths[e]` is the `x-death` count
of the retry queue, which grows when the TTL expires. `dlq[e]` counts copies.
A worker is a notification process; `stage[w][e]` is the program counter of its
delivery of `e`, from the client library's buffer ("buffered") through the
handler. The Go code has a single consumer goroutine per process, so at most
one delivery of a worker is in hand (`Idle` guards the pick), while up to the
prefetch limit wait in the buffer.

| Action | Code |
|---|---|
| `Publish` | a confirmed `Publisher.Publish` |
| `Deliver`, `Expire` | basic.deliver within `Qos`, the TTL of the retry queue |
| `DropUndecodable`, `Take` | the two ways `handle` can begin; the handler's own decoding of the payload |
| `ExistsByEventID`, `Dial`, `Transmit`, `CreateSent` | the calls of `HandleUserCreated`, in order; `Send` is two of them because ctx bounds the dial only |
| `Retry` | `Nack(requeue=false)` while retries remain |
| `RecordFailure`, `Park`, `ParkFailed` | OnExhausted, the publish of `park`, and its error path |
| `Ack` | the acknowledgement of a handled or a parked delivery |
| `Return` | `Consume` returns because ctx ended or the channel closed |
| `Start`, `Crash`, `Cancel`, `Exit`, `ChannelClose` | the process and its channel |

Every call that can fail has a failing disjunct, and those whose effect and
whose reply are separate (SMTP, INSERT) can fail after they took effect. `Ack`
and `Nack` on a closed channel change nothing at the broker, which took the
delivery back when the channel closed; the code logs that error and goes on.
With ctx cancelled a query or a dial must fail, and an AMQP publish need not.

The refinement mapping to `EventDelivery`: an event is "new" until published,
"settled" when the broker has let go of it, "outstanding" otherwise; its
evidence is an audit row or a DLQ copy.

### AuthSessions

`live` are the tokens Redis has a key of, `minted` those it ever had; `owner`
is the stored user id. `parent`, `handed` (tokens that reached a client) and
`forfeit` (logged out, expired, or lost to a failing request) are history that
the properties need. A request is a slot with a program counter; GET, DEL and
SET are separate actions, as they are separate commands in `repository.go`.
`Fail` ends a request at any of them, the command executed or not.

The refinement mapping to `TokenRotation`: a token is "fresh" until minted,
"valid" while Redis has its key and "spent" afterwards (`StateOf`); the claims
on a token are the requests that read it in Redis and are not answered yet
(`Past`). So a GET that finds the key is a Claim, a DEL or an expiry of a key
that is there is a Spend, the SET of a refresh is a Renew and that of a login a
Login; a DEL that finds nothing and a request that ends are a GiveUp or a
stutter. Renew asks for a spent token, which is the order of `Refresh`
(`service.go:90-94`), and lets several claims on one token each be renewed,
which is what the code does when they overlap.

### UserAccounts

`email[i]` is row `i` of the table; `events[i]` counts the events the broker
accepted for it. A request slot runs one request at a time; its answer stays
visible until the slot is used again. `Insert`, `Update` and `Delete` are
single SQL statements, and Update's transaction is the two reads before its
UPDATE: under READ COMMITTED each statement sees what is committed by then, and
as the transaction writes only in its last statement, that statement and the
COMMIT are one action. `Deadline` and `GiveUp` tell the client something (or
nothing) while the server's statement goes on. `Publish` separates whether the
broker accepted the event from whether the confirmation arrived, because the
code does the same in both cases.

The refinement mapping to `UserRegistry` turns the table around: `HolderOf(m)`
is the row that has the address `m`, which is one value only because of the
UNIQUE constraint. An INSERT that commits is an Enrol, whether its reply
arrives or not; an accepted publish is an Announce, an UPDATE that commits a
Move or nothing, a DELETE a Remove. The checks before them, what their requests
know and what they answer have no counterpart: the registry is what is left
when all of that is allowed to be stale.

### Topology

`declared[c]` is the set of a consumer's seven declarations that the broker has
seen, `retryTTL[c]` the delay its retry queue was created with; both outlive
every process. `TopologySteps` is the order of `DeclareConsumerTopology`, and a
service may be stopped after any of them. A copy of an event is identified by
the event, the queue it is in and `path`, the queues whose retry it went
through (the `x-death` header): `Routed` copies a message into every queue
bound to the one routing key, on the publish and again on each expiry of a
TTL. `Nack` sends a copy where its target is declared, and into the void where
it is not yet. Parking takes two steps, as in `park`: `Park` publishes a copy
to the DLQ (`dlq[c][e]` counts them; nothing arrives if the queue is missing,
as the default exchange tells nobody) and leaves the delivery in the consumer's
hand, "stored"; `AckParked` acknowledges it. Between the two, a crash or a lost
connection returns it to the queue, and the DLQ gets the event again.
`ParkFailed` is the publish that returns an error, and requeues.
`DeclareExchange` is all the publisher declares:
`docs/messaging.md:33` says that publisher and consumer both declare
everything, so that "neither has to assume the other started first", and the
model follows the code (`fate[e]` = "unrouted" before the first binding).

### Deployment

`phase[s]` runs from "down" through "starting" (LoadConfig and the
connections), "declaring", "listening", "serving" (`signal.Notify` was called)
and "stopping" to "stopped". `draining[s]` are the goroutines the shutdown
waits for, `forced[s]` says that its 15 seconds are over, `severed[s]` that
`grpcServer.Stop` has closed the connections of the RPCs, `link[s]` is the AMQP
connection and `code[s]` the exit code.

| Action | Code |
|---|---|
| `Open`, `DeclareNext`, `Listen`, `Notify` | `main` in its order, each error an `os.Exit(1)`; `StartFails` are the errors no setting explains |
| `Accept`, `CreateUser`, `Answer` | an HTTP or gRPC handler; the insert and publish of the user service in the middle, of which the publish may fail with the connection up or down |
| `Pick`, `Settle`, `Expires` | the consumer's loop, at the level of `Topology` |
| `Signal` | SIGTERM, before and after `signal.Notify` |
| `Finish`, `Deadline`, `GiveUp` | `Shutdown`, `GracefulStop` and the wait for Consume, as they end by themselves or at the deadline |
| `Stop` | `grpcServer.Stop` at the deadline: only a warning is logged, and what the handlers then return reaches nobody ("cut"), while `GracefulStop` goes on waiting for them |
| `Close`, `Exit` | `amqpConn.Close` after `wg.Wait`, and the exit code |
| `Crash`, `LinkLost`, `Reconfigure` | what happens to a process from outside |

`Config` tells an unset variable from a useless and a good one, because the
code does: a required string is only tested for being empty, a port that does
not parse becomes the refused 0, and a consumer setting that does not parse
becomes its default. A retry delay that differs from the one the retry queue
was created with makes the broker refuse the declaration (`Refused`), and the
service does not start.

### ListQuery, ErrorCodes, Requests

`ListQuery` computes with machine integers (`Wrap`), so that an offset can
overflow as it does in Go; `Ordered` is the set of orders that an ORDER BY
allows, from which each statement gets any. A `limit` of 0 becomes the default
(`pagination.go`), where `docs/pagination.md:16` has 1. `ErrorCodes` gives an
error a code and one of three texts, written for the client, generic, or of an
internal cause, since that is what its translations tell apart.

In `Requests`, `pc[r]` is the route's handler, then "return" and "over"; a list
is two steps ("list", "fetch") with anything in between. `HTTPReturn` and
`GRPCReturn` compose the middleware in the order of the routers: each takes
the request on its way out and adds its line, its answer or its recovery. For
auth's requests `Answers` runs the whole gRPC side, and `Receive` or `RPCLost`
what the client library makes of it. `sent`, `logs`, `counted`, `fetched` and
`rpc` are histories for the properties.

## Runs

| Run | Bounds | Shows |
|---|---|---|
| `consumer_pair` | 2 events, 2 processes, 1 retry, prefetch 2, 1 fault of any kind | custody of deliveries, no silent loss, retries counted exactly, no mail after the row, the row true and final, mails and DLQ copies within what retries and faults explain, the safety half of `EventDelivery` |
| `consumer_live` | 3 events (sound, poisonous, undecodable), 1 process, 1 retry, 2 crashes, shutdowns or failing parks | every accepted event is settled in the end (`EventDelivery`'s full specification) |
| `sessions_safety` | 4 tokens, 2 users, 2 overlapping requests | rotation: exclusive, owner kept, forks bounded, nothing lost without cause; `TokenRotation` (so nothing is revived either) |
| `accounts_safety` | 3 ids, 2 addresses, 2 overlapping requests | addresses unique, at most one event per user, true answers; `UserRegistry` (so deleted users stay deleted) |
| `deployment` | user and notification together with 1 fault; each service alone with one setting unset or useless and 2 faults; 2 requests or events, 1 retry | starts in any order, interrupted anywhere, end with the configured topology; no event is missed once a queue is bound; each has one copy in the queues until it is settled, and is parked only with a copy in the DLQ; shutdowns end, close the connection last, and exit with 0 only if they cut off no HTTP request, and RPCs only after the 15 seconds; what is down comes up |
| `requests` | 2 overlapping requests of any kind, up to 4 users, limits 2 and 3, `IntMax` 7 | one answer and one true log line per request, one id across the hop, status and text survive the hop, causes stay inside, pages agree with their total and with each other |
| `consumer_dlq_gap` | violated | a failed event without a DLQ copy, against `consumer.go:51-53` |
| `consumer_failed_mailed` | violated | a "failed" row although the mail went out, against `service.go:79-81` |
| `topology_cross_retry` | violated | one consumer's retry delivered to another one, against `topology.go:14-16` |
| `sessions_reuse` | violated | one refresh token used twice, against `docs/auth.md:151` |
| `accounts_publish_deadline` | violated | a publish that takes too long fails a registration, against `docs/messaging.md:80` |
| `accounts_self_conflict` | violated | an update refused because of its own user's address, against `docs/service.md:19` |

The six violated runs are disagreements between a comment or a document of the
repository and what the code does; `PROJECT.json` quotes the sentences. None of
them was looked for: each is the strongest form of a claim that turned out to be
weaker in the code, and the passing property beside it states what does hold
(`NoSilentLoss`, `SentMeansMailed` with `MailBudget`, `OneQueuedCopy` for the
one consumer there is, `RotationExclusive` with `ForkBound` and `BarrenWhenDead`,
`AnswersAreTrue`, `RefusedForCause`). For four of them a theorem says when the
sentence is true after all, see "Proofs".

### Bounds

* `MaxFaults` caps injected faults. Errors of the database and of SMTP are not
  counted: they may happen at every call. One fault suffices for a redelivery
  that races a running handler and for a second pass through the exhausted
  path, and it takes two events to see that the buffer of a lost channel and
  the delivery in hand are treated differently. `MailBudget` and `DLQBudget`
  are proved for any number of faults.
* In `deployment` a fault is a failed start, a crash, a broken connection, a
  SIGTERM or a changed setting. One is enough to stop either service at any
  point of its start, work or shutdown while the other goes on; with one
  service alone, two let a shutdown be interrupted, or a start with a changed
  delay follow an interrupted one. Each setting is off on its own, as
  `LoadConfig` and the connections only ever look at one at a time. `auth` meets
  the other two in requests only, which `UserAccounts` has.
* In `requests` the integers are 4 bits wide: page 100 becomes 7, and the
  offsets of the last pages overflow as they would at 2^63. Up to four users
  and limits 1 to 3 give full, partial, empty and far-out pages; ties need two
  rows that share a name. Every request is compared with at most one other, so
  two slots are enough.
* Four tokens give a chain of refreshes and a fork; two requests are the least
  that overlap, and `ForkBound` states its dependence on their number.
* With three ids a deleted user, its successor at the same address and a user
  at the other one exist together. Slots are reused, so two of them give every
  pairwise interleaving of the operations in any order.
* Deadlock checking is off where the system really rests: every event settled
  and no fault left, all the tokens minted and dead, every service stopped or
  every request over. In the accounts' runs it is on.
* The symmetric run checks only invariants and box-action properties.

### Fairness

`FairSpec` assumes that the broker delivers and expires what it holds, that a
running process takes its next step, that a cancelled one exits (the 15 seconds
of `main.go` bound it) and that Docker starts a process that is down
(`restart: unless-stopped`). It assumes nothing about which branch a call takes:
every database, SMTP and dial call may fail for ever, and the retry count ends
that. Two assumptions are not the code's: that SMTP calls return at all
(`smtp.go` bounds the dial only), and that channels stay open in
`consumer_live`: after a channel is lost `Consume` returns and nothing restarts
it, which `docs/messaging.md` lists as a known gap.

`Deployment`'s `FairSpec` assumes that Docker starts what is down, that a start
goes on, that the timer fires and calls `Stop`, and that a shutdown goes on once
a server is idle. It assumes of no handler that it returns, except of a gRPC
handler whose context `Stop` has ended (`Return`: its statement or publish
returns with it): so
`SignalStops` holds although every other handler may hang. `ComesUp` asks
nothing of a service whose settings do not fit, and nothing of one that was
stopped.

## Proofs

`tlapm` proves the theorems below for every value of the constants that
satisfies the named assumptions (`ConsumerAssumption`, `SessionsAssumption`,
`AccountsAssumption`, `TopologyAssumption`, `DeploymentAssumption`,
`ListAssumption`, `RequestsAssumption`); TLC evaluates these on every instance.
No bound on faults or on the length of a behaviour is assumed, and no
finiteness except in the three theorems that count.

**`ConsumerProofs`**: `TypeCorrect`, `CustodyCorrect`, `NothingLostSilently`,
`SentWasMailed`, `RetriesExhausted`, `RowsAreFinal`, `MailedOnlyPastCheck`,
`ConsumerKeepsPromise`, `FailuresVisibleUninterrupted`. None of the invariants is inductive alone. Custody is
the root: it says that the header of a delivery on an open channel is the
current retry count and that no two open channels hold the same event, which
makes every Ack and Nack act on the event it was meant for; `Vacant` adds that a
process that is down holds nothing. `TraceInv` says what each stage of a handler
knows: past Transmit the mail is out, a handled delivery has its row, a parked
one its copy. `RetryInv` says that no delivery shows more retries than there
were and that one at "park" has used them all. Loss and retry counts follow from
these, and `ConsumerKeepsPromise` maps each step to a step of `EventDelivery` or
a stutter.

**`ConsumerBudgets`**: `MailsBounded` and `DLQCopiesBounded`, for finitely many
workers. Neither budget is inductive: a delivery that is out may still spend.
`MailInv` adds to the mails sent the workers whose delivery may still mail, the
workers that are cancelled (their exit gives everything back to the queue, and
only the cancellation counts as a fault), and the copy in the queue; the sum
never exceeds the budget. Taking a delivery moves one unit from the queue to
the worker, mailing moves it from the worker to the mails, and whatever puts a
copy back is paid for by a retry, a fault or a worker that leaves. `DLQInv` is
the same for the DLQ, where only a worker with an open channel can spend and
the retry queue counts as a place to get the event from.

**`AuthSessionsProofs`**: `TypeCorrect`, `RotationIsExclusive`,
`SessionsKeepTheirOwner`, `SessionsSurvive`, `DeadTokensStayDead`,
`DeadTokensAreBarren`, `ForksBounded`, `SessionsKeepRotation`,
`SingleUseUnlessOverlapping`. The strengthening `RequestInv` says that
a request that is about to save has deleted its own token, which is why the
successor of a token is never live together with it, and whom it acts for.
`ForkInv` says that a live token has no successor, and that the successors of a
dead one and the refreshes still past its lookup are together no more than the
requests, of which there must be finitely many. `SessionsKeepRotation` goes
through the ways a step can change the two tables of the mapping (a token is
minted, a key disappears, a request reads a token or lets go of it), so that
each action is one of them; that a request about to save has a spent token is
`RequestInv` again.

**`UserAccountsProofs`**: `TypeCorrect`, `EmailsAreUnique`,
`UsersAreAnnouncedOnce`, `InsertsAnswerTruly`, `RefusedOnlyForCause`,
`UsersStayDeleted`, `AccountsKeepRegistry`, `UpdatesRefusedForOthers`. The strengthening `SlotInv` says that an insert names no id
before its row is committed, that no two inserts name the same id, and that a
request at its publish is the first to publish that user. For
`AccountsKeepRegistry` the unique addresses make `HolderOf` say exactly which
row has an address, before and after each statement.

**`DeploymentProofs`**: `TypeCorrect`, `ServesAsConfigured`,
`DeliveriesAreConsumed`, `LinkClosedLast`, `CutMeansFailure`,
`MissedOnlyBefore`, `RetriesStayWithOneQueue`, and `OneConsumerOneCopy` if
there is one consumer. The
inductive invariant ties the phases to what they imply: `ProcInv` how many
declarations a phase has behind it, that a connection is up, lost or closed only
where `main` has it, that it is closed only when nothing is draining, and that
`Stop` comes only after the 15 seconds;
`ReqInv` that a handler belongs to a server that listens or drains, or has
outlived the deadline, in which case the exit code is already 1; `FateInv` that
an event was routed only if a binding exists; `RetriesInv` that no
consumer appears in a copy's path more than `MaxRetries` times; `CopyInv` that a copy
is in a bound queue, in hand only over a connection of a process past its
declarations, stored or parked only if the DLQ has the event, and never
dropped. `Single` adds for one consumer that a routed
event has a copy and that two copies of one event are the same one.

**`ListQueryProofs`**: what the operators of a list return, for every input.
`SortsAllowed` says that only clauses on columns of the schema reach ORDER BY;
as `ParseSorts` is defined by recursion over the clauses, it argues about the
shortest prefix that would break it. The lemmas say that an ORDER BY which
includes the unique id allows a single order of the rows (`PrecedesTotal`,
`PrecedesAsymmetric`, `OrderedUnique`), that a page is the stretch of that
order which its offset and limit give (`PageRows`), that the offsets of two
pages lie at least a limit apart (`OffsetsApart`), and that two pages are the
whole list if its total says so (`TwoPages`).

**`RequestsProofs`**: `TypeCorrect`, `RequestsAnsweredOnce`,
`RequestsTraceable`, `StatusSurvivesHop`, `CausesHidden`, `PagesFitTotal`,
`IdsUnique`, `ListsPartitioned`. The invariant says, per stage of a request,
what has been logged and sent, that the outcome of a handler carries no cause
(a function-by-function fact about `ErrorCodes`), which error an RPC met and
what its outcome therefore is, and that the total of a list is the cardinality
counted at its COUNT. `PagesFitTotal` then is arithmetic about `PageOf`, for
any limits, any `IntMax` and any page whose offset does not overflow. That two
pages share no row needs one more invariant, `TableInv` (`IdsUnique`): the ids
in the table, and in what every SELECT saw of it, are unique, because each
insert takes one beyond the last, and an update keeps the one it found.

### When the documented sentences hold

Six runs show that a sentence of the documentation is too strong. For four of
them a theorem names a condition under which the sentence is true in every
run, whatever else fails or overlaps. Each condition is the gap which the
violated run goes through, and nothing more.

| Theorem | The sentence holds if | Violated without it |
|---|---|---|
| `FailuresVisibleUninterrupted` | between OnExhausted and the publish to the DLQ the worker does not crash or exit, its channel is open and the publish works (`ParkGoesThrough`) | `consumer_dlq_gap` |
| `SingleUseUnlessOverlapping` | no two refreshes of one token are between lookup and answer at once (`NoOverlap`) | `sessions_reuse` |
| `UpdatesRefusedForOthers` | no two updates of one user are between their first statement and their last at once (`OneUpdater`) | `accounts_self_conflict` |
| `RetriesStayWithOneQueue` | no two queues are bound to the exchange at once (`OneQueueBound`), however many consumers are configured | `topology_cross_retry` |

The conditions are about the states of a run, and those states still include
every crash, failing call and interleaving that the condition does not name:
logouts and expiries during a refresh, failing SMTP and database calls before
the last retry, other writers of the same address, stops between two
declarations. A condition on what the environment may do is an assumption of
the theorem alone; no run assumes it.

### Only model-checked

The liveness properties `DeliversPromise`, `SignalStops` and `ComesUp`:
liveness under fairness is outside the prover. The violated properties
`FailedMeansNoMail` and `PublishNeverFailsRequest` have no theorem that names a
condition for them: for the first it would exclude each failure of a mail
exchange or an INSERT on every attempt, for the second each deadline during a
publish, which would only restate the property. That an ORDER BY allows some
order of any finite table (that `Ordered` is never empty) is used by no
theorem and seen in the run `requests` alone.

## Not modelled

* Access tokens and their keys, password hashing, CORS headers, the wording of
  messages: stateless, and nothing a property is about. What Kong makes of a
  token is an input of `Requests` (`uid`).
* The rate limiter of `pkg/middleware`: no service installs it.
* The gateway's configuration, the docs service and the health checks: constant
  answers and pings that change no state.
* Generated code (`pkg/proto`): the messages pass through it unchanged.
* SQL constraint checking, Redis and RabbitMQ themselves: taken as single
  atomic commands, as their documentation promises.
* An SMTP exchange that never returns (`smtp.go` sets no deadline after the
  dial): it would stop the one consumer, and the liveness run assumes it away.
* An operator who moves an event from the DLQ back by hand, and the tokens of a
  deleted user: both are named in the hazards. They concern what an operator or
  the product wants rather than something the code promises.
* Pool sizes, CORS origins and token lifetimes among the settings; so
  `Config` is complete only for what the start depends on.

The composition of `UserAccounts` with `Consumer` is left out on purpose: they
meet in the event alone, `AnnouncedOnce` says that there is at most one per
user, and `Consumer` treats every event apart from the others.
