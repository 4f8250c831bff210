----------------------------- MODULE Deployment -----------------------------
(***************************************************************************)
(* The processes: how each service starts, what it serves while it runs,   *)
(* and how it stops, together with the broker they meet at:                *)
(*                                                                         *)
(*   services/auth/cmd/api/main.go           HTTP; Redis, gRPC client      *)
(*   services/user/cmd/api/main.go           HTTP and gRPC; publisher      *)
(*   services/notification/cmd/api/main.go   HTTP and the consumer         *)
(*                                                                         *)
(* What a handler computes is left to the other modules.  Here a request   *)
(* is open while its handler runs; one to the user service creates a user  *)
(* and publishes an event in between.  A delivery is out while the         *)
(* consumer's handler runs.                                                *)
(*                                                                         *)
(* Docker starts a process again unless the operator stopped it            *)
(* (docker-compose.yml, restart: unless-stopped).                          *)
(***************************************************************************)
EXTENDS Topology, Config

CONSTANTS
    Setups,         \* which services are deployed, with which environment
    Tuned           \* settings the operator changes later

Services == {"auth", "user"} \cup Consumers

ASSUME DeploymentAssumption ==
    /\ {"auth", "user", "none"} \cap Consumers = {}
    /\ Setups \subseteq [services: SUBSET Services,
                        env: [Services -> [Variables -> Settings]],
                        faults: Nat]
    /\ Tuned \subseteq Variables

VARIABLES
    deployed,   \* the services of this system
    env,        \* env[s]: the environment s starts in
    phase,      \* phase[s]: how far the process is
    step,       \* step[s]: declarations made since it started
    link,       \* link[s]: its AMQP connection
    draining,   \* draining[s]: servers the shutdown still waits for
    forced,     \* forced[s]: the 15 seconds are over
    severed,    \* severed[s]: Stop has closed the connections of gRPC
    code,       \* code[s]: the exit code, as far as it is decided
    req,        \* req[r]: how far the handler of request r is
    at,         \* at[r]: the service and server whose handler r is in
    faults      \* bound: failures, signals and changes still to come

process  == <<phase, step, link, draining, forced, severed, code>>
requests == <<req, at>>
vars     == <<exchange, declared, retryTTL, fate, place, dlq, deployed, env,
              phase, step, link, draining, forced, severed, code, req, at,
              faults>>

(* "down": to be started by Docker.  "stopped": by the operator.           *)
(* "listening": the servers run, signal.Notify is still to be called.      *)
Phases == {"down", "starting", "declaring", "listening", "serving",
           "stopping", "stopped"}
Links  == {"none", "up", "lost", "closed"}
Stages == {"new", "open", "done", "silent", "answered", "cut"}

Servers(s) == CASE s = "auth" -> {"http"}
                [] s = "user" -> {"http", "grpc"}
                [] OTHER      -> {"http", "consumer"}

UsesBroker(s) == s # "auth"

(* What main declares at the broker before it listens. *)
Declarations(s) == CASE s = "auth" -> <<>>
                     [] s = "user" -> <<"exchange">>
                     [] OTHER      -> TopologySteps

TypeOK ==
    /\ BrokerTypeOK
    /\ deployed \in SUBSET Services
    /\ env      \in [Services -> [Variables -> Settings]]
    /\ phase    \in [Services -> Phases]
    /\ step     \in [Services -> 0 .. 7]
    /\ link     \in [Services -> Links]
    /\ draining \in [Services -> SUBSET {"http", "grpc", "consumer"}]
    /\ forced   \in [Services -> BOOLEAN]
    /\ severed  \in [Services -> BOOLEAN]
    /\ code     \in [Services -> {0, 1, 2, 143}]
    /\ req      \in [Events -> Stages]
    /\ at       \in [Events -> [service: Services \cup {"none"},
                                server: {"http", "grpc", "none"}]]
    /\ faults   \in Nat

Nowhere == [service |-> "none", server |-> "none"]

Init ==
    /\ BrokerInit
    /\ \E setup \in Setups :
          /\ deployed = setup.services
          /\ env = setup.env
          /\ faults = setup.faults
    /\ phase    = [s \in Services |-> "down"]
    /\ step     = [s \in Services |-> 0]
    /\ link     = [s \in Services |-> "none"]
    /\ draining = [s \in Services |-> {}]
    /\ forced   = [s \in Services |-> FALSE]
    /\ severed  = [s \in Services |-> FALSE]
    /\ code     = [s \in Services |-> 0]
    /\ req      = [r \in Events |-> "new"]
    /\ at       = [r \in Events |-> Nowhere]

-----------------------------------------------------------------------------
(* Helpers *)

Running(s) == phase[s] \notin {"down", "stopped"}
InFlight   == {"open", "done", "silent"}

Idle(s, v) ==
    /\ \A r \in Events : at[r] # [service |-> s, server |-> v]
    /\ v = "consumer" =>
          \A k \in DOMAIN place : k.queue = s => place[k] \notin InHand

Fault == faults > 0 /\ faults' = faults - 1

(* The broker's side of a connection that ends. *)
HangUp(s) ==
    IF s \in Consumers THEN Disconnect(s) ELSE UNCHANGED broker

(* The process is gone, with the given exit code: its handlers are cut     *)
(* off and the broker takes back what it had delivered.                    *)
Ends(s, to, exit) ==
    /\ phase'    = [phase EXCEPT ![s] = to]
    /\ link'     = [link EXCEPT ![s] = "none"]
    /\ draining' = [draining EXCEPT ![s] = {}]
    /\ forced'   = [forced EXCEPT ![s] = FALSE]
    /\ severed'  = [severed EXCEPT ![s] = FALSE]
    /\ code'     = [code EXCEPT ![s] = exit]
    /\ req' = [r \in Events |-> IF at[r].service = s THEN "cut" ELSE req[r]]
    /\ at'  = [r \in Events |-> IF at[r].service = s THEN Nowhere ELSE at[r]]
    /\ HangUp(s)
    /\ step'     = [step EXCEPT ![s] = 0]
    /\ UNCHANGED <<deployed, env>>

Advance(s, to) ==
    /\ phase' = [phase EXCEPT ![s] = to]
    /\ UNCHANGED <<broker, deployed, env, step, link, draining, forced,
                   severed, code, requests, faults>>

-----------------------------------------------------------------------------
(* Start *)

Start(s) ==
    /\ s \in deployed
    /\ ~Running(s)
    /\ phase' = [phase EXCEPT ![s] = "starting"]
    /\ code'  = [code EXCEPT ![s] = 0]
    /\ UNCHANGED <<broker, deployed, env, step, link, draining, forced,
                   severed, requests, faults>>

(* LoadConfig, then the connections; each error ends the process. *)
Open(s) ==
    /\ phase[s] = "starting"
    /\ IF Loads(s, env[s]) /\ Connects(s, env[s])
         THEN /\ phase' = [phase EXCEPT ![s] = "declaring"]
              /\ step'  = [step EXCEPT ![s] = 0]
              /\ link'  = [link EXCEPT ![s] =
                             IF UsesBroker(s) THEN "up" ELSE "none"]
              /\ UNCHANGED <<broker, deployed, env, draining, forced, severed,
                             code, requests>>
         ELSE Ends(s, "down", 1)
    /\ UNCHANGED faults

(* A bug of DeclareNext: a refused declaration is only logged. *)
DeclareNextAnyhow(s) ==
    LET part == Declarations(s)[step[s] + 1] IN
    /\ phase[s] = "declaring"
    /\ step[s] < Len(Declarations(s))
    /\ step' = [step EXCEPT ![s] = @ + 1]
    /\ IF s \in Consumers
         THEN \/ Declare(s, part, RetryTTL(env[s]))
              \/ Refused(s, part, RetryTTL(env[s])) /\ UNCHANGED broker
         ELSE DeclareExchange
    /\ UNCHANGED <<deployed, env, phase, link, draining, forced, severed,
                   code, requests, faults>>

(* NewEventPublisher or DeclareConsumerTopology, one declaration a step. *)
DeclareNext(s) ==
    LET part == Declarations(s)[step[s] + 1] IN
    /\ phase[s] = "declaring"
    /\ step[s] < Len(Declarations(s))
    /\ UNCHANGED faults
    /\ IF s \in Consumers /\ Refused(s, part, RetryTTL(env[s]))
         THEN Ends(s, "down", 1)
         ELSE /\ step' = [step EXCEPT ![s] = @ + 1]
              /\ IF s \in Consumers THEN Declare(s, part, RetryTTL(env[s]))
                                    ELSE DeclareExchange
              /\ UNCHANGED <<deployed, env, phase, link, draining, forced,
                             severed, code, requests>>

(* A bug of Listen: the consumer starts while its topology is declared. *)
ListenEarly(s) ==
    /\ phase[s] = "declaring"
    /\ s \in Consumers => step[s] >= 4
    /\ Advance(s, "listening")

(* NewConsumer and the goroutines of Consume, Serve and ListenAndServe. *)
Listen(s) ==
    /\ phase[s] = "declaring"
    /\ step[s] = Len(Declarations(s))
    /\ Advance(s, "listening")

(* signal.Notify comes last. *)
Notify(s) ==
    /\ phase[s] = "listening"
    /\ Advance(s, "serving")

(* A remote call of the start fails, or a port is taken: os.Exit(1).       *)
StartFails(s) ==
    /\ phase[s] \in {"starting", "declaring", "listening", "serving"}
    /\ Fault
    /\ Ends(s, "down", 1)

-----------------------------------------------------------------------------
(* Requests and deliveries *)

Goto(r, stage) == req' = [req EXCEPT ![r] = stage]

(* The answer has no way back: Stop closed the connection under the RPC. *)
Unheard(r) == at[r].server = "grpc" /\ severed[at[r].service]

(* The handler returns, with whatever answer. *)
Over(r) ==
    /\ Goto(r, IF Unheard(r) THEN "cut" ELSE "answered")
    /\ at' = [at EXCEPT ![r] = Nowhere]

Accept(r, s, v) ==
    /\ req[r] = "new"
    /\ phase[s] \in {"listening", "serving"}
    /\ v \in Servers(s) \ {"consumer"}
    /\ Goto(r, "open")
    /\ at' = [at EXCEPT ![r] = [service |-> s, server |-> v]]
    /\ UNCHANGED <<broker, deployed, env, process, faults>>

(* The user is inserted, and its event goes out if the connection is there *)
(* and the broker confirms.  An error of Publish is only logged.           *)
CreateUser(r) ==
    /\ req[r] = "open"
    /\ at[r].service = "user"
    /\ \/ link["user"] = "up" /\ Publish(r) /\ Goto(r, "done")
       \/ UNCHANGED broker /\ Goto(r, "silent")
    /\ UNCHANGED <<deployed, env, process, at, faults>>

Answer(r) ==
    /\ req[r] \in InFlight
    /\ Over(r)
    /\ UNCHANGED <<broker, deployed, env, process, faults>>

Consuming(c) ==
    /\ link[c] = "up"
    /\ phase[c] \in {"listening", "serving", "stopping"}

(* After cancelConsumer the loop may still pick one more delivery.         *)
Pick(k) ==
    /\ Consuming(k.queue)
    /\ phase[k.queue] = "stopping" => "consumer" \in draining[k.queue]
    /\ Take(k)
    /\ UNCHANGED <<deployed, env, process, requests, faults>>

Settle(k) ==
    /\ Consuming(k.queue)
    /\ Ack(k) \/ Nack(k) \/ Park(k) \/ ParkFailed(k) \/ AckParked(k)
    /\ UNCHANGED <<deployed, env, process, requests, faults>>

Expires(k) ==
    /\ Expire(k)
    /\ UNCHANGED <<deployed, env, process, requests, faults>>

-----------------------------------------------------------------------------
(* Shutdown *)

(* SIGTERM.  Before signal.Notify it kills the process at once; after it,  *)
(* the listeners close and main waits for the servers.                     *)
Signal(s) ==
    /\ Fault
    /\ phase[s] \notin {"down", "stopped", "stopping"}
    /\ IF phase[s] = "serving"
         THEN /\ phase'    = [phase EXCEPT ![s] = "stopping"]
              /\ draining' = [draining EXCEPT ![s] = Servers(s)]
              /\ code'     = [code EXCEPT ![s] = 0]
              /\ UNCHANGED <<broker, deployed, env, step, link, forced,
                             severed, requests>>
         ELSE Ends(s, "stopped", 143)

Stopping(s) ==
    /\ phase[s] = "stopping"
    /\ UNCHANGED <<deployed, env, phase, step, faults>>

(* A server has no handler left: Shutdown, GracefulStop or Consume is done.*)
Finish(s, v) ==
    /\ Stopping(s)
    /\ v \in draining[s]
    /\ Idle(s, v)
    /\ draining' = [draining EXCEPT ![s] = @ \ {v}]
    /\ UNCHANGED <<broker, link, forced, severed, code, requests>>

(* The context of the shutdown ends after 15 seconds. *)
Deadline(s) ==
    /\ Stopping(s)
    /\ draining[s] # {}
    /\ ~forced[s]
    /\ forced' = [forced EXCEPT ![s] = TRUE]
    /\ UNCHANGED <<broker, link, draining, severed, code, requests>>

(* A bug of GiveUp: the error of Shutdown is only logged. *)
GiveUpQuietly(s, v) ==
    /\ Stopping(s)
    /\ forced[s]
    /\ v \in draining[s] \ {"grpc"}
    /\ draining' = [draining EXCEPT ![s] = @ \ {v}]
    /\ UNCHANGED <<broker, link, forced, severed, code, requests>>

(* After it HTTP's Shutdown returns an error and the wait for the consumer *)
(* ends, whether or not their handlers returned.                           *)
GiveUp(s, v) ==
    /\ Stopping(s)
    /\ forced[s]
    /\ v \in draining[s] \ {"grpc"}
    /\ draining' = [draining EXCEPT ![s] = @ \ {v}]
    /\ code' = [code EXCEPT ![s] = IF v = "http" THEN 1 ELSE @]
    /\ UNCHANGED <<broker, link, forced, severed, requests>>

(* A bug of Stop: the deadline does not call it. *)
StopNever(s) == FALSE /\ UNCHANGED vars

(* grpcServer.Stop closes the connections and ends the contexts of the     *)
(* handlers, and a warning is logged: the exit code stays as it is.        *)
(* GracefulStop still waits until the handlers have returned.              *)
Stop(s) ==
    /\ Stopping(s)
    /\ forced[s]
    /\ "grpc" \in draining[s]
    /\ ~severed[s]
    /\ severed' = [severed EXCEPT ![s] = TRUE]
    /\ UNCHANGED <<broker, link, draining, forced, code, requests>>

(* A bug of Close: the connection is closed when the signal comes. *)
CloseFirst(s) ==
    /\ Stopping(s)
    /\ link[s] \in {"up", "lost"}
    /\ link' = [link EXCEPT ![s] = "closed"]
    /\ HangUp(s)
    /\ UNCHANGED <<draining, forced, severed, code, requests>>

(* After wg.Wait: amqpConn.Close, whose error is only logged. *)
Close(s) ==
    /\ Stopping(s)
    /\ draining[s] = {}
    /\ link[s] \in {"up", "lost"}
    /\ link' = [link EXCEPT ![s] = "closed"]
    /\ HangUp(s)
    /\ UNCHANGED <<draining, forced, severed, code, requests>>

Exit(s) ==
    /\ phase[s] = "stopping"
    /\ draining[s] = {}
    /\ link[s] \in {"none", "closed"}
    /\ Ends(s, "stopped", code[s])
    /\ UNCHANGED faults

-----------------------------------------------------------------------------
(* The environment *)

(* A panic outside a handler, SIGKILL, the machine. *)
Crash(s) ==
    /\ Running(s)
    /\ Fault
    /\ Ends(s, "down", 2)

(* The connection to the broker breaks.  Consume returns; nothing dials    *)
(* again, and neither the process nor its health checks notice.            *)
LinkLost(s) ==
    /\ link[s] = "up"
    /\ phase[s] \in {"listening", "serving", "stopping"}
    /\ Fault
    /\ link' = [link EXCEPT ![s] = "lost"]
    /\ HangUp(s)
    /\ UNCHANGED <<deployed, env, phase, step, draining, forced, severed,
                   code, requests>>

(* The operator changes a setting of a service that does not run. *)
Reconfigure(s, v, x) ==
    /\ s \in deployed
    /\ ~Running(s)
    /\ Fault
    /\ env[s][v] # x
    /\ env' = [env EXCEPT ![s][v] = x]
    /\ UNCHANGED <<broker, deployed, process, requests>>

-----------------------------------------------------------------------------
Next ==
    \/ \E s \in Services :
          \/ Start(s) \/ Open(s) \/ DeclareNext(s) \/ Listen(s) \/ Notify(s)
          \/ Signal(s) \/ Deadline(s) \/ Stop(s) \/ Close(s) \/ Exit(s)
          \/ StartFails(s) \/ Crash(s) \/ LinkLost(s)
          \/ \E v \in Servers(s) : Finish(s, v) \/ GiveUp(s, v)
          \/ \E r \in Events, v \in Servers(s) : Accept(r, s, v)
          \/ \E v \in Tuned, x \in Settings : Reconfigure(s, v, x)
    \/ \E r \in Events : CreateUser(r) \/ Answer(r)
    \/ \E k \in DOMAIN place : Pick(k) \/ Settle(k) \/ Expires(k)

Spec == Init /\ [][Next]_vars

(* The handler of an RPC whose context Stop has ended returns. *)
Return(s, r) ==
    /\ at[r] = [service |-> s, server |-> "grpc"]
    /\ severed[s]
    /\ Answer(r)

(* Docker starts what is down; a process that starts goes on; a shutdown   *)
(* notices that a server is idle and that its time is over.  No handler is *)
(* assumed to return, except those whose context Stop has ended.           *)
Fairness ==
    \A s \in Services :
        /\ WF_vars(phase[s] = "down" /\ Start(s))
        /\ WF_vars(Open(s) \/ DeclareNext(s) \/ Listen(s) \/ Notify(s))
        /\ WF_vars(Deadline(s))
        /\ \A v \in {"http", "grpc", "consumer"} :
              WF_vars(Finish(s, v)) /\ WF_vars(GiveUp(s, v))
        /\ WF_vars(Stop(s))
        /\ \A r \in Events : WF_vars(Return(s, r))
        /\ WF_vars(Close(s) \/ Exit(s))

FairSpec == Spec /\ Fairness

-----------------------------------------------------------------------------
(* Properties *)

(* A service that got past its start runs as configured: every setting it  *)
(* cannot do without is good, except those nobody looks at before they are *)
(* needed, and the retry delay in force at the broker is the one in its    *)
(* environment.                                                            *)
RunsAsConfigured ==
    \A s \in Services :
        phase[s] \in {"listening", "serving", "stopping"} =>
            /\ \A v \in Required(s) \ Unchecked : env[s][v] = "good"
            /\ s \in Consumers => retryTTL[s] = RetryTTL(env[s])

(* A delivery is only ever in the hand of a process that has its topology  *)
(* complete and its connection open: whatever interrupts a start or a      *)
(* shutdown, no delivery is left with a consumer that cannot settle it.    *)
OutMeansConsuming ==
    \A k \in DOMAIN place :
        place[k] \in InHand => Consuming(k.queue) /\ Complete(k.queue)

(* The connection outlives the handlers that publish on it: it is closed   *)
(* under an open request only if that is an HTTP request which is still    *)
(* running after the 15 seconds.                                           *)
LinkOutlivesHandlers ==
    \A r \in Events : \A s \in Services :
        at[r].service = s /\ req[r] = "open" /\ link[s] = "closed" =>
            at[r].server = "http" /\ forced[s]

(* A service that cuts off an HTTP request, or an RPC within the 15        *)
(* seconds, does not report a clean shutdown.  The RPCs that Stop cuts off *)
(* after them are only logged: the exit code stays 0.                      *)
CleanExit ==
    [][\A r \in Events : \A s \in Services :
         at[r].service = s /\ req[r] # "cut" /\ req'[r] = "cut" =>
            code'[s] # 0 \/ (at[r].server = "grpc" /\ forced[s])]_vars

(* A shutdown ends, whichever handlers hang. *)
SignalStops ==
    \A s \in Services : phase[s] = "stopping" ~> phase[s] # "stopping"

(* Whatever happened, a service whose environment fits the broker serves   *)
(* in the end, unless it was stopped: no start gets stuck and no order of  *)
(* starts matters.                                                         *)
Fits(s) ==
    /\ Loads(s, env[s]) /\ Connects(s, env[s])
    /\ s \in Consumers => retryTTL[s] \in {"none", RetryTTL(env[s])}

ComesUp ==
    \A s \in Services :
        []<>(s \in deployed /\ Fits(s) =>
               phase[s] \in {"serving", "stopping", "stopped"})
=============================================================================
