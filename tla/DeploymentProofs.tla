--------------------------- MODULE DeploymentProofs ---------------------------
(***************************************************************************)
(* Proofs about Deployment, for any events, consumers, retry limit,        *)
(* environments and number of faults.                                      *)
(***************************************************************************)
EXTENDS Deployment, FiniteSetTheorems, SequenceTheorems, TLAPS

-----------------------------------------------------------------------------
(* The invariant *)

Serves(s) == phase[s] \in {"listening", "serving", "stopping"}

(* No copy was retried too often, whichever consumer counts, and one that  *)
(* waits has a retry left.                                                 *)
RetriesInv ==
    \A k \in DOMAIN place :
        /\ \A c \in Consumers : Retries(c, k.path) <= MaxRetries
        /\ place[k] = "waiting" => Retries(k.queue, k.path) < MaxRetries

(* What a process has, by its phase. *)
ProcInv(s) ==
    /\ phase[s] # "stopping" => draining[s] = {} /\ ~forced[s]
    /\ severed[s] => forced[s]
    /\ phase[s] \in {"down", "stopped", "starting"} => link[s] = "none"
    /\ link[s] = "closed" => phase[s] = "stopping" /\ draining[s] = {}
    /\ phase[s] = "declaring" \/ Serves(s) =>
          /\ Loads(s, env[s]) /\ Connects(s, env[s])
          /\ step[s] <= Len(Declarations(s))
          /\ s \in Consumers =>
                /\ \A i \in 1 .. step[s] : TopologySteps[i] \in declared[s]
                /\ step[s] >= 5 => retryTTL[s] = RetryTTL(env[s])
    /\ Serves(s) => step[s] = Len(Declarations(s))

(* Where the handler of a request runs.  A server that the shutdown no     *)
(* longer waits for has no handlers, unless the shutdown gave it up.       *)
ReqInv(r) ==
    LET s == at[r].service  v == at[r].server
    IN  /\ req[r] \notin InFlight => at[r] = Nowhere
        /\ at[r] # Nowhere => s # "none"
        /\ s # "none" =>
              /\ Serves(s)
              /\ v \in Servers(s) \ {"consumer"}
              /\ phase[s] = "stopping" /\ v \notin draining[s] =>
                    v = "http" /\ forced[s] /\ code[s] # 0

(* A copy is in a queue that is bound, in hand only over a connection, and *)
(* acknowledged by park only after it was stored.                          *)
CopyInv(k) ==
    /\ fate[k.event] = "routed"
    /\ "binding" \in declared[k.queue]
    /\ place[k] \in InHand => link[k.queue] = "up" /\ Serves(k.queue)
    /\ place[k] \in {"stored", "parked"} => dlq[k.queue][k.event] > 0
    /\ place[k] # "lost"

FateInv == \A e \in Events : fate[e] = "routed" => Bound # {}

IInv ==
    /\ TypeOK /\ RetriesInv /\ FateInv
    /\ \A s \in Services : ProcInv(s)
    /\ \A r \in Events : ReqInv(r)
    /\ \A k \in DOMAIN place : CopyInv(k)

-----------------------------------------------------------------------------
(* Constants *)

LEMMA ServicesLemma ==
    /\ "auth" \in Services /\ "user" \in Services /\ Consumers \subseteq Services
    /\ "auth" \notin Consumers /\ "user" \notin Consumers
    /\ "none" \notin Consumers /\ "none" \notin Services
    /\ \A s \in Services : s = "auth" \/ s = "user" \/ s \in Consumers
BY DeploymentAssumption DEF Services

LEMMA ServersLemma ==
    /\ Servers("auth") = {"http"}
    /\ Servers("user") = {"http", "grpc"}
    /\ \A c \in Consumers : Servers(c) = {"http", "consumer"}
<1>1. \A c \in Consumers : c # "auth" /\ c # "user"
      BY ServicesLemma
<1> QED  BY <1>1 DEF Servers

LEMMA DeclarationsLemma ==
    /\ Declarations("auth") = <<>> /\ Len(Declarations("auth")) = 0
    /\ Declarations("user") = <<"exchange">> /\ Len(Declarations("user")) = 1
    /\ \A c \in Consumers : Declarations(c) = TopologySteps
                            /\ Len(Declarations(c)) = 7
<1>1. \A c \in Consumers : c # "auth" /\ c # "user"
      BY ServicesLemma
<1>2. Len(TopologySteps) = 7
      BY DEF TopologySteps
<1> QED  BY <1>1, <1>2 DEF Declarations

LEMMA LengthsLemma ==
    ASSUME NEW s \in Services
    PROVE  /\ Len(Declarations(s)) \in 0 .. 7
           /\ Servers(s) \subseteq {"http", "grpc", "consumer"}
BY ServicesLemma, ServersLemma, DeclarationsLemma

(* A consumer that serves has declared everything. *)
LEMMA PartsLemma ==
    ASSUME IInv, NEW c \in Consumers, Serves(c)
    PROVE  /\ Parts \subseteq declared[c]
           /\ retryTTL[c] = RetryTTL(env[c])
<1>1. c \in Services /\ Len(Declarations(c)) = 7
      BY ServicesLemma, DeclarationsLemma
<1>2. ProcInv(c)
      BY <1>1 DEF IInv
<1>3. /\ step[c] = 7
      /\ \A i \in 1 .. 7 : TopologySteps[i] \in declared[c]
      /\ retryTTL[c] = RetryTTL(env[c])
      BY <1>1, <1>2 DEF ProcInv
<1>4. {TopologySteps[1], TopologySteps[2], TopologySteps[3], TopologySteps[4],
       TopologySteps[5], TopologySteps[6], TopologySteps[7]} \subseteq declared[c]
      BY <1>3
<1> QED  BY <1>3, <1>4 DEF TopologySteps, Parts

-----------------------------------------------------------------------------
(* What a step leaves alone *)

SameProc(s) ==
    /\ phase'[s] = phase[s] /\ step'[s] = step[s] /\ link'[s] = link[s]
    /\ draining'[s] = draining[s] /\ forced'[s] = forced[s]
    /\ severed'[s] = severed[s] /\ code'[s] = code[s] /\ env'[s] = env[s]

SameTopology(s) ==
    s \in Consumers => declared'[s] = declared[s] /\ retryTTL'[s] = retryTTL[s]

LEMMA ProcKept ==
    ASSUME NEW s, ProcInv(s), SameProc(s), SameTopology(s)
    PROVE  ProcInv(s)'
BY DEF ProcInv, SameProc, SameTopology, Serves

LEMMA ReqKept ==
    ASSUME NEW r, ReqInv(r), req'[r] = req[r], at'[r] = at[r],
           at[r].service # "none" => SameProc(at[r].service)
    PROVE  ReqInv(r)'
BY DEF ReqInv, SameProc, Serves

(* The broker's side of a connection that ends. *)
LEMMA HangUpLemma ==
    ASSUME IInv, NEW s \in Services, HangUp(s)
    PROVE  /\ UNCHANGED <<exchange, declared, retryTTL, fate, dlq>>
           /\ DOMAIN place' = DOMAIN place
           /\ place' \in [DOMAIN place' -> Places]
           /\ \A k \in DOMAIN place :
                 /\ place'[k] = place[k] \/ place'[k] = "ready"
                 /\ k.queue = s => place'[k] \notin InHand
<1>1. /\ place \in [DOMAIN place -> Places]
      /\ \A k \in DOMAIN place : k.queue \in Consumers
      BY DEF IInv, TypeOK, BrokerTypeOK, Copies
<1>2. CASE s \in Consumers
  <2>1. /\ UNCHANGED <<exchange, declared, retryTTL, fate, dlq>>
        /\ place' = [k \in DOMAIN place |->
                        IF k.queue = s /\ place[k] \in InHand THEN "ready" ELSE place[k]]
        BY <1>2 DEF HangUp, Disconnect, Returned
  <2> QED  BY <1>1, <2>1 DEF Places, InHand
<1>3. CASE s \notin Consumers
  <2>1. UNCHANGED <<exchange, declared, retryTTL, fate, place, dlq>>
        BY <1>3 DEF HangUp, broker
  <2> QED  BY <1>1, <1>3, <2>1
<1> QED  BY <1>2, <1>3

(* The broker's part of the invariant after its side of a connection ended.*)
LEMMA HangUpKeeps ==
    ASSUME IInv, NEW s \in Services, HangUp(s),
           \A t \in Services \ {s} : SameProc(t)
    PROVE  /\ BrokerTypeOK' /\ RetriesInv' /\ FateInv'
           /\ \A k \in DOMAIN place' : CopyInv(k)'
           /\ \A t \in Services : SameTopology(t)
<1>1. /\ UNCHANGED <<exchange, declared, retryTTL, fate, dlq>>
      /\ DOMAIN place' = DOMAIN place
      /\ place' \in [DOMAIN place' -> Places]
      /\ \A k \in DOMAIN place :
            /\ place'[k] = place[k] \/ place'[k] = "ready"
            /\ k.queue = s => place'[k] \notin InHand
      BY HangUpLemma
<1>2. \A k \in DOMAIN place : k.queue \in Services
      BY ServicesLemma DEF IInv, TypeOK, BrokerTypeOK, Copies
<1>3. \A k \in DOMAIN place : CopyInv(k)
      BY DEF IInv
<1>4. \A k \in DOMAIN place' : CopyInv(k)'
      BY <1>1, <1>2, <1>3 DEF CopyInv, Serves, SameProc, InHand
<1>5. BrokerTypeOK'
      BY <1>1 DEF IInv, TypeOK, BrokerTypeOK
<1>6. RetriesInv'
      BY <1>1 DEF IInv, RetriesInv
<1>7. FateInv'
      BY <1>1 DEF IInv, FateInv, Bound
<1> QED  BY <1>1, <1>4, <1>5, <1>6, <1>7 DEF SameTopology

-----------------------------------------------------------------------------
(* A process ends *)

LEMMA EndsLemma ==
    ASSUME IInv, NEW s \in Services, NEW to \in {"down", "stopped"},
           NEW exit \in {0, 1, 2, 143}, Ends(s, to, exit), faults' \in Nat
    PROVE  IInv'
<1>1. /\ phase'    = [phase EXCEPT ![s] = to]
      /\ link'     = [link EXCEPT ![s] = "none"]
      /\ draining' = [draining EXCEPT ![s] = {}]
      /\ forced'   = [forced EXCEPT ![s] = FALSE]
      /\ severed'  = [severed EXCEPT ![s] = FALSE]
      /\ code'     = [code EXCEPT ![s] = exit]
      /\ req' = [r \in Events |-> IF at[r].service = s THEN "cut" ELSE req[r]]
      /\ at'  = [r \in Events |-> IF at[r].service = s THEN Nowhere ELSE at[r]]
      /\ HangUp(s)
      /\ step'     = [step EXCEPT ![s] = 0]
      /\ UNCHANGED <<deployed, env>>
      BY DEF Ends
<1>2. \A t \in Services \ {s} : SameProc(t)
      BY <1>1 DEF IInv, TypeOK, SameProc
<1>3. /\ BrokerTypeOK' /\ RetriesInv' /\ FateInv'
      /\ \A k \in DOMAIN place' : CopyInv(k)'
      /\ \A t \in Services : SameTopology(t)
      BY <1>1, <1>2, HangUpKeeps
<1>4. \A t \in Services \ {s} : ProcInv(t)'
      BY <1>2, <1>3, ProcKept DEF IInv
<1>5. /\ phase'[s] = to /\ link'[s] = "none" /\ draining'[s] = {}
      /\ forced'[s] = FALSE /\ severed'[s] = FALSE
      BY <1>1 DEF IInv, TypeOK
<1>6. ProcInv(s)'
      BY <1>5 DEF ProcInv, Serves
<1>7. ASSUME NEW r \in Events PROVE ReqInv(r)'
  <2>1. CASE at[r].service = s
    <3>1. at'[r] = Nowhere
          BY <1>1, <2>1
    <3> QED  BY <3>1 DEF ReqInv, Nowhere
  <2>2. CASE at[r].service # s
    <3>1. at'[r] = at[r] /\ req'[r] = req[r]
          BY <1>1, <2>2
    <3>2. at[r].service \in Services \cup {"none"} /\ ReqInv(r)
          BY DEF IInv, TypeOK
    <3> QED  BY <1>2, <2>2, <3>1, <3>2, ReqKept
  <2> QED  BY <2>1, <2>2
<1>8. TypeOK'
  <2>1. /\ phase' \in [Services -> Phases] /\ link' \in [Services -> Links]
        /\ draining' \in [Services -> SUBSET {"http", "grpc", "consumer"}]
        /\ forced' \in [Services -> BOOLEAN]
        /\ severed' \in [Services -> BOOLEAN]
        /\ code' \in [Services -> {0, 1, 2, 143}]
        /\ step' \in [Services -> 0 .. 7]
        BY <1>1 DEF IInv, TypeOK, Phases, Links
  <2>2. req' \in [Events -> Stages]
        BY <1>1 DEF IInv, TypeOK, Stages
  <2>3. at' \in [Events -> [service: Services \cup {"none"},
                            server: {"http", "grpc", "none"}]]
        BY <1>1 DEF IInv, TypeOK, Nowhere
  <2> QED  BY <1>1, <1>3, <2>1, <2>2, <2>3 DEF IInv, TypeOK
<1> QED  BY <1>3, <1>4, <1>6, <1>7, <1>8 DEF IInv

-----------------------------------------------------------------------------
(* Steps of one process that leave the broker and the requests alone *)

ProcTypeOK ==
    /\ env      \in [Services -> [Variables -> Settings]]
    /\ phase    \in [Services -> Phases]
    /\ step     \in [Services -> 0 .. 7]
    /\ link     \in [Services -> Links]
    /\ draining \in [Services -> SUBSET {"http", "grpc", "consumer"}]
    /\ forced   \in [Services -> BOOLEAN]
    /\ severed  \in [Services -> BOOLEAN]
    /\ code     \in [Services -> {0, 1, 2, 143}]

LEMMA ProcessLemma ==
    ASSUME IInv, NEW s \in Services,
           UNCHANGED <<broker, deployed, requests>>, faults' \in Nat,
           ProcTypeOK', \A t \in Services \ {s} : SameProc(t),
           ProcInv(s)',
           \A r \in Events : at[r].service = s => ReqInv(r)',
           \A k \in DOMAIN place :
              k.queue = s /\ place[k] \in InHand => link'[s] = "up" /\ Serves(s)'
    PROVE  IInv'
<1>1. UNCHANGED <<exchange, declared, retryTTL, fate, place, dlq, deployed, req, at>>
      BY DEF broker, requests
<1>2. \A t \in Services \ {s} : ProcInv(t)'
      BY <1>1, ProcKept DEF IInv, SameTopology
<1>3. ASSUME NEW r \in Events PROVE ReqInv(r)'
  <2>1. at[r].service \in Services \cup {"none"} /\ ReqInv(r)
        BY DEF IInv, TypeOK
  <2> QED  BY <1>1, <2>1, ReqKept
<1>4. ASSUME NEW k \in DOMAIN place PROVE CopyInv(k)'
  <2>1. k.queue \in Services /\ CopyInv(k)
        BY ServicesLemma DEF IInv, TypeOK, BrokerTypeOK, Copies
  <2>2. CASE k.queue = s
        BY <1>1, <2>1, <2>2 DEF CopyInv, Serves
  <2>3. CASE k.queue # s
        BY <1>1, <2>1, <2>3 DEF CopyInv, Serves, SameProc
  <2> QED  BY <2>2, <2>3
<1>5. BrokerTypeOK' /\ RetriesInv' /\ FateInv'
      BY <1>1 DEF IInv, TypeOK, BrokerTypeOK, RetriesInv, FateInv, Bound
<1>6. TypeOK'
      BY <1>1, <1>5 DEF IInv, TypeOK, ProcTypeOK
<1> QED  BY <1>1, <1>2, <1>3, <1>4, <1>5, <1>6 DEF IInv

(* A process that does not serve has no requests and no deliveries. *)
LEMMA QuietLemma ==
    ASSUME IInv, NEW s \in Services, ~Serves(s)
    PROVE  /\ \A r \in Events : at[r].service # s
           /\ \A k \in DOMAIN place : ~(k.queue = s /\ place[k] \in InHand)
<1>1. \A r \in Events : ReqInv(r) /\ at[r].service \in Services \cup {"none"}
      BY DEF IInv, TypeOK
<1>2. \A k \in DOMAIN place : CopyInv(k)
      BY DEF IInv
<1> QED  BY <1>1, <1>2, ServicesLemma DEF ReqInv, CopyInv

LEMMA StartNext ==
    ASSUME IInv, NEW s \in Services, Start(s) PROVE IInv'
<1>1. /\ phase[s] \in {"down", "stopped"}
      /\ phase' = [phase EXCEPT ![s] = "starting"]
      /\ code' = [code EXCEPT ![s] = 0]
      /\ UNCHANGED <<broker, deployed, env, step, link, draining, forced,
                     severed, requests, faults>>
      BY DEF Start, Running
<1>2. ProcTypeOK' /\ \A t \in Services \ {s} : SameProc(t)
      BY <1>1 DEF IInv, TypeOK, ProcTypeOK, SameProc, Phases
<1>3. phase'[s] = "starting"
      BY <1>1 DEF IInv, TypeOK
<1>4. ProcInv(s)'
      BY <1>1, <1>3 DEF IInv, ProcInv, Serves
<1> QED  BY <1>1, <1>2, <1>4, QuietLemma, ProcessLemma DEF Serves, IInv, TypeOK

LEMMA OpenNext ==
    ASSUME IInv, NEW s \in Services, Open(s) PROVE IInv'
<1>1. phase[s] = "starting" /\ UNCHANGED faults
      BY DEF Open
<1>2. CASE Loads(s, env[s]) /\ Connects(s, env[s])
  <2>1. /\ phase' = [phase EXCEPT ![s] = "declaring"]
        /\ step'  = [step EXCEPT ![s] = 0]
        /\ link'  = [link EXCEPT ![s] = IF UsesBroker(s) THEN "up" ELSE "none"]
        /\ UNCHANGED <<broker, deployed, env, draining, forced, severed, code,
                       requests>>
        BY <1>2 DEF Open
  <2>2. ProcTypeOK' /\ \A t \in Services \ {s} : SameProc(t)
        BY <2>1 DEF IInv, TypeOK, ProcTypeOK, SameProc, Phases, Links
  <2>3. /\ phase'[s] = "declaring" /\ step'[s] = 0 /\ link'[s] \in {"up", "none"}
        /\ draining'[s] = draining[s] /\ forced'[s] = forced[s]
        /\ severed'[s] = severed[s] /\ env'[s] = env[s]
        BY <2>1 DEF IInv, TypeOK
  <2>4. ProcInv(s)'
        BY <1>1, <1>2, <2>3, LengthsLemma DEF IInv, ProcInv, Serves
  <2> QED  BY <1>1, <2>1, <2>2, <2>4, QuietLemma, ProcessLemma DEF Serves, IInv, TypeOK
<1>3. CASE ~(Loads(s, env[s]) /\ Connects(s, env[s]))
  <2>1. Ends(s, "down", 1)
        BY <1>3 DEF Open
  <2> QED  BY <1>1, <2>1, EndsLemma DEF IInv, TypeOK
<1> QED  BY <1>2, <1>3

LEMMA AdvanceLemma ==
    ASSUME IInv, NEW s \in Services, NEW to, Advance(s, to),
           \/ /\ phase[s] = "declaring" /\ step[s] = Len(Declarations(s))
              /\ to = "listening"
           \/ phase[s] = "listening" /\ to = "serving"
    PROVE  IInv'
<1>1. /\ phase' = [phase EXCEPT ![s] = to]
      /\ UNCHANGED <<broker, deployed, env, step, link, draining, forced,
                     severed, code, requests, faults>>
      BY DEF Advance
<1>2. ProcTypeOK' /\ \A t \in Services \ {s} : SameProc(t)
      BY <1>1 DEF IInv, TypeOK, ProcTypeOK, SameProc, Phases
<1>3. phase'[s] = to
      BY <1>1 DEF IInv, TypeOK
<1>4. ProcInv(s)'
  <2>1. UNCHANGED <<declared, retryTTL>>
        BY <1>1 DEF broker
  <2> QED  BY <1>1, <1>3, <2>1 DEF IInv, ProcInv, Serves
<1>5. \A r \in Events : at[r].service = s => ReqInv(r)'
  <2>1. UNCHANGED <<req, at>>
        BY <1>1 DEF requests
  <2> QED  BY <1>1, <1>3, <2>1 DEF IInv, ReqInv, Serves
<1>6. \A k \in DOMAIN place :
         k.queue = s /\ place[k] \in InHand => link'[s] = "up" /\ Serves(s)'
      BY <1>1, <1>3 DEF IInv, CopyInv, Serves
<1> QED  BY <1>1, <1>2, <1>4, <1>5, <1>6, ProcessLemma DEF IInv, TypeOK

LEMMA ListenNext ==
    ASSUME IInv, NEW s \in Services, Listen(s) \/ Notify(s) PROVE IInv'
BY AdvanceLemma DEF Listen, Notify

LEMMA FaultLemma == ASSUME IInv, Fault PROVE faults' \in Nat
BY DEF Fault, IInv, TypeOK

LEMMA StartFailsNext ==
    ASSUME IInv, NEW s \in Services, StartFails(s) \/ Crash(s) PROVE IInv'
BY EndsLemma, FaultLemma DEF StartFails, Crash

-----------------------------------------------------------------------------
(* The shutdown *)

(* Steps of one process in which the broker may lose its connection. *)
LEMMA HangUpStep ==
    ASSUME IInv, NEW s \in Services, HangUp(s),
           UNCHANGED <<deployed, requests>>, faults' \in Nat,
           ProcTypeOK', \A t \in Services \ {s} : SameProc(t),
           SameTopology(s) => ProcInv(s)',
           \A r \in Events : at[r].service = s => ReqInv(r)'
    PROVE  IInv'
<1>1. /\ BrokerTypeOK' /\ RetriesInv' /\ FateInv'
      /\ \A k \in DOMAIN place' : CopyInv(k)'
      /\ \A t \in Services : SameTopology(t)
      BY HangUpKeeps
<1>2. UNCHANGED <<req, at>>
      BY DEF requests
<1>3. \A t \in Services : ProcInv(t)'
      BY <1>1, ProcKept DEF IInv
<1>4. ASSUME NEW r \in Events PROVE ReqInv(r)'
  <2>1. at[r].service \in Services \cup {"none"} /\ ReqInv(r)
        BY DEF IInv, TypeOK
  <2> QED  BY <1>2, <2>1, ReqKept
<1>5. TypeOK'
      BY <1>1, <1>2 DEF IInv, TypeOK, ProcTypeOK
<1> QED  BY <1>1, <1>3, <1>4, <1>5 DEF IInv

LEMMA SignalNext ==
    ASSUME IInv, NEW s \in Services, Signal(s) PROVE IInv'
<1>1. faults' \in Nat
      BY FaultLemma DEF Signal
<1>2. CASE phase[s] = "serving"
  <2>1. /\ phase'    = [phase EXCEPT ![s] = "stopping"]
        /\ draining' = [draining EXCEPT ![s] = Servers(s)]
        /\ code'     = [code EXCEPT ![s] = 0]
        /\ UNCHANGED <<broker, deployed, env, step, link, forced, severed,
                       requests>>
        BY <1>2 DEF Signal
  <2>2. ProcTypeOK' /\ \A t \in Services \ {s} : SameProc(t)
        BY <2>1, LengthsLemma DEF IInv, TypeOK, ProcTypeOK, SameProc, Phases
  <2>3. phase'[s] = "stopping" /\ draining'[s] = Servers(s)
        BY <2>1 DEF IInv, TypeOK
  <2>4. ProcInv(s)'
    <3>1. UNCHANGED <<declared, retryTTL>>
          BY <2>1 DEF broker
    <3> QED  BY <1>2, <2>1, <2>3, <3>1 DEF IInv, ProcInv, Serves
  <2>5. \A r \in Events : at[r].service = s => ReqInv(r)'
    <3>1. UNCHANGED <<req, at>>
          BY <2>1 DEF requests
    <3> QED  BY <2>1, <2>3, <3>1 DEF IInv, ReqInv, Serves
  <2>6. \A k \in DOMAIN place :
           k.queue = s /\ place[k] \in InHand => link'[s] = "up" /\ Serves(s)'
        BY <2>1, <2>3 DEF IInv, CopyInv, Serves
  <2> QED  BY <1>1, <2>1, <2>2, <2>4, <2>5, <2>6, ProcessLemma
<1>3. CASE phase[s] # "serving"
  <2>1. Ends(s, "stopped", 143)
        BY <1>3 DEF Signal
  <2> QED  BY <1>1, <2>1, EndsLemma
<1> QED  BY <1>2, <1>3

(* Steps of the shutdown that concern the process alone. *)
LEMMA StoppingLemma ==
    ASSUME IInv, NEW s \in Services, Stopping(s), UNCHANGED <<broker, link, requests>>,
           ProcTypeOK', \A t \in Services \ {s} : SameProc(t),
           draining'[s] \subseteq draining[s],
           forced[s] => forced'[s],
           severed'[s] => forced'[s],
           code[s] # 0 => code'[s] # 0,
           \A r \in Events :
              at[r].service = s /\ at[r].server \in draining[s] \ draining'[s] =>
                 at[r].server = "http" /\ forced'[s] /\ code'[s] # 0
    PROVE  IInv'
<1>1. phase[s] = "stopping" /\ UNCHANGED <<deployed, env, phase, step, faults>>
      BY DEF Stopping
<1>2. ProcInv(s)'
  <2>1. UNCHANGED <<declared, retryTTL>>
        BY DEF broker
  <2>2. ProcInv(s)
        BY DEF IInv
  <2> QED  BY <1>1, <2>1, <2>2 DEF ProcInv, Serves
<1>3. \A r \in Events : at[r].service = s => ReqInv(r)'
  <2>1. UNCHANGED <<req, at>>
        BY DEF requests
  <2>2. \A r \in Events : ReqInv(r)
        BY DEF IInv
  <2> QED  BY <1>1, <2>1, <2>2 DEF ReqInv, Serves
<1>4. \A k \in DOMAIN place :
         k.queue = s /\ place[k] \in InHand => link'[s] = "up" /\ Serves(s)'
      BY <1>1 DEF IInv, CopyInv, Serves
<1> QED  BY <1>1, <1>2, <1>3, <1>4, ProcessLemma DEF IInv, TypeOK

(* Nothing but Stop severs, and it only comes after the 15 seconds. *)
LEMMA SeveredLate ==
    ASSUME IInv, NEW s \in Services, UNCHANGED severed, forced[s] => forced'[s]
    PROVE  severed'[s] => forced'[s]
BY DEF IInv, ProcInv

LEMMA FinishNext ==
    ASSUME IInv, NEW s \in Services, NEW v \in Servers(s), Finish(s, v) PROVE IInv'
<1>1. /\ Stopping(s) /\ Idle(s, v)
      /\ draining' = [draining EXCEPT ![s] = draining[s] \ {v}]
      /\ UNCHANGED <<broker, link, forced, severed, code, requests>>
      /\ UNCHANGED <<env, phase, step>>
      BY DEF Finish, Stopping
<1>2. draining'[s] = draining[s] \ {v}
      BY <1>1 DEF IInv, TypeOK
<1>3. \A r \in Events :
         at[r].service = s => ~(at[r].server \in draining[s] \ draining'[s])
      BY <1>1, <1>2 DEF Idle, IInv, TypeOK
<1>4. ProcTypeOK' /\ \A t \in Services \ {s} : SameProc(t)
      BY <1>1 DEF IInv, TypeOK, ProcTypeOK, SameProc
<1> QED  BY <1>1, <1>2, <1>3, <1>4, SeveredLate, StoppingLemma

LEMMA StopNext ==
    ASSUME IInv, NEW s \in Services, Stop(s) PROVE IInv'
<1>1. /\ Stopping(s) /\ forced[s]
      /\ severed' = [severed EXCEPT ![s] = TRUE]
      /\ UNCHANGED <<broker, link, draining, forced, code, requests>>
      /\ UNCHANGED <<env, phase, step>>
      BY DEF Stop, Stopping
<1>2. ProcTypeOK' /\ \A t \in Services \ {s} : SameProc(t)
      BY <1>1 DEF IInv, TypeOK, ProcTypeOK, SameProc
<1> QED  BY <1>1, <1>2, StoppingLemma

LEMMA DeadlineNext ==
    ASSUME IInv, NEW s \in Services, Deadline(s) PROVE IInv'
<1>1. /\ Stopping(s)
      /\ forced' = [forced EXCEPT ![s] = TRUE]
      /\ UNCHANGED <<broker, link, draining, severed, code, requests>>
      /\ UNCHANGED <<env, phase, step>>
      BY DEF Deadline, Stopping
<1>2. forced'[s] = TRUE
      BY <1>1 DEF IInv, TypeOK
<1>3. ProcTypeOK' /\ \A t \in Services \ {s} : SameProc(t)
      BY <1>1 DEF IInv, TypeOK, ProcTypeOK, SameProc
<1> QED  BY <1>1, <1>2, <1>3, SeveredLate, StoppingLemma

LEMMA GiveUpNext ==
    ASSUME IInv, NEW s \in Services, NEW v \in Servers(s), GiveUp(s, v) PROVE IInv'
<1>1. /\ Stopping(s) /\ forced[s] /\ v # "grpc"
      /\ draining' = [draining EXCEPT ![s] = draining[s] \ {v}]
      /\ code' = [code EXCEPT ![s] = IF v = "http" THEN 1 ELSE code[s]]
      /\ UNCHANGED <<broker, link, forced, severed, requests>>
      /\ UNCHANGED <<env, phase, step>>
      BY DEF GiveUp, Stopping
<1>2. /\ draining'[s] = draining[s] \ {v}
      /\ code'[s] = IF v = "http" THEN 1 ELSE code[s]
      BY <1>1 DEF IInv, TypeOK
<1>3. ASSUME NEW r \in Events, at[r].service = s,
             at[r].server \in draining[s] \ draining'[s]
      PROVE  at[r].server = "http" /\ forced'[s] /\ code'[s] # 0
  <2>1. at[r].server = v
        BY <1>2, <1>3
  <2>2. at[r].server \in {"http", "grpc", "none"} /\ v \in {"http", "grpc", "consumer"}
        BY LengthsLemma DEF IInv, TypeOK
  <2> QED  BY <1>1, <1>2, <2>1, <2>2
<1>4. ProcTypeOK' /\ \A t \in Services \ {s} : SameProc(t)
      BY <1>1 DEF IInv, TypeOK, ProcTypeOK, SameProc
<1> QED  BY <1>1, <1>2, <1>3, <1>4, SeveredLate, StoppingLemma

LEMMA CloseNext ==
    ASSUME IInv, NEW s \in Services, Close(s) PROVE IInv'
<1>1. /\ phase[s] = "stopping" /\ draining[s] = {} /\ HangUp(s)
      /\ link' = [link EXCEPT ![s] = "closed"]
      /\ UNCHANGED <<deployed, env, phase, step, faults, draining, forced,
                     severed, code, requests>>
      BY DEF Close, Stopping
<1>2. ProcTypeOK' /\ \A t \in Services \ {s} : SameProc(t)
      BY <1>1 DEF IInv, TypeOK, ProcTypeOK, SameProc, Links
<1>3. SameTopology(s) => ProcInv(s)'
      BY <1>1 DEF IInv, ProcInv, SameTopology, Serves
<1>4. \A r \in Events : ReqInv(r)'
  <2>1. UNCHANGED <<req, at>>
        BY <1>1 DEF requests
  <2> QED  BY <1>1, <2>1 DEF IInv, ReqInv, Serves
<1> QED  BY <1>1, <1>2, <1>3, <1>4, HangUpStep DEF IInv, TypeOK

LEMMA LinkLostNext ==
    ASSUME IInv, NEW s \in Services, LinkLost(s) PROVE IInv'
<1>1. /\ Serves(s) /\ HangUp(s) /\ Fault
      /\ link' = [link EXCEPT ![s] = "lost"]
      /\ UNCHANGED <<deployed, env, phase, step, draining, forced, severed,
                     code, requests>>
      BY DEF LinkLost, Serves
<1>2. ProcTypeOK' /\ \A t \in Services \ {s} : SameProc(t)
      BY <1>1 DEF IInv, TypeOK, ProcTypeOK, SameProc, Links
<1>3. link'[s] = "lost"
      BY <1>1 DEF IInv, TypeOK
<1>4. SameTopology(s) => ProcInv(s)'
      BY <1>1, <1>3 DEF IInv, ProcInv, SameTopology, Serves
<1>5. \A r \in Events : ReqInv(r)'
  <2>1. UNCHANGED <<req, at>>
        BY <1>1 DEF requests
  <2> QED  BY <1>1, <2>1 DEF IInv, ReqInv, Serves
<1> QED  BY <1>1, <1>2, <1>4, <1>5, FaultLemma, HangUpStep

LEMMA ExitNext ==
    ASSUME IInv, NEW s \in Services, Exit(s) PROVE IInv'
<1>1. Ends(s, "stopped", code[s]) /\ UNCHANGED faults
      BY DEF Exit
<1>2. code[s] \in {0, 1, 2, 143} /\ faults' \in Nat
      BY <1>1 DEF IInv, TypeOK
<1> QED  BY <1>1, <1>2, EndsLemma

LEMMA ReconfigureNext ==
    ASSUME IInv, NEW s \in Services, NEW v \in Tuned, NEW x \in Settings,
           Reconfigure(s, v, x)
    PROVE  IInv'
<1>1. /\ phase[s] \in {"down", "stopped"} /\ Fault
      /\ env' = [env EXCEPT ![s][v] = x]
      /\ UNCHANGED <<broker, deployed, process, requests>>
      BY DEF Reconfigure, Running
<1>2. UNCHANGED <<phase, step, link, draining, forced, severed, code>>
      BY <1>1 DEF process
<1>3. v \in Variables
      BY DeploymentAssumption
<1>4. ProcTypeOK' /\ \A t \in Services \ {s} : SameProc(t)
      BY <1>1, <1>2, <1>3 DEF IInv, TypeOK, ProcTypeOK, SameProc
<1>5. ProcInv(s)'
      BY <1>1, <1>2 DEF IInv, ProcInv, Serves
<1> QED  BY <1>1, <1>4, <1>5, FaultLemma, QuietLemma, ProcessLemma DEF Serves

-----------------------------------------------------------------------------
(* The path of a copy *)

LEMMA RetriesType ==
    ASSUME NEW c \in Consumers, NEW path \in Seq(Consumers)
    PROVE  /\ IsFiniteSet({i \in DOMAIN path : path[i] = c})
           /\ Retries(c, path) \in Nat
<1>1. Len(path) \in Nat /\ DOMAIN path = 1 .. Len(path)
      BY LenProperties
<1>2. IsFiniteSet(1 .. Len(path))
      BY <1>1, FS_Interval
<1>3. {i \in DOMAIN path : path[i] = c} \in SUBSET (1 .. Len(path))
      BY <1>1
<1>4. IsFiniteSet({i \in DOMAIN path : path[i] = c})
      BY <1>2, <1>3, FS_Subset
<1> QED  BY <1>4, FS_CardinalityType DEF Retries

LEMMA RetriesEmpty ==
    ASSUME NEW c \in Consumers PROVE Retries(c, <<>>) = 0
<1>1. {i \in DOMAIN <<>> : <<>>[i] = c} = {}
      OBVIOUS
<1> QED  BY <1>1, FS_EmptySet DEF Retries

(* Only the consumer whose retry queue it went through counts one more.    *)
LEMMA RetriesAppend ==
    ASSUME NEW c \in Consumers, NEW d \in Consumers, NEW path \in Seq(Consumers)
    PROVE  Retries(c, Append(path, d)) =
              IF c = d THEN Retries(c, path) + 1 ELSE Retries(c, path)
<1> DEFINE n == Len(path)
           longer == Append(path, d)
           A == {i \in DOMAIN path : path[i] = c}
           B == {i \in DOMAIN longer : longer[i] = c}
<1>1. n \in Nat /\ DOMAIN path = 1 .. n
      BY LenProperties
<1>2. /\ DOMAIN longer = 1 .. (n + 1)
      /\ \A i \in 1 .. n : longer[i] = path[i]
      /\ longer[n + 1] = d
      BY AppendProperties, LenProperties
<1>3. IsFiniteSet(A)
      BY RetriesType
<1>4. (n + 1) \notin A
      BY <1>1
<1>5. CASE c = d
  <2>1. B = A \cup {n + 1}
        BY <1>1, <1>2, <1>5
  <2>2. Cardinality(A \cup {n + 1}) = Cardinality(A) + 1
        BY <1>3, <1>4, FS_AddElement
  <2> QED  BY <1>5, <2>1, <2>2 DEF Retries
<1>6. CASE c # d
  <2>1. B = A
        BY <1>1, <1>2, <1>6
  <2> QED  BY <1>6, <2>1 DEF Retries
<1> QED  BY <1>5, <1>6

-----------------------------------------------------------------------------
(* Steps of the broker that leave the processes alone *)

LEMMA BrokerLemma ==
    ASSUME IInv, UNCHANGED <<exchange, declared, retryTTL, deployed, env, process, faults>>,
           BrokerTypeOK', RetriesInv', FateInv',
           \A k \in DOMAIN place' : CopyInv(k)',
           req' \in [Events -> Stages],
           at' \in [Events -> [service: Services \cup {"none"},
                               server: {"http", "grpc", "none"}]],
           \A r \in Events : ReqInv(r)'
    PROVE  IInv'
<1>1. \A s \in Services : SameProc(s) /\ SameTopology(s)
      BY DEF process, SameProc, SameTopology
<1>2. \A s \in Services : ProcInv(s)'
      BY <1>1, ProcKept DEF IInv
<1>3. TypeOK'
      BY DEF IInv, TypeOK, process
<1> QED  BY <1>2, <1>3 DEF IInv

LEMMA RequestsKept ==
    ASSUME IInv, UNCHANGED <<env, process, requests>>
    PROVE  /\ req' \in [Events -> Stages]
           /\ at' \in [Events -> [service: Services \cup {"none"},
                                  server: {"http", "grpc", "none"}]]
           /\ \A r \in Events : ReqInv(r)'
BY ReqKept DEF IInv, TypeOK, process, requests, SameProc

(* What the broker does with a copy that goes somewhere else. *)
LEMMA MoveLemma ==
    ASSUME IInv, NEW k \in DOMAIN place, NEW from, NEW to \in Places \ {"lost"},
           Move(k, from, to), UNCHANGED <<deployed, env, process, requests, faults>>,
           dlq' \in [Consumers -> [Events -> Nat]],
           \A c \in Consumers, e \in Events : dlq[c][e] > 0 => dlq'[c][e] > 0,
           to \in InHand => link[k.queue] = "up" /\ Serves(k.queue),
           to \in {"stored", "parked"} => dlq'[k.queue][k.event] > 0,
           to = "waiting" => Retries(k.queue, k.path) < MaxRetries
    PROVE  IInv'
<1>1. /\ place' = [place EXCEPT ![k] = to]
      /\ UNCHANGED <<exchange, declared, retryTTL, fate>>
      BY DEF Move
<1>2. /\ DOMAIN place' = DOMAIN place /\ place'[k] = to
      /\ \A l \in DOMAIN place \ {k} : place'[l] = place[l]
      /\ place' \in [DOMAIN place' -> Places]
      BY <1>1 DEF IInv, TypeOK, BrokerTypeOK
<1>3. BrokerTypeOK'
      BY <1>1, <1>2 DEF IInv, TypeOK, BrokerTypeOK
<1>4. RetriesInv'
      BY <1>1, <1>2 DEF IInv, RetriesInv
<1>5. FateInv'
      BY <1>1 DEF IInv, FateInv, Bound
<1>6. ASSUME NEW l \in DOMAIN place' PROVE CopyInv(l)'
  <2>1. l \in DOMAIN place /\ l.queue \in Consumers /\ l.event \in Events
        BY <1>2 DEF IInv, TypeOK, BrokerTypeOK, Copies
  <2>2. CopyInv(l) /\ UNCHANGED <<phase, link>>
        BY <2>1 DEF IInv, process
  <2>3. CASE l = k
        BY <1>1, <1>2, <2>2, <2>3 DEF CopyInv, Serves
  <2>4. CASE l # k
        BY <1>1, <1>2, <2>1, <2>2, <2>4 DEF CopyInv, Serves
  <2> QED  BY <2>3, <2>4
<1> QED  BY <1>1, <1>3, <1>4, <1>5, <1>6, RequestsKept, BrokerLemma

LEMMA PickNext ==
    ASSUME IInv, NEW k \in DOMAIN place, Pick(k) PROVE IInv'
<1>1. /\ Move(k, "ready", "out") /\ link[k.queue] = "up" /\ Serves(k.queue)
      /\ UNCHANGED <<deployed, env, process, requests, faults>> /\ UNCHANGED dlq
      BY DEF Pick, Take, Consuming, Serves
<1>2. "out" \in Places \ {"lost"}
      BY DEF Places, InHand
<1>3. dlq \in [Consumers -> [Events -> Nat]]
      BY DEF IInv, TypeOK, BrokerTypeOK
<1> QED  BY <1>1, <1>2, <1>3, MoveLemma

(* A consumer settles only when its topology is complete, so that nothing  *)
(* it dead-letters or parks is dropped.                                    *)
LEMMA SettleMoves ==
    ASSUME IInv, NEW k \in DOMAIN place, Settle(k)
    PROVE  /\ k.queue \in Consumers /\ k.event \in Events
           /\ link[k.queue] = "up" /\ Serves(k.queue)
           /\ \/ /\ UNCHANGED dlq
                 /\ \E to \in {"handled", "waiting", "ready"} :
                       /\ Move(k, "out", to)
                       /\ to = "waiting" => Retries(k.queue, k.path) < MaxRetries
              \/ /\ Move(k, "out", "stored")
                 /\ dlq' = [dlq EXCEPT ![k.queue][k.event] = dlq[k.queue][k.event] + 1]
              \/ Move(k, "stored", "parked") /\ UNCHANGED dlq
<1>1. /\ k.queue \in Consumers /\ k.event \in Events
      /\ link[k.queue] = "up" /\ Serves(k.queue)
      BY DEF Settle, Consuming, Serves, IInv, TypeOK, BrokerTypeOK, Copies
<1>2. "retry.binding" \in declared[k.queue] /\ "dlq" \in declared[k.queue]
      BY <1>1, PartsLemma DEF Parts
<1>3. CASE Ack(k) \/ Nack(k) \/ ParkFailed(k)
      BY <1>1, <1>2, <1>3 DEF Ack, Nack, ParkFailed
<1>4. CASE Park(k)
      BY <1>1, <1>2, <1>4 DEF Park
<1>5. CASE AckParked(k)
      BY <1>1, <1>5 DEF AckParked
<1> QED  BY <1>3, <1>4, <1>5 DEF Settle

LEMMA SettleNext ==
    ASSUME IInv, NEW k \in DOMAIN place, Settle(k) PROVE IInv'
<1>1. UNCHANGED <<deployed, env, process, requests, faults>>
      BY DEF Settle
<1>2. /\ k.queue \in Consumers /\ k.event \in Events
      /\ link[k.queue] = "up" /\ Serves(k.queue)
      BY SettleMoves
<1>3. /\ dlq \in [Consumers -> [Events -> Nat]]
      /\ {"handled", "waiting", "ready", "stored", "parked"} \subseteq Places \ {"lost"}
      BY DEF IInv, TypeOK, BrokerTypeOK, Places, InHand
<1>4. ASSUME UNCHANGED dlq, NEW to \in {"handled", "waiting", "ready"},
             Move(k, "out", to), to = "waiting" => Retries(k.queue, k.path) < MaxRetries
      PROVE  IInv'
  <2>1. to \notin InHand /\ to \notin {"stored", "parked"}
        BY <1>4 DEF InHand
  <2> QED  BY <1>1, <1>3, <1>4, <2>1, MoveLemma
<1>5. CASE /\ Move(k, "out", "stored")
           /\ dlq' = [dlq EXCEPT ![k.queue][k.event] = dlq[k.queue][k.event] + 1]
  <2>1. /\ dlq' \in [Consumers -> [Events -> Nat]]
        /\ \A c \in Consumers, e \in Events : dlq[c][e] > 0 => dlq'[c][e] > 0
        /\ dlq'[k.queue][k.event] > 0
        BY <1>2, <1>3, <1>5
  <2> QED  BY <1>1, <1>2, <1>3, <1>5, <2>1, MoveLemma
<1>6. CASE Move(k, "stored", "parked") /\ UNCHANGED dlq
  <2>1. dlq[k.queue][k.event] > 0
        BY <1>6 DEF Move, IInv, CopyInv
  <2>2. "parked" \notin InHand
        BY DEF InHand
  <2> QED  BY <1>1, <1>3, <1>6, <2>1, <2>2, MoveLemma
<1> QED  BY <1>4, <1>5, <1>6, SettleMoves

(* New copies in the queues that are bound. *)
LEMMA DeliverLemma ==
    ASSUME IInv, NEW e \in Events, NEW path \in Seq(Consumers), NEW gone,
           Deliver(gone, Routed(e, path)),
           UNCHANGED <<exchange, declared, retryTTL, dlq, deployed, env, process>>,
           fate' \in [Events -> Fates],
           Bound # {} => fate'[e] = "routed",
           \A x \in Events : fate[x] = "routed" => fate'[x] = "routed",
           \A x \in Events : fate'[x] = "routed" => Bound # {},
           \A c \in Consumers : Retries(c, path) <= MaxRetries
    PROVE  /\ BrokerTypeOK' /\ RetriesInv' /\ FateInv'
           /\ \A k \in DOMAIN place' : CopyInv(k)'
<1> DEFINE new == Routed(e, path)
<1>1. \A k \in new : /\ k \in Copies /\ k.event = e /\ k.path = path
                     /\ k.queue \in Consumers /\ "binding" \in declared[k.queue]
                     /\ Bound # {}
      BY DEF Routed, Bound, Copies
<1>2. /\ DOMAIN place' = (DOMAIN place \ gone) \cup new
      /\ \A k \in new : place'[k] = "ready"
      /\ \A k \in DOMAIN place' : k \notin new => k \in DOMAIN place /\ place'[k] = place[k]
      BY DEF Deliver
<1> HIDE DEF new
<1>3. place' \in [DOMAIN place' -> Places]
  <2>1. place' = [k \in DOMAIN place' |-> place'[k]]
        BY DEF Deliver
  <2>2. \A k \in DOMAIN place' : place'[k] \in Places
        BY <1>2 DEF IInv, TypeOK, BrokerTypeOK, Places
  <2> QED  BY <2>1, <2>2
<1>4. DOMAIN place' \subseteq Copies
      BY <1>1, <1>2 DEF IInv, TypeOK, BrokerTypeOK
<1>5. RetriesInv'
      BY <1>1, <1>2 DEF IInv, RetriesInv
<1>6. BrokerTypeOK'
  <2>1. \A k \in DOMAIN place' : Retries(k.queue, k.path) <= MaxRetries
        BY <1>4, <1>5 DEF RetriesInv, Copies
  <2> QED  BY <1>3, <1>4, <2>1 DEF IInv, TypeOK, BrokerTypeOK
<1>7. FateInv'
      BY DEF FateInv, Bound
<1>8. \A k \in DOMAIN place' : CopyInv(k)'
      BY <1>1, <1>2 DEF IInv, TypeOK, BrokerTypeOK, Copies, CopyInv, Serves, InHand,
                         process
<1> QED  BY <1>5, <1>6, <1>7, <1>8

LEMMA ExpiresNext ==
    ASSUME IInv, NEW k \in DOMAIN place, Expires(k) PROVE IInv'
<1>1. /\ k.event \in Events /\ k.queue \in Consumers /\ k.path \in Seq(Consumers)
      /\ fate[k.event] = "routed" /\ "binding" \in declared[k.queue]
      BY DEF IInv, TypeOK, BrokerTypeOK, Copies, CopyInv
<1> DEFINE path == Append(k.path, k.queue)
<1>2. /\ place[k] = "waiting" /\ Deliver({k}, Routed(k.event, path))
      /\ UNCHANGED <<exchange, declared, retryTTL, fate, dlq>>
      /\ UNCHANGED <<deployed, env, process, requests, faults>>
      BY DEF Expires, Expire
<1>3. path \in Seq(Consumers)
      BY <1>1, AppendProperties
<1>4. \A c \in Consumers : Retries(c, path) <= MaxRetries
  <2> SUFFICES ASSUME NEW c \in Consumers PROVE Retries(c, path) <= MaxRetries
      OBVIOUS
  <2>1. Retries(c, k.path) \in Nat /\ MaxRetries \in Nat
        BY <1>1, RetriesType, TopologyAssumption
  <2>2. Retries(c, k.path) <= MaxRetries
        BY DEF IInv, RetriesInv
  <2>3. c = k.queue => Retries(c, k.path) < MaxRetries
        BY <1>2 DEF IInv, RetriesInv
  <2>4. Retries(c, path) = IF c = k.queue THEN Retries(c, k.path) + 1
                                          ELSE Retries(c, k.path)
        BY <1>1, RetriesAppend
  <2> HIDE DEF path
  <2> QED  BY <2>1, <2>2, <2>3, <2>4
<1> HIDE DEF path
<1>5. Bound # {}
      BY <1>1 DEF Bound
<1>6. fate' \in [Events -> Fates]
      BY <1>2 DEF IInv, TypeOK, BrokerTypeOK
<1>7. /\ BrokerTypeOK' /\ RetriesInv' /\ FateInv'
      /\ \A l \in DOMAIN place' : CopyInv(l)'
      BY <1>1, <1>2, <1>3, <1>4, <1>5, <1>6, DeliverLemma
<1> QED  BY <1>2, <1>7, RequestsKept, BrokerLemma

-----------------------------------------------------------------------------
(* Requests *)

(* A request moves on, and nothing else does. *)
LEMMA RequestLemma ==
    ASSUME IInv, NEW r \in Events, NEW stage \in Stages,
           NEW place1 \in [service: Services \cup {"none"}, server: {"http", "grpc", "none"}],
           UNCHANGED <<env, process>>,
           Goto(r, stage), at' = [at EXCEPT ![r] = place1],
           ReqInv(r)'
    PROVE  /\ req' \in [Events -> Stages]
           /\ at' \in [Events -> [service: Services \cup {"none"},
                                  server: {"http", "grpc", "none"}]]
           /\ \A q \in Events : ReqInv(q)'
<1>1. req' = [req EXCEPT ![r] = stage]
      BY DEF Goto
<1>2. ASSUME NEW q \in Events \ {r} PROVE ReqInv(q)'
  <2>1. /\ req'[q] = req[q] /\ at'[q] = at[q] /\ ReqInv(q)
        /\ \A s \in Services : SameProc(s)
        /\ at[q].service \in Services \cup {"none"}
        BY <1>1 DEF IInv, TypeOK, process, SameProc
  <2> QED  BY <2>1, ReqKept
<1> QED  BY <1>1, <1>2 DEF IInv, TypeOK

LEMMA SameBroker ==
    ASSUME IInv, UNCHANGED <<broker, deployed, env, process, faults>>,
           req' \in [Events -> Stages],
           at' \in [Events -> [service: Services \cup {"none"},
                               server: {"http", "grpc", "none"}]],
           \A r \in Events : ReqInv(r)'
    PROVE  IInv'
<1>1. UNCHANGED <<exchange, declared, retryTTL, fate, place, dlq>>
      BY DEF broker
<1>2. BrokerTypeOK' /\ RetriesInv' /\ FateInv'
      BY <1>1 DEF IInv, TypeOK, BrokerTypeOK, RetriesInv, FateInv, Bound
<1>3. \A k \in DOMAIN place' : CopyInv(k)'
      BY <1>1 DEF IInv, CopyInv, Serves, process
<1> QED  BY <1>1, <1>2, <1>3, BrokerLemma

LEMMA NowhereLemma ==
    Nowhere \in [service: Services \cup {"none"}, server: {"http", "grpc", "none"}]
BY DEF Nowhere

LEMMA AcceptNext ==
    ASSUME IInv, NEW s \in Services, NEW r \in Events, NEW v \in Servers(s),
           Accept(r, s, v)
    PROVE  IInv'
<1> DEFINE there == [service |-> s, server |-> v]
<1>1. /\ phase[s] \in {"listening", "serving"} /\ v \in Servers(s) \ {"consumer"}
      /\ Goto(r, "open") /\ at' = [at EXCEPT ![r] = there]
      /\ UNCHANGED <<broker, deployed, env, process, faults>>
      BY DEF Accept
<1>2. there \in [service: Services \cup {"none"}, server: {"http", "grpc", "none"}]
      BY <1>1, LengthsLemma
<1>3. ReqInv(r)'
  <2>1. req'[r] = "open" /\ at'[r] = there
        BY <1>1 DEF Goto, IInv, TypeOK
  <2>2. phase'[s] = phase[s]
        BY <1>1 DEF process
  <2> QED  BY <1>1, <2>1, <2>2, ServicesLemma DEF ReqInv, Serves, InFlight
<1>4. "open" \in Stages
      BY DEF Stages
<1>5. /\ req' \in [Events -> Stages]
      /\ at' \in [Events -> [service: Services \cup {"none"},
                             server: {"http", "grpc", "none"}]]
      /\ \A q \in Events : ReqInv(q)'
  <2> HIDE DEF there
  <2> QED  BY <1>1, <1>2, <1>3, <1>4, RequestLemma
<1> QED  BY <1>1, <1>5, SameBroker

(* The handler returns. *)
LEMMA OverLemma ==
    ASSUME IInv, NEW r \in Events, Over(r), UNCHANGED <<env, process>>
    PROVE  /\ req' \in [Events -> Stages]
           /\ at' \in [Events -> [service: Services \cup {"none"},
                                  server: {"http", "grpc", "none"}]]
           /\ \A q \in Events : ReqInv(q)'
<1> DEFINE outcome == IF Unheard(r) THEN "cut" ELSE "answered"
<1>1. Goto(r, outcome) /\ at' = [at EXCEPT ![r] = Nowhere]
      BY DEF Over
<1>2. ReqInv(r)'
  <2>1. at'[r] = Nowhere
        BY <1>1 DEF IInv, TypeOK
  <2> QED  BY <2>1 DEF ReqInv, Nowhere
<1>3. outcome \in Stages
      BY DEF Stages
<1> HIDE DEF outcome
<1> QED  BY <1>1, <1>2, <1>3, NowhereLemma, RequestLemma

LEMMA AnswerNext ==
    ASSUME IInv, NEW r \in Events, Answer(r) PROVE IInv'
BY OverLemma, SameBroker DEF Answer

LEMMA CreateUserNext ==
    ASSUME IInv, NEW r \in Events, CreateUser(r) PROVE IInv'
<1>1. /\ req[r] = "open" /\ at[r].service = "user"
      /\ UNCHANGED <<deployed, env, process, at, faults>>
      BY DEF CreateUser
<1>2. ASSUME NEW stage \in {"done", "silent"}, Goto(r, stage)
      PROVE  /\ req' \in [Events -> Stages]
             /\ at' \in [Events -> [service: Services \cup {"none"},
                                    server: {"http", "grpc", "none"}]]
             /\ \A q \in Events : ReqInv(q)'
  <2>1. at' = [at EXCEPT ![r] = at[r]]
        BY <1>1 DEF IInv, TypeOK
  <2>2. at[r] \in [service: Services \cup {"none"}, server: {"http", "grpc", "none"}]
        BY DEF IInv, TypeOK
  <2>3. ReqInv(r)'
    <3>1. req'[r] = stage /\ at'[r] = at[r]
          BY <1>1, <1>2 DEF Goto, IInv, TypeOK
    <3>2. ReqInv(r) /\ UNCHANGED <<phase, draining, forced, code>>
          BY <1>1 DEF IInv, process
    <3> QED  BY <1>1, <3>1, <3>2 DEF ReqInv, Serves, InFlight
  <2>4. stage \in Stages
        BY DEF Stages
  <2> QED  BY <1>1, <1>2, <2>1, <2>2, <2>3, <2>4, RequestLemma
<1>3. CASE Publish(r) /\ Goto(r, "done")
  <2>1. /\ Goto(r, "done") /\ fate[r] = "unpublished"
        /\ fate' = [fate EXCEPT ![r] = IF Bound = {} THEN "unrouted" ELSE "routed"]
        /\ Deliver({}, Routed(r, <<>>))
        /\ UNCHANGED <<exchange, declared, retryTTL, dlq>>
        BY <1>3 DEF Publish
  <2>2. <<>> \in Seq(Consumers) /\ \A c \in Consumers : Retries(c, <<>>) <= MaxRetries
        BY RetriesEmpty, TopologyAssumption
  <2>3. /\ fate' \in [Events -> Fates]
        /\ Bound # {} => fate'[r] = "routed"
        /\ \A x \in Events : fate[x] = "routed" => fate'[x] = "routed"
        /\ \A x \in Events : fate'[x] = "routed" => Bound # {}
        BY <2>1 DEF IInv, FateInv, TypeOK, BrokerTypeOK, Fates
  <2>4. /\ BrokerTypeOK' /\ RetriesInv' /\ FateInv'
        /\ \A l \in DOMAIN place' : CopyInv(l)'
        BY <1>1, <2>1, <2>2, <2>3, DeliverLemma
  <2> QED  BY <1>1, <1>2, <2>1, <2>4, BrokerLemma
<1>4. CASE UNCHANGED broker /\ Goto(r, "silent")
      BY <1>1, <1>2, <1>4, SameBroker
<1> QED  BY <1>3, <1>4 DEF CreateUser

-----------------------------------------------------------------------------
(* Declarations *)

(* What the broker and the other processes keep when a part is declared.   *)
LEMMA GrowLemma ==
    ASSUME IInv, NEW s \in Services, phase[s] = "declaring",
           UNCHANGED <<fate, place, dlq>>, exchange' \in BOOLEAN,
           declared' \in [Consumers -> SUBSET Parts], retryTTL' \in [Consumers -> TTLs],
           \A c \in Consumers : declared[c] \subseteq declared'[c],
           \A t \in Services \ {s} : SameTopology(t),
           step[s] < Len(Declarations(s)),
           step' = [step EXCEPT ![s] = step[s] + 1],
           UNCHANGED <<deployed, env, phase, link, draining, forced, severed, code,
                       requests, faults>>,
           s \in Consumers =>
              /\ TopologySteps[step[s] + 1] \in declared'[s]
              /\ step[s] + 1 >= 5 => retryTTL'[s] = RetryTTL(env[s])
    PROVE  IInv'
<1>1. \A t \in Services \ {s} : SameProc(t) /\ ProcInv(t)'
  <2>1. \A t \in Services \ {s} : SameProc(t)
        BY DEF IInv, TypeOK, SameProc
  <2> QED  BY <2>1, ProcKept DEF IInv
<1>2. /\ step[s] \in 0 .. 7 /\ Len(Declarations(s)) \in 0 .. 7
      /\ step'[s] = step[s] + 1
      BY LengthsLemma DEF IInv, TypeOK
<1>3. ProcInv(s)'
  <2>1. ProcInv(s)
        BY DEF IInv
  <2>2. s \in Consumers => \A i \in 1 .. step[s] + 1 : TopologySteps[i] \in declared'[s]
    <3> SUFFICES ASSUME s \in Consumers, NEW i \in 1 .. step[s] + 1
                 PROVE  TopologySteps[i] \in declared'[s]
        OBVIOUS
    <3>1. CASE i = step[s] + 1
          BY <3>1
    <3>2. CASE i \in 1 .. step[s]
      <4>1. TopologySteps[i] \in declared[s]
            BY <2>1, <3>2 DEF ProcInv
      <4> QED  BY <4>1
    <3> QED  BY <1>2, <3>1, <3>2
  <2> QED  BY <1>2, <2>1, <2>2 DEF ProcInv, Serves
<1>4. step' \in [Services -> 0 .. 7]
  <2>1. step[s] + 1 \in 0 .. 7
    <3> DEFINE n == Len(Declarations(s))
    <3>1. step[s] \in 0 .. 7 /\ n \in 0 .. 7 /\ step[s] < n
          BY <1>2
    <3> HIDE DEF n
    <3> QED  BY <3>1
  <2> QED  BY <2>1 DEF IInv, TypeOK
<1>5. BrokerTypeOK'
      BY DEF IInv, TypeOK, BrokerTypeOK
<1>6. RetriesInv' /\ FateInv'
      BY DEF IInv, RetriesInv, FateInv, Bound
<1>7. \A k \in DOMAIN place' : CopyInv(k)'
      BY DEF IInv, TypeOK, BrokerTypeOK, Copies, CopyInv, Serves
<1>8. \A r \in Events : ReqInv(r)'
      BY DEF IInv, ReqInv, Serves, requests
<1>9. TypeOK'
      BY <1>4, <1>5 DEF IInv, TypeOK, requests
<1> QED  BY <1>1, <1>3, <1>6, <1>7, <1>8, <1>9 DEF IInv

LEMMA StepsLemma ==
    /\ \A i \in 1 .. 7 : TopologySteps[i] \in Parts
    /\ TopologySteps[5] = "retry"
<1>1. TopologySteps \in [1 .. 7 -> Parts]
      BY DEF TopologySteps, Parts
<1> QED  BY <1>1 DEF TopologySteps

LEMMA DeclareNextNext ==
    ASSUME IInv, NEW s \in Services, DeclareNext(s) PROVE IInv'
<1> DEFINE part == Declarations(s)[step[s] + 1]
           ttl == RetryTTL(env[s])
<1>1. /\ phase[s] = "declaring" /\ step[s] < Len(Declarations(s))
      /\ UNCHANGED faults
      BY DEF DeclareNext
<1>2. CASE s \in Consumers /\ Refused(s, part, ttl)
  <2>1. Ends(s, "down", 1)
        BY <1>2 DEF DeclareNext
  <2> QED  BY <1>1, <2>1, EndsLemma DEF IInv, TypeOK
<1>3. CASE ~(s \in Consumers /\ Refused(s, part, ttl))
  <2>1. /\ step' = [step EXCEPT ![s] = step[s] + 1]
        /\ UNCHANGED <<deployed, env, phase, link, draining, forced, severed,
                       code, requests>>
        BY <1>3 DEF DeclareNext
  <2>2. CASE s \in Consumers
    <3>1. Declare(s, part, ttl)
          BY <1>3, <2>2 DEF DeclareNext
    <3>2. step[s] \in 0 .. 6 /\ part = TopologySteps[step[s] + 1] /\ part \in Parts
      <4>1. step[s] \in 0 .. 7 /\ step[s] < 7
            BY <1>1, <2>2, DeclarationsLemma DEF IInv, TypeOK
      <4>2. step[s] + 1 \in 1 .. 7
            BY <4>1
      <4> QED  BY <2>2, <4>1, <4>2, StepsLemma, DeclarationsLemma
    <3>3. ttl \in TTLs
          BY DEF RetryTTL, EnvDuration, TTLs
    <3> HIDE DEF part, ttl
    <3>4. /\ exchange' \in BOOLEAN
          /\ declared' = [declared EXCEPT ![s] = declared[s] \cup {part}]
          /\ retryTTL' = IF part = "retry" THEN [retryTTL EXCEPT ![s] = ttl] ELSE retryTTL
          /\ UNCHANGED <<fate, place, dlq>>
          BY <3>1 DEF Declare, IInv, TypeOK, BrokerTypeOK
    <3>5. /\ declared' \in [Consumers -> SUBSET Parts]
          /\ retryTTL' \in [Consumers -> TTLs]
          /\ \A c \in Consumers : declared[c] \subseteq declared'[c]
          /\ \A t \in Services \ {s} : SameTopology(t)
          /\ part \in declared'[s]
          BY <2>2, <3>2, <3>3, <3>4 DEF IInv, TypeOK, BrokerTypeOK, SameTopology
    <3>6. step[s] + 1 >= 5 => retryTTL'[s] = ttl
      <4>1. CASE part = "retry"
            BY <2>2, <3>4, <4>1 DEF IInv, TypeOK, BrokerTypeOK
      <4>2. CASE part # "retry"
        <5>1. step[s] + 1 # 5
              BY <3>2, <4>2, StepsLemma
        <5>2. step[s] >= 5 => retryTTL[s] = ttl
              BY <1>1, <2>2 DEF IInv, ProcInv, ttl
        <5> QED  BY <3>2, <3>4, <4>2, <5>1, <5>2
      <4> QED  BY <4>1, <4>2
    <3> QED  BY <1>1, <2>1, <2>2, <3>2, <3>4, <3>5, <3>6, GrowLemma DEF ttl
  <2>3. CASE s \notin Consumers
    <3>1. exchange' = TRUE /\ UNCHANGED <<declared, retryTTL, fate, place, dlq>>
          BY <1>3, <2>3 DEF DeclareNext, DeclareExchange
    <3>2. /\ declared' \in [Consumers -> SUBSET Parts]
          /\ retryTTL' \in [Consumers -> TTLs]
          BY <3>1 DEF IInv, TypeOK, BrokerTypeOK
    <3> QED  BY <1>1, <2>1, <2>3, <3>1, <3>2, GrowLemma DEF SameTopology
  <2> QED  BY <2>2, <2>3
<1> QED  BY <1>2, <1>3

-----------------------------------------------------------------------------
LEMMA InitInv == Init => IInv
<1> SUFFICES ASSUME Init PROVE IInv
    OBVIOUS
<1>1. /\ deployed \in SUBSET Services
      /\ env \in [Services -> [Variables -> Settings]]
      /\ faults \in Nat
      BY DeploymentAssumption DEF Init
<1>2. DOMAIN place = {} /\ place \in [DOMAIN place -> Places]
      BY DEF Init, BrokerInit
<1>3. BrokerTypeOK
      BY <1>2 DEF Init, BrokerInit, BrokerTypeOK, TTLs, Fates
<1>4. TypeOK
      BY <1>1, <1>3, NowhereLemma DEF Init, TypeOK, Phases, Links, Stages
<1>5. \A s \in Services : ProcInv(s)
      BY DEF Init, ProcInv, Serves
<1>6. \A r \in Events : ReqInv(r)
      BY DEF Init, ReqInv, Nowhere
<1>7. RetriesInv /\ FateInv /\ \A k \in DOMAIN place : CopyInv(k)
      BY <1>2 DEF RetriesInv, FateInv, Init, BrokerInit
<1> QED  BY <1>4, <1>5, <1>6, <1>7 DEF IInv

LEMMA IInvNext == IInv /\ [Next]_vars => IInv'
<1> SUFFICES ASSUME IInv, [Next]_vars PROVE IInv'
    OBVIOUS
<1>1. CASE UNCHANGED vars
  <2>1. UNCHANGED <<broker, deployed, env, process, requests, faults>>
        BY <1>1 DEF vars, broker, process, requests
  <2> QED  BY <2>1, RequestsKept, SameBroker
<1>2. ASSUME NEW s \in Services,
             \/ Start(s) \/ Open(s) \/ DeclareNext(s) \/ Listen(s) \/ Notify(s)
             \/ StartFails(s) \/ Crash(s)
      PROVE  IInv'
      BY <1>2, StartNext, OpenNext, DeclareNextNext, ListenNext, StartFailsNext
<1>3. ASSUME NEW s \in Services,
             \/ Signal(s) \/ Deadline(s) \/ Stop(s) \/ Close(s) \/ Exit(s)
             \/ LinkLost(s)
             \/ \E v \in Servers(s) : Finish(s, v) \/ GiveUp(s, v)
      PROVE  IInv'
      BY <1>3, SignalNext, DeadlineNext, StopNext, CloseNext, ExitNext, LinkLostNext,
         FinishNext, GiveUpNext
<1>4. ASSUME NEW s \in Services,
             \/ \E r \in Events, v \in Servers(s) : Accept(r, s, v)
             \/ \E v \in Tuned, x \in Settings : Reconfigure(s, v, x)
      PROVE  IInv'
      BY <1>4, AcceptNext, ReconfigureNext
<1>5. ASSUME NEW r \in Events, CreateUser(r) \/ Answer(r) PROVE IInv'
      BY <1>5, CreateUserNext, AnswerNext
<1>6. ASSUME NEW k \in DOMAIN place, Pick(k) \/ Settle(k) \/ Expires(k) PROVE IInv'
      BY <1>6, PickNext, SettleNext, ExpiresNext
<1> QED  BY <1>1, <1>2, <1>3, <1>4, <1>5, <1>6 DEF Next

(* The invariant holds of every run. *)
THEOREM IInvHolds == Spec => []IInv
<1>1. Init => IInv
      BY InitInv
<1>2. IInv /\ [Next]_vars => IInv'
      BY IInvNext
<1> QED  BY <1>1, <1>2, PTL DEF Spec

-----------------------------------------------------------------------------
(* The theorems *)

(* Every variable keeps its type, and no copy of an event is retried more  *)
(* than MaxRetries times by one consumer, however many share the exchange. *)
THEOREM TypeCorrect == Spec => []TypeOK
<1>1. IInv => TypeOK
      BY DEF IInv
<1> QED  BY <1>1, IInvHolds, PTL

(* A service that serves has good settings, and its retry queue the delay  *)
(* it was configured with, whatever was changed while it was down.         *)
THEOREM ServesAsConfigured == Spec => []RunsAsConfigured
<1>1. IInv => RunsAsConfigured
  <2> SUFFICES ASSUME IInv, NEW s \in Services, Serves(s)
               PROVE  /\ \A v \in Required(s) \ Unchecked : env[s][v] = "good"
                      /\ s \in Consumers => retryTTL[s] = RetryTTL(env[s])
      BY DEF RunsAsConfigured, Serves
  <2>1. Loads(s, env[s]) /\ Connects(s, env[s])
        BY DEF IInv, ProcInv
  <2>2. \A v \in Required(s) \cap Ports : env[s][v] = "good"
        BY <2>1 DEF Loads, EnvInt
  <2>3. CASE s = "auth"
    <3>1. s \notin Consumers /\ Required(s) = AuthVars
          BY <2>3, ServicesLemma DEF Required
    <3>2. KeyLoads(env[s]) /\ RedisOpens(env[s])
          BY <2>1, <2>3 DEF Loads, Connects
    <3> QED  BY <2>2, <3>1, <3>2
             DEF KeyLoads, RedisOpens, Unchecked, Ports, AuthVars, RedisVars, JWTVars
  <2>4. CASE s = "user"
    <3>1. s # "auth" /\ s \notin Consumers /\ Required(s) = UserVars
          BY <2>4, ServicesLemma DEF Required
    <3>2. DatabaseOpens(env[s]) /\ Dials(env[s])
          BY <2>1, <3>1 DEF Connects
    <3> QED  BY <2>2, <3>1, <3>2 DEF DatabaseOpens, Dials, Ports, UserVars
  <2>5. CASE s \in Consumers
    <3>1. s # "auth" /\ s # "user"
          BY <2>5, ServicesLemma
    <3>2. Required(s) = NotificationVars
          BY <3>1 DEF Required
    <3>3. DatabaseOpens(env[s]) /\ Dials(env[s])
          BY <2>1, <3>1 DEF Connects
    <3>4. \A v \in Required(s) \ Unchecked : env[s][v] = "good"
          BY <2>2, <3>2, <3>3 DEF DatabaseOpens, Dials, Ports, NotificationVars, Unchecked
    <3> QED  BY <2>5, <3>4, PartsLemma
  <2> QED  BY <2>3, <2>4, <2>5, ServicesLemma
<1> QED  BY <1>1, IInvHolds, PTL

(* No delivery is in the hand of a process that has no connection, or not  *)
(* all of its topology.                                                    *)
THEOREM DeliveriesAreConsumed == Spec => []OutMeansConsuming
<1>1. IInv => OutMeansConsuming
  <2> SUFFICES ASSUME IInv, NEW k \in DOMAIN place, place[k] \in InHand
               PROVE  Consuming(k.queue) /\ Complete(k.queue)
      BY DEF OutMeansConsuming
  <2>1. k.queue \in Consumers /\ link[k.queue] = "up" /\ Serves(k.queue)
        BY DEF IInv, CopyInv, TypeOK, BrokerTypeOK, Copies
  <2> QED  BY <2>1, PartsLemma DEF Consuming, Complete, Serves, Parts
<1> QED  BY <1>1, IInvHolds, PTL

(* The connection is not closed under a handler that may still publish,    *)
(* unless that handler outlived the 15 seconds.                            *)
THEOREM LinkClosedLast == Spec => []LinkOutlivesHandlers
<1>1. IInv => LinkOutlivesHandlers
  <2> SUFFICES ASSUME IInv, NEW r \in Events, NEW s \in Services,
                      at[r].service = s, link[s] = "closed"
               PROVE  at[r].server = "http" /\ forced[s]
      BY DEF LinkOutlivesHandlers
  <2> QED  BY ServicesLemma DEF IInv, ProcInv, ReqInv
<1> QED  BY <1>1, IInvHolds, PTL

(* A process that exits with 0 has cut off no HTTP request, and RPCs only  *)
(* by Stop, after the 15 seconds.                                          *)
THEOREM CutMeansFailure == Spec => CleanExit
<1>1. ASSUME IInv, [Next]_vars, NEW r \in Events, NEW s \in Services,
             at[r].service = s, req[r] # "cut", req'[r] = "cut"
      PROVE  code'[s] # 0 \/ (at[r].server = "grpc" /\ forced[s])
  <2> DEFINE Excused == at[r].server = "grpc" /\ forced[s]
  <2>1. ASSUME NEW t \in Services, NEW to, NEW exit, Ends(t, to, exit)
        PROVE  s = t /\ code'[s] = exit
        BY <1>1, <2>1 DEF Ends, IInv, TypeOK
  <2>2. ASSUME NEW q \in Events, NEW stage \in Stages \ {"cut"}, Goto(q, stage)
        PROVE  FALSE
        BY <1>1, <2>2 DEF Goto, IInv, TypeOK
  <2>3. req' # req
        BY <1>1
  <2>4. ASSUME NEW t \in Services, Open(t) \/ DeclareNext(t) \/ StartFails(t) \/ Crash(t)
        PROVE  code'[s] # 0
        BY <2>1, <2>3, <2>4 DEF Open, DeclareNext, StartFails, Crash, requests
  <2>5. ASSUME NEW t \in Services, Signal(t) PROVE code'[s] # 0
        BY <2>1, <2>3, <2>5 DEF Signal, requests
  <2>6. ASSUME NEW t \in Services, Exit(t) PROVE code'[s] # 0
    <3>1. s = t /\ code'[s] = code[t]
          BY <2>1, <2>6 DEF Exit
    <3>2. phase[s] = "stopping" /\ draining[s] = {}
          BY <2>6, <3>1 DEF Exit
    <3>3. code[s] # 0
          BY <1>1, <3>2, ServicesLemma DEF IInv, ReqInv
    <3> QED  BY <3>1, <3>3
  <2>7. ASSUME NEW t \in Services,
               \/ Start(t) \/ Listen(t) \/ Notify(t) \/ Deadline(t) \/ Stop(t)
               \/ Close(t) \/ LinkLost(t)
               \/ \E v \in Servers(t) : Finish(t, v) \/ GiveUp(t, v)
               \/ \E v \in Tuned, x \in Settings : Reconfigure(t, v, x)
        PROVE  FALSE
        BY <2>3, <2>7 DEF Start, Listen, Notify, Advance, Deadline, Stop, Close,
                          LinkLost, Finish, GiveUp, Reconfigure, requests
  <2>8. ASSUME NEW t \in Services, NEW q \in Events, NEW v \in Servers(t),
               Accept(q, t, v)
        PROVE  FALSE
        BY <2>2, <2>8 DEF Accept, Stages
  <2>9. ASSUME NEW q \in Events, CreateUser(q) PROVE FALSE
        BY <2>2, <2>9 DEF CreateUser, Stages
  <2>10. ASSUME NEW q \in Events, Answer(q) PROVE Excused
    <3>1. Goto(q, IF Unheard(q) THEN "cut" ELSE "answered")
          BY <2>10 DEF Answer, Over
    <3>2. q = r
          BY <1>1, <3>1 DEF Goto, IInv, TypeOK
    <3>3. Unheard(r)
          BY <2>2, <3>1, <3>2 DEF Stages
    <3> QED  BY <1>1, <3>3 DEF Unheard, IInv, ProcInv
  <2>11. ASSUME NEW k \in DOMAIN place, Pick(k) \/ Settle(k) \/ Expires(k) PROVE FALSE
        BY <2>3, <2>11 DEF Pick, Settle, Expires, requests
  <2>12. CASE UNCHANGED vars
        BY <2>3, <2>12 DEF vars
  <2> QED  BY <1>1, <2>4, <2>5, <2>6, <2>7, <2>8, <2>9, <2>10, <2>11, <2>12 DEF Next
<1>2. IInv /\ [Next]_vars =>
         [\A r \in Events : \A s \in Services :
            at[r].service = s /\ req[r] # "cut" /\ req'[r] = "cut" =>
               code'[s] # 0 \/ (at[r].server = "grpc" /\ forced[s])]_vars
      BY <1>1
<1> QED  BY <1>2, IInvHolds, PTL DEF Spec, CleanExit

(* Events and copies are only added or taken away in two ways. *)
LEMMA FrameLemma ==
    ASSUME IInv, [Next]_vars
    PROVE  \/ UNCHANGED fate /\ DOMAIN place' = DOMAIN place
           \/ \E r \in Events : Publish(r)
           \/ \E k \in DOMAIN place : Expire(k)
<1> DEFINE Same == UNCHANGED fate /\ DOMAIN place' = DOMAIN place
<1>1. ASSUME NEW s \in Services, HangUp(s) PROVE Same
      BY <1>1, HangUpLemma
<1>2. UNCHANGED broker => Same
      BY DEF broker
<1>3. ASSUME NEW s \in Services,
             \/ Start(s) \/ Listen(s) \/ Notify(s) \/ Deadline(s) \/ Stop(s)
             \/ Open(s) \/ DeclareNext(s) \/ StartFails(s) \/ Crash(s) \/ Signal(s)
             \/ Exit(s) \/ Close(s) \/ LinkLost(s)
      PROVE  Same
  <2>1. CASE Start(s) \/ Listen(s) \/ Notify(s) \/ Deadline(s) \/ Stop(s)
        BY <1>2, <2>1 DEF Start, Listen, Notify, Advance, Deadline, Stop
  <2>2. ASSUME NEW to, NEW exit, Ends(s, to, exit) PROVE Same
        BY <1>1, <2>2 DEF Ends
  <2> HIDE DEF Same
  <2>3. CASE Open(s) \/ StartFails(s) \/ Crash(s) \/ Signal(s) \/ Exit(s)
        BY <1>2, <2>2, <2>3 DEF Open, StartFails, Crash, Signal, Exit
  <2>4. CASE DeclareNext(s)
        BY <2>2, <2>4 DEF DeclareNext, Declare, DeclareExchange, Same
  <2>5. CASE Close(s) \/ LinkLost(s)
        BY <1>1, <2>5 DEF Close, LinkLost
  <2> QED  BY <1>3, <2>1, <2>3, <2>4, <2>5
<1>4. ASSUME NEW s \in Services,
             \/ \E v \in Servers(s) : Finish(s, v) \/ GiveUp(s, v)
             \/ \E v \in Tuned, y \in Settings : Reconfigure(s, v, y)
             \/ \E r \in Events, v \in Servers(s) : Accept(r, s, v)
      PROVE  Same
      BY <1>2, <1>4 DEF Finish, GiveUp, Reconfigure, Accept
<1>5. ASSUME NEW r \in Events, CreateUser(r) \/ Answer(r) PROVE Publish(r) \/ Same
      BY <1>2, <1>5 DEF CreateUser, Answer
<1>6. ASSUME NEW k \in DOMAIN place, Pick(k) \/ Settle(k) PROVE Same
      BY <1>6 DEF Pick, Take, Settle, Ack, Nack, Park, ParkFailed, AckParked,
                  Move
<1>7. ASSUME NEW k \in DOMAIN place, Expires(k) PROVE Expire(k)
      BY <1>7 DEF Expires
<1>8. CASE UNCHANGED vars
      BY <1>8 DEF vars
<1>9. CASE Next
      BY <1>3, <1>4, <1>5, <1>6, <1>7, <1>9 DEF Next
<1> QED  BY <1>8, <1>9

(* Once one event found its way to a queue, every later one does.          *)
THEOREM MissedOnlyBefore == Spec => NoneMissedOnceBound
<1>1. ASSUME IInv, [Next]_vars, NEW x \in Events, fate[x] = "routed",
             NEW e \in Events, fate'[e] = "unrouted"
      PROVE  fate[e] = "unrouted"
  <2>1. Bound # {}
        BY <1>1 DEF IInv, FateInv
  <2>2. CASE UNCHANGED fate
        BY <1>1, <2>2
  <2>3. ASSUME NEW r \in Events, Publish(r) PROVE fate[e] = "unrouted"
        BY <1>1, <2>1, <2>3 DEF Publish, IInv, TypeOK, BrokerTypeOK
  <2>4. ASSUME NEW k \in DOMAIN place, Expire(k) PROVE UNCHANGED fate
        BY <2>4 DEF Expire
  <2> QED  BY <1>1, <2>2, <2>3, <2>4, FrameLemma
<1>2. IInv /\ [Next]_vars =>
         [(\E e \in Events : fate[e] = "routed") =>
            \A e \in Events : fate'[e] = "unrouted" => fate[e] = "unrouted"]_broker
      BY <1>1
<1> QED  BY <1>2, IInvHolds, PTL DEF Spec, NoneMissedOnceBound

(* With one queue, an event that was routed has one copy. *)
Single ==
    /\ \A e \in Events : fate[e] = "routed" => \E k \in DOMAIN place : k.event = e
    /\ \A k, l \in DOMAIN place : k.event = l.event => k = l

LEMMA SingleNext ==
    ASSUME NEW c, Consumers = {c}, IInv, Single, [Next]_vars PROVE Single'
<1>1. CASE UNCHANGED fate /\ DOMAIN place' = DOMAIN place
      BY <1>1 DEF Single
<1>2. \A e \in Events : \A path : Bound # {} =>
         Routed(e, path) = {[event |-> e, queue |-> c, path |-> path]}
  <2>1. Bound # {} => Bound = {c}
        BY DEF Bound
  <2> QED  BY <2>1 DEF Routed
<1>3. ASSUME NEW r \in Events, Publish(r) PROVE Single'
  <2>1. /\ fate[r] = "unpublished"
        /\ fate' = [fate EXCEPT ![r] = IF Bound = {} THEN "unrouted" ELSE "routed"]
        /\ DOMAIN place' = DOMAIN place \cup Routed(r, <<>>)
        BY <1>3 DEF Publish, Deliver
  <2>2. \A k \in DOMAIN place : k.event # r
        BY <2>1 DEF IInv, CopyInv
  <2>3. CASE Bound = {}
    <3>1. Routed(r, <<>>) = {}
          BY <2>3 DEF Routed
    <3> QED  BY <2>1, <2>3, <3>1 DEF Single, IInv, TypeOK, BrokerTypeOK
  <2>4. CASE Bound # {}
    <3> DEFINE k1 == [event |-> r, queue |-> c, path |-> <<>>]
    <3>1. DOMAIN place' = DOMAIN place \cup {k1} /\ k1.event = r
          BY <1>2, <2>1, <2>4
    <3>2. fate'[r] = "routed" /\ \A e \in Events \ {r} : fate'[e] = fate[e]
          BY <2>1, <2>4 DEF IInv, TypeOK, BrokerTypeOK
    <3> HIDE DEF k1
    <3> QED  BY <2>2, <3>1, <3>2 DEF Single
  <2> QED  BY <2>3, <2>4
<1>4. ASSUME NEW k \in DOMAIN place, Expire(k) PROVE Single'
  <2> DEFINE k1 == [event |-> k.event, queue |-> c, path |-> Append(k.path, k.queue)]
  <2>1. k.event \in Events /\ Bound # {}
    <3>1. k.event \in Events /\ k.queue \in Consumers /\ "binding" \in declared[k.queue]
          BY DEF IInv, TypeOK, BrokerTypeOK, Copies, CopyInv
    <3> QED  BY <3>1 DEF Bound
  <2>2. UNCHANGED fate /\ DOMAIN place' = (DOMAIN place \ {k}) \cup {k1}
        BY <1>2, <1>4, <2>1 DEF Expire, Deliver
  <2>3. k1.event = k.event
        OBVIOUS
  <2> HIDE DEF k1
  <2> QED  BY <2>2, <2>3 DEF Single
<1> QED  BY <1>1, <1>3, <1>4, FrameLemma

(* With one consumer the queues hold exactly one copy of an event that was *)
(* routed, until it is settled: the broker never drops it, no retry        *)
(* doubles it, and it is acknowledged unhandled only once a copy is in the *)
(* DLQ.  How many copies the DLQ holds is not said: an interrupted park    *)
(* stores the event again.                                                 *)
THEOREM OneConsumerOneCopy ==
    ASSUME NEW c, Consumers = {c} PROVE Spec => []OneQueuedCopy
<1>1. Init => Single
      BY DEF Init, BrokerInit, Single
<1>2. IInv /\ Single /\ [Next]_vars => Single'
      BY SingleNext
<1>3. IInv /\ Single => OneQueuedCopy
      BY DEF IInv, TypeOK, BrokerTypeOK, Copies, CopyInv, Single, OneQueuedCopy
<1> QED  BY <1>1, <1>2, <1>3, IInvHolds, PTL DEF Spec

(* A copy only ever was in queues that are bound. *)
BoundInv ==
    \A k \in DOMAIN place :
        k.queue \in Bound /\ \A i \in DOMAIN k.path : k.path[i] \in Bound

(* What was bound stays bound. *)
LEMMA BoundKept == ASSUME IInv, [Next]_vars PROVE Bound \subseteq Bound'
<1>1. CASE UNCHANGED declared
      BY <1>1 DEF Bound
<1>2. ASSUME NEW s \in Services, NEW part, NEW ttl, Declare(s, part, ttl)
      PROVE  Bound \subseteq Bound'
      BY <1>2 DEF Declare, Bound, IInv, TypeOK, BrokerTypeOK
<1>3. ASSUME NEW s \in Services, NEW to, NEW exit, Ends(s, to, exit)
      PROVE  UNCHANGED declared
      BY <1>3, HangUpLemma DEF Ends
<1>4. ASSUME NEW s \in Services, Close(s) \/ LinkLost(s)
      PROVE  UNCHANGED declared
      BY <1>4, HangUpLemma DEF Close, LinkLost
<1>5. ASSUME NEW s \in Services, DeclareNext(s) PROVE Bound \subseteq Bound'
      BY <1>1, <1>2, <1>3, <1>5 DEF DeclareNext, DeclareExchange
<1>6. ASSUME NEW s \in Services,
             Open(s) \/ StartFails(s) \/ Crash(s) \/ Signal(s) \/ Exit(s)
      PROVE  UNCHANGED declared
      BY <1>3, <1>6 DEF Open, StartFails, Crash, Signal, Exit, broker
<1>7. ASSUME NEW s \in Services,
             \/ Start(s) \/ Listen(s) \/ Notify(s) \/ Deadline(s) \/ Stop(s)
             \/ \E v \in Servers(s) : Finish(s, v) \/ GiveUp(s, v)
             \/ \E v \in Tuned, y \in Settings : Reconfigure(s, v, y)
             \/ \E r \in Events, v \in Servers(s) : Accept(r, s, v)
      PROVE  UNCHANGED declared
      BY <1>7 DEF Start, Listen, Notify, Advance, Deadline, Stop, Finish, GiveUp,
                  Reconfigure, Accept, broker
<1>8. ASSUME NEW r \in Events, CreateUser(r) \/ Answer(r) PROVE UNCHANGED declared
      BY <1>8 DEF CreateUser, Answer, Publish, broker
<1>9. ASSUME NEW k \in DOMAIN place, Pick(k) \/ Settle(k) \/ Expires(k)
      PROVE  UNCHANGED declared
      BY <1>9 DEF Pick, Take, Settle, Ack, Nack, Park, ParkFailed, AckParked,
                  Move, Expires, Expire
<1>10. CASE UNCHANGED vars
      BY <1>1, <1>10 DEF vars
<1>11. CASE Next
      BY <1>1, <1>4, <1>5, <1>6, <1>7, <1>8, <1>9, <1>11 DEF Next
<1> QED  BY <1>10, <1>11

LEMMA BoundNext == ASSUME IInv, BoundInv, [Next]_vars PROVE BoundInv'
<1>1. ASSUME NEW k \in DOMAIN place, k \in DOMAIN place'
      PROVE  k.queue \in Bound' /\ \A i \in DOMAIN k.path : k.path[i] \in Bound'
      BY BoundKept DEF BoundInv
<1>2. CASE DOMAIN place' = DOMAIN place
      BY <1>1, <1>2 DEF BoundInv
<1>3. ASSUME NEW r \in Events, Publish(r) PROVE BoundInv'
  <2>1. DOMAIN place' = DOMAIN place \cup Routed(r, <<>>)
        BY <1>3 DEF Publish, Deliver
  <2>2. \A k \in Routed(r, <<>>) : k.queue \in Bound /\ k.path = <<>>
        BY DEF Routed
  <2> QED  BY <1>1, <2>1, <2>2, BoundKept DEF BoundInv
<1>4. ASSUME NEW k \in DOMAIN place, Expire(k) PROVE BoundInv'
  <2> DEFINE path == Append(k.path, k.queue)
  <2>1. DOMAIN place' = (DOMAIN place \ {k}) \cup Routed(k.event, path)
        BY <1>4 DEF Expire, Deliver
  <2>2. \A l \in Routed(k.event, path) : l.queue \in Bound /\ l.path = path
        BY DEF Routed
  <2>3. \A i \in DOMAIN path : path[i] \in Bound
    <3>1. k.path \in Seq(Consumers) /\ k.queue \in Consumers
          BY DEF IInv, TypeOK, BrokerTypeOK, Copies
    <3>2. \A i \in DOMAIN k.path : k.path[i] \in Bound
          BY DEF BoundInv
    <3>3. k.queue \in Bound
          BY DEF BoundInv
    <3> QED  BY <3>1, <3>2, <3>3
  <2> HIDE DEF path
  <2> QED  BY <1>1, <2>1, <2>2, <2>3, BoundKept DEF BoundInv
<1> QED  BY <1>2, <1>3, <1>4, FrameLemma

(* At no time is more than one queue bound to the exchange. *)
OneQueueBound == \A c, d \in Bound : c = d

(* What topology.go:14-16 promises, that a retry is the business of the    *)
(* consumer that failed alone, holds for as long as there is no other: a   *)
(* second queue bound to the exchange is all it takes to break it.         *)
THEOREM RetriesStayWithOneQueue ==
    Spec /\ []OneQueueBound => []OwnRetriesOnly
<1>1. Init => BoundInv
      BY DEF Init, BrokerInit, BoundInv
<1>2. IInv /\ BoundInv /\ [Next]_vars => BoundInv'
      BY BoundNext
<1>3. BoundInv /\ OneQueueBound => OwnRetriesOnly
      BY DEF BoundInv, OneQueueBound, OwnRetriesOnly
<1> QED  BY <1>1, <1>2, <1>3, IInvHolds, PTL DEF Spec
=============================================================================
