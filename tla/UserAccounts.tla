---------------------------- MODULE UserAccounts ----------------------------
(***************************************************************************)
(* The users table and the requests that write it.                         *)
(*                                                                         *)
(*   services/user/internal/user/service.go      create, Update, Delete    *)
(*   services/user/internal/user/repository.go   the statements they issue *)
(*   services/user/internal/user/grpc_server.go  ExistsByEmail, Create     *)
(*   services/auth/internal/auth/service.go      Register                  *)
(*                                                                         *)
(* A request slot runs one request of a client at a time: an HTTP one of   *)
(* the user service, or a registration at the auth service, which calls    *)
(* the user service over gRPC.  Each SQL statement and the publish are     *)
(* actions of their own.  Update's transaction runs READ COMMITTED and     *)
(* writes with its last statement, so that statement and its COMMIT are    *)
(* one action.                                                             *)
(***************************************************************************)
EXTENDS Naturals

CONSTANTS
    Ids,        \* the ids the sequence hands out; bound
    Emails,     \* addresses that clients ask for
    Requests,   \* request slots: how many requests overlap; bound
    NoId,       \* the target of a request that has made no row
    NoEmail     \* the email of an id that has no row

ASSUME AccountsAssumption ==
    /\ NoId \notin Ids
    /\ NoEmail \notin Emails

VARIABLES
    email,      \* email[i]: the address in row i, or NoEmail
    born,       \* ids that had a row at some time
    events,     \* events[i]: user.created events for i the broker accepted
    op,         \* op[r]: what slot r was last asked to do
    arg,        \* arg[r]: ... and with which address
    target,     \* target[r]: the id it names, or has inserted
    pc,         \* pc[r]: the next statement of the server
    answer      \* answer[r]: what the client has been told

table == <<email, born>>
ask   == <<op, arg>>
vars  == <<email, born, events, op, arg, target, pc, answer>>

Ops     == {"create", "register", "update", "delete"}
Busy    == {"exists", "insert", "publish", "read", "check", "update",
            "delete"}
Answers == {"none", "done", "conflict", "not_found", "error", "timeout",
            "gone"}
Inserts == {"create", "register"}

TypeOK ==
    /\ email  \in [Ids -> Emails \cup {NoEmail}]
    /\ born   \subseteq Ids
    /\ events \in [Ids -> Nat]
    /\ op     \in [Requests -> Ops]
    /\ arg    \in [Requests -> Emails]
    /\ target \in [Requests -> Ids \cup {NoId}]
    /\ pc     \in [Requests -> Busy \cup {"idle"}]
    /\ answer \in [Requests -> Answers]
    /\ \A i \in Ids : email[i] # NoEmail => i \in born
    /\ \A r \in Requests : pc[r] = "publish" => target[r] \in born

Init ==
    /\ email  = [i \in Ids |-> NoEmail]
    /\ born   = {}
    /\ events = [i \in Ids |-> 0]
    /\ op     \in [Requests -> {"create"}]
    /\ arg    \in [Requests -> Emails]
    /\ target = [r \in Requests |-> NoId]
    /\ pc     = [r \in Requests |-> "idle"]
    /\ answer = [r \in Requests |-> "gone"]

-----------------------------------------------------------------------------
(* Helpers *)

Goto(r, s) == pc' = [pc EXCEPT ![r] = s]

(* The handler returns; a client that no longer waits learns nothing. *)
Reply(r, a) ==
    /\ Goto(r, "idle")
    /\ answer' = [answer EXCEPT ![r] = IF @ = "none" THEN a ELSE @]

(* A client asks for o with address m; id is NoId for the two inserts. *)
Ask(r, o, m, id, first) ==
    /\ pc[r] = "idle"
    /\ op' = [op EXCEPT ![r] = o]
    /\ arg' = [arg EXCEPT ![r] = m]
    /\ target' = [target EXCEPT ![r] = id]
    /\ answer' = [answer EXCEPT ![r] = "none"]
    /\ Goto(r, first)
    /\ UNCHANGED <<table, events>>

Waiting(r) == answer[r] = "none"

Holders(m) == {i \in Ids : email[i] = m}

(* The row of r's new user, with the next id of the sequence. *)
NewRow(r) ==
    \E i \in Ids \ born :
        /\ email' = [email EXCEPT ![i] = arg[r]]
        /\ born' = born \cup {i}
        /\ target' = [target EXCEPT ![r] = i]

-----------------------------------------------------------------------------
(* Deviations: steps of the next section with one plausible bug each, to   *)
(* be put in the place of the original.                                    *)

(* Insert, into a table without the UNIQUE constraint on email. *)
InsertUnconstrained(r) ==
    /\ pc[r] = "insert"
    /\ NewRow(r) /\ Goto(r, "publish")
    /\ UNCHANGED <<events, ask, answer>>

(* Insert, that loses the error of the unique violation. *)
InsertSwallowsConflict(r) ==
    /\ pc[r] = "insert"
    /\ IF Holders(arg[r]) = {} THEN NewRow(r)
                               ELSE UNCHANGED <<table, target>>
    /\ Goto(r, "publish")
    /\ UNCHANGED <<events, ask, answer>>

(* Insert, tried again when its reply was lost. *)
InsertTwice(r) ==
    /\ pc[r] = "insert"
    /\ \/ /\ Holders(arg[r]) = {} /\ NewRow(r)
          /\ Goto(r, "publish") \/ Goto(r, "insert")
          /\ UNCHANGED answer
       \/ /\ Holders(arg[r]) # {} /\ Reply(r, "conflict")
          /\ UNCHANGED <<table, target>>
    /\ UNCHANGED <<events, ask>>

(* Insert, every error of which is reported as a conflict. *)
InsertBlamesEmail(r) ==
    /\ pc[r] = "insert"
    /\ \/ /\ Holders(arg[r]) = {} /\ NewRow(r)
          /\ Goto(r, "publish") /\ UNCHANGED answer
       \/ Reply(r, "conflict") /\ UNCHANGED <<table, target>>
    /\ UNCHANGED <<events, ask>>

(* Publish, tried again when the broker has not confirmed. *)
PublishUntilConfirmed(r) ==
    /\ pc[r] = "publish"
    /\ events' \in {events, [events EXCEPT ![target[r]] = @ + 1]}
    /\ events[target[r]] < 2
    /\ Reply(r, "done") \/ UNCHANGED <<pc, answer>>
    /\ UNCHANGED <<table, ask, target>>

(* Update, as gorm's Save, which inserts what is not there. *)
UpdateSaves(r) ==
    /\ pc[r] = "update"
    /\ Holders(arg[r]) \subseteq {target[r]}
    /\ email' = [email EXCEPT ![target[r]] = arg[r]]
    /\ Reply(r, "done")
    /\ UNCHANGED <<born, events, ask, target>>

-----------------------------------------------------------------------------
(* The requests *)

(* POST /v1/users, and POST /v1/auth/register, which hashes the password   *)
(* between its two RPCs.  Both check the address before they insert.       *)
Create(r, m)   == Ask(r, "create", m, NoId, "exists")
Register(r, m) == Ask(r, "register", m, NoId, "exists")

(* PUT and DELETE /v1/users/{id}, for an id that some user once had. *)
UpdateUser(r, i, m) == i \in born /\ Ask(r, "update", m, i, "read")
DeleteUser(r, i)    == i \in born /\ Ask(r, "delete", arg[r], i, "delete")

(* repo.ExistsByEmail, before an insert and inside Update's transaction.   *)
(* Any statement may fail, and one whose caller has gone must.             *)
ExistsByEmail(r) ==
    /\ pc[r] \in {"exists", "check"}
    /\ \/ Holders(arg[r]) # {} /\ Reply(r, "conflict")
       \/ /\ Waiting(r) /\ Holders(arg[r]) = {}
          /\ Goto(r, IF pc[r] = "exists" THEN "insert" ELSE "update")
          /\ UNCHANGED answer
       \/ Reply(r, "error")
    /\ UNCHANGED <<table, events, ask, target>>

(* repo.Create: one INSERT under the UNIQUE constraint.  The row may be    *)
(* committed and its reply lost: then the request fails and nothing is     *)
(* published.                                                              *)
Insert(r) ==
    /\ pc[r] = "insert"
    /\ \/ /\ Holders(arg[r]) = {} /\ NewRow(r)
          /\ \/ Goto(r, "publish") /\ UNCHANGED answer
             \/ Reply(r, "error")
       \/ /\ Holders(arg[r]) # {} /\ Reply(r, "conflict")
          /\ UNCHANGED <<table, target>>
       \/ Reply(r, "error") /\ UNCHANGED <<table, target>>
    /\ UNCHANGED <<events, ask>>

(* PublishUserCreated: whether the broker accepted the event and whether   *)
(* the confirmation arrived are two things, and an error is only logged.   *)
Publish(r) ==
    /\ pc[r] = "publish"
    /\ events' \in {events, [events EXCEPT ![target[r]] = @ + 1]}
    /\ Reply(r, "done")
    /\ UNCHANGED <<table, ask, target>>

(* Update reads the row and checks a new address only ... *)
GetByID(r) ==
    /\ pc[r] = "read"
    /\ \/ email[target[r]] = NoEmail /\ Reply(r, "not_found")
       \/ /\ Waiting(r) /\ email[target[r]] # NoEmail
          /\ Goto(r, IF email[target[r]] = arg[r] THEN "update" ELSE "check")
          /\ UNCHANGED answer
       \/ Reply(r, "error")
    /\ UNCHANGED <<table, events, ask, target>>

(* ... and its UPDATE meets the row as it is by then: changed, deleted, or *)
(* with the address taken.                                                 *)
Update(r) ==
    /\ pc[r] = "update"
    /\ LET i == target[r] IN
       \/ email[i] = NoEmail /\ Reply(r, "not_found") /\ UNCHANGED email
       \/ /\ email[i] # NoEmail /\ Holders(arg[r]) \subseteq {i}
          /\ email' = [email EXCEPT ![i] = arg[r]]
          /\ Reply(r, "done") \/ Reply(r, "error")
       \/ /\ email[i] # NoEmail /\ ~(Holders(arg[r]) \subseteq {i})
          /\ Reply(r, "conflict") /\ UNCHANGED email
       \/ Reply(r, "error") /\ UNCHANGED email
    /\ UNCHANGED <<born, events, ask, target>>

(* repo.Delete: one DELETE. *)
Delete(r) ==
    /\ pc[r] = "delete"
    /\ LET i == target[r] IN
       \/ email[i] = NoEmail /\ Reply(r, "not_found") /\ UNCHANGED email
       \/ /\ email[i] # NoEmail /\ email' = [email EXCEPT ![i] = NoEmail]
          /\ Reply(r, "done") \/ Reply(r, "error")
       \/ Reply(r, "error") /\ UNCHANGED email
    /\ UNCHANGED <<born, events, ask, target>>

-----------------------------------------------------------------------------
(* The callers and the process *)

(* grpcmiddleware.Timeout: an RPC of Register takes too long, and waiting  *)
(* for the broker's confirmation is part of that time.  The server's       *)
(* context ends too, but its statement under way goes on.                  *)
Deadline(r) ==
    /\ op[r] = "register" /\ pc[r] \in Busy /\ Waiting(r)
    /\ answer' = [answer EXCEPT ![r] = "timeout"]
    /\ UNCHANGED <<table, events, ask, target, pc>>

(* The client's connection is gone. *)
GiveUp(r) ==
    /\ pc[r] \in Busy /\ Waiting(r)
    /\ answer' = [answer EXCEPT ![r] = "gone"]
    /\ UNCHANGED <<table, events, ask, target, pc>>

(* The user service dies with all the requests it was running. *)
Crash ==
    /\ \E r \in Requests : pc[r] \in Busy
    /\ pc' = [r \in Requests |-> "idle"]
    /\ answer' = [r \in Requests |-> IF Waiting(r) THEN "gone" ELSE answer[r]]
    /\ UNCHANGED <<table, events, ask, target>>

Next ==
    \/ \E r \in Requests, m \in Emails : Create(r, m) \/ Register(r, m)
    \/ \E r \in Requests, i \in Ids, m \in Emails : UpdateUser(r, i, m)
    \/ \E r \in Requests, i \in Ids : DeleteUser(r, i)
    \/ \E r \in Requests :
          \/ ExistsByEmail(r) \/ Insert(r) \/ Publish(r)
          \/ GetByID(r) \/ Update(r) \/ Delete(r)
          \/ Deadline(r) \/ GiveUp(r)
    \/ Crash

Spec == Init /\ [][Next]_vars

-----------------------------------------------------------------------------
(* Properties *)

(* Two users never share an address, although every check for it is made   *)
(* before the write it protects (service.go:50-58 and 75-86).              *)
UniqueEmails ==
    \A i, j \in Ids : email[i] = email[j] /\ email[i] # NoEmail => i = j

(* The publish of service.go:21-29 is at most once: no user is announced   *)
(* twice, and none whose row was not committed before.                     *)
AnnouncedOnce ==
    \A i \in Ids : events[i] <= IF i \in born THEN 1 ELSE 0

(* What a client was told is what happened: a refused insert left no row   *)
(* behind, a successful one did, and two of them made two users.           *)
AnswersAreTrue ==
    \A r \in Requests : op[r] \in Inserts /\ pc[r] = "idle" =>
        /\ answer[r] = "conflict" => target[r] = NoId
        /\ answer[r] = "done" =>
              /\ target[r] \in born
              /\ \A s \in Requests \ {r} :
                    op[s] \in Inserts => target[s] # target[r]

(* An insert is only refused while somebody has the address. *)
RefusedForCause ==
    [][\A r \in Requests :
         op[r] \in Inserts /\ answer[r] = "none" /\ answer'[r] = "conflict"
            => Holders(arg[r]) # {}]_vars

(* A deleted user stays deleted: an Update that read the row before cannot *)
(* write it back.                                                          *)
DeletedForGood ==
    [][\A i \in born : email[i] = NoEmail => email'[i] = NoEmail]_vars

(* The registry the table stands for: who has an address. *)
HolderOf(m) == IF Holders(m) = {} THEN NoId ELSE CHOOSE i \in Holders(m) : TRUE

Registry == INSTANCE UserRegistry WITH
    holder    <- [m \in Emails |-> HolderOf(m)],
    known     <- born,
    announced <- events

(* However the statements of overlapping requests interleave, fail or are  *)
(* cut off, each of them acts on the table as one step of UserRegistry, or *)
(* not at all: service.go's checks may be stale, what is written is not.   *)
KeepsRegistry == Registry!Spec

(* docs/messaging.md:80: "a publish failure is logged but never fails the  *)
(* request".  Once only the publish is left to do, the call does not fail. *)
PublishNeverFailsRequest ==
    [][\A r \in Requests :
         pc[r] = "publish" /\ answer[r] = "none" => answer'[r] # "timeout"]_vars

(* docs/service.md:19: an update checks "if the new email belongs to a     *)
(* *different* user", so it is refused only if one has the address.        *)
RefusedForOthers ==
    [][\A r \in Requests :
         op[r] = "update" /\ answer[r] = "none" /\ answer'[r] = "conflict"
            => Holders(arg[r]) \ {target[r]} # {}]_vars
=============================================================================
