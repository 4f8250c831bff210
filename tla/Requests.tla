------------------------------ MODULE Requests ------------------------------
(***************************************************************************)
(* Requests on their way through a service and back: the HTTP middleware,  *)
(* the handler, for auth's requests the gRPC client, the interceptors and  *)
(* the handler of the user service, and the answer.                        *)
(*                                                                         *)
(*   services/*/internal/router     the chain and the routes               *)
(*   pkg/middleware                 RequestID, Logger, PanicRecovery, Auth *)
(*   pkg/request, pkg/validation    DecodeJSON, Validate                   *)
(*   services/user/internal/user    http_handler.go, grpc_server.go        *)
(*   services/auth/internal         http_handler.go, client.go             *)
(*   pkg/grpcmiddleware             RequestID, Logger, Recovery,           *)
(*                                  Validation, PropagateRequestID         *)
(*                                                                         *)
(* Requests overlap: each database statement and each RPC is a step.  What *)
(* Register and an update do step by step is in UserAccounts, and what     *)
(* Login does with Redis in AuthSessions; here each is one RPC or one      *)
(* statement and the question is what the client is told.                  *)
(***************************************************************************)
EXTENDS ListQuery, ErrorCodes

CONSTANTS
    Slots,      \* requests
    Asks,       \* what a client may ask for
    MaxId       \* bound: largest user id

Routes == {"list", "get", "create", "update", "delete", "register", "login"}

ASSUME RequestsAssumption ==
    /\ MaxId \in Nat /\ MaxId > 2
    /\ \A q \in Asks :
          /\ q.route \in Routes
          /\ q.rid \in {"none", "client"}
          /\ q.route = "list" =>
                q.page \in Int /\ q.limit \in Int /\ q.sorts \in Seq(SortSpec)

VARIABLES
    rows,       \* the users table
    lastId,     \* the sequence its ids are drawn from
    ask,        \* ask[r]: what r asks for
    pc,         \* pc[r]: what r does next
    id,         \* id[r]: its request id in auth or user, and behind gRPC
    out,        \* out[r]: what the handler makes of it
    rpc,        \* rpc[r]: the error its RPC met in the user service
    counted,    \* counted[r]: the rows of the table at r's COUNT
    fetched,    \* fetched[r]: the rows of the table at r's SELECT
    sent,       \* sent[r]: the responses written to the connection
    logs        \* logs[r]: the lines about r in the two access logs

slot == <<ask, id, rpc, counted, fetched, sent, logs>>
vars == <<rows, lastId, ask, pc, id, out, rpc, counted, fetched, sent, logs>>

Users == [id: 1 .. MaxId, name: {1, 2}, created_at: {1, 2}]

NoAsk == [route |-> "none"]
NoIds == [http |-> "none", grpc |-> "none"]

(* A handler writes a response or panics; a list has more to tell.         *)
Reply(status, text) == [kind |-> "reply", status |-> status, text |-> text]
Listed(total, page) ==
    [kind |-> "reply", status |-> 200, text |-> "specific",
     total |-> total, page |-> page]
Fails(err) == Reply(ErrorReply(err).status, ErrorReply(err).text)
NoError    == [code |-> "none", text |-> "none"]
Nothing    == [kind |-> "none", status |-> 0, text |-> "none"]
Panic      == [kind |-> "panic", status |-> 0, text |-> "none"]

Ids   == {"client", "fresh", "fresh2"}
Texts == {"specific", "generic", "cause"}

TypeOK ==
    /\ rows    \in SUBSET Users
    /\ lastId  \in 0 .. MaxId
    /\ ask     \in [Slots -> Asks \cup {NoAsk}]
    /\ pc      \in [Slots -> Routes \cup {"new", "fetch", "answered", "return",
                                         "over"}]
    /\ id      \in [Slots -> [http: Ids \cup {"none"}, grpc: Ids \cup {"none"}]]
    /\ DOMAIN out = Slots
    /\ \A r \in Slots : out[r].kind \in {"none", "reply", "panic", "rpc"}
    /\ rpc     \in [Slots -> Errors \cup {NoError}]
    /\ counted \in [Slots -> SUBSET Users]
    /\ fetched \in [Slots -> SUBSET Users]
    /\ sent    \in [Slots -> Seq([status: 200 .. 599, text: Texts])]
    /\ logs    \in [Slots -> [http: SUBSET [id: Ids, status: 200 .. 599],
                             grpc: SUBSET [id: Ids, status: GRPCCodes]]]

Init ==
    /\ \E n \in 0 .. 2 :
          /\ rows = {[id |-> i, name |-> 1, created_at |-> 1] : i \in 1 .. n}
          /\ lastId = n
    /\ ask     = [r \in Slots |-> NoAsk]
    /\ pc      = [r \in Slots |-> "new"]
    /\ id      = [r \in Slots |-> NoIds]
    /\ out     = [r \in Slots |-> Nothing]
    /\ rpc     = [r \in Slots |-> NoError]
    /\ counted = [r \in Slots |-> {}]
    /\ fetched = [r \in Slots |-> {}]
    /\ sent    = [r \in Slots |-> <<>>]
    /\ logs    = [r \in Slots |-> [http |-> {}, grpc |-> {}]]

-----------------------------------------------------------------------------
(* Middleware *)

(* RequestID: the caller's id if it sent one, a new one otherwise. *)
RequestID(incoming, new) == IF incoming = "none" THEN new ELSE incoming

(* A bug of PropagateRequestID: it is missing from the client's chain. *)
PropagateNothing(current) == "none"

PropagateRequestID(current) == current

(* What each middleware does when the call it wraps is over, to h, the     *)
(* request on its way out.  A panic skips the code after the call, except  *)
(* where it is recovered and becomes an answer.                            *)
Logger(side, h) ==
    IF h.kind = "panic" THEN h
    ELSE [h EXCEPT !.logs[side] = @ \cup {[id |-> h.id, status |-> h.status]}]

PanicRecovery(h) ==
    IF h.kind # "panic" THEN h
    ELSE [h EXCEPT !.kind = "reply", !.status = 500, !.text = "generic"]

Recovery(h) ==
    IF h.kind # "panic" THEN h
    ELSE [h EXCEPT !.kind = "reply", !.status = "Internal", !.text = "generic"]

(* A bug of HTTPReturn: the logger is inside of the recovery. *)
HTTPReturnSwapped(h) == PanicRecovery(Logger("http", h))

(* The order of the chains: what the router lists first wraps the others.  *)
HTTPReturn(h) == Logger("http", PanicRecovery(h))
GRPCReturn(h) == Logger("grpc", Recovery(h))

-----------------------------------------------------------------------------
(* The request reaches its handler *)

(* Auth: the X-User-ID header, which Kong takes from the token. *)
Auth(q) == q.route \in {"register", "login"} \/ q.uid = "good"

(* DecodeJSON and Validate refuse a body that is too large, malformed, has *)
(* unknown fields or trailing data, or breaks a rule of its type.          *)
DecodeJSON(q) == q.body \notin {"large", "malformed", "unknown", "trailing"}
Validate(q)   == q.body # "invalid"

(* The code of the error that keeps a request from its service. *)
Refusal(q) ==
    CASE ~Auth(q) -> "UNAUTHORIZED"
      [] q.route \in {"get", "update", "delete"} /\ q.target = NaN ->
            "INVALID_INPUT"
      [] q.route \in {"create", "update", "register", "login"}
            /\ ~(DecodeJSON(q) /\ Validate(q)) -> "INVALID_INPUT"
      [] OTHER -> "none"

Enter(r, q) ==
    /\ pc[r] = "new"
    /\ ask' = [ask EXCEPT ![r] = q]
    /\ id'  = [id EXCEPT ![r].http = RequestID(q.rid, "fresh")]
    /\ IF Refusal(q) = "none"
         THEN /\ pc' = [pc EXCEPT ![r] = q.route]
              /\ UNCHANGED out
         ELSE /\ pc' = [pc EXCEPT ![r] = "return"]
              /\ out' = [out EXCEPT ![r] = Fails(Specific(Refusal(q)))]
    /\ UNCHANGED <<rows, lastId, rpc, counted, fetched, sent, logs>>

(* The handler of r is done, with the given outcome. *)
Returns(r, outcome) ==
    /\ pc'  = [pc EXCEPT ![r] = "return"]
    /\ out' = [out EXCEPT ![r] = outcome]

-----------------------------------------------------------------------------
(* Handlers of the user service's HTTP API (notification's are the same,   *)
(* without create and delete)                                              *)

Params(r)  == NewParams(Atoi(ask[r].page), Atoi(ask[r].limit))
Filters(r) == ParseFilters(ask[r].filters)
Sorts(r)   == ParseSorts(ask[r].sorts)

Steps(r, stage) == pc[r] = stage /\ UNCHANGED <<ask, id, rpc, sent, logs>>

(* A statement fails, which repository.go makes Internal, or, for an       *)
(* update, its transaction, whose error is passed on as it is; or the      *)
(* handler panics.                                                         *)
Breaks(r) ==
    /\ pc[r] \in {"list", "fetch", "get", "create", "update", "delete"}
    /\ \/ Returns(r, Fails(Internal))
       \/ pc[r] = "update" /\ Returns(r, Fails([code |-> "other", text |-> "cause"]))
       \/ Returns(r, Panic)
    /\ UNCHANGED <<rows, lastId, slot>>

(* A bug of Count: the filters are left out. *)
CountAll(r) ==
    /\ Steps(r, "list")
    /\ counted' = [counted EXCEPT ![r] = rows]
    /\ IF Refuses(Filters(r))
         THEN Returns(r, Fails(Internal))
         ELSE /\ pc'  = [pc EXCEPT ![r] = "fetch"]
              /\ out' = [out EXCEPT ![r] = Listed(Cardinality(rows), <<>>)]
    /\ UNCHANGED <<rows, lastId, fetched>>

(* GetAll: the COUNT, then the SELECT, in no transaction. *)
Count(r) ==
    /\ Steps(r, "list")
    /\ counted' = [counted EXCEPT ![r] = rows]
    /\ IF Refuses(Filters(r))
         THEN Returns(r, Fails(Internal))
         ELSE /\ pc'  = [pc EXCEPT ![r] = "fetch"]
              /\ out' = [out EXCEPT ![r] =
                           Listed(Cardinality(Filtered(rows, Filters(r))), <<>>)]
    /\ UNCHANGED <<rows, lastId, fetched>>

Fetch(r) ==
    /\ Steps(r, "fetch")
    /\ fetched' = [fetched EXCEPT ![r] = rows]
    /\ \E s \in Ordered(Filtered(rows, Filters(r)), Sorts(r)) :
          Returns(r, Listed(out[r].total,
                            PageOf(s, Offset(Params(r)), Params(r).limit)))
    /\ UNCHANGED <<rows, lastId, counted>>

NotFound == Fails(Specific("NOT_FOUND"))
Named(r) == {row \in rows : row.id = ask[r].target}

Get(r) ==
    /\ Steps(r, "get")
    /\ Returns(r, IF Named(r) = {} THEN NotFound ELSE Reply(200, "specific"))
    /\ UNCHANGED <<rows, lastId, counted, fetched>>

(* The address is free, or it is not: UserAccounts tells when. *)
Inserts ==
    /\ lastId < MaxId
    /\ lastId' = lastId + 1
    /\ rows' = rows \cup {[id |-> lastId + 1, name |-> 1, created_at |-> 2]}

Create(r) ==
    /\ Steps(r, "create")
    /\ \/ Inserts /\ Returns(r, Reply(201, "specific"))
       \/ /\ Returns(r, Fails(Specific("CONFLICT")))
          /\ UNCHANGED <<rows, lastId>>
    /\ UNCHANGED <<counted, fetched>>

Update(r) ==
    /\ Steps(r, "update")
    /\ \/ /\ rows' = (rows \ Named(r)) \cup
                      {[row EXCEPT !.name = 2] : row \in Named(r)}
          /\ Returns(r, IF Named(r) = {} THEN NotFound
                                         ELSE Reply(200, "specific"))
       \/ /\ Returns(r, Fails(Specific("CONFLICT")))
          /\ UNCHANGED rows
    /\ UNCHANGED <<lastId, counted, fetched>>

Delete(r) ==
    /\ Steps(r, "delete")
    /\ rows' = rows \ Named(r)
    /\ Returns(r, IF Named(r) = {} THEN NotFound ELSE Reply(204, "specific"))
    /\ UNCHANGED <<lastId, counted, fetched>>

-----------------------------------------------------------------------------
(* auth's requests, through the user service's gRPC API *)

(* The handler's result passes the interceptors.  err is the error it met; *)
(* what Validation refuses looks as if the handler had.                    *)
Answers(r, kind, err) ==
    LET sid == RequestID(PropagateRequestID(id[r].http), "fresh2")
        st  == IF err = NoError THEN [code |-> "OK", text |-> "specific"]
                                ELSE ToGRPCError(err)
        h   == GRPCReturn([kind |-> kind, status |-> st.code, text |-> st.text,
                           id |-> sid, logs |-> logs[r]])
    IN  /\ id'   = [id EXCEPT ![r].grpc = sid]
        /\ logs' = [logs EXCEPT ![r] = h.logs]
        /\ rpc'  = [rpc EXCEPT ![r] = err]
        /\ pc'   = [pc EXCEPT ![r] = "answered"]
        /\ out'  = [out EXCEPT ![r] =
                      [kind |-> "rpc", code |-> h.status, text |-> h.text]]
        /\ UNCHANGED <<ask, counted, fetched, sent>>

(* The errors of each RPC: its own, the validation's and the database's.   *)
(* Validation passes on the text of every error of protovalidate; the rules*)
(* of user.proto (string.email, min_len) are standard ones, which compile  *)
(* and evaluate, so that the error is a violation, worded for the client.  *)
RPCErrors(route) ==
    {Specific(IF route = "register" THEN "CONFLICT" ELSE "NOT_FOUND"),
     Specific("INVALID_INPUT"), Internal}

RPC(r) ==
    /\ pc[r] \in {"register", "login"}
    /\ \/ /\ IF pc[r] = "register" THEN Inserts ELSE UNCHANGED <<rows, lastId>>
          /\ Answers(r, "reply", NoError)
       \/ /\ \/ \E err \in RPCErrors(pc[r]) : Answers(r, "reply", err)
             \/ Answers(r, "panic", [code |-> "other", text |-> "cause"])
          /\ UNCHANGED <<rows, lastId>>

(* What the handlers of auth make of an error of their RPC: Login answers  *)
(* every one as if the password were wrong.                                *)
AuthError(route, err) ==
    IF route = "login" THEN Specific("UNAUTHORIZED") ELSE err

Receive(r) ==
    /\ pc[r] = "answered"
    /\ IF out[r].code = "OK"
         THEN \/ Returns(r, Reply(IF ask[r].route = "register" THEN 201 ELSE 200,
                                  "specific"))
              \/ /\ ask[r].route = "login"    \* wrong password, or no Redis
                 /\ \/ Returns(r, Fails(Specific("UNAUTHORIZED")))
                    \/ Returns(r, Fails(Internal))
         ELSE Returns(r, Fails(AuthError(ask[r].route, FromGRPCError(out[r]))))
    /\ UNCHANGED <<rows, lastId, slot>>

(* The call never arrives, its answer is lost, or it takes too long: the   *)
(* client makes the error itself.                                          *)
RPCLost(r) ==
    /\ pc[r] \in {"register", "login", "answered"}
    /\ \E code \in {"DeadlineExceeded", "Unavailable"} :
          Returns(r, Fails(AuthError(ask[r].route,
                       FromGRPCError([code |-> code, text |-> "cause"]))))
    /\ rpc' = [rpc EXCEPT ![r] = NoError]
    /\ UNCHANGED <<rows, lastId, ask, id, counted, fetched, sent, logs>>

-----------------------------------------------------------------------------
(* The way back through the HTTP middleware, and to the client.  A panic   *)
(* that gets past it makes net/http close the connection.                  *)
Leave(r) ==
    LET h == HTTPReturn([kind |-> out[r].kind, status |-> out[r].status,
                         text |-> out[r].text, id |-> id[r].http,
                         logs |-> logs[r]])
    IN  /\ pc[r] = "return"
        /\ pc'   = [pc EXCEPT ![r] = "over"]
        /\ logs' = [logs EXCEPT ![r] = h.logs]
        /\ sent' = [sent EXCEPT ![r] =
                      IF h.kind = "panic" THEN @
                      ELSE Append(@, [status |-> h.status, text |-> h.text])]
        /\ UNCHANGED <<rows, lastId, ask, id, out, rpc, counted, fetched>>

-----------------------------------------------------------------------------
Next ==
    \E r \in Slots :
        \/ \E q \in Asks : Enter(r, q)
        \/ Count(r) \/ Fetch(r) \/ Get(r) \/ Create(r) \/ Update(r) \/ Delete(r)
        \/ Breaks(r)
        \/ RPC(r) \/ Receive(r) \/ RPCLost(r)
        \/ Leave(r)

Spec == Init /\ [][Next]_vars

-----------------------------------------------------------------------------
(* Properties *)

(* Every request is answered exactly once, even if its handler panics, and *)
(* the one line about it in the access log shows the status it got.        *)
AnsweredOnce ==
    \A r \in Slots : pc[r] = "over" =>
        /\ Len(sent[r]) = 1
        /\ logs[r].http = {[id |-> id[r].http, status |-> sent[r][1].status]}

(* A request can be followed through both services by one id, the client's *)
(* if it sent one.                                                         *)
OneTrace ==
    \A r \in Slots : \A side \in {"http", "grpc"} : \A l \in logs[r][side] :
        l.id = id[r].http /\ (ask[r].rid # "none" => l.id = ask[r].rid)

(* What went wrong in the user service is told to the client of auth with  *)
(* the status the user service's own HTTP API has for it, unless the       *)
(* answer was lost on the way or Login hides it.                           *)
SameStatusAcrossHop ==
    \A r \in Slots :
        pc[r] = "over" /\ ask[r].route = "register" /\ rpc[r] # NoError =>
            sent[r][1] = ErrorReply(rpc[r])

(* No client reads what a database, a driver, a peer or a panic said. *)
CauseHidden ==
    \A r \in Slots : \A i \in DOMAIN sent[r] : sent[r][i].text # "cause"

(* A list shows as many rows as its total says there are on that page,     *)
(* unless the table changed between the COUNT and the SELECT or the offset *)
(* overflowed.                                                             *)
IsList(r) == pc[r] = "over" /\ ask[r].route = "list" /\ sent[r][1].status = 200
Exact(r)  == (Params(r).page - 1) * Params(r).limit <= IntMax
OnPage(r, total) ==
    LET rest == total - (Params(r).page - 1) * Params(r).limit
    IN  CASE rest < 0 -> 0 [] rest > Params(r).limit -> Params(r).limit [] OTHER -> rest

PageFitsTotal ==
    \A r \in Slots : IsList(r) /\ Exact(r) /\ counted[r] = fetched[r] =>
        Len(out[r].page) = OnPage(r, out[r].total)

(* Two pages of one list, read from the same table and ordered by a unique *)
(* column, share no row, and two that are all the pages show all the rows. *)
Shown(r) == {out[r].page[i] : i \in DOMAIN out[r].page}

PagesPartition ==
    \A r, s \in Slots :
        /\ IsList(r) /\ IsList(s) /\ Exact(r) /\ Exact(s)
        /\ Sorts(r) = Sorts(s) /\ Filters(r) = Filters(s)
        /\ Params(r).limit = Params(s).limit /\ fetched[r] = fetched[s]
        /\ \E i \in DOMAIN Sorts(r) : Sorts(r)[i].field = "id"
        /\ Params(r).page < Params(s).page
        => /\ Shown(r) \cap Shown(s) = {}
           /\ Params(r).page = 1 /\ Params(s).page = 2
                /\ TotalPages(Params(r), Cardinality(Filtered(fetched[r], Filters(r)))) = 2
              => Shown(r) \cup Shown(s) = Filtered(fetched[r], Filters(r))
=============================================================================
