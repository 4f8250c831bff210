--------------------------- MODULE RequestsProofs ---------------------------
(***************************************************************************)
(* Proofs about Requests, for any number of requests, whatever they ask    *)
(* for.                                                                    *)
(***************************************************************************)
EXTENDS Requests, ListQueryProofs

-----------------------------------------------------------------------------
(* Error codes *)

Polite == {"specific", "generic"}

(* Whatever the error, its HTTP answer is a failure with a text written    *)
(* for clients.                                                            *)
LEMMA ReplyLemma ==
    ASSUME NEW err \in Errors
    PROVE  /\ ErrorReply(err) \in [status: 400 .. 599, text: Polite]
           /\ Fails(err).kind = "reply"
           /\ Fails(err).status \in 400 .. 599
           /\ Fails(err).text \in Polite
           /\ Fails(err).status = ErrorReply(err).status
           /\ Fails(err).text = ErrorReply(err).text
<1>1. From(err) \in [code: Codes, text: Polite]
      BY DEF From, Errors, Codes, Untyped, Specific, Internal, Polite
<1>2. \A c \in Codes : HTTPStatus(c) \in 400 .. 599
      BY DEF HTTPStatus, Codes
<1> QED  BY <1>1, <1>2 DEF ErrorReply, Fails, Reply

LEMMA ErrorsLemma ==
    /\ \A code \in Codes : Specific(code) \in Errors
    /\ Internal \in Errors
    /\ [code |-> "other", text |-> "cause"] \in Errors
BY DEF Errors, Codes, Untyped, Specific, Internal

(* What the client of a gRPC call makes of a status is an error again, and *)
(* its text is polite if the status' text was or its code is not one that  *)
(* AppErrors have.                                                         *)
LEMMA StatusLemma ==
    ASSUME NEW st, st.code \in GRPCCodes,
           st.text \in Polite \/ st.code \in {"DeadlineExceeded", "Unavailable"}
    PROVE  FromGRPCError(st) \in Errors
BY DEF FromGRPCError, Errors, Codes, Internal, Polite, GRPCCodes

(* The codes that have a gRPC code of their own.                           *)
Carried == {"NOT_FOUND", "CONFLICT", "INVALID_INPUT", "UNAUTHORIZED", "FORBIDDEN"}

LEMMA CarriedLemma ==
    ASSUME NEW c \in Carried, NEW st, st.code = GRPCCode(c)
    PROVE  FromGRPCError(st) = [code |-> c, text |-> st.text]
<1>1. CASE c = "NOT_FOUND"
      BY <1>1 DEF FromGRPCError, GRPCCode
<1>2. CASE c = "CONFLICT"
      BY <1>2 DEF FromGRPCError, GRPCCode
<1>3. CASE c = "INVALID_INPUT"
      BY <1>3 DEF FromGRPCError, GRPCCode
<1>4. CASE c = "UNAUTHORIZED"
      BY <1>4 DEF FromGRPCError, GRPCCode
<1>5. CASE c = "FORBIDDEN"
      BY <1>5 DEF FromGRPCError, GRPCCode
<1> QED  BY <1>1, <1>2, <1>3, <1>4, <1>5 DEF Carried

(* An error that is carried, or Internal, comes out of the hop from the    *)
(* user service to auth with the answer it would have had without the hop. *)
LEMMA HopLemma ==
    ASSUME NEW err \in Errors, From(err).code \in Carried \/ From(err) = Internal
    PROVE  /\ ToGRPCError(err).code \in GRPCCodes \ {"OK"}
           /\ ToGRPCError(err).text \in Polite
           /\ ErrorReply(FromGRPCError(ToGRPCError(err))) = ErrorReply(err)
<1> DEFINE f == From(err)
<1>1. f \in [code: Codes, text: Polite]
      BY DEF From, Errors, Codes, Untyped, Specific, Internal, Polite
<1>2. From(f) = f
  <2>1. \A x : x.code \in Codes => From(x) = x
        BY DEF From, Codes
  <2> QED  BY <1>1, <2>1
<1>3. ToGRPCError(err) = [code |-> GRPCCode(f.code), text |-> f.text]
      BY DEF ToGRPCError
<1>4. CASE f.code \in Carried
  <2>1. GRPCCode(f.code) \in GRPCCodes \ {"OK"}
        BY <1>4 DEF GRPCCode, GRPCCodes, Carried
  <2>2. FromGRPCError(ToGRPCError(err)) = [code |-> f.code, text |-> f.text]
    <3>1. /\ ToGRPCError(err).code = GRPCCode(f.code)
          /\ ToGRPCError(err).text = f.text
          BY <1>3
    <3> HIDE DEF f
    <3> QED  BY <1>4, <3>1, CarriedLemma
  <2>3. [code |-> f.code, text |-> f.text] = f
        BY <1>1
  <2> QED  BY <1>1, <1>2, <1>3, <2>1, <2>2, <2>3 DEF ErrorReply
<1>5. CASE f = Internal
  <2>1. GRPCCode(f.code) = "Internal"
        BY <1>5 DEF GRPCCode, Internal
  <2>2. FromGRPCError(ToGRPCError(err)) = Internal
        BY <1>3, <2>1 DEF FromGRPCError
  <2> QED  BY <1>1, <1>2, <1>3, <1>5, <2>1, <2>2 DEF ErrorReply, GRPCCodes
<1> QED  BY <1>4, <1>5

(* The errors the user service's RPCs meet are such errors.                *)
Panicked == [code |-> "other", text |-> "cause"]

LEMMA RPCErrorsLemma ==
    ASSUME NEW route, NEW err \in RPCErrors(route) \cup {Panicked}
    PROVE  /\ err \in Errors /\ err # NoError
           /\ From(err).code \in Carried \/ From(err) = Internal
<1>1. ASSUME NEW c \in Carried
      PROVE  /\ Specific(c) \in Errors /\ Specific(c) # NoError
             /\ From(Specific(c)).code \in Carried
      BY <1>1 DEF Specific, Carried, Errors, Codes, NoError, From
<1>2. /\ Internal \in Errors /\ Internal # NoError /\ From(Internal) = Internal
      /\ Panicked \in Errors /\ Panicked # NoError /\ From(Panicked) = Internal
      BY DEF Internal, Panicked, Errors, Codes, Untyped, NoError, From
<1>3. err \in {Specific("CONFLICT"), Specific("NOT_FOUND"),
               Specific("INVALID_INPUT"), Internal, Panicked}
      BY DEF RPCErrors
<1>4. {"CONFLICT", "NOT_FOUND", "INVALID_INPUT"} \subseteq Carried
      BY DEF Carried
<1> QED  BY <1>1, <1>2, <1>3, <1>4

-----------------------------------------------------------------------------
(* The invariant *)

(* What the client gets to see of an outcome. *)
Final(o) == IF o.kind = "panic" THEN [status |-> 500, text |-> "generic"]
                                ELSE [status |-> o.status, text |-> o.text]

(* Where a request may be, by what it asks for. *)
FlowInv(r) ==
    /\ pc[r] # "new" => ask[r] \in Asks
    /\ pc[r] \in Routes => ask[r].route = pc[r]
    /\ pc[r] = "fetch" => ask[r].route = "list"
    /\ pc[r] = "answered" => ask[r].route \in {"register", "login"}

(* Outcomes are fit to be shown. *)
Fit(o) == o.kind = "reply" => o.status \in 200 .. 599 /\ o.text \in Polite

OutInv(r) ==
    /\ pc[r] = "answered" =>
          out[r].kind = "rpc" /\ out[r].code \in GRPCCodes /\ out[r].text \in Polite
    /\ pc[r] \in {"return", "over"} =>
          out[r].kind \in {"reply", "panic"} /\ Fit(out[r])

(* Nothing is written and logged before the end. *)
QuietInv(r) ==
    /\ pc[r] = "new" => logs[r].grpc = {}
    /\ pc[r] # "over" => sent[r] = <<>> /\ logs[r].http = {}
    /\ pc[r] = "over" =>
          /\ sent[r] = <<Final(out[r])>>
          /\ logs[r].http = {[id |-> id[r].http, status |-> Final(out[r]).status]}

TraceInv(r) ==
    pc[r] # "new" =>
        /\ id[r].http = RequestID(ask[r].rid, "fresh")
        /\ \A l \in logs[r].grpc : l.id = id[r].http

(* The RPC's error is on its way to the client of register. *)
HopInv(r) ==
    /\ pc[r] \notin {"answered", "return", "over"} => rpc[r] = NoError
    /\ rpc[r] # NoError /\ ask[r].route = "register" =>
          /\ pc[r] = "answered" =>
                /\ out[r].code # "OK"
                /\ ErrorReply(FromGRPCError(out[r])) = ErrorReply(rpc[r])
          /\ pc[r] \in {"return", "over"} => Final(out[r]) = ErrorReply(rpc[r])

Counts(r) == out[r].total = Cardinality(Filtered(counted[r], Filters(r)))
Shows(r)  == \E s \in Ordered(Filtered(fetched[r], Filters(r)), Sorts(r)) :
                out[r].page = PageOf(s, Offset(Params(r)), Params(r).limit)

ListInv(r) ==
    /\ pc[r] = "fetch" => Counts(r)
    /\ /\ pc[r] \in {"return", "over"} /\ ask[r].route = "list"
       /\ out[r].kind = "reply" /\ out[r].status = 200
       => Counts(r) /\ Shows(r)

SlotInv(r) == /\ FlowInv(r) /\ OutInv(r) /\ QuietInv(r)
              /\ TraceInv(r) /\ HopInv(r) /\ ListInv(r)

IInv == TypeOK /\ \A r \in Slots : SlotInv(r)

-----------------------------------------------------------------------------
(* Steps *)

(* A request that does not take part in a step keeps what is known of it.  *)
Kept(s) == /\ ask'[s] = ask[s] /\ pc'[s] = pc[s] /\ id'[s] = id[s]
           /\ out'[s] = out[s] /\ rpc'[s] = rpc[s]
           /\ counted'[s] = counted[s] /\ fetched'[s] = fetched[s]
           /\ sent'[s] = sent[s] /\ logs'[s] = logs[s]

LEMMA KeptLemma ==
    ASSUME NEW s, SlotInv(s), Kept(s)
    PROVE  SlotInv(s)'
<1>1. FlowInv(s)'
      BY DEF SlotInv, Kept, FlowInv
<1>2. OutInv(s)'
      BY DEF SlotInv, Kept, OutInv, Fit
<1>3. QuietInv(s)'
      BY DEF SlotInv, Kept, QuietInv, Final
<1>4. TraceInv(s)'
      BY DEF SlotInv, Kept, TraceInv
<1>5. HopInv(s)'
      BY DEF SlotInv, Kept, HopInv, Final
<1>6. ListInv(s)'
      BY DEF SlotInv, Kept, ListInv, Counts, Shows, Filters, Sorts, Params
<1> QED  BY <1>1, <1>2, <1>3, <1>4, <1>5, <1>6 DEF SlotInv

(* A handler returns. *)
StagesOK ==
    /\ pc \in [Slots -> Routes \cup {"new", "fetch", "answered", "return", "over"}]
    /\ DOMAIN out = Slots
    /\ \A s \in Slots : out[s].kind \in {"none", "reply", "panic", "rpc"}

LEMMA ReturnsLemma ==
    ASSUME IInv, NEW r \in Slots, NEW o, Returns(r, o),
           o.kind \in {"reply", "panic"}, Fit(o),
           pc[r] \notin {"new", "over"},
           UNCHANGED <<ask, id, sent, logs>>,
           \A s \in Slots \ {r} : rpc'[s] = rpc[s] /\ counted'[s] = counted[s]
                                  /\ fetched'[s] = fetched[s],
           rpc'[r] # NoError /\ ask[r].route = "register" =>
              Final(o) = ErrorReply(rpc'[r]),
           ask[r].route = "list" /\ o.kind = "reply" /\ o.status = 200 =>
              Counts(r)' /\ Shows(r)'
    PROVE  /\ \A s \in Slots : SlotInv(s)'
           /\ StagesOK'
<1>1. pc'[r] = "return" /\ out'[r] = o
      BY DEF IInv, TypeOK, Returns
<1>2. \A s \in Slots \ {r} : pc'[s] = pc[s] /\ out'[s] = out[s]
      BY DEF IInv, TypeOK, Returns
<1>3. \A s \in Slots \ {r} : SlotInv(s)'
      BY <1>2, KeptLemma DEF IInv, Kept
<1>4. SlotInv(r)
      BY DEF IInv
<1>5. "return" \notin Routes
      BY DEF Routes
<1>6. FlowInv(r)' /\ OutInv(r)'
      BY <1>1, <1>4, <1>5 DEF SlotInv, FlowInv, OutInv
<1>7. QuietInv(r)' /\ TraceInv(r)'
      BY <1>1, <1>4 DEF SlotInv, QuietInv, TraceInv
<1>8. HopInv(r)'
      BY <1>1 DEF HopInv
<1>9. ListInv(r)'
      BY <1>1 DEF ListInv
<1>10. SlotInv(r)'
      BY <1>6, <1>7, <1>8, <1>9 DEF SlotInv
<1>11. /\ pc' \in [Slots -> Routes \cup {"new", "fetch", "answered", "return",
                                          "over"}]
       /\ DOMAIN out' = Slots
      BY DEF IInv, TypeOK, Returns
<1> QED  BY <1>1, <1>2, <1>3, <1>10, <1>11 DEF IInv, TypeOK, StagesOK

(* Outcomes *)

LEMMA FailsLemma ==
    ASSUME NEW err \in Errors
    PROVE  /\ Fails(err).kind = "reply" /\ Fit(Fails(err))
           /\ Fails(err).status # 200
           /\ Final(Fails(err)) = ErrorReply(err)
<1>1. ErrorReply(err) = [status |-> Fails(err).status, text |-> Fails(err).text]
      BY ReplyLemma
<1> QED  BY <1>1, ReplyLemma DEF Fit, Final

LEMMA OutcomeLemma ==
    /\ \A st \in 200 .. 599 :
          /\ Reply(st, "specific").kind = "reply"
          /\ Reply(st, "specific").status = st
          /\ Fit(Reply(st, "specific"))
    /\ Panic.kind = "panic" /\ Fit(Panic)
BY DEF Reply, Panic, Fit, Polite

(* The handlers of the user service's HTTP API *)

LEMMA BreaksNext ==
    ASSUME IInv, NEW r \in Slots, Breaks(r) PROVE IInv'
<1>1. PICK o : /\ Returns(r, o)
               /\ o = Panic \/ \E err \in Errors : o = Fails(err)
      BY ErrorsLemma DEF Breaks
<1>2. /\ o.kind \in {"reply", "panic"} /\ Fit(o)
      /\ o.kind = "panic" \/ o.status # 200
  <2>1. CASE o = Panic
        BY <2>1, OutcomeLemma
  <2>2. ASSUME NEW err \in Errors, o = Fails(err)
        PROVE  o.kind = "reply" /\ Fit(o) /\ o.status # 200
        BY <2>2, FailsLemma
  <2> QED  BY <1>1, <2>1, <2>2
<1>3. /\ pc[r] \in {"list", "fetch", "get", "create", "update", "delete"}
      /\ UNCHANGED <<rows, lastId, ask, id, rpc, counted, fetched, sent, logs>>
      BY DEF Breaks, slot
<1>4. rpc'[r] = NoError
      BY <1>3 DEF IInv, SlotInv, HopInv
<1>5. (\A s \in Slots : SlotInv(s)') /\ StagesOK'
      BY <1>1, <1>2, <1>3, <1>4, ReturnsLemma
<1> QED  BY <1>3, <1>5 DEF IInv, TypeOK, StagesOK

LEMMA CountNext ==
    ASSUME IInv, NEW r \in Slots, Count(r) PROVE IInv'
<1>1. /\ pc[r] = "list"
      /\ UNCHANGED <<rows, lastId, ask, id, rpc, fetched, sent, logs>>
      /\ counted' = [counted EXCEPT ![r] = rows]
      BY DEF Count, Steps
<1>2. /\ counted' \in [Slots -> SUBSET Users]
      /\ counted'[r] = rows
      /\ \A s \in Slots \ {r} : counted'[s] = counted[s]
      BY <1>1 DEF IInv, TypeOK
<1>3. CASE Refuses(Filters(r))
  <2>1. Returns(r, Fails(Internal))
        BY <1>3 DEF Count
  <2>2. rpc'[r] = NoError
        BY <1>1 DEF IInv, SlotInv, HopInv
  <2>3. Fails(Internal).kind = "reply" /\ Fit(Fails(Internal))
           /\ Fails(Internal).status # 200
        BY FailsLemma, ErrorsLemma
  <2>4. (\A s \in Slots : SlotInv(s)') /\ StagesOK'
        BY <1>1, <1>2, <2>1, <2>2, <2>3, ReturnsLemma
  <2> QED  BY <1>1, <1>2, <2>4 DEF IInv, TypeOK, StagesOK
<1>4. CASE ~Refuses(Filters(r))
  <2> DEFINE o == Listed(Cardinality(Filtered(rows, Filters(r))), <<>>)
  <2>1. /\ pc'  = [pc EXCEPT ![r] = "fetch"]
        /\ out' = [out EXCEPT ![r] = o]
        BY <1>4 DEF Count
  <2>2. /\ o.kind = "reply"
        /\ o.total = Cardinality(Filtered(rows, Filters(r)))
        BY DEF Listed
  <2> HIDE DEF o
  <2>3. /\ pc'[r] = "fetch" /\ out'[r] = o
        /\ \A s \in Slots \ {r} : pc'[s] = pc[s] /\ out'[s] = out[s]
        BY <2>1 DEF IInv, TypeOK
  <2>4. \A s \in Slots \ {r} : SlotInv(s)'
        BY <1>1, <1>2, <2>3, KeptLemma DEF IInv, Kept
  <2>5. SlotInv(r)
        BY DEF IInv
  <2>6. "fetch" \notin Routes /\ "list" \in Routes
        BY DEF Routes
  <2>7. FlowInv(r)' /\ OutInv(r)' /\ QuietInv(r)' /\ TraceInv(r)' /\ HopInv(r)'
        BY <1>1, <2>3, <2>5, <2>6
        DEF SlotInv, FlowInv, OutInv, QuietInv, TraceInv, HopInv
  <2>8. Filters(r)' = Filters(r)
        BY <1>1 DEF Filters
  <2>9. ListInv(r)'
        BY <1>2, <2>2, <2>3, <2>8 DEF ListInv, Counts
  <2>10. TypeOK'
        BY <1>1, <1>2, <2>1, <2>2, <2>3 DEF IInv, TypeOK
  <2> QED  BY <2>4, <2>7, <2>9, <2>10 DEF IInv, SlotInv
<1> QED  BY <1>3, <1>4

LEMMA FetchNext ==
    ASSUME IInv, NEW r \in Slots, Fetch(r) PROVE IInv'
<1>1. /\ pc[r] = "fetch"
      /\ UNCHANGED <<rows, lastId, ask, id, rpc, counted, sent, logs>>
      /\ fetched' = [fetched EXCEPT ![r] = rows]
      BY DEF Fetch, Steps
<1>2. /\ fetched' \in [Slots -> SUBSET Users]
      /\ fetched'[r] = rows
      /\ \A s \in Slots \ {r} : fetched'[s] = fetched[s]
      BY <1>1 DEF IInv, TypeOK
<1>3. PICK s \in Ordered(Filtered(rows, Filters(r)), Sorts(r)) :
         Returns(r, Listed(out[r].total,
                           PageOf(s, Offset(Params(r)), Params(r).limit)))
      BY DEF Fetch
<1> DEFINE o == Listed(out[r].total, PageOf(s, Offset(Params(r)), Params(r).limit))
<1>4. /\ o.kind = "reply" /\ Fit(o) /\ o.total = out[r].total
      /\ o.page = PageOf(s, Offset(Params(r)), Params(r).limit)
      BY DEF Listed, Fit, Polite
<1>5. Returns(r, o)
      BY <1>3
<1> HIDE DEF o
<1>6. out'[r] = o
      BY <1>5 DEF Returns, IInv, TypeOK
<1>7. Filters(r)' = Filters(r) /\ Sorts(r)' = Sorts(r) /\ Params(r)' = Params(r)
      BY <1>1 DEF Filters, Sorts, Params
<1>8. Counts(r)'
  <2>1. Counts(r)
        BY <1>1 DEF IInv, SlotInv, ListInv
  <2> QED  BY <1>1, <1>4, <1>6, <1>7, <2>1 DEF Counts
<1>9. Shows(r)'
      BY <1>2, <1>3, <1>4, <1>6, <1>7 DEF Shows
<1>10. rpc'[r] = NoError
      BY <1>1 DEF IInv, SlotInv, HopInv
<1>11. (\A q \in Slots : SlotInv(q)') /\ StagesOK'
      BY <1>1, <1>2, <1>4, <1>5, <1>8, <1>9, <1>10, ReturnsLemma
<1> QED  BY <1>1, <1>2, <1>11 DEF IInv, TypeOK, StagesOK

LEMMA HandlerLemma ==
    ASSUME IInv, NEW r \in Slots, NEW o, Returns(r, o),
           pc[r] \in {"get", "create", "update", "delete"},
           o.kind = "reply", Fit(o),
           UNCHANGED <<ask, id, rpc, counted, fetched, sent, logs>>,
           rows' \in SUBSET Users, lastId' \in 0 .. MaxId
    PROVE  IInv'
<1>1. rpc'[r] = NoError
      BY DEF IInv, SlotInv, HopInv
<1>2. ask[r].route # "list"
      BY DEF IInv, SlotInv, FlowInv, Routes
<1>3. (\A s \in Slots : SlotInv(s)') /\ StagesOK'
      BY <1>1, <1>2, ReturnsLemma
<1> QED  BY <1>3 DEF IInv, TypeOK, StagesOK

Answered ==
    {NotFound, Fails(Specific("CONFLICT")), Reply(200, "specific"),
     Reply(201, "specific"), Reply(204, "specific")}

LEMMA AnsweredLemma ==
    ASSUME NEW o \in Answered PROVE o.kind = "reply" /\ Fit(o)
<1>1. \A code \in {"NOT_FOUND", "CONFLICT"} :
         LET f == Fails(Specific(code)) IN f.kind = "reply" /\ Fit(f)
      BY FailsLemma, ErrorsLemma DEF Codes
<1>2. CASE o \in {NotFound, Fails(Specific("CONFLICT"))}
      BY <1>1, <1>2 DEF NotFound
<1>3. CASE o \in {Reply(200, "specific"), Reply(201, "specific"), Reply(204, "specific")}
      BY <1>3 DEF Reply, Fit, Polite
<1> QED  BY <1>2, <1>3 DEF Answered

LEMMA GetNext ==
    ASSUME IInv, NEW r \in Slots, Get(r) PROVE IInv'
<1>1. PICK o \in Answered : Returns(r, o)
      BY DEF Get, Answered
<1>2. o.kind = "reply" /\ Fit(o)
      BY <1>1, AnsweredLemma
<1>3. /\ pc[r] = "get"
      /\ UNCHANGED <<rows, lastId, ask, id, rpc, counted, fetched, sent, logs>>
      BY DEF Get, Steps
<1> QED  BY <1>1, <1>2, <1>3, HandlerLemma DEF IInv, TypeOK

LEMMA InsertsLemma ==
    ASSUME IInv, Inserts
    PROVE  rows' \in SUBSET Users /\ lastId' \in 0 .. MaxId
<1>1. lastId \in 0 .. MaxId /\ rows \in SUBSET Users /\ MaxId \in Nat
      BY RequestsAssumption DEF IInv, TypeOK
<1>2. lastId + 1 \in 1 .. MaxId
      BY <1>1 DEF Inserts
<1>3. [id |-> lastId + 1, name |-> 1, created_at |-> 2] \in Users
      BY <1>2 DEF Users
<1> QED  BY <1>1, <1>2, <1>3 DEF Inserts

LEMMA CreateNext ==
    ASSUME IInv, NEW r \in Slots, Create(r) PROVE IInv'
<1>1. /\ pc[r] = "create"
      /\ UNCHANGED <<ask, id, rpc, counted, fetched, sent, logs>>
      BY DEF Create, Steps
<1>2. PICK o \in Answered : Returns(r, o)
      BY DEF Create, Answered
<1>3. rows' \in SUBSET Users /\ lastId' \in 0 .. MaxId
      BY InsertsLemma DEF Create, IInv, TypeOK
<1> QED  BY <1>1, <1>2, <1>3, AnsweredLemma, HandlerLemma

LEMMA UpdateNext ==
    ASSUME IInv, NEW r \in Slots, Update(r) PROVE IInv'
<1>1. /\ pc[r] = "update"
      /\ UNCHANGED <<lastId, ask, id, rpc, counted, fetched, sent, logs>>
      BY DEF Update, Steps
<1>2. PICK o \in Answered : Returns(r, o)
      BY DEF Update, Answered
<1>3. o.kind = "reply" /\ Fit(o)
      BY <1>2, AnsweredLemma
<1>4. rows' \in SUBSET Users
  <2>1. rows \in SUBSET Users
        BY DEF IInv, TypeOK
  <2>2. \A row \in Users : [row EXCEPT !.name = 2] \in Users
        BY DEF Users
  <2> QED  BY <2>1, <2>2 DEF Update, Named
<1> QED  BY <1>1, <1>2, <1>3, <1>4, HandlerLemma DEF IInv, TypeOK

LEMMA DeleteNext ==
    ASSUME IInv, NEW r \in Slots, Delete(r) PROVE IInv'
<1>1. /\ pc[r] = "delete"
      /\ UNCHANGED <<lastId, ask, id, rpc, counted, fetched, sent, logs>>
      BY DEF Delete, Steps
<1>2. PICK o \in Answered : Returns(r, o)
      BY DEF Delete, Answered
<1>3. o.kind = "reply" /\ Fit(o)
      BY <1>2, AnsweredLemma
<1>4. rows' \in SUBSET Users
      BY DEF Delete, IInv, TypeOK
<1> QED  BY <1>1, <1>2, <1>3, <1>4, HandlerLemma DEF IInv, TypeOK

(* The way in *)

LEMMA RefusalLemma ==
    ASSUME NEW q, Refusal(q) # "none" PROVE Refusal(q) \in {"UNAUTHORIZED", "INVALID_INPUT"}
BY DEF Refusal

LEMMA EnterNext ==
    ASSUME IInv, NEW r \in Slots, NEW q \in Asks, Enter(r, q) PROVE IInv'
<1>1. /\ pc[r] = "new"
      /\ ask' = [ask EXCEPT ![r] = q]
      /\ id' = [id EXCEPT ![r].http = RequestID(q.rid, "fresh")]
      /\ UNCHANGED <<rows, lastId, rpc, counted, fetched, sent, logs>>
      BY DEF Enter
<1>2. /\ ask'[r] = q /\ id'[r].http = RequestID(q.rid, "fresh")
      /\ \A s \in Slots \ {r} : ask'[s] = ask[s] /\ id'[s] = id[s]
      BY <1>1 DEF IInv, TypeOK
<1>3. q.route \in Routes /\ q.rid \in {"none", "client"}
      BY RequestsAssumption
<1>4. /\ ask' \in [Slots -> Asks \cup {NoAsk}]
      /\ id' \in [Slots -> [http: Ids \cup {"none"}, grpc: Ids \cup {"none"}]]
  <2>1. RequestID(q.rid, "fresh") \in Ids
        BY <1>3 DEF RequestID, Ids
  <2>2. id[r] \in [http: Ids \cup {"none"}, grpc: Ids \cup {"none"}]
        BY DEF IInv, TypeOK
  <2>3. [id[r] EXCEPT !.http = RequestID(q.rid, "fresh")]
           \in [http: Ids \cup {"none"}, grpc: Ids \cup {"none"}]
        BY <2>1, <2>2
  <2> QED  BY <1>1, <2>3 DEF IInv, TypeOK
<1>5. PICK o, stage :
         /\ pc' = [pc EXCEPT ![r] = stage]
         /\ DOMAIN out' = Slots /\ out'[r] = o
         /\ \A s \in Slots \ {r} : out'[s] = out[s]
         /\ \/ stage = q.route /\ o = out[r]
            \/ stage = "return" /\ o.kind = "reply" /\ Fit(o) /\ o.status # 200
  <2>1. CASE Refusal(q) = "none"
        BY <2>1 DEF Enter, IInv, TypeOK
  <2>2. CASE Refusal(q) # "none"
    <3>1. Specific(Refusal(q)) \in Errors
          BY <2>2, RefusalLemma, ErrorsLemma DEF Codes
    <3> DEFINE o == Fails(Specific(Refusal(q)))
    <3>2. o.kind = "reply" /\ Fit(o) /\ o.status # 200
          BY <3>1, FailsLemma
    <3>3. pc' = [pc EXCEPT ![r] = "return"] /\ out' = [out EXCEPT ![r] = o]
          BY <2>2 DEF Enter
    <3> HIDE DEF o
    <3>4. DOMAIN out' = Slots /\ out'[r] = o /\ \A s \in Slots \ {r} : out'[s] = out[s]
          BY <3>3 DEF IInv, TypeOK
    <3> QED  BY <3>2, <3>3, <3>4
  <2> QED  BY <2>1, <2>2
<1>6. /\ pc'[r] = stage
      /\ \A s \in Slots \ {r} : pc'[s] = pc[s] /\ out'[s] = out[s]
      BY <1>5 DEF IInv, TypeOK
<1>7. \A s \in Slots \ {r} : SlotInv(s)'
      BY <1>1, <1>2, <1>6, KeptLemma DEF IInv, Kept
<1>8. SlotInv(r)
      BY DEF IInv
<1>9. /\ "fetch" \notin Routes /\ "answered" \notin Routes /\ "return" \notin Routes
      /\ "over" \notin Routes /\ "new" \notin Routes
      BY DEF Routes
<1>10. FlowInv(r)' /\ OutInv(r)' /\ QuietInv(r)'
      BY <1>1, <1>2, <1>3, <1>5, <1>6, <1>8, <1>9
      DEF SlotInv, FlowInv, OutInv, QuietInv
<1>11. TraceInv(r)' /\ HopInv(r)'
      BY <1>1, <1>2, <1>3, <1>5, <1>6, <1>8, <1>9
      DEF SlotInv, QuietInv, TraceInv, HopInv
<1>12. ListInv(r)'
      BY <1>3, <1>5, <1>6, <1>9 DEF ListInv
<1>13. TypeOK'
  <2>1. pc' \in [Slots -> Routes \cup {"new", "fetch", "answered", "return", "over"}]
        BY <1>3, <1>5 DEF IInv, TypeOK
  <2>2. \A s \in Slots : out'[s].kind \in {"none", "reply", "panic", "rpc"}
        BY <1>5 DEF IInv, TypeOK
  <2> QED  BY <1>1, <1>4, <1>5, <2>1, <2>2 DEF IInv, TypeOK
<1> QED  BY <1>7, <1>10, <1>11, <1>12, <1>13 DEF IInv, SlotInv

(* auth's requests *)

LEMMA SameStatusLemma ==
    ASSUME NEW x, NEW y, x.code = y.code, x.text = y.text
    PROVE  FromGRPCError(x) = FromGRPCError(y)
BY DEF FromGRPCError

LEMMA IdsLemma ==
    ASSUME IInv, NEW r \in Slots, pc[r] # "new"
    PROVE  id[r].http \in Ids /\ id[r].http # "none"
<1>1. ask[r] \in Asks /\ id[r].http = RequestID(ask[r].rid, "fresh")
      BY DEF IInv, SlotInv, FlowInv, TraceInv
<1> QED  BY <1>1, RequestsAssumption DEF RequestID, Ids

(* What an RPC answers to the error it met. *)
Carries(code, text, err) ==
    /\ code \in GRPCCodes /\ text \in Polite
    /\ err # NoError =>
          /\ code # "OK"
          /\ ErrorReply(FromGRPCError([code |-> code, text |-> text])) = ErrorReply(err)

LEMMA AnswersLemma ==
    ASSUME IInv, NEW r \in Slots, NEW kind, NEW err, Answers(r, kind, err),
           pc[r] \in {"register", "login"},
           \/ kind = "reply" /\ err \in RPCErrors(pc[r]) \cup {NoError}
           \/ kind = "panic" /\ err = Panicked
    PROVE  \E code, text :
              /\ Carries(code, text, err)
              /\ id'   = [id EXCEPT ![r].grpc = id[r].http]
              /\ logs' = [logs EXCEPT ![r].grpc =
                             logs[r].grpc \cup {[id |-> id[r].http, status |-> code]}]
              /\ out'  = [out EXCEPT ![r] = [kind |-> "rpc", code |-> code, text |-> text]]
<1> DEFINE st == IF err = NoError THEN [code |-> "OK", text |-> "specific"]
                                  ELSE ToGRPCError(err)
           h  == [kind |-> kind, status |-> st.code, text |-> st.text,
                  id |-> id[r].http, logs |-> logs[r]]
           g  == Recovery(h)
<1>1. id[r].http # "none"
      BY IdsLemma
<1>2. RequestID(PropagateRequestID(id[r].http), "fresh2") = id[r].http
      BY <1>1 DEF RequestID, PropagateRequestID
<1>3. /\ id'  = [id EXCEPT ![r].grpc = id[r].http]
      /\ logs' = [logs EXCEPT ![r] = GRPCReturn(h).logs]
      /\ out' = [out EXCEPT ![r] = [kind |-> "rpc", code |-> GRPCReturn(h).status,
                                    text |-> GRPCReturn(h).text]]
      BY <1>2 DEF Answers
<1>4. /\ g.kind = "reply" /\ g.id = id[r].http /\ g.logs = logs[r]
      /\ Carries(g.status, g.text, err)
      /\ g = [kind |-> g.kind, status |-> g.status, text |-> g.text, id |-> g.id,
              logs |-> g.logs]
  <2>1. CASE kind = "reply" /\ err = NoError
        BY <2>1 DEF Recovery, Carries, GRPCCodes, Polite
  <2>2. CASE kind = "reply" /\ err \in RPCErrors(pc[r])
    <3>1. /\ err # NoError /\ err \in Errors
          /\ From(err).code \in Carried \/ From(err) = Internal
          BY <2>2, RPCErrorsLemma
    <3>2. /\ ToGRPCError(err).code \in GRPCCodes \ {"OK"}
          /\ ToGRPCError(err).text \in Polite
          /\ ErrorReply(FromGRPCError(ToGRPCError(err))) = ErrorReply(err)
          BY <3>1, HopLemma
    <3>3. g = h /\ st = ToGRPCError(err)
          BY <2>2, <3>1 DEF Recovery
    <3>4. FromGRPCError([code |-> st.code, text |-> st.text]) = FromGRPCError(st)
          BY SameStatusLemma
    <3> QED  BY <2>2, <3>2, <3>3, <3>4 DEF Carries
  <2>3. CASE kind = "panic" /\ err = Panicked
    <3>1. /\ g.kind = "reply" /\ g.status = "Internal" /\ g.text = "generic"
          /\ g.id = id[r].http /\ g.logs = logs[r]
          /\ g = [kind |-> g.kind, status |-> g.status, text |-> g.text, id |-> g.id,
                  logs |-> g.logs]
          BY <2>3 DEF Recovery
    <3>2. FromGRPCError([code |-> "Internal", text |-> "generic"]) = Internal
          BY DEF FromGRPCError
    <3>3. ErrorReply(Internal) = ErrorReply(Panicked)
          BY DEF ErrorReply, From, Internal, Panicked, Codes
    <3> QED  BY <2>3, <3>1, <3>2, <3>3 DEF Carries, GRPCCodes, Polite
  <2> QED  BY <2>1, <2>2, <2>3
<1>5. /\ GRPCReturn(h).status = g.status /\ GRPCReturn(h).text = g.text
      /\ GRPCReturn(h).logs =
            [logs[r] EXCEPT !["grpc"] = @ \cup {[id |-> id[r].http, status |-> g.status]}]
  <2>1. GRPCReturn(h) = Logger("grpc", g)
        BY DEF GRPCReturn
  <2> HIDE DEF g
  <2> QED  BY <1>4, <2>1 DEF Logger
<1>6. logs' = [logs EXCEPT ![r].grpc =
                  logs[r].grpc \cup {[id |-> id[r].http, status |-> g.status]}]
      BY <1>3, <1>5
<1> QED  BY <1>3, <1>4, <1>5, <1>6

LEMMA RPCNext ==
    ASSUME IInv, NEW r \in Slots, RPC(r) PROVE IInv'
<1>1. /\ pc[r] \in {"register", "login"}
      /\ rows' \in SUBSET Users /\ lastId' \in 0 .. MaxId
  <2>1. CASE Inserts
        BY <2>1, InsertsLemma DEF RPC
  <2>2. CASE UNCHANGED <<rows, lastId>>
        BY <2>2 DEF RPC, IInv, TypeOK
  <2> QED  BY <2>1, <2>2 DEF RPC
<1>2. PICK kind, err :
         /\ Answers(r, kind, err)
         /\ \/ kind = "reply" /\ err \in RPCErrors(pc[r]) \cup {NoError}
            \/ kind = "panic" /\ err = Panicked
      BY DEF RPC, Panicked
<1>3. PICK code, text :
         /\ Carries(code, text, err)
         /\ id'   = [id EXCEPT ![r].grpc = id[r].http]
         /\ logs' = [logs EXCEPT ![r].grpc =
                        logs[r].grpc \cup {[id |-> id[r].http, status |-> code]}]
         /\ out'  = [out EXCEPT ![r] = [kind |-> "rpc", code |-> code, text |-> text]]
      BY <1>1, <1>2, AnswersLemma
<1>4. /\ rpc' = [rpc EXCEPT ![r] = err]
      /\ pc'  = [pc EXCEPT ![r] = "answered"]
      /\ UNCHANGED <<ask, counted, fetched, sent>>
      BY <1>2 DEF Answers
<1>5. \A s \in Slots \ {r} : /\ id'[s] = id[s] /\ logs'[s] = logs[s] /\ out'[s] = out[s]
                             /\ rpc'[s] = rpc[s] /\ pc'[s] = pc[s]
      BY <1>3, <1>4 DEF IInv, TypeOK
<1>6. \A s \in Slots \ {r} : SlotInv(s)'
      BY <1>4, <1>5, KeptLemma DEF IInv, Kept
<1>7. /\ id[r] \in [http: Ids \cup {"none"}, grpc: Ids \cup {"none"}]
      /\ logs[r] \in [http: SUBSET [id: Ids, status: 200 .. 599],
                      grpc: SUBSET [id: Ids, status: GRPCCodes]]
      BY DEF IInv, TypeOK
<1>8. id[r].http \in Ids
      BY <1>1, IdsLemma DEF Routes
<1>9. /\ pc'[r] = "answered" /\ rpc'[r] = err
      /\ out'[r].kind = "rpc" /\ out'[r].code = code /\ out'[r].text = text
      /\ id'[r] = [id[r] EXCEPT !.grpc = id[r].http]
      /\ logs'[r] = [logs[r] EXCEPT !.grpc =
                        logs[r].grpc \cup {[id |-> id[r].http, status |-> code]}]
      BY <1>3, <1>4 DEF IInv, TypeOK
<1>10. /\ id'[r].http = id[r].http /\ logs'[r].http = logs[r].http
       /\ \A l \in logs'[r].grpc : l \in logs[r].grpc \/ l.id = id[r].http
       BY <1>7, <1>9
<1>11. SlotInv(r)
       BY DEF IInv
<1>12. /\ "answered" \notin Routes /\ "fetch" \notin Routes
       BY DEF Routes
<1>13. FlowInv(r)' /\ OutInv(r)' /\ QuietInv(r)' /\ TraceInv(r)'
       BY <1>1, <1>3, <1>4, <1>9, <1>10, <1>11, <1>12
       DEF SlotInv, FlowInv, OutInv, QuietInv, TraceInv, Carries, Routes
<1>14. HopInv(r)'
  <2>1. FromGRPCError(out'[r]) = FromGRPCError([code |-> code, text |-> text])
        BY <1>9, SameStatusLemma
  <2> QED  BY <1>3, <1>9, <2>1 DEF HopInv, Carries
<1>15. ListInv(r)'
       BY <1>9 DEF ListInv
<1>16. TypeOK'
  <2>1. err \in Errors \cup {NoError}
        BY <1>2, RPCErrorsLemma
  <2>2. rpc' \in [Slots -> Errors \cup {NoError}]
        BY <1>4, <2>1 DEF IInv, TypeOK
  <2>3. id'[r] \in [http: Ids \cup {"none"}, grpc: Ids \cup {"none"}]
        BY <1>7, <1>8, <1>9
  <2>4. id' \in [Slots -> [http: Ids \cup {"none"}, grpc: Ids \cup {"none"}]]
        BY <1>3, <1>5, <2>3 DEF IInv, TypeOK
  <2>5. logs'[r] \in [http: SUBSET [id: Ids, status: 200 .. 599],
                      grpc: SUBSET [id: Ids, status: GRPCCodes]]
        BY <1>3, <1>7, <1>8, <1>9 DEF Carries
  <2>6. logs' \in [Slots -> [http: SUBSET [id: Ids, status: 200 .. 599],
                             grpc: SUBSET [id: Ids, status: GRPCCodes]]]
    <3>1. logs' = [s \in Slots |-> logs'[s]]
          BY <1>3 DEF IInv, TypeOK
    <3>2. \A s \in Slots : logs'[s] \in [http: SUBSET [id: Ids, status: 200 .. 599],
                                        grpc: SUBSET [id: Ids, status: GRPCCodes]]
      <4>1. \A s \in Slots : logs[s] \in [http: SUBSET [id: Ids, status: 200 .. 599],
                                         grpc: SUBSET [id: Ids, status: GRPCCodes]]
            BY DEF IInv, TypeOK
      <4> QED  BY <1>5, <2>5, <4>1
    <3> QED  BY <3>1, <3>2
  <2>7. StagesOK'
        BY <1>3, <1>4, <1>5, <1>9 DEF IInv, TypeOK, StagesOK
  <2> QED  BY <1>1, <1>4, <2>2, <2>4, <2>6, <2>7 DEF IInv, TypeOK, StagesOK
<1> QED  BY <1>6, <1>13, <1>14, <1>15, <1>16 DEF IInv, SlotInv

LEMMA ReceiveNext ==
    ASSUME IInv, NEW r \in Slots, Receive(r) PROVE IInv'
<1>1. /\ pc[r] = "answered"
      /\ UNCHANGED <<rows, lastId, ask, id, rpc, counted, fetched, sent, logs>>
      BY DEF Receive, slot
<1>2. /\ ask[r].route # "list"
      /\ out[r].code \in GRPCCodes /\ out[r].text \in Polite
      /\ rpc[r] # NoError /\ ask[r].route = "register" =>
            /\ out[r].code # "OK"
            /\ ErrorReply(FromGRPCError(out[r])) = ErrorReply(rpc[r])
      BY <1>1 DEF IInv, SlotInv, FlowInv, OutInv, HopInv
<1>3. PICK o : /\ Returns(r, o)
               /\ o.kind = "reply" /\ Fit(o)
               /\ rpc[r] # NoError /\ ask[r].route = "register" =>
                     Final(o) = ErrorReply(rpc[r])
  <2>1. CASE out[r].code = "OK"
    <3>1. PICK o : /\ Returns(r, o)
                   /\ \/ o \in Answered
                      \/ o \in {Fails(Specific("UNAUTHORIZED")), Fails(Internal)}
          BY <2>1 DEF Receive, Answered
    <3>2. \A e \in Errors : Fails(e).kind = "reply" /\ Fit(Fails(e))
          BY FailsLemma
    <3>3. Specific("UNAUTHORIZED") \in Errors /\ Internal \in Errors
          BY ErrorsLemma DEF Codes
    <3>4. o.kind = "reply" /\ Fit(o)
          BY <3>1, <3>2, <3>3, AnsweredLemma
    <3> QED  BY <1>2, <2>1, <3>1, <3>4
  <2>2. CASE out[r].code # "OK"
    <3> DEFINE e == AuthError(ask[r].route, FromGRPCError(out[r]))
    <3>1. Returns(r, Fails(e))
          BY <2>2 DEF Receive
    <3>2. FromGRPCError(out[r]) \in Errors
          BY <1>2, StatusLemma
    <3>3. e \in Errors
          BY <3>2, ErrorsLemma DEF AuthError, Codes
    <3>4. ask[r].route = "register" => e = FromGRPCError(out[r])
          BY DEF AuthError
    <3> HIDE DEF e
    <3>5. /\ Fails(e).kind = "reply" /\ Fit(Fails(e))
          /\ Final(Fails(e)) = ErrorReply(e)
          BY <3>3, FailsLemma
    <3> QED  BY <1>2, <3>1, <3>4, <3>5
  <2> QED  BY <2>1, <2>2
<1>4. (\A s \in Slots : SlotInv(s)') /\ StagesOK'
      BY <1>1, <1>2, <1>3, ReturnsLemma
<1> QED  BY <1>1, <1>4 DEF IInv, TypeOK, StagesOK

LEMMA RPCLostNext ==
    ASSUME IInv, NEW r \in Slots, RPCLost(r) PROVE IInv'
<1>1. /\ pc[r] \in {"register", "login", "answered"}
      /\ rpc' = [rpc EXCEPT ![r] = NoError]
      /\ UNCHANGED <<rows, lastId, ask, id, counted, fetched, sent, logs>>
      BY DEF RPCLost
<1>2. ask[r].route # "list"
      BY <1>1 DEF IInv, SlotInv, FlowInv, Routes
<1>3. PICK code \in {"DeadlineExceeded", "Unavailable"} :
         Returns(r, Fails(AuthError(ask[r].route,
                              FromGRPCError([code |-> code, text |-> "cause"]))))
      BY DEF RPCLost
<1> DEFINE e == AuthError(ask[r].route, FromGRPCError([code |-> code, text |-> "cause"]))
<1>4. FromGRPCError([code |-> code, text |-> "cause"]) \in Errors
      BY <1>3, StatusLemma DEF GRPCCodes
<1>5. e \in Errors
      BY <1>4, ErrorsLemma DEF AuthError, Codes
<1>6. Returns(r, Fails(e))
      BY <1>3
<1> HIDE DEF e
<1>7. Fails(e).kind = "reply" /\ Fit(Fails(e))
      BY <1>5, FailsLemma
<1>8. /\ rpc' \in [Slots -> Errors \cup {NoError}]
      /\ rpc'[r] = NoError
      /\ \A s \in Slots \ {r} : rpc'[s] = rpc[s]
      BY <1>1 DEF IInv, TypeOK
<1>9. (\A s \in Slots : SlotInv(s)') /\ StagesOK'
      BY <1>1, <1>2, <1>6, <1>7, <1>8, ReturnsLemma
<1> QED  BY <1>1, <1>8, <1>9 DEF IInv, TypeOK, StagesOK

(* The way out *)

LEMMA LeaveNext ==
    ASSUME IInv, NEW r \in Slots, Leave(r) PROVE IInv'
<1> DEFINE o == out[r]
           g == PanicRecovery([kind |-> o.kind, status |-> o.status, text |-> o.text,
                               id |-> id[r].http, logs |-> logs[r]])
           f == Final(o)
           line == [id |-> id[r].http, status |-> f.status]
<1>1. /\ pc[r] = "return" /\ pc' = [pc EXCEPT ![r] = "over"]
      /\ UNCHANGED <<rows, lastId, ask, id, out, rpc, counted, fetched>>
      BY DEF Leave
<1>2. SlotInv(r)
      BY DEF IInv
<1>3. /\ o.kind \in {"reply", "panic"} /\ Fit(o)
      /\ sent[r] = <<>> /\ logs[r].http = {}
      BY <1>1, <1>2 DEF SlotInv, OutInv, QuietInv
<1>4. /\ g.kind = "reply" /\ g.id = id[r].http /\ g.logs = logs[r]
      /\ g.status = f.status /\ g.text = f.text
      /\ f = [status |-> f.status, text |-> f.text]
      /\ g = [kind |-> g.kind, status |-> g.status, text |-> g.text, id |-> g.id,
              logs |-> g.logs]
  <2>1. CASE o.kind = "reply"
        BY <2>1 DEF PanicRecovery, Final
  <2>2. CASE o.kind = "panic"
        BY <2>2 DEF PanicRecovery, Final
  <2> QED  BY <1>3, <2>1, <2>2
<1>5. f \in [status: 200 .. 599, text: Polite]
      BY <1>3 DEF Final, Fit, Polite
<1>6. /\ logs' = [logs EXCEPT ![r] = [logs[r] EXCEPT !["http"] = @ \cup {line}]]
      /\ sent' = [sent EXCEPT ![r] = Append(sent[r], f)]
  <2>1. /\ HTTPReturn([kind |-> o.kind, status |-> o.status, text |-> o.text,
                       id |-> id[r].http, logs |-> logs[r]]) = Logger("http", g)
        BY DEF HTTPReturn
  <2>2. /\ logs' = [logs EXCEPT ![r] = Logger("http", g).logs]
        /\ sent' = [sent EXCEPT ![r] =
                       IF Logger("http", g).kind = "panic" THEN sent[r]
                       ELSE Append(sent[r], [status |-> Logger("http", g).status,
                                             text |-> Logger("http", g).text])]
        BY <2>1 DEF Leave
  <2> HIDE DEF g, f
  <2>3. /\ Logger("http", g).kind = "reply"
        /\ Logger("http", g).status = f.status /\ Logger("http", g).text = f.text
        /\ Logger("http", g).logs = [logs[r] EXCEPT !["http"] = @ \cup {line}]
        BY <1>4 DEF Logger
  <2> QED  BY <1>4, <2>2, <2>3
<1> HIDE DEF g, f, line
<1>7. /\ pc'[r] = "over"
      /\ sent'[r] = Append(sent[r], f)
      /\ logs'[r] = [logs[r] EXCEPT !["http"] = @ \cup {line}]
      /\ \A s \in Slots \ {r} : sent'[s] = sent[s] /\ logs'[s] = logs[s] /\ pc'[s] = pc[s]
      BY <1>1, <1>6 DEF IInv, TypeOK
<1>8. sent'[r] = <<f>>
      BY <1>3, <1>7
<1>9. /\ logs[r] \in [http: SUBSET [id: Ids, status: 200 .. 599],
                      grpc: SUBSET [id: Ids, status: GRPCCodes]]
      BY DEF IInv, TypeOK
<1>10. logs'[r].http = {line} /\ logs'[r].grpc = logs[r].grpc
       BY <1>3, <1>7, <1>9
<1>11. \A s \in Slots \ {r} : SlotInv(s)'
       BY <1>1, <1>7, KeptLemma DEF IInv, Kept
<1>12. FlowInv(r)' /\ OutInv(r)' /\ TraceInv(r)' /\ HopInv(r)'
  <2>1. "over" \notin Routes
        BY DEF Routes
  <2> QED  BY <1>1, <1>2, <1>7, <1>10, <2>1
           DEF SlotInv, FlowInv, OutInv, TraceInv, HopInv
<1>13. QuietInv(r)'
       BY <1>1, <1>7, <1>8, <1>10 DEF QuietInv, f, line
<1>14. ListInv(r)'
  <2>1. (Counts(r) /\ Shows(r)) => (Counts(r)' /\ Shows(r)')
        BY <1>1 DEF Counts, Shows, Filters, Sorts, Params
  <2> QED  BY <1>1, <1>2, <1>7, <2>1 DEF SlotInv, ListInv
<1>15. TypeOK'
  <2>1. line \in [id: Ids, status: 200 .. 599]
        BY <1>1, <1>5, IdsLemma DEF line
  <2>2. logs'[r] \in [http: SUBSET [id: Ids, status: 200 .. 599],
                      grpc: SUBSET [id: Ids, status: GRPCCodes]]
    <3>1. logs'[r] = [http |-> logs[r].http \cup {line}, grpc |-> logs[r].grpc]
          BY <1>7, <1>9
    <3>2. /\ logs[r].http \cup {line} \in SUBSET [id: Ids, status: 200 .. 599]
          /\ logs[r].grpc \in SUBSET [id: Ids, status: GRPCCodes]
          BY <1>9, <2>1
    <3> QED  BY <3>1, <3>2
  <2>3. logs' \in [Slots -> [http: SUBSET [id: Ids, status: 200 .. 599],
                             grpc: SUBSET [id: Ids, status: GRPCCodes]]]
        BY <1>6, <1>7, <2>2 DEF IInv, TypeOK
  <2>4. f \in [status: 200 .. 599, text: Texts]
        BY <1>5 DEF Polite, Texts
  <2>5. sent' \in [Slots -> Seq([status: 200 .. 599, text: Texts])]
    <3>1. sent' = [s \in Slots |-> sent'[s]]
          BY <1>6 DEF IInv, TypeOK
    <3>2. <<f>> \in Seq([status: 200 .. 599, text: Texts])
          BY <2>4
    <3>3. \A s \in Slots : sent'[s] \in Seq([status: 200 .. 599, text: Texts])
      <4>1. \A s \in Slots : sent[s] \in Seq([status: 200 .. 599, text: Texts])
            BY DEF IInv, TypeOK
      <4> DEFINE S == Seq([status: 200 .. 599, text: Texts])
      <4>2. sent'[r] \in S
            BY <1>8, <3>2
      <4> HIDE DEF S
      <4>3. \A s \in Slots \ {r} : sent'[s] \in S
            BY <1>7, <4>1 DEF S
      <4>4. \A s \in Slots : sent'[s] \in S
            BY <4>2, <4>3
      <4> QED  BY <4>4 DEF S
    <3> QED  BY <3>1, <3>3
  <2>6. pc' \in [Slots -> Routes \cup {"new", "fetch", "answered", "return", "over"}]
        BY <1>1 DEF IInv, TypeOK
  <2> QED  BY <1>1, <2>3, <2>5, <2>6 DEF IInv, TypeOK
<1> QED  BY <1>11, <1>12, <1>13, <1>14, <1>15 DEF IInv, SlotInv

-----------------------------------------------------------------------------
LEMMA InitInv == Init => IInv
<1> SUFFICES ASSUME Init PROVE IInv
    OBVIOUS
<1>1. PICK n \in 0 .. 2 :
         /\ rows = {[id |-> i, name |-> 1, created_at |-> 1] : i \in 1 .. n}
         /\ lastId = n
      BY DEF Init
<1>2. rows \in SUBSET Users /\ lastId \in 0 .. MaxId
      BY <1>1, RequestsAssumption DEF Users
<1>3. TypeOK
      BY <1>2 DEF Init, TypeOK, NoIds, Nothing
<1>4. "new" \notin Routes
      BY DEF Routes
<1>5. \A r \in Slots : SlotInv(r)
      BY <1>4 DEF Init, SlotInv, FlowInv, OutInv, QuietInv, TraceInv, HopInv, ListInv
<1> QED  BY <1>3, <1>5 DEF IInv

LEMMA IInvNext == IInv /\ [Next]_vars => IInv'
<1> SUFFICES ASSUME IInv, [Next]_vars PROVE IInv'
    OBVIOUS
<1>1. CASE UNCHANGED vars
  <2>1. UNCHANGED <<rows, lastId, ask, pc, id, out, rpc, counted, fetched, sent, logs>>
        BY <1>1 DEF vars
  <2>2. \A s \in Slots : SlotInv(s)'
        BY <2>1, KeptLemma DEF IInv, Kept
  <2> QED  BY <2>1, <2>2 DEF IInv, TypeOK
<1>2. ASSUME NEW r \in Slots, NEW q \in Asks, Enter(r, q) PROVE IInv'
      BY <1>2, EnterNext
<1>3. ASSUME NEW r \in Slots,
             \/ Count(r) \/ Fetch(r) \/ Get(r) \/ Create(r) \/ Update(r) \/ Delete(r)
             \/ Breaks(r)
      PROVE  IInv'
      BY <1>3, CountNext, FetchNext, GetNext, CreateNext, UpdateNext, DeleteNext,
         BreaksNext
<1>4. ASSUME NEW r \in Slots, RPC(r) \/ Receive(r) \/ RPCLost(r) \/ Leave(r)
      PROVE  IInv'
      BY <1>4, RPCNext, ReceiveNext, RPCLostNext, LeaveNext
<1> QED  BY <1>1, <1>2, <1>3, <1>4 DEF Next

(* The invariant holds of every run. *)
THEOREM IInvHolds == Spec => []IInv
<1>1. Init => IInv
      BY InitInv
<1>2. IInv /\ [Next]_vars => IInv'
      BY IInvNext
<1> QED  BY <1>1, <1>2, PTL DEF Spec

-----------------------------------------------------------------------------
(* The theorems *)

(* Every variable keeps its type, for any number of requests. *)
THEOREM TypeCorrect == Spec => []TypeOK
<1>1. IInv => TypeOK
      BY DEF IInv
<1> QED  BY <1>1, IInvHolds, PTL

(* Every request that is over was answered exactly once, a panic of its    *)
(* handler included, with the status that its one access log line shows.   *)
THEOREM RequestsAnsweredOnce == Spec => []AnsweredOnce
<1>1. IInv => AnsweredOnce
  <2> SUFFICES ASSUME IInv, NEW r \in Slots, pc[r] = "over"
               PROVE  /\ Len(sent[r]) = 1
                      /\ logs[r].http = {[id |-> id[r].http, status |-> sent[r][1].status]}
      BY DEF AnsweredOnce
  <2>1. /\ sent[r] = <<Final(out[r])>>
        /\ logs[r].http = {[id |-> id[r].http, status |-> Final(out[r]).status]}
        BY DEF IInv, SlotInv, QuietInv
  <2> QED  BY <2>1
<1> QED  BY <1>1, IInvHolds, PTL

(* Every access log line about a request, in either service, carries the   *)
(* id the client gave it, or the one auth made.                            *)
THEOREM RequestsTraceable == Spec => []OneTrace
<1>1. IInv => OneTrace
  <2> SUFFICES ASSUME IInv, NEW r \in Slots, NEW side \in {"http", "grpc"},
                      NEW l \in logs[r][side]
               PROVE  l.id = id[r].http /\ (ask[r].rid # "none" => l.id = ask[r].rid)
      BY DEF OneTrace
  <2>1. SlotInv(r)
        BY DEF IInv
  <2>2. pc[r] # "new"
        BY <2>1 DEF SlotInv, QuietInv
  <2>3. l.id = id[r].http
        BY <2>1, <2>2 DEF SlotInv, QuietInv, TraceInv
  <2> QED  BY <2>1, <2>2, <2>3 DEF SlotInv, TraceInv, RequestID
<1> QED  BY <1>1, IInvHolds, PTL

(* What the user service refuses or fails at, auth's client is told with   *)
(* the status and the text that the user service's own HTTP API would use. *)
THEOREM StatusSurvivesHop == Spec => []SameStatusAcrossHop
<1>1. IInv => SameStatusAcrossHop
  <2> SUFFICES ASSUME IInv, NEW r \in Slots, pc[r] = "over", ask[r].route = "register",
                      rpc[r] # NoError
               PROVE  sent[r][1] = ErrorReply(rpc[r])
      BY DEF SameStatusAcrossHop
  <2>1. sent[r] = <<Final(out[r])>> /\ Final(out[r]) = ErrorReply(rpc[r])
        BY DEF IInv, SlotInv, QuietInv, HopInv
  <2> QED  BY <2>1
<1> QED  BY <1>1, IInvHolds, PTL

(* No response carries the text of a cause. *)
THEOREM CausesHidden == Spec => []CauseHidden
<1>1. IInv => CauseHidden
  <2> SUFFICES ASSUME IInv, NEW r \in Slots, NEW i \in DOMAIN sent[r]
               PROVE  sent[r][i].text # "cause"
      BY DEF CauseHidden
  <2>1. SlotInv(r)
        BY DEF IInv
  <2>2. pc[r] = "over"
        BY <2>1 DEF SlotInv, QuietInv
  <2>3. sent[r] = <<Final(out[r])>>
        BY <2>1, <2>2 DEF SlotInv, QuietInv
  <2>4. Final(out[r]).text \in Polite
        BY <2>1, <2>2 DEF SlotInv, OutInv, Fit, Final, Polite
  <2>5. i = 1
        BY <2>3
  <2> QED  BY <2>3, <2>4, <2>5 DEF Polite
<1> QED  BY <1>1, IInvHolds, PTL

-----------------------------------------------------------------------------
(* Lists *)

LEMMA UsersFinite == IsFiniteSet(Users)
<1> DEFINE T == (1 .. MaxId) \X ((1 .. 2) \X (1 .. 2))
           f == [u \in Users |-> <<u.id, <<u.name, u.created_at>>>>]
<1>1. IsFiniteSet(1 .. MaxId) /\ IsFiniteSet(1 .. 2)
  <2>1. 1 \in Int /\ 2 \in Int /\ MaxId \in Int
        BY RequestsAssumption
  <2> QED  BY <2>1, FS_Interval
<1>2. IsFiniteSet((1 .. 2) \X (1 .. 2))
      BY <1>1, FS_Product
<1>3. IsFiniteSet(T)
      BY <1>1, <1>2, FS_Product
<1>4. f \in Injection(Users, T)
  <2>1. f \in [Users -> T]
        BY DEF Users
  <2>2. \A u, v \in Users : f[u] = f[v] => u = v
        BY DEF Users
  <2> QED  BY <2>1, <2>2 DEF Injection, IsInjective
<1> QED  BY <1>3, <1>4, FS_Injection

(* What is known of a list that was shown, if its offset fits an int: it   *)
(* is the page of one ordering of the rows that match.                     *)
Matches(r) == Filtered(fetched[r], Filters(r))
Skip(r)    == (Params(r).page - 1) * Params(r).limit

LEMMA ListFacts ==
    ASSUME IInv, NEW r \in Slots, IsList(r), Exact(r)
    PROVE  /\ IsFiniteSet(Matches(r)) /\ Matches(r) \subseteq Users
           /\ Cardinality(Matches(r)) \in Nat
           /\ Params(r).page \in Nat /\ Params(r).page >= 1
           /\ Params(r).limit \in Nat /\ Params(r).limit >= 1
           /\ Skip(r) \in Nat
           /\ Sorts(r) \in Seq(SortOn)
           /\ out[r].total = Cardinality(Filtered(counted[r], Filters(r)))
           /\ \E s \in Ordered(Matches(r), Sorts(r)) :
                 out[r].page = PageOf(s, Skip(r), Params(r).limit)
<1> DEFINE p == Params(r)
           k == (p.page - 1) * p.limit
<1>1. Counts(r) /\ Shows(r)
  <2>1. pc[r] = "over" /\ ask[r].route = "list" /\ sent[r][1].status = 200
        BY DEF IsList
  <2>2. SlotInv(r)
        BY DEF IInv
  <2>3. sent[r] = <<Final(out[r])>> /\ out[r].kind \in {"reply", "panic"}
        BY <2>1, <2>2 DEF SlotInv, QuietInv, OutInv
  <2>4. out[r].kind = "reply" /\ out[r].status = 200
        BY <2>1, <2>3 DEF Final
  <2> QED  BY <2>1, <2>2, <2>4 DEF SlotInv, ListInv
<1>2. IsFiniteSet(Matches(r)) /\ Matches(r) \subseteq Users
  <2>1. Matches(r) \in SUBSET Users
        BY DEF IInv, TypeOK, Filtered, Matches
  <2> QED  BY <2>1, UsersFinite, FS_Subset
<1>3. Cardinality(Matches(r)) \in Nat
      BY <1>2, FS_CardinalityType
<1>4. ask[r] \in Asks /\ ask[r].route = "list"
      BY DEF IsList, IInv, SlotInv, FlowInv
<1>5. p.page \in Int /\ p.page >= 1 /\ p.limit \in Int /\ p.limit >= 1
  <2>1. ask[r].page \in Int /\ ask[r].limit \in Int
        BY <1>4, RequestsAssumption
  <2>2. Atoi(ask[r].page) \in Int /\ Atoi(ask[r].limit) \in Int
        BY <2>1, AtoiLemma
  <2> QED  BY <2>2, ParamsLemma DEF Params
<1>6. k \in 0 .. IntMax
  <2>1. \A x, y \in Nat : x * y \in Nat
        OBVIOUS
  <2>2. p.page - 1 \in Nat /\ p.limit \in Nat
        BY <1>5
  <2>3. k \in Nat
        BY <2>1, <2>2
  <2>4. k <= IntMax
        BY DEF Exact
  <2> QED  BY <2>3, <2>4, ListAssumption
<1>7. Offset(p) = k
      BY <1>6, WrapLemma DEF Offset
<1>8. Sorts(r) \in Seq(SortOn)
      BY <1>4, RequestsAssumption, SortsAllowed DEF Sorts
<1>9. k \in Nat
      BY <1>6, ListAssumption
<1> QED  BY <1>1, <1>2, <1>3, <1>5, <1>7, <1>8, <1>9
         DEF Matches, Skip, Counts, Shows

(* A list shows exactly the rows that its total says are on that page, for *)
(* any page, limit, filters and sorts, as long as the table was the same   *)
(* for both statements and the offset fits an int.                         *)
THEOREM PagesFitTotal == Spec => []PageFitsTotal
<1>1. IInv => PageFitsTotal
  <2> SUFFICES ASSUME IInv, NEW r \in Slots, IsList(r), Exact(r),
                      counted[r] = fetched[r]
               PROVE  Len(out[r].page) = OnPage(r, out[r].total)
      BY DEF PageFitsTotal
  <2> DEFINE n == Cardinality(Matches(r))
             p == Params(r)
             k == Skip(r)
  <2>1. /\ n \in Nat /\ k \in Nat /\ p.limit \in Nat
        /\ out[r].total = n
        /\ \E s \in Ordered(Matches(r), Sorts(r)) : out[r].page = PageOf(s, k, p.limit)
        BY ListFacts DEF Matches
  <2>2. PICK s \in [1 .. n -> Matches(r)] : out[r].page = PageOf(s, k, p.limit)
        BY <2>1 DEF Ordered
  <2>3. OnPage(r, n) = CASE n - k < 0       -> 0
                         [] n - k > p.limit -> p.limit
                         [] OTHER           -> n - k
        BY DEF OnPage, Skip
  <2> HIDE DEF n, p, k
  <2>4. Len(PageOf(s, k, p.limit)) = CASE n - k < 0       -> 0
                                       [] n - k > p.limit -> p.limit
                                       [] OTHER           -> n - k
    <3>1. n \in Nat /\ k \in Nat /\ p.limit \in Nat
          BY <2>1
    <3> QED  BY <2>2, <3>1, PageLemma
  <2> QED  BY <2>1, <2>2, <2>3, <2>4
<1> QED  BY <1>1, IInvHolds, PTL

(* No two users have the same id, now or when a list was fetched.          *)
Distinct(R) == \A a, b \in R : a.id = b.id => a = b

TableInv == /\ Distinct(rows)
            /\ \A a \in rows : a.id <= lastId
            /\ \A r \in Slots : Distinct(fetched[r])

LEMMA InsertsDistinct ==
    ASSUME TypeOK, TableInv, Inserts
    PROVE  Distinct(rows)' /\ (\A a \in rows : a.id <= lastId)'
<1>1. PICK new : /\ new.id = lastId + 1
                 /\ rows' = rows \cup {new}
      BY DEF Inserts
<1>2. lastId \in Int /\ lastId' = lastId + 1
      BY RequestsAssumption DEF TypeOK, Inserts
<1>3. \A a \in rows : a.id \in Int /\ a.id <= lastId
      BY DEF TypeOK, TableInv, Users
<1>4. (\A a \in rows : a.id <= lastId)'
      BY <1>1, <1>2, <1>3
<1>5. \A a \in rows : a.id # new.id
      BY <1>1, <1>2, <1>3
<1>6. Distinct(rows)'
      BY <1>1, <1>5 DEF Distinct, TableInv
<1> QED  BY <1>4, <1>6

LEMMA UpdateDistinct ==
    ASSUME TypeOK, TableInv, NEW r,
           rows' = (rows \ Named(r)) \cup {[row EXCEPT !.name = 2] : row \in Named(r)}
    PROVE  Distinct(rows)' /\ \A a \in rows' : a.id <= lastId
(* Every row comes of one that had the same id. *)
<1>1. \A a \in rows' : \E b \in rows :
         /\ a.id = b.id
         /\ a = IF b.id = ask[r].target THEN [b EXCEPT !.name = 2] ELSE b
  <2> SUFFICES ASSUME NEW a \in rows'
               PROVE  \E b \in rows :
                        /\ a.id = b.id
                        /\ a = IF b.id = ask[r].target THEN [b EXCEPT !.name = 2] ELSE b
      OBVIOUS
  <2>1. CASE a \in rows \ Named(r)
        BY <2>1 DEF Named
  <2>2. CASE a \in {[row EXCEPT !.name = 2] : row \in Named(r)}
    <3>1. PICK b \in Named(r) : a = [b EXCEPT !.name = 2]
          BY <2>2
    <3>2. b \in rows /\ b.id = ask[r].target
          BY DEF Named
    <3>3. a.id = b.id
          BY <3>1, <3>2 DEF TypeOK, Users
    <3> QED  BY <3>1, <3>2, <3>3
  <2> QED  BY <2>1, <2>2
<1> QED  BY <1>1 DEF Distinct, TableInv

LEMMA TableNext == TypeOK /\ TableInv /\ [Next]_vars => TableInv'
<1> SUFFICES ASSUME TypeOK, TableInv, [Next]_vars PROVE TableInv'
    OBVIOUS
<1> DEFINE Table == Distinct(rows)' /\ (\A a \in rows : a.id <= lastId)'
<1>1. UNCHANGED <<rows, lastId>> => Table
      BY DEF TableInv
<1>2. UNCHANGED fetched => (\A r \in Slots : Distinct(fetched[r]))'
      BY DEF TableInv
<1>3. CASE UNCHANGED vars
      BY <1>1, <1>2, <1>3 DEF vars, TableInv
<1>4. ASSUME NEW r \in Slots, NEW q \in Asks, Enter(r, q) PROVE TableInv'
      BY <1>1, <1>2, <1>4 DEF Enter, TableInv
<1>5. ASSUME NEW r \in Slots, Fetch(r) PROVE TableInv'
  <2>1. /\ UNCHANGED <<rows, lastId>>
        /\ \A s \in Slots : fetched'[s] = IF s = r THEN rows ELSE fetched[s]
        BY <1>5 DEF Fetch, TypeOK
  <2> QED  BY <1>1, <2>1 DEF TableInv
<1>6. ASSUME NEW r \in Slots, Count(r) \/ Get(r) \/ Breaks(r) PROVE TableInv'
      BY <1>1, <1>2, <1>6 DEF Count, Get, Breaks, slot, TableInv
<1>7. ASSUME NEW r \in Slots, Receive(r) \/ RPCLost(r) \/ Leave(r) PROVE TableInv'
      BY <1>1, <1>2, <1>7 DEF Receive, RPCLost, Leave, slot, TableInv
<1>8. ASSUME NEW r \in Slots, Create(r) PROVE TableInv'
  <2>1. UNCHANGED fetched /\ (Inserts \/ UNCHANGED <<rows, lastId>>)
        BY <1>8 DEF Create
  <2>2. Table
        BY <1>1, <2>1, InsertsDistinct
  <2> QED  BY <1>2, <2>1, <2>2 DEF TableInv
<1>9. ASSUME NEW r \in Slots, RPC(r) PROVE TableInv'
  <2>1. UNCHANGED fetched /\ (Inserts \/ UNCHANGED <<rows, lastId>>)
        BY <1>9 DEF RPC, Answers
  <2>2. Table
        BY <1>1, <2>1, InsertsDistinct
  <2> QED  BY <1>2, <2>1, <2>2 DEF TableInv
<1>10. ASSUME NEW r \in Slots, Update(r) PROVE TableInv'
  <2>1. UNCHANGED <<fetched, lastId>>
        BY <1>10 DEF Update
  <2>2. \/ rows' = (rows \ Named(r)) \cup {[row EXCEPT !.name = 2] : row \in Named(r)}
        \/ UNCHANGED rows
        BY <1>10 DEF Update
  <2> QED  BY <1>1, <1>2, <2>1, <2>2, UpdateDistinct DEF TableInv
<1>11. ASSUME NEW r \in Slots, Delete(r) PROVE TableInv'
  <2>1. UNCHANGED <<fetched, lastId>> /\ rows' \subseteq rows
        BY <1>11 DEF Delete
  <2> QED  BY <1>2, <2>1 DEF TableInv, Distinct
<1> QED  BY <1>3, <1>4, <1>5, <1>6, <1>7, <1>8, <1>9, <1>10, <1>11 DEF Next

(* No two users ever have the same id, and none that a list read had.      *)
THEOREM IdsUnique == Spec => []TableInv
<1>1. Init => TableInv
      BY RequestsAssumption DEF Init, TableInv, Distinct
<1> QED  BY <1>1, TableNext, TypeCorrect, PTL DEF Spec

(* Two pages of a list that is ordered by the id, among others, share no   *)
(* row, and two pages that are all the list has show all of its rows, for  *)
(* any table, filters, sorts and limit.                                    *)
THEOREM ListsPartitioned == Spec => []PagesPartition
<1>1. IInv /\ TableInv => PagesPartition
  <2> SUFFICES ASSUME IInv, TableInv, NEW r \in Slots, NEW s \in Slots,
                      IsList(r), IsList(s), Exact(r), Exact(s),
                      Sorts(r) = Sorts(s), Filters(r) = Filters(s),
                      Params(r).limit = Params(s).limit, fetched[r] = fetched[s],
                      \E i \in DOMAIN Sorts(r) : Sorts(r)[i].field = "id",
                      Params(r).page < Params(s).page
               PROVE  /\ Shown(r) \cap Shown(s) = {}
                      /\ Params(r).page = 1 /\ Params(s).page = 2
                         /\ TotalPages(Params(r), Cardinality(Matches(r))) = 2
                         => Shown(r) \cup Shown(s) = Matches(r)
      BY DEF PagesPartition, Matches
  <2> DEFINE R == Matches(r)
             n == Cardinality(R)
             l == Params(r).limit
             A == On(n, Skip(r), l)
             B == On(n, Skip(s), l)
  <2>1. /\ IsFiniteSet(R) /\ R \subseteq Users /\ n \in Nat
        /\ Params(r).page \in Nat /\ Params(r).page >= 1 /\ l \in Nat /\ l >= 1
        /\ Skip(r) \in Nat /\ Sorts(r) \in Seq(SortOn)
        BY ListFacts
  <2>2. Matches(s) = R /\ Params(s).page \in Nat /\ Skip(s) \in Nat
        BY ListFacts DEF Matches
  <2>3. PICK t \in Ordered(R, Sorts(r)) : out[r].page = PageOf(t, Skip(r), l)
        BY ListFacts
  <2>4. PICK u \in Ordered(R, Sorts(r)) : out[s].page = PageOf(u, Skip(s), l)
        BY <2>2, ListFacts
  (* Both are pages of one sequence. *)
  <2>5. u = t
    <3>1. \A a \in R : Numeric(a)
      <4>1. MaxId \in Int
            BY RequestsAssumption
      <4>2. \A a \in Users : Numeric(a)
            BY <4>1 DEF Users, Numeric, Column
      <4> QED  BY <2>1, <4>2
    <3>2. \A a, b \in R : a.id = b.id => a = b
          BY DEF TableInv, Distinct, Matches, Filtered
    <3>3. PICK k \in DOMAIN Sorts(r) : Sorts(r)[k].field = "id"
          OBVIOUS
    <3> HIDE DEF R
    <3> QED  BY <2>1, <2>3, <2>4, <3>1, <3>2, <3>3, OrderedUnique
  <2>6. /\ t \in [1 .. n -> R]
        /\ \A i, j \in 1 .. n : t[i] = t[j] => i = j
        /\ \A x \in R : \E i \in 1 .. n : t[i] = x
    <3> HIDE DEF R
    <3> QED  BY <2>1, OrderedOnto
  <2>7. Shown(r) = RowsAt(t, A) /\ Shown(s) = RowsAt(t, B)
    <3>1. n \in Nat /\ l \in Nat /\ Skip(r) \in Nat /\ Skip(s) \in Nat
          BY <2>1, <2>2
    <3>2. t \in [1 .. n -> R]
          BY <2>6
    <3>3. out[r].page = PageOf(t, Skip(r), l) /\ out[s].page = PageOf(t, Skip(s), l)
          BY <2>3, <2>4, <2>5
    <3> HIDE DEF R, n, l
    <3>4. \A k \in Nat : RowsShown(PageOf(t, k, l)) = RowsAt(t, On(n, k, l))
          BY <3>1, <3>2, PageRows
    <3> QED  BY <3>1, <3>3, <3>4 DEF Shown, RowsShown
  <2>8. Skip(r) + l <= Skip(s)
    <3>1. /\ Params(r).page - 1 \in Nat /\ Params(s).page - 1 \in Nat
          /\ Params(r).page - 1 < Params(s).page - 1
          BY <2>1, <2>2
    <3> QED  BY <2>1, <3>1, OffsetsApart DEF Skip
  <2>9. Shown(r) \cap Shown(s) = {}
    <3> HIDE DEF R, n, l
    <3>1. A \cap B = {}
          BY <2>1, <2>2, <2>8 DEF On
    <3>2. A \subseteq 1 .. n /\ B \subseteq 1 .. n
          BY DEF On
    <3> HIDE DEF A, B
    <3> QED  BY <2>6, <2>7, <3>1, <3>2 DEF RowsAt
  <2>10. ASSUME Params(r).page = 1, Params(s).page = 2, TotalPages(Params(r), n) = 2
         PROVE  Shown(r) \cup Shown(s) = R
    <3>1. n <= l + l
          BY <2>1, <2>10, TwoPages
    <3>2. Skip(r) = 0 /\ Skip(s) = l
          BY <2>1, <2>10 DEF Skip
    <3> HIDE DEF R, n, l
    <3>3. A \cup B = 1 .. n
          BY <2>1, <3>1, <3>2 DEF On
    <3> HIDE DEF A, B
    <3> QED  BY <2>6, <2>7, <3>3 DEF RowsAt
  <2> QED  BY <2>9, <2>10
<1> QED  BY <1>1, IInvHolds, IdsUnique, PTL
=============================================================================
