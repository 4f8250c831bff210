--------------------------- MODULE ConsumerProofs ---------------------------
(***************************************************************************)
(* Proofs about Consumer, for any number of events, workers, retries and   *)
(* faults.                                                                 *)
(***************************************************************************)
EXTENDS Consumer, TLAPS

USE DEF RetriesSoFar

-----------------------------------------------------------------------------
(* The helpers *)

(* Goto moves one delivery of one worker and leaves every other alone. *)
LEMMA GotoLemma ==
    ASSUME stage \in [Workers -> [Events -> Stages]],
           NEW w \in Workers, NEW e \in Events, NEW s \in Stages,
           Goto(w, e, s)
    PROVE  /\ stage' \in [Workers -> [Events -> Stages]]
           /\ \A v \in Workers, x \in Events :
                 stage'[v][x] = IF v = w /\ x = e THEN s ELSE stage[v][x]
BY DEF Goto

(* Settle takes the delivery out of the worker's hands, and the live copy  *)
(* to its next place if the channel still works.                           *)
LEMMA SettleLemma ==
    ASSUME TypeOK, NEW w \in Workers, NEW e \in Events, NEW to \in Places,
           Settle(w, e, to)
    PROVE  /\ stage' \in [Workers -> [Events -> Stages]]
           /\ \A v \in Workers, x \in Events :
                 stage'[v][x] = IF v = w /\ x = e THEN "none" ELSE stage[v][x]
           /\ place' \in [Events -> Places]
           /\ \A x \in Events :
                 place'[x] = IF open[w] /\ x = e THEN to ELSE place[x]
<1>1. "none" \in Stages  BY DEF Stages
<1>2. Goto(w, e, "none")  BY DEF Settle
<1>3. stage \in [Workers -> [Events -> Stages]]  BY DEF TypeOK
<1> QED  BY <1>1, <1>2, <1>3, GotoLemma DEF Settle, TypeOK

(* Requeue takes back exactly what the worker's channel has out. *)
LEMMA RequeueLemma ==
    ASSUME TypeOK, NEW w \in Workers, Requeue(w)
    PROVE  /\ place' \in [Events -> Places]
           /\ \A x \in Events :
                 place'[x] = IF open[w] /\ stage[w][x] # "none"
                                THEN "main" ELSE place[x]
BY DEF Requeue, TypeOK, Places, Held

-----------------------------------------------------------------------------
(* Type correctness *)

LEMMA TypeInit == Init => TypeOK
BY DEF Init, TypeOK, Places, Rows, Procs, Stages

LEMMA TypeNext == TypeOK /\ [Next]_vars => TypeOK'
<1> SUFFICES ASSUME TypeOK, [Next]_vars PROVE TypeOK'
    OBVIOUS
<1> USE DEF TypeOK
<1>s. /\ \A s \in InHand : s \in Stages
      /\ "none" \in Stages /\ "buffered" \in Stages
      BY DEF Stages
<1>i. /\ "decoded" \in Stages /\ "unseen" \in Stages /\ "dialled" \in Stages
      /\ "mailed" \in Stages /\ "handled" \in Stages /\ "failed" \in Stages
      /\ "park" \in Stages /\ "parked" \in Stages
      BY DEF Stages, InHand
<1>f. ASSUME NEW kind, Fault(kind) PROVE faults' \in Nat
      BY <1>f DEF Fault
<1>r. ASSUME NEW e \in Events, NEW s \in Rows, Insert(e, s)
      PROVE  row' \in [Events -> Rows]
      BY <1>r DEF Insert, Rows
<1>1. ASSUME NEW e \in Events, Publish(e) PROVE TypeOK'
      BY <1>1 DEF Publish, Places, store, worker
<1>2. ASSUME NEW e \in Events, Expire(e) PROVE TypeOK'
      BY <1>2 DEF Expire, Places, store, worker
<1>3. ASSUME NEW w \in Workers, NEW e \in Events, Deliver(w, e) PROVE TypeOK'
      BY <1>3, <1>s, GotoLemma DEF Deliver, Places, store, worker
<1>4. ASSUME NEW w \in Workers, NEW e \in Events, DropUndecodable(w, e)
      PROVE  TypeOK'
      BY <1>4, SettleLemma DEF DropUndecodable, Places, store, worker
<1>5. ASSUME NEW w \in Workers, NEW e \in Events, Take(w, e) PROVE TypeOK'
      BY <1>5, <1>i, GotoLemma DEF Take, broker, store, worker
<1>6. ASSUME NEW w \in Workers, NEW e \in Events, ExistsByEventID(w, e)
      PROVE  TypeOK'
      BY <1>6, <1>i, GotoLemma DEF ExistsByEventID, broker, store, worker
<1>7. ASSUME NEW w \in Workers, NEW e \in Events, Dial(w, e) PROVE TypeOK'
      BY <1>7, <1>i, GotoLemma DEF Dial, broker, store, worker
<1>8. ASSUME NEW w \in Workers, NEW e \in Events, Transmit(w, e) PROVE TypeOK'
  <2>1. stage' \in [Workers -> [Events -> Stages]]
        BY <1>8, <1>i, GotoLemma DEF Transmit
  <2>2. mails' \in [Events -> Nat]
        BY <1>8 DEF Transmit
  <2> QED  BY <1>8, <2>1, <2>2 DEF Transmit, broker, worker
<1>9. ASSUME NEW w \in Workers, NEW e \in Events, CreateSent(w, e)
      PROVE  TypeOK'
      BY <1>9, <1>i, <1>r, GotoLemma DEF CreateSent, Rows, broker, worker
<1>10. ASSUME NEW w \in Workers, NEW e \in Events, Retry(w, e) PROVE TypeOK'
      BY <1>10, SettleLemma DEF Retry, Places, store, worker
<1>11. ASSUME NEW w \in Workers, NEW e \in Events, RecordFailure(w, e)
       PROVE  TypeOK'
      BY <1>11, <1>i, <1>r, GotoLemma DEF RecordFailure, Rows, broker, worker
<1>12. ASSUME NEW w \in Workers, NEW e \in Events, Park(w, e) PROVE TypeOK'
      BY <1>12, <1>i, GotoLemma DEF Park, store, worker
<1>13. ASSUME NEW w \in Workers, NEW e \in Events, ParkFailed(w, e)
       PROVE  TypeOK'
      BY <1>13, <1>f, SettleLemma DEF ParkFailed, Places, store, worker
<1>14. ASSUME NEW w \in Workers, NEW e \in Events, Ack(w, e) PROVE TypeOK'
      BY <1>14, SettleLemma DEF Ack, Places, store, worker
<1>15. ASSUME NEW w \in Workers, Start(w) PROVE TypeOK'
      BY <1>15 DEF Start, Procs, broker, store
<1>16. ASSUME NEW w \in Workers, Return(w) PROVE TypeOK'
      BY <1>16 DEF Return, Procs, broker, store
<1>d. ASSUME NEW w \in Workers, Die(w), faults' \in Nat PROVE TypeOK'
      BY <1>d, <1>s, RequeueLemma DEF Die, Procs, store
<1>17. ASSUME NEW w \in Workers, Crash(w) PROVE TypeOK'
      BY <1>17, <1>d, <1>f DEF Crash
<1>18. ASSUME NEW w \in Workers, Exit(w) PROVE TypeOK'
      BY <1>18, <1>d DEF Exit
<1>19. ASSUME NEW w \in Workers, Cancel(w) PROVE TypeOK'
      BY <1>19, <1>f DEF Cancel, broker, store
<1>20. ASSUME NEW w \in Workers, ChannelClose(w) PROVE TypeOK'
      BY <1>20, <1>f, RequeueLemma DEF ChannelClose, store
<1>21. CASE UNCHANGED vars
      BY <1>21 DEF vars
<1> QED
    BY <1>1, <1>2, <1>3, <1>4, <1>5, <1>6, <1>7, <1>8, <1>9, <1>10, <1>11,
       <1>12, <1>13, <1>14, <1>15, <1>16, <1>17, <1>18, <1>19, <1>20, <1>21
    DEF Next, Consume, Handle, Process

(* Every variable keeps its type: the shape the other proofs build on. *)
THEOREM TypeCorrect == Spec => []TypeOK
BY TypeInit, TypeNext, PTL DEF Spec

-----------------------------------------------------------------------------
(* Custody *)

LEMMA CustodyInit == Init => Custody
BY DEF Init, Custody, Held

(* While a worker goes on handling a delivery nobody's holdings change. *)
LEMMA HandKeepsCustody ==
    ASSUME TypeOK, Custody, NEW w \in Workers, NEW e \in Events,
           e \in Held(w), NEW s \in InHand, Goto(w, e, s),
           UNCHANGED <<place, deaths, header, open>>
    PROVE  Custody'
<1>1. s \in Stages /\ s # "none"
      BY DEF Stages, InHand
<1>2. \A v \in Workers, x \in Events :
         stage'[v][x] = IF v = w /\ x = e THEN s ELSE stage[v][x]
      BY <1>1, GotoLemma DEF TypeOK
<1>3. \A v \in Workers, x \in Events : x \in Held(v)' <=> x \in Held(v)
      BY <1>1, <1>2 DEF Held
<1> QED  BY <1>3 DEF Custody

(* An Ack or a Nack gives the event up; on an open channel the live copy   *)
(* was out with this worker and moves on.                                  *)
LEMMA SettleKeepsCustody ==
    ASSUME TypeOK, Custody, NEW w \in Workers, NEW e \in Events,
           e \in Held(w), NEW to \in Places \ {"out"}, Settle(w, e, to),
           UNCHANGED <<deaths, header, open>>
    PROVE  Custody'
<1>1. /\ \A v \in Workers, x \in Events :
            stage'[v][x] = IF v = w /\ x = e THEN "none" ELSE stage[v][x]
      /\ \A x \in Events :
            place'[x] = IF open[w] /\ x = e THEN to ELSE place[x]
      BY SettleLemma
<1>2. \A v \in Workers, x \in Events :
         x \in Held(v)' <=> x \in Held(v) /\ ~(v = w /\ x = e)
      BY <1>1 DEF Held
<1> SUFFICES ASSUME NEW x \in Events
             PROVE  /\ \A v \in Workers :
                          open'[v] /\ x \in Held(v)' =>
                             place'[x] = "out" /\ header'[v][x] = deaths'[x]
                    /\ \A u, v \in Workers :
                          open'[u] /\ open'[v] /\ x \in Held(u)'
                             /\ x \in Held(v)' => u = v
                    /\ place'[x] = "out" =>
                          \E v \in Workers : open'[v] /\ x \in Held(v)'
    BY DEF Custody
<1>3. ASSUME NEW v \in Workers, open'[v], x \in Held(v)'
      PROVE  place'[x] = "out" /\ header'[v][x] = deaths'[x]
      BY <1>1, <1>2, <1>3 DEF Custody
<1>4. ASSUME NEW u \in Workers, NEW v \in Workers, open'[u], open'[v],
             x \in Held(u)', x \in Held(v)'
      PROVE  u = v
      BY <1>2, <1>4 DEF Custody
<1>5. ASSUME place'[x] = "out"
      PROVE  \E v \in Workers : open'[v] /\ x \in Held(v)'
  <2>1. place[x] = "out" /\ ~(open[w] /\ x = e)
        BY <1>1, <1>5
  <2>2. PICK v \in Workers : open[v] /\ x \in Held(v)
        BY <2>1 DEF Custody
  <2>3. x \in Held(v)'
        BY <1>2, <2>1, <2>2
  <2> QED  BY <2>2, <2>3
<1> QED  BY <1>3, <1>4, <1>5

(* A lost channel gives up everything at once. *)
LEMMA LossKeepsCustody ==
    ASSUME TypeOK, Custody, NEW w \in Workers, Requeue(w),
           open' = [open EXCEPT ![w] = FALSE],
           \A v \in Workers \ {w}, x \in Events : stage'[v][x] = stage[v][x],
           UNCHANGED <<deaths, header>>
    PROVE  Custody'
<1>1. \A x \in Events :
         place'[x] = IF open[w] /\ x \in Held(w) THEN "main" ELSE place[x]
      BY RequeueLemma DEF Held
<1>2. \A v \in Workers : open'[v] <=> open[v] /\ v # w
      BY DEF TypeOK
<1>3. \A v \in Workers \ {w}, x \in Events : x \in Held(v)' <=> x \in Held(v)
      BY DEF Held
<1> SUFFICES ASSUME NEW x \in Events
             PROVE  /\ \A v \in Workers :
                          open'[v] /\ x \in Held(v)' =>
                             place'[x] = "out" /\ header'[v][x] = deaths'[x]
                    /\ \A u, v \in Workers :
                          open'[u] /\ open'[v] /\ x \in Held(u)'
                             /\ x \in Held(v)' => u = v
                    /\ place'[x] = "out" =>
                          \E v \in Workers : open'[v] /\ x \in Held(v)'
    BY DEF Custody
<1>4. ASSUME NEW v \in Workers, open'[v], x \in Held(v)'
      PROVE  place'[x] = "out" /\ header'[v][x] = deaths'[x]
      BY <1>1, <1>2, <1>3, <1>4 DEF Custody
<1>5. ASSUME NEW u \in Workers, NEW v \in Workers, open'[u], open'[v],
             x \in Held(u)', x \in Held(v)'
      PROVE  u = v
      BY <1>2, <1>3, <1>5 DEF Custody
<1>6. ASSUME place'[x] = "out"
      PROVE  \E v \in Workers : open'[v] /\ x \in Held(v)'
  <2>1. place[x] = "out" /\ ~(open[w] /\ x \in Held(w))
        BY <1>1, <1>6
  <2>2. PICK v \in Workers : open[v] /\ x \in Held(v)
        BY <2>1 DEF Custody
  <2>3. v # w
        BY <2>1, <2>2
  <2> QED  BY <1>2, <1>3, <2>2, <2>3
<1> QED  BY <1>4, <1>5, <1>6

(* A process that is down holds nothing, so it starts with clean hands. *)
Vacant == \A w \in Workers : proc[w] = "down" => Held(w) = {}

LEMMA VacantNext == TypeOK /\ Vacant /\ [Next]_vars => Vacant'
<1> SUFFICES ASSUME TypeOK, Vacant, [Next]_vars PROVE Vacant'
    OBVIOUS
<1>g. ASSUME NEW w \in Workers, NEW e \in Events, NEW s \in Stages,
             Goto(w, e, s), UNCHANGED proc, s = "none" \/ proc[w] # "down"
      PROVE  Vacant'
      BY <1>g, GotoLemma DEF TypeOK, Vacant, Held
<1>h. ASSUME NEW w \in Workers, NEW e \in Events, stage[w][e] # "none"
      PROVE  proc[w] # "down"
      BY <1>h DEF Vacant, Held
<1>i. ASSUME NEW s \in InHand \cup {"none", "buffered"} PROVE s \in Stages
      BY DEF Stages
<1>1. ASSUME NEW e \in Events, Publish(e) \/ Expire(e) PROVE Vacant'
      BY <1>1 DEF Publish, Expire, Vacant, Held, worker
<1>2. ASSUME NEW w \in Workers, NEW e \in Events, Deliver(w, e) PROVE Vacant'
      BY <1>2, <1>g, <1>i DEF Deliver, worker
<1>3. ASSUME NEW w \in Workers, NEW e \in Events,
             \/ DropUndecodable(w, e) \/ Retry(w, e)
             \/ ParkFailed(w, e) \/ Ack(w, e)
      PROVE  Vacant'
  <2>1. Goto(w, e, "none") /\ UNCHANGED proc
        BY <1>3 DEF DropUndecodable, Retry, ParkFailed, Ack, Settle, worker
  <2> QED  BY <1>g, <1>i, <2>1
<1>4. ASSUME NEW w \in Workers, NEW e \in Events,
             \/ Take(w, e) \/ ExistsByEventID(w, e) \/ Dial(w, e)
             \/ Transmit(w, e) \/ CreateSent(w, e) \/ RecordFailure(w, e)
             \/ Park(w, e)
      PROVE  Vacant'
  <2>1. /\ \E s \in InHand : Goto(w, e, s)
        /\ UNCHANGED proc /\ stage[w][e] # "none"
        BY <1>4 DEF Take, ExistsByEventID, Dial, Transmit, CreateSent,
                    RecordFailure, Park, InHand, worker
  <2> QED  BY <1>g, <1>h, <1>i, <2>1
<1>5. ASSUME NEW w \in Workers, Start(w) \/ Return(w) PROVE Vacant'
      BY <1>5 DEF Start, Return, Vacant, Held, TypeOK, broker
<1>6. ASSUME NEW w \in Workers, Crash(w) \/ Exit(w) PROVE Vacant'
  <2>1. \A v \in Workers : IF v = w THEN \A e \in Events : stage'[v][e] = "none"
                                   ELSE UNCHANGED <<proc[v], stage[v]>>
        BY <1>6 DEF Crash, Exit, Die, TypeOK
  <2> QED  BY <2>1 DEF Vacant, Held
<1>7. ASSUME NEW w \in Workers, Cancel(w) \/ ChannelClose(w) PROVE Vacant'
      BY <1>7 DEF Cancel, ChannelClose, Vacant, Held, broker
<1>8. CASE UNCHANGED vars
      BY <1>8 DEF vars, Vacant, Held
<1> QED
    BY <1>1, <1>2, <1>3, <1>4, <1>5, <1>6, <1>7, <1>8
    DEF Next, Consume, Handle, Process

LEMMA CustodyNext == TypeOK /\ Vacant /\ Custody /\ [Next]_vars => Custody'
<1> SUFFICES ASSUME TypeOK, Vacant, Custody, [Next]_vars PROVE Custody'
    OBVIOUS
<1> USE DEF TypeOK
<1>1. ASSUME NEW e \in Events, Publish(e) PROVE Custody'
      BY <1>1 DEF Publish, Custody, Held, worker, broker
<1>2. ASSUME NEW e \in Events, Expire(e) PROVE Custody'
      BY <1>2 DEF Expire, Custody, Held, worker, broker
<1>3. ASSUME NEW w \in Workers, NEW e \in Events, Deliver(w, e) PROVE Custody'
  <2>1. /\ place[e] = "main" /\ open[w] /\ UNCHANGED <<open, deaths>>
        /\ \A x \in Events : place'[x] = IF x = e THEN "out" ELSE place[x]
        /\ \A v \in Workers, x \in Events :
              header'[v][x] = IF v = w /\ x = e THEN deaths[e] ELSE header[v][x]
        BY <1>3 DEF Deliver, worker
  <2>2. \A v \in Workers, x \in Events :
           stage'[v][x] = IF v = w /\ x = e THEN "buffered" ELSE stage[v][x]
        BY <1>3, GotoLemma DEF Deliver, Stages
  <2>3. \A v \in Workers, x \in Events :
           x \in Held(v)' <=> x \in Held(v) \/ (v = w /\ x = e)
        BY <2>2 DEF Held
  <2>4. \A v \in Workers : open[v] => e \notin Held(v)
        BY <2>1 DEF Custody
  <2> SUFFICES ASSUME NEW x \in Events
               PROVE  /\ \A v \in Workers :
                            open'[v] /\ x \in Held(v)' =>
                               place'[x] = "out" /\ header'[v][x] = deaths'[x]
                      /\ \A u, v \in Workers :
                            open'[u] /\ open'[v] /\ x \in Held(u)'
                               /\ x \in Held(v)' => u = v
                      /\ place'[x] = "out" =>
                            \E v \in Workers : open'[v] /\ x \in Held(v)'
      BY DEF Custody
  <2>5. CASE x = e
        BY <2>1, <2>3, <2>4, <2>5
  <2>6. CASE x # e
        BY <2>1, <2>3, <2>6 DEF Custody
  <2> QED  BY <2>5, <2>6
<1>4. ASSUME NEW w \in Workers, NEW e \in Events, DropUndecodable(w, e) PROVE Custody'
      BY <1>4, SettleKeepsCustody DEF DropUndecodable, Held, Places, worker
<1>5. ASSUME NEW w \in Workers, NEW e \in Events, Take(w, e) PROVE Custody'
      BY <1>5, HandKeepsCustody DEF Take, Held, InHand, broker, worker
<1>6. ASSUME NEW w \in Workers, NEW e \in Events, ExistsByEventID(w, e) PROVE Custody'
      BY <1>6, HandKeepsCustody DEF ExistsByEventID, Held, InHand, broker, worker
<1>7. ASSUME NEW w \in Workers, NEW e \in Events, Dial(w, e) PROVE Custody'
      BY <1>7, HandKeepsCustody DEF Dial, Held, InHand, broker, worker
<1>8. ASSUME NEW w \in Workers, NEW e \in Events, Transmit(w, e) PROVE Custody'
      BY <1>8, HandKeepsCustody DEF Transmit, Held, InHand, broker, worker
<1>9. ASSUME NEW w \in Workers, NEW e \in Events, CreateSent(w, e) PROVE Custody'
      BY <1>9, HandKeepsCustody DEF CreateSent, Held, InHand, broker, worker
<1>10. ASSUME NEW w \in Workers, NEW e \in Events, Retry(w, e) PROVE Custody'
      BY <1>10, SettleKeepsCustody DEF Retry, Held, Places, worker
<1>11. ASSUME NEW w \in Workers, NEW e \in Events, RecordFailure(w, e) PROVE Custody'
      BY <1>11, HandKeepsCustody DEF RecordFailure, Held, InHand, broker, worker
<1>12. ASSUME NEW w \in Workers, NEW e \in Events, Park(w, e) PROVE Custody'
      BY <1>12, HandKeepsCustody DEF Park, Held, InHand, broker, worker
<1>13. ASSUME NEW w \in Workers, NEW e \in Events, ParkFailed(w, e) PROVE Custody'
      BY <1>13, SettleKeepsCustody DEF ParkFailed, Held, Places, worker
<1>14. ASSUME NEW w \in Workers, NEW e \in Events, Ack(w, e) PROVE Custody'
      BY <1>14, SettleKeepsCustody DEF Ack, Held, Places, worker
<1>15. ASSUME NEW w \in Workers, Start(w) PROVE Custody'
  <2>1. /\ UNCHANGED <<place, deaths, header>>
        /\ \A v \in Workers : open'[v] <=> open[v] \/ v = w
        BY <1>15 DEF Start, broker
  <2>2. /\ \A v \in Workers : Held(v)' = Held(v)
        /\ Held(w) = {}
        BY <1>15 DEF Start, Held, Vacant
  <2>3. \A v \in Workers, x \in Events :
           open'[v] /\ x \in Held(v)' <=> open[v] /\ x \in Held(v)
        BY <2>1, <2>2
  <2> QED  BY <2>1, <2>3 DEF Custody
<1>16. ASSUME NEW w \in Workers, Return(w) PROVE Custody'
      BY <1>16 DEF Return, Custody, Held, broker
<1>17. ASSUME NEW w \in Workers, Crash(w) PROVE Custody'
      BY <1>17, LossKeepsCustody DEF Crash, Die
<1>18. ASSUME NEW w \in Workers, Exit(w) PROVE Custody'
      BY <1>18, LossKeepsCustody DEF Exit, Die
<1>19. ASSUME NEW w \in Workers, Cancel(w) PROVE Custody'
      BY <1>19 DEF Cancel, Custody, Held, broker
<1>20. ASSUME NEW w \in Workers, ChannelClose(w) PROVE Custody'
      BY <1>20, LossKeepsCustody DEF ChannelClose, Die
<1>21. CASE UNCHANGED vars
      BY <1>21 DEF vars, Custody, Held
<1> QED
    BY <1>1, <1>2, <1>3, <1>4, <1>5, <1>6, <1>7, <1>8, <1>9, <1>10, <1>11, <1>12, <1>13, <1>14, <1>15, <1>16, <1>17, <1>18, <1>19, <1>20, <1>21
    DEF Next, Consume, Handle, Process

-----------------------------------------------------------------------------
(* The handler up to its result: the broker is not involved, the delivery  *)
(* goes from one stage in hand to another, and a row only appears as       *)
(* "sent".                                                                 *)
LEMMA HandlerLemma ==
    ASSUME TypeOK, NEW w \in Workers, NEW e \in Events,
           \/ Take(w, e) \/ ExistsByEventID(w, e) \/ Dial(w, e)
           \/ Transmit(w, e) \/ CreateSent(w, e)
    PROVE  /\ UNCHANGED <<place, deaths, dlq, header>>
           /\ stage[w][e] # "none"
           /\ \A x \in Events : row'[x] # row[x] =>
                 row[x] = "none" /\ row'[x] = "sent" /\ mails'[x] = mails[x]
                 /\ stage[w][x] = "mailed"
           /\ \A x \in Events : mails'[x] >= mails[x]
           /\ \A v \in Workers, x \in Events :
                 IF v = w /\ x = e
                    THEN stage'[v][x] \in {"decoded", "unseen", "dialled",
                                           "mailed", "handled", "failed"}
                    ELSE stage'[v][x] = stage[v][x]
<1> USE DEF TypeOK
<1>1. PICK s \in {"decoded", "unseen", "dialled", "mailed", "handled", "failed"} :
         Goto(w, e, s)
      BY DEF Take, ExistsByEventID, Dial, Transmit, CreateSent
<1>2. s \in Stages
      BY DEF Stages, InHand
<1>3. \A v \in Workers, x \in Events :
         stage'[v][x] = IF v = w /\ x = e THEN s ELSE stage[v][x]
      BY <1>1, <1>2, GotoLemma
<1>4. UNCHANGED <<place, deaths, dlq, header>> /\ stage[w][e] # "none"
      BY DEF Take, ExistsByEventID, Dial, Transmit, CreateSent, broker
<1>5. CASE CreateSent(w, e)
  <2>1. /\ UNCHANGED mails /\ stage[w][e] = "mailed"
        /\ UNCHANGED row \/ Insert(e, "sent")
        BY <1>5 DEF CreateSent
  <2> QED  BY <1>3, <1>4, <2>1 DEF Insert
<1>6. CASE Transmit(w, e)
  <2>1. UNCHANGED row /\ \A x \in Events : mails'[x] >= mails[x]
        BY <1>6 DEF Transmit
  <2> QED  BY <1>3, <1>4, <2>1
<1>7. CASE Take(w, e) \/ ExistsByEventID(w, e) \/ Dial(w, e)
  <2>1. UNCHANGED <<row, mails>>
        BY <1>7 DEF Take, ExistsByEventID, Dial, store
  <2> QED  BY <1>3, <1>4, <2>1
<1> QED  BY <1>5, <1>6, <1>7

-----------------------------------------------------------------------------
(* Retries *)

(* What a delivery says about its retries is never more than the truth,    *)
(* an event in the retry queue has a retry left, and whoever is parking an *)
(* event saw that none is.                                                 *)
RetryInv ==
    \A e \in Events :
        /\ deaths[e] <= MaxRetries
        /\ place[e] = "retry" => deaths[e] < MaxRetries
        /\ row[e] = "failed" \/ dlq[e] > 0 => deaths[e] = MaxRetries
        /\ \A w \in Workers :
              /\ stage[w][e] # "none" => header[w][e] <= deaths[e]
              /\ stage[w][e] \in {"park", "parked"} => header[w][e] >= MaxRetries

(* A step that counts no death keeps RetryInv if whatever it does to an    *)
(* event it does with the right retry count.                               *)
LEMMA QuietKeepsRetries ==
    ASSUME RetryInv, UNCHANGED <<deaths, header>>,
           \A x \in Events :
              /\ place'[x] = "retry" => place[x] = "retry" \/ deaths[x] < MaxRetries
              /\ row'[x] = "failed" => row[x] = "failed" \/ deaths[x] = MaxRetries
              /\ dlq'[x] > 0 => dlq[x] > 0 \/ deaths[x] = MaxRetries
              /\ \A v \in Workers :
                    /\ stage'[v][x] # "none" => stage[v][x] # "none"
                    /\ stage'[v][x] \in {"park", "parked"} =>
                          \/ stage[v][x] \in {"park", "parked"}
                          \/ header[v][x] >= MaxRetries
    PROVE  RetryInv'
BY DEF RetryInv

(* A delivery that finds no retry left is one of an event with none left.  *)
LEMMA NoneLeft ==
    ASSUME TypeOK, RetryInv, NEW w \in Workers, NEW e \in Events,
           stage[w][e] # "none", header[w][e] >= MaxRetries
    PROVE  deaths[e] = MaxRetries
<1>1. header[w][e] \in Nat /\ deaths[e] \in Nat /\ MaxRetries \in Nat
      BY ConsumerAssumption DEF TypeOK
<1>2. header[w][e] <= deaths[e] /\ deaths[e] <= MaxRetries
      BY DEF RetryInv
<1> QED  BY <1>1, <1>2

LEMMA HandlerKeepsRetries ==
    ASSUME TypeOK, RetryInv, NEW w \in Workers, NEW e \in Events,
           \/ Take(w, e) \/ ExistsByEventID(w, e) \/ Dial(w, e)
           \/ Transmit(w, e) \/ CreateSent(w, e)
    PROVE  RetryInv'
<1>1. UNCHANGED <<place, deaths, dlq, header>>
      BY HandlerLemma
<1>2. \A x \in Events : row'[x] = "failed" => row[x] = "failed"
  <2> SUFFICES ASSUME NEW x \in Events, row'[x] # row[x] PROVE row'[x] # "failed"
      OBVIOUS
  <2>1. row'[x] = "sent"
        BY HandlerLemma
  <2> QED  BY <2>1
<1>3. \A v \in Workers, x \in Events :
         /\ stage'[v][x] # "none" => stage[v][x] # "none"
         /\ stage'[v][x] \in {"park", "parked"} => stage[v][x] \in {"park", "parked"}
  <2> SUFFICES ASSUME NEW v \in Workers, NEW x \in Events
               PROVE  /\ stage'[v][x] # "none" => stage[v][x] # "none"
                      /\ stage'[v][x] \in {"park", "parked"} =>
                            stage[v][x] \in {"park", "parked"}
      OBVIOUS
  <2>1. CASE v = w /\ x = e
    <3>1. stage[w][e] # "none"
          BY HandlerLemma
    <3>2. stage'[v][x] \in {"decoded", "unseen", "dialled", "mailed", "handled", "failed"}
          BY <2>1, HandlerLemma
    <3> QED  BY <2>1, <3>1, <3>2
  <2>2. CASE ~(v = w /\ x = e)
    <3>1. stage'[v][x] = stage[v][x]
          BY <2>2, HandlerLemma
    <3> QED  BY <3>1
  <2> QED  BY <2>1, <2>2
<1> QED  BY <1>1, <1>2, <1>3, QuietKeepsRetries

LEMMA RetryNext ==
    TypeOK /\ Custody /\ RetryInv /\ [Next]_vars => RetryInv'
<1> SUFFICES ASSUME TypeOK, Custody, RetryInv, [Next]_vars PROVE RetryInv'
    OBVIOUS
<1> USE ConsumerAssumption DEF TypeOK, RetryInv
<1>1. ASSUME NEW e \in Events, Publish(e) PROVE RetryInv'
      BY <1>1 DEF Publish, worker, broker, store
<1>2. ASSUME NEW e \in Events, Expire(e) PROVE RetryInv'
      BY <1>2 DEF Expire, worker, broker, store
<1>3. ASSUME NEW w \in Workers, NEW e \in Events, Deliver(w, e)
      PROVE  RetryInv'
      BY <1>3, GotoLemma DEF Deliver, Stages, InHand, Insert, Rows, broker, store, worker
<1>4. ASSUME NEW w \in Workers, NEW e \in Events, DropUndecodable(w, e)
      PROVE  RetryInv'
      BY <1>4, SettleLemma DEF DropUndecodable, Custody, Held, Places, store, worker
<1>5. ASSUME NEW w \in Workers, NEW e \in Events, Take(w, e)
      PROVE  RetryInv'
      BY <1>5, HandlerKeepsRetries
<1>6. ASSUME NEW w \in Workers, NEW e \in Events, ExistsByEventID(w, e)
      PROVE  RetryInv'
      BY <1>6, HandlerKeepsRetries
<1>7. ASSUME NEW w \in Workers, NEW e \in Events, Dial(w, e)
      PROVE  RetryInv'
      BY <1>7, HandlerKeepsRetries
<1>8. ASSUME NEW w \in Workers, NEW e \in Events, Transmit(w, e)
      PROVE  RetryInv'
      BY <1>8, HandlerKeepsRetries
<1>9. ASSUME NEW w \in Workers, NEW e \in Events, CreateSent(w, e)
      PROVE  RetryInv'
      BY <1>9, HandlerKeepsRetries
<1>10. ASSUME NEW w \in Workers, NEW e \in Events, Retry(w, e)
      PROVE  RetryInv'
  <2>1. /\ UNCHANGED <<deaths, dlq, row, header>>
        /\ stage[w][e] = "failed" /\ header[w][e] < MaxRetries
        /\ Settle(w, e, "retry") /\ "retry" \in Places
        BY <1>10 DEF Retry, store, Places
  <2>2. open[w] => deaths[e] = header[w][e]
        BY <2>1 DEF Custody, Held
  <2>3. \A x \in Events : place'[x] = "retry" => deaths[x] < MaxRetries
        BY <2>1, <2>2, SettleLemma
  <2>4. \A v \in Workers, x \in Events : stage'[v][x] \in {"none", stage[v][x]}
        BY <2>1, SettleLemma
  <2> QED  BY <2>1, <2>3, <2>4, QuietKeepsRetries
<1>11. ASSUME NEW w \in Workers, NEW e \in Events, RecordFailure(w, e)
      PROVE  RetryInv'
  <2>1. /\ UNCHANGED <<place, deaths, dlq, header>>
        /\ stage[w][e] = "failed" /\ header[w][e] >= MaxRetries
        /\ Goto(w, e, "park") /\ "park" \in Stages
        BY <1>11 DEF RecordFailure, broker, Stages, InHand
  <2>2. \A x \in Events : x # e => row'[x] = row[x]
        BY <1>11 DEF RecordFailure, Insert
  <2>3. deaths[e] = MaxRetries
        BY <2>1, NoneLeft
  <2>4. \A v \in Workers, x \in Events :
           stage'[v][x] = IF v = w /\ x = e THEN "park" ELSE stage[v][x]
        BY <2>1, GotoLemma
  <2> QED  BY <2>1, <2>2, <2>3, <2>4, QuietKeepsRetries
<1>12. ASSUME NEW w \in Workers, NEW e \in Events, Park(w, e)
      PROVE  RetryInv'
  <2>1. /\ UNCHANGED <<place, deaths, row, header>>
        /\ stage[w][e] = "park"
        /\ Goto(w, e, "parked") /\ "parked" \in Stages
        BY <1>12 DEF Park, store, Stages, InHand
  <2>2. \A x \in Events : x # e => dlq'[x] = dlq[x]
        BY <1>12 DEF Park
  <2>3. deaths[e] = MaxRetries
    <3>1. stage[w][e] # "none" /\ header[w][e] >= MaxRetries
          BY <2>1
    <3> QED  BY <3>1, NoneLeft
  <2>4. \A v \in Workers, x \in Events :
           stage'[v][x] = IF v = w /\ x = e THEN "parked" ELSE stage[v][x]
        BY <2>1, GotoLemma
  <2> QED  BY <2>1, <2>2, <2>3, <2>4, QuietKeepsRetries
<1>13. ASSUME NEW w \in Workers, NEW e \in Events, ParkFailed(w, e)
      PROVE  RetryInv'
      BY <1>13, SettleLemma DEF ParkFailed, Custody, Held, Places, store, worker
<1>14. ASSUME NEW w \in Workers, NEW e \in Events, Ack(w, e)
      PROVE  RetryInv'
      BY <1>14, SettleLemma DEF Ack, Custody, Held, Places, store, worker
<1>15. ASSUME NEW w \in Workers, Start(w) PROVE RetryInv'
      BY <1>15 DEF Start, worker, broker, store
<1>16. ASSUME NEW w \in Workers, Return(w) PROVE RetryInv'
      BY <1>16 DEF Return, worker, broker, store
<1>17. ASSUME NEW w \in Workers, Crash(w) PROVE RetryInv'
      BY <1>17, RequeueLemma DEF Crash, Die, Custody, Held, store
<1>18. ASSUME NEW w \in Workers, Exit(w) PROVE RetryInv'
      BY <1>18, RequeueLemma DEF Exit, Die, Custody, Held, store
<1>19. ASSUME NEW w \in Workers, Cancel(w) PROVE RetryInv'
      BY <1>19 DEF Cancel, worker, broker, store
<1>20. ASSUME NEW w \in Workers, ChannelClose(w) PROVE RetryInv'
      BY <1>20, RequeueLemma DEF ChannelClose, Die, Custody, Held, store
<1>21. CASE UNCHANGED vars
      BY <1>21 DEF vars
<1> QED
    BY <1>1, <1>2, <1>3, <1>4, <1>5, <1>6, <1>7, <1>8, <1>9, <1>10,
       <1>11, <1>12, <1>13, <1>14, <1>15, <1>16, <1>17, <1>18, <1>19, <1>20, <1>21
    DEF Next, Consume, Handle, Process

-----------------------------------------------------------------------------
(* Evidence *)

(* What a delivery in hand has already left behind. *)
TraceInv ==
    \A e \in Events :
        /\ e \notin Malformed /\ place[e] = "done" => row[e] # "none" \/ dlq[e] > 0
        /\ row[e] = "sent" => mails[e] > 0
        /\ \A w \in Workers :
              /\ stage[w][e] # "none" => place[e] # "unsent"
              /\ stage[w][e] = "mailed" => mails[e] > 0
              /\ stage[w][e] = "handled" => row[e] # "none"
              /\ stage[w][e] = "parked" => dlq[e] > 0

LEMMA TraceNext ==
    TypeOK /\ Custody /\ TraceInv /\ [Next]_vars => TraceInv'
<1> SUFFICES ASSUME TypeOK, Custody, TraceInv, [Next]_vars PROVE TraceInv'
    OBVIOUS
<1> USE DEF TypeOK, TraceInv
<1>1. ASSUME NEW e \in Events, Publish(e) PROVE TraceInv'
      BY <1>1 DEF Publish, worker, broker, store
<1>2. ASSUME NEW e \in Events, Expire(e) PROVE TraceInv'
      BY <1>2 DEF Expire, worker, broker, store
<1>3. ASSUME NEW w \in Workers, NEW e \in Events, Deliver(w, e)
      PROVE  TraceInv'
      BY <1>3, GotoLemma DEF Deliver, Stages, InHand, Insert, Rows, broker, store, worker
<1>4. ASSUME NEW w \in Workers, NEW e \in Events, DropUndecodable(w, e)
      PROVE  TraceInv'
      BY <1>4, SettleLemma DEF DropUndecodable, Custody, Held, Places, store, worker
<1>5. ASSUME NEW w \in Workers, NEW e \in Events, Take(w, e)
      PROVE  TraceInv'
  <2>1. UNCHANGED <<row, mails>> /\ stage'[w][e] \in {"failed", "decoded"}
        BY <1>5, GotoLemma DEF Take, store, Stages, InHand
  <2> QED  BY <1>5, <2>1, HandlerLemma
<1>6. ASSUME NEW w \in Workers, NEW e \in Events, ExistsByEventID(w, e)
      PROVE  TraceInv'
  <2>1. /\ UNCHANGED <<row, mails>>
        /\ \/ stage'[w][e] \in {"failed", "unseen"}
           \/ stage'[w][e] = "handled" /\ row[e] # "none"
        BY <1>6, GotoLemma DEF ExistsByEventID, store, Stages, InHand
  <2> QED  BY <1>6, <2>1, HandlerLemma
<1>7. ASSUME NEW w \in Workers, NEW e \in Events, Dial(w, e)
      PROVE  TraceInv'
  <2>1. UNCHANGED <<row, mails>> /\ stage'[w][e] \in {"failed", "dialled"}
        BY <1>7, GotoLemma DEF Dial, store, Stages, InHand
  <2> QED  BY <1>7, <2>1, HandlerLemma
<1>8. ASSUME NEW w \in Workers, NEW e \in Events, Transmit(w, e)
      PROVE  TraceInv'
      BY <1>8, GotoLemma DEF Transmit, Stages, InHand, Insert, Rows, broker, store, worker
<1>9. ASSUME NEW w \in Workers, NEW e \in Events, CreateSent(w, e)
      PROVE  TraceInv'
  <2>1. /\ stage'[w][e] \in {"failed", "handled"}
        /\ stage'[w][e] = "handled" => row'[e] # "none"
        BY <1>9, GotoLemma DEF CreateSent, Insert, Stages, InHand
  <2>2. \A x \in Events : row[x] # "none" => row'[x] = row[x]
        BY <1>9, HandlerLemma
  <2>3. UNCHANGED mails
        BY <1>9 DEF CreateSent
  <2> QED  BY <1>9, <2>1, <2>2, <2>3, HandlerLemma
<1>10. ASSUME NEW w \in Workers, NEW e \in Events, Retry(w, e)
      PROVE  TraceInv'
      BY <1>10, SettleLemma DEF Retry, Custody, Held, Places, store, worker
<1>11. ASSUME NEW w \in Workers, NEW e \in Events, RecordFailure(w, e)
      PROVE  TraceInv'
      BY <1>11, GotoLemma DEF RecordFailure, Stages, InHand, Insert, Rows, broker, store, worker
<1>12. ASSUME NEW w \in Workers, NEW e \in Events, Park(w, e)
      PROVE  TraceInv'
      BY <1>12, GotoLemma DEF Park, Stages, InHand, Insert, Rows, broker, store, worker
<1>13. ASSUME NEW w \in Workers, NEW e \in Events, ParkFailed(w, e)
      PROVE  TraceInv'
      BY <1>13, SettleLemma DEF ParkFailed, Custody, Held, Places, store, worker
<1>14. ASSUME NEW w \in Workers, NEW e \in Events, Ack(w, e)
      PROVE  TraceInv'
      BY <1>14, SettleLemma DEF Ack, Custody, Held, Places, store, worker
<1>15. ASSUME NEW w \in Workers, Start(w) PROVE TraceInv'
      BY <1>15 DEF Start, worker, broker, store
<1>16. ASSUME NEW w \in Workers, Return(w) PROVE TraceInv'
      BY <1>16 DEF Return, worker, broker, store
<1>17. ASSUME NEW w \in Workers, Crash(w) PROVE TraceInv'
      BY <1>17, RequeueLemma DEF Crash, Die, Custody, Held, store
<1>18. ASSUME NEW w \in Workers, Exit(w) PROVE TraceInv'
      BY <1>18, RequeueLemma DEF Exit, Die, Custody, Held, store
<1>19. ASSUME NEW w \in Workers, Cancel(w) PROVE TraceInv'
      BY <1>19 DEF Cancel, worker, broker, store
<1>20. ASSUME NEW w \in Workers, ChannelClose(w) PROVE TraceInv'
      BY <1>20, RequeueLemma DEF ChannelClose, Die, Custody, Held, store
<1>21. CASE UNCHANGED vars
      BY <1>21 DEF vars
<1> QED
    BY <1>1, <1>2, <1>3, <1>4, <1>5, <1>6, <1>7, <1>8, <1>9, <1>10,
       <1>11, <1>12, <1>13, <1>14, <1>15, <1>16, <1>17, <1>18, <1>19, <1>20, <1>21
    DEF Next, Consume, Handle, Process

-----------------------------------------------------------------------------
(* The theorems *)

IInv == TypeOK /\ Vacant /\ Custody /\ RetryInv /\ TraceInv

LEMMA IInvInit == Init => IInv
<1>1. Init => Vacant /\ RetryInv /\ TraceInv
      BY ConsumerAssumption DEF Init, Vacant, Held, RetryInv, TraceInv
<1> QED  BY <1>1, TypeInit, CustodyInit DEF IInv

LEMMA IInvNext == IInv /\ [Next]_vars => IInv'
BY TypeNext, VacantNext, CustodyNext, RetryNext, TraceNext DEF IInv

LEMMA Invariance == Spec => []IInv
BY IInvInit, IInvNext, PTL DEF Spec

(* The broker and the workers never disagree about who holds an event.     *)
THEOREM CustodyCorrect == Spec => []Custody
<1>1. IInv => Custody
      BY DEF IInv
<1> QED  BY <1>1, Invariance, PTL

(* No decodable event leaves the broker without a row or a DLQ copy.       *)
THEOREM NothingLostSilently == Spec => []NoSilentLoss
<1>1. IInv => NoSilentLoss
      BY DEF IInv, TraceInv, NoSilentLoss
<1> QED  BY <1>1, Invariance, PTL

(* An event recorded as sent was mailed.                                   *)
THEOREM SentWasMailed == Spec => []SentMeansMailed
<1>1. IInv => SentMeansMailed
      BY DEF IInv, TraceInv, SentMeansMailed
<1> QED  BY <1>1, Invariance, PTL

(* Failure is recorded only after MaxRetries retries, and there are never  *)
(* more.                                                                   *)
THEOREM RetriesExhausted == Spec => []ExhaustedOnlyAfterRetries
<1>1. IInv => ExhaustedOnlyAfterRetries
      BY DEF IInv, RetryInv, ExhaustedOnlyAfterRetries
<1> QED  BY <1>1, Invariance, PTL

(* A notifications row is never changed once it is there.                  *)
THEOREM RowsAreFinal == Spec => RowIsFinal
<1>1. TypeOK /\ [Next]_vars =>
         [\A e \in Events : row[e] # "none" => UNCHANGED row[e]]_vars
  <2> SUFFICES ASSUME TypeOK, Next, NEW x \in Events, row[x] # "none"
               PROVE  row'[x] = row[x]
      OBVIOUS
  <2>1. ASSUME NEW e \in Events, NEW s, Insert(e, s) PROVE row'[x] = row[x]
        BY <2>1 DEF Insert, TypeOK
  <2>2. CASE UNCHANGED row
        BY <2>2
  <2> QED
      BY <2>1, <2>2
      DEF Next, Consume, Handle, Process, Publish, Expire, Deliver,
          DropUndecodable, Take, ExistsByEventID, Dial, Transmit, CreateSent,
          Retry, RecordFailure, Park, ParkFailed, Ack, Start, Return, Crash,
          Exit, Die, Cancel, ChannelClose, store
<1> QED  BY <1>1, TypeCorrect, PTL DEF Spec, RowIsFinal

(* Once there is a row, only handlers past their check may still mail.     *)
THEOREM MailedOnlyPastCheck == Spec => NoMailAfterRow
<1>1. TypeOK /\ [Next]_vars =>
         [\A e \in Events :
            row[e] # "none" /\ ~PastCheck(e) =>
               UNCHANGED mails[e] /\ ~PastCheck(e)']_vars
  <2> SUFFICES ASSUME TypeOK, Next, NEW x \in Events, row[x] # "none",
                      ~PastCheck(x)
               PROVE  mails'[x] = mails[x] /\ ~PastCheck(x)'
      OBVIOUS
  <2>1. \A w \in Workers : stage[w][x] \notin {"unseen", "dialled"}
        BY DEF PastCheck
  (* A step of a handler: it mails only from "dialled" and passes the      *)
  (* check only without a row.                                             *)
  <2>2. ASSUME NEW w \in Workers, NEW e \in Events, NEW s \in Stages,
               Goto(w, e, s), x = e => s \notin {"unseen", "dialled"}
        PROVE  ~PastCheck(x)'
        BY <2>1, <2>2, GotoLemma DEF PastCheck, TypeOK
  <2>3. ASSUME NEW w \in Workers, NEW e \in Events,
               ExistsByEventID(w, e) \/ Dial(w, e)
        PROVE  ~PastCheck(x)' /\ mails' = mails
    <3>1. \E s \in Stages : Goto(w, e, s) /\ (x = e => s \notin {"unseen", "dialled"})
          BY <2>1, <2>3 DEF ExistsByEventID, Dial, Stages, InHand
    <3>2. mails' = mails
          BY <2>3 DEF ExistsByEventID, Dial, store
    <3> QED  BY <2>2, <3>1, <3>2
  <2>4. ASSUME NEW w \in Workers, NEW e \in Events, Transmit(w, e)
        PROVE  ~PastCheck(x)' /\ mails'[x] = mails[x]
    <3>1. \E s \in Stages : Goto(w, e, s) /\ s \notin {"unseen", "dialled"}
          BY <2>4 DEF Transmit, Stages, InHand
    <3>2. x # e
          BY <2>1, <2>4 DEF Transmit
    <3>3. mails'[x] = mails[x]
          BY <2>4, <3>2 DEF Transmit, TypeOK
    <3> QED  BY <2>2, <3>1, <3>3
  <2>5. ASSUME NEW w \in Workers, NEW e \in Events,
               \/ Deliver(w, e) \/ DropUndecodable(w, e) \/ Take(w, e)
               \/ CreateSent(w, e) \/ Retry(w, e) \/ RecordFailure(w, e)
               \/ Park(w, e) \/ ParkFailed(w, e) \/ Ack(w, e)
        PROVE  ~PastCheck(x)' /\ mails' = mails
    <3>1. \E s \in Stages : Goto(w, e, s) /\ s \notin {"unseen", "dialled"}
          BY <2>5 DEF Deliver, DropUndecodable, Take, CreateSent, Retry,
             RecordFailure, Park, ParkFailed, Ack, Settle, Stages, InHand
    <3>2. mails' = mails
          BY <2>5 DEF Deliver, DropUndecodable, Take, CreateSent, Retry,
             RecordFailure, Park, ParkFailed, Ack, store
    <3> QED  BY <2>2, <3>1, <3>2
  <2>6. ASSUME NEW w \in Workers, Die(w)
        PROVE  ~PastCheck(x)' /\ mails' = mails
        BY <2>1, <2>6 DEF Die, PastCheck, TypeOK, store
  <2>7. ASSUME UNCHANGED <<stage, mails>> PROVE ~PastCheck(x)' /\ mails' = mails
        BY <2>1, <2>7 DEF PastCheck
  <2> QED
      BY <2>3, <2>4, <2>5, <2>6, <2>7
      DEF Next, Consume, Handle, Process, Publish, Expire, Start, Return,
          Crash, Exit, Cancel, ChannelClose, store
<1> QED  BY <1>1, TypeCorrect, PTL DEF Spec, NoMailAfterRow

-----------------------------------------------------------------------------
(* Refinement: what a step looks like from EventDelivery's point of view.  *)

LEMMA StutterStep ==
    ASSUME UNCHANGED <<row, dlq>>,
           \A x \in Events : /\ place'[x] = "unsent" <=> place[x] = "unsent"
                             /\ place'[x] = "done" <=> place[x] = "done"
    PROVE  UNCHANGED Delivery!vars
BY DEF Delivery!vars

LEMMA AcceptStep ==
    ASSUME UNCHANGED <<row, dlq>>, NEW e \in Events, place[e] = "unsent",
           place' = [place EXCEPT ![e] = "main"], place \in [Events -> Places]
    PROVE  Delivery!Accept(e)
BY DEF Delivery!Accept

LEMMA RecordStep ==
    ASSUME UNCHANGED place, NEW e \in Events, place[e] # "unsent",
           \A x \in Events \ {e} : UNCHANGED <<row[x], dlq[x]>>,
           row'[e] # "none" \/ dlq'[e] > 0
    PROVE  Delivery!Record(e)
BY DEF Delivery!Record

LEMMA SettleStep ==
    ASSUME UNCHANGED <<row, dlq>>, NEW e \in Events, place[e] = "out",
           place' = [place EXCEPT ![e] = "done"], place \in [Events -> Places],
           e \in Malformed \/ row[e] # "none" \/ dlq[e] > 0
    PROVE  Delivery!Settle(e)
BY DEF Delivery!Settle

LEMMA StepRefines ==
    IInv /\ [Next]_vars => [Delivery!Next]_(Delivery!vars)
<1> SUFFICES ASSUME IInv, [Next]_vars
             PROVE  Delivery!Next \/ UNCHANGED Delivery!vars
    OBVIOUS
<1> DEFINE Goal == Delivery!Next \/ UNCHANGED Delivery!vars
<1>t. TypeOK /\ Custody /\ TraceInv
      BY DEF IInv
<1>n. ASSUME NEW e \in Events,
             Delivery!Accept(e) \/ Delivery!Record(e) \/ Delivery!Settle(e)
      PROVE  Delivery!Next
      BY <1>n DEF Delivery!Next
<1>p. place \in [Events -> Places]
      BY <1>t DEF TypeOK
<1>1. ASSUME NEW e \in Events, Publish(e) PROVE Goal
      BY <1>1, <1>n, <1>p, AcceptStep DEF Publish, store
<1>2. ASSUME NEW e \in Events, Expire(e) PROVE Goal
      BY <1>2, <1>p, StutterStep DEF Expire, store
<1>3. ASSUME NEW w \in Workers, NEW e \in Events, Deliver(w, e) PROVE Goal
      BY <1>3, <1>p, StutterStep DEF Deliver, store
<1>c. ASSUME NEW w \in Workers, NEW e \in Events, open[w], stage[w][e] # "none"
      PROVE  place[e] = "out"
      BY <1>c, <1>t DEF Custody, Held
<1>4. ASSUME NEW w \in Workers, NEW e \in Events,
             DropUndecodable(w, e) \/ Ack(w, e)
      PROVE  Goal
  <2>1. /\ UNCHANGED <<row, dlq>> /\ stage[w][e] # "none"
        /\ place' = IF open[w] THEN [place EXCEPT ![e] = "done"] ELSE place
        BY <1>4 DEF DropUndecodable, Ack, Settle, store
  <2>2. e \in Malformed \/ row[e] # "none" \/ dlq[e] > 0
        BY <1>4, <1>t DEF DropUndecodable, Ack, TraceInv
  <2>3. CASE open[w]
        BY <1>c, <1>n, <1>p, <2>1, <2>2, <2>3, SettleStep
  <2>4. CASE ~open[w]
        BY <2>1, <2>4, StutterStep
  <2> QED  BY <2>3, <2>4
<1>5. ASSUME NEW w \in Workers, NEW e \in Events,
             Retry(w, e) \/ ParkFailed(w, e)
      PROVE  Goal
  <2>1. /\ UNCHANGED <<row, dlq>> /\ stage[w][e] # "none"
        /\ \E to \in {"retry", "main"} :
              place' = IF open[w] THEN [place EXCEPT ![e] = to] ELSE place
        BY <1>5 DEF Retry, ParkFailed, Settle, store
  <2>2. open[w] => place[e] = "out"
        BY <1>c, <2>1
  <2> QED  BY <1>p, <2>1, <2>2, StutterStep
<1>6. ASSUME NEW w \in Workers, NEW e \in Events,
             \/ Take(w, e) \/ ExistsByEventID(w, e) \/ Dial(w, e)
             \/ Transmit(w, e)
      PROVE  Goal
  <2>1. UNCHANGED <<place, row, dlq>>
        BY <1>6 DEF Take, ExistsByEventID, Dial, Transmit, broker, store
  <2> QED  BY <2>1, StutterStep
<1>7. ASSUME NEW w \in Workers, NEW e \in Events,
             CreateSent(w, e) \/ RecordFailure(w, e)
      PROVE  Goal
  <2>1. /\ UNCHANGED <<place, dlq>> /\ stage[w][e] # "none"
        /\ UNCHANGED row \/ Insert(e, "sent") \/ Insert(e, "failed")
        BY <1>7 DEF CreateSent, RecordFailure, broker
  <2>2. place[e] # "unsent"
        BY <1>t, <2>1 DEF TraceInv
  <2>3. CASE UNCHANGED row
        BY <2>1, <2>3, StutterStep
  <2>4. CASE Insert(e, "sent") \/ Insert(e, "failed")
    <3>1. /\ row'[e] # "none"
          /\ \A x \in Events \ {e} : row'[x] = row[x]
          BY <1>t, <2>4 DEF Insert, TypeOK
    <3> QED  BY <1>n, <2>1, <2>2, <3>1, RecordStep
  <2> QED  BY <2>1, <2>3, <2>4
<1>8. ASSUME NEW w \in Workers, NEW e \in Events, Park(w, e) PROVE Goal
  <2>1. /\ UNCHANGED <<place, row>> /\ place[e] # "unsent"
        BY <1>8, <1>t DEF Park, store, TraceInv
  <2>2. /\ dlq'[e] > 0
        /\ \A x \in Events \ {e} : dlq'[x] = dlq[x]
        BY <1>8, <1>t DEF Park, TypeOK
  <2> QED  BY <1>n, <2>1, <2>2, RecordStep
<1>9. ASSUME NEW w \in Workers, Start(w) \/ Return(w) \/ Cancel(w) PROVE Goal
  <2>1. UNCHANGED <<place, row, dlq>>
        BY <1>9 DEF Start, Return, Cancel, broker, store
  <2> QED  BY <2>1, StutterStep
<1>10. ASSUME NEW w \in Workers, Crash(w) \/ Exit(w) \/ ChannelClose(w)
       PROVE  Goal
  <2>1. UNCHANGED <<row, dlq>> /\ Requeue(w)
        BY <1>10 DEF Crash, Exit, Die, ChannelClose, store
  <2>2. \A x \in Events :
           place'[x] = IF open[w] /\ stage[w][x] # "none" THEN "main" ELSE place[x]
        BY <1>t, <2>1, RequeueLemma
  <2>3. \A x \in Events :
           place'[x] = place[x] \/ (place[x] = "out" /\ place'[x] = "main")
        BY <1>c, <2>2
  <2> QED  BY <2>1, <2>3, StutterStep
<1>11. CASE UNCHANGED vars
  <2>1. UNCHANGED <<place, row, dlq>>
        BY <1>11 DEF vars
  <2> QED  BY <2>1, StutterStep
<1> QED
    BY <1>1, <1>2, <1>3, <1>4, <1>5, <1>6, <1>7, <1>8, <1>9, <1>10, <1>11
    DEF Next, Consume, Handle, Process

LEMMA InitRefines == Init => Delivery!Init
BY DEF Init, Delivery!Init

(* The consumer implements the safety half of EventDelivery: whatever the  *)
(* workers, crashes and lost channels, an accepted event stays outstanding *)
(* until there is evidence of its outcome.                                 *)
THEOREM ConsumerKeepsPromise == Spec => KeepsPromise
BY InitRefines, StepRefines, Invariance, PTL
DEF Spec, KeepsPromise, Delivery!Safety


-----------------------------------------------------------------------------
(* The failure path, if nothing interrupts it *)

(* Only what decodes as an Envelope ever gets past the select. *)
Decodable ==
    \A w \in Workers, e \in Events : stage[w][e] \in InHand => e \notin Malformed

LEMMA DecodableNext == TypeOK /\ Decodable /\ [Next]_vars => Decodable'
<1> SUFFICES ASSUME TypeOK, Decodable, [Next]_vars,
                    NEW v \in Workers, NEW x \in Events, stage'[v][x] \in InHand
             PROVE  x \notin Malformed
    BY DEF Decodable
<1>g. ASSUME NEW w \in Workers, NEW e \in Events, NEW s \in Stages, Goto(w, e, s),
             s \in InHand => e \notin Malformed
      PROVE  x \notin Malformed
  <2>1. stage'[v][x] = IF v = w /\ x = e THEN s ELSE stage[v][x]
        BY <1>g, GotoLemma DEF TypeOK
  <2>2. CASE v = w /\ x = e
        BY <1>g, <2>1, <2>2
  <2>3. CASE ~(v = w /\ x = e)
        BY <2>1, <2>3 DEF Decodable
  <2> QED  BY <2>2, <2>3
<1>i. ASSUME NEW s \in InHand \cup {"none", "buffered"} PROVE s \in Stages
      BY DEF Stages
<1>n. "none" \notin InHand /\ "buffered" \notin InHand
      BY DEF InHand
<1>1. ASSUME NEW w \in Workers, NEW e \in Events,
             \/ Deliver(w, e) \/ DropUndecodable(w, e) \/ Retry(w, e)
             \/ ParkFailed(w, e) \/ Ack(w, e)
      PROVE  x \notin Malformed
  <2>1. Goto(w, e, "buffered") \/ Goto(w, e, "none")
        BY <1>1 DEF Deliver, DropUndecodable, Retry, ParkFailed, Ack, Settle
  <2> QED  BY <1>g, <1>i, <1>n, <2>1
<1>2. ASSUME NEW w \in Workers, NEW e \in Events,
             \/ Take(w, e) \/ ExistsByEventID(w, e) \/ Dial(w, e)
             \/ Transmit(w, e) \/ CreateSent(w, e) \/ RecordFailure(w, e)
             \/ Park(w, e)
      PROVE  x \notin Malformed
  <2>1. \E s \in InHand : Goto(w, e, s)
        BY <1>2 DEF Take, ExistsByEventID, Dial, Transmit, CreateSent,
                    RecordFailure, Park, InHand
  <2>2. e \notin Malformed
        BY <1>2 DEF Take, ExistsByEventID, Dial, Transmit, CreateSent,
                    RecordFailure, Park, Decodable, InHand
  <2> QED  BY <1>g, <1>i, <2>1, <2>2
<1>3. ASSUME NEW w \in Workers, Crash(w) \/ Exit(w) PROVE x \notin Malformed
  <2>1. stage' = [stage EXCEPT ![w] = [e \in Events |-> "none"]]
        BY <1>3 DEF Crash, Exit, Die
  <2> QED  BY <1>n, <2>1 DEF TypeOK, Decodable
<1>4. CASE UNCHANGED stage
      BY <1>4 DEF Decodable
<1> QED
    BY <1>1, <1>2, <1>3, <1>4
    DEF Next, Consume, Handle, Process, Publish, Expire, Start, Return, Cancel,
        ChannelClose, vars

(* Copies in the DLQ stay there, and a "failed" row is written by a worker *)
(* that parks the event next.                                              *)
LEMMA FailureStep ==
    ASSUME TypeOK, [Next]_vars, NEW x \in Events
    PROVE  /\ dlq'[x] >= dlq[x]
           /\ row'[x] = "failed" /\ row[x] # "failed" =>
                 /\ UNCHANGED place /\ row[x] = "none"
                 /\ \E w \in Workers : stage[w][x] = "failed" /\ stage'[w][x] = "park"
<1> USE DEF TypeOK
<1>1. CASE UNCHANGED <<dlq, row>>
      BY <1>1
<1>2. ASSUME NEW w \in Workers, NEW e \in Events,
             \/ Take(w, e) \/ ExistsByEventID(w, e) \/ Dial(w, e)
             \/ Transmit(w, e) \/ CreateSent(w, e)
      PROVE  /\ UNCHANGED dlq
             /\ row'[x] # row[x] => row'[x] = "sent"
      BY <1>2, HandlerLemma
<1>3. ASSUME NEW w \in Workers, NEW e \in Events, RecordFailure(w, e)
      PROVE  /\ UNCHANGED <<dlq, place>>
             /\ row'[x] # row[x] =>
                   row[x] = "none" /\ stage[w][x] = "failed" /\ stage'[w][x] = "park"
  <2>1. /\ UNCHANGED <<dlq, place>> /\ stage[w][e] = "failed"
        /\ Goto(w, e, "park")
        /\ UNCHANGED row \/ Insert(e, "failed")
        BY <1>3 DEF RecordFailure, broker
  <2>2. stage'[w][e] = "park"
        BY <2>1, GotoLemma DEF Stages, InHand
  <2>3. row'[x] # row[x] => x = e /\ row[x] = "none"
        BY <2>1 DEF Insert
  <2> QED  BY <2>1, <2>2, <2>3
<1>4. ASSUME NEW w \in Workers, NEW e \in Events, Park(w, e)
      PROVE  UNCHANGED row /\ dlq'[x] >= dlq[x]
      BY <1>4 DEF Park, store
<1>5. UNCHANGED dlq => dlq'[x] >= dlq[x]
      OBVIOUS
<1> QED
    BY <1>1, <1>2, <1>3, <1>4, <1>5
    DEF Next, Consume, Handle, Process, Publish, Expire, Deliver,
        DropUndecodable, Retry, ParkFailed, Ack, Start, Return, Crash,
        Exit, Die, Cancel, ChannelClose, store, broker, vars

(* Between OnExhausted and the publish to the DLQ nothing happens to the   *)
(* worker: no crash, no exit, its channel is open and the publish works.   *)
ParkGoesThrough ==
    [][\A w \in Workers, e \in Events :
         stage[w][e] = "park" => open'[w] /\ stage'[w][e] \in {"park", "parked"}]_vars

(* Whatever is recorded as failed and not in the DLQ yet is about to be.   *)
VisibleInv ==
    \A e \in Events :
        row[e] = "failed" /\ dlq[e] = 0 =>
            place[e] # "done" /\ \E w \in Workers : stage[w][e] = "park"

LEMMA VisibleNext ==
    ASSUME IInv, IInv', Decodable, VisibleInv, [Next]_vars,
           UNCHANGED vars \/ \A w \in Workers, e \in Events :
              stage[w][e] = "park" => open'[w] /\ stage'[w][e] \in {"park", "parked"}
    PROVE  VisibleInv'
<1>1. CASE UNCHANGED vars
      BY <1>1 DEF vars, VisibleInv
<1>2. ASSUME ~UNCHANGED vars, NEW x \in Events, row'[x] = "failed", dlq'[x] = 0
      PROVE  place'[x] # "done" /\ \E w \in Workers : stage'[w][x] = "park"
  <2>1. dlq[x] = 0
        BY <1>2, FailureStep DEF IInv, TypeOK
  <2>2. CASE row[x] = "failed"
    <3>1. PICK w \in Workers : stage[w][x] = "park"
          BY <2>1, <2>2 DEF VisibleInv
    <3>2. open'[w] /\ stage'[w][x] \in {"park", "parked"}
          BY <1>2, <3>1
    <3>3. stage'[w][x] # "parked"
          BY <1>2 DEF IInv, TraceInv, TypeOK
    <3>4. place'[x] = "out"
          BY <3>2 DEF IInv, Custody, Held
    <3> QED  BY <3>2, <3>3, <3>4
  <2>3. CASE row[x] # "failed"
    <3>1. PICK w \in Workers : stage[w][x] = "failed" /\ stage'[w][x] = "park"
          BY <1>2, <2>3, FailureStep DEF IInv
    <3>2. UNCHANGED place /\ row[x] = "none"
          BY <1>2, <2>3, FailureStep DEF IInv
    <3>3. x \notin Malformed
          BY <3>1 DEF Decodable, InHand
    <3>4. place[x] # "done"
          BY <2>1, <3>2, <3>3 DEF IInv, TraceInv
    <3> QED  BY <3>1, <3>2, <3>4
  <2> QED  BY <2>2, <2>3
<1> QED  BY <1>1, <1>2 DEF VisibleInv

(* What consumer.go:51-53 promises holds wherever nothing interrupts the   *)
(* step from OnExhausted to the DLQ: no event is settled as failed without *)
(* a copy there.  That gap is all there is between the code and its claim. *)
THEOREM FailuresVisibleUninterrupted ==
    Spec /\ ParkGoesThrough => []ExhaustedVisibleInDLQ
<1>1. Init => Decodable /\ VisibleInv
      BY DEF Init, Decodable, VisibleInv, InHand
<1>2. IInv /\ Decodable /\ [Next]_vars => Decodable'
      BY DecodableNext DEF IInv
<1>3. /\ IInv /\ IInv' /\ Decodable /\ VisibleInv /\ [Next]_vars
      /\ [\A w \in Workers, e \in Events :
            stage[w][e] = "park" =>
               open'[w] /\ stage'[w][e] \in {"park", "parked"}]_vars
      => VisibleInv'
      BY VisibleNext
<1>4. IInv /\ VisibleInv => ExhaustedVisibleInDLQ
      BY DEF IInv, TypeOK, VisibleInv, ExhaustedVisibleInDLQ
<1> QED  BY <1>1, <1>2, <1>3, <1>4, Invariance, PTL DEF Spec, ParkGoesThrough
=============================================================================
