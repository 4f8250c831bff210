---------------------------- MODULE ConsumerBudgets ----------------------------
(***************************************************************************)
(* Proofs about how often Consumer can mail a user and park an event, for  *)
(* any events, retries and faults and any finite number of workers.  Both  *)
(* budgets are proved by counting who may still spend.                     *)
(***************************************************************************)
EXTENDS ConsumerProofs, FiniteSetTheorems

(* Counting *)

LEMMA CountLemma ==
    ASSUME IsFiniteSet(Workers), NEW A \in SUBSET Workers, NEW B \in SUBSET Workers
    PROVE  /\ Cardinality(A) \in Nat /\ Cardinality(B) \in Nat
           /\ B \subseteq A => Cardinality(B) <= Cardinality(A)
           /\ \A w \in Workers :
                 B \subseteq A \cup {w} => Cardinality(B) <= Cardinality(A) + 1
           /\ \A w \in A :
                 B \subseteq A \ {w} => Cardinality(B) <= Cardinality(A) - 1
<1>1. IsFiniteSet(A) /\ IsFiniteSet(B)
      BY FS_Subset
<1>2. Cardinality(A) \in Nat /\ Cardinality(B) \in Nat
      BY <1>1, FS_CardinalityType
<1>3. ASSUME B \subseteq A PROVE Cardinality(B) <= Cardinality(A)
      BY <1>1, <1>3, FS_Subset
<1>4. ASSUME NEW w \in Workers, B \subseteq A \cup {w}
      PROVE  Cardinality(B) <= Cardinality(A) + 1
  <2>1. /\ IsFiniteSet(A \cup {w})
        /\ Cardinality(A \cup {w}) = IF w \in A THEN Cardinality(A) ELSE Cardinality(A) + 1
        BY <1>1, FS_AddElement
  <2>2. Cardinality(B) <= Cardinality(A \cup {w})
        BY <1>4, <2>1, FS_Subset
  <2> QED  BY <1>2, <2>1, <2>2
<1>5. ASSUME NEW w \in A, B \subseteq A \ {w}
      PROVE  Cardinality(B) <= Cardinality(A) - 1
  <2>1. IsFiniteSet(A \ {w}) /\ Cardinality(A \ {w}) = Cardinality(A) - 1
        BY <1>1, FS_RemoveElement
  <2>2. Cardinality(B) <= Cardinality(A \ {w})
        BY <1>5, <2>1, FS_Subset
  <2> QED  BY <2>1, <2>2
<1> QED  BY <1>2, <1>3, <1>4, <1>5

-----------------------------------------------------------------------------
(* The budgets *)

(* The workers whose delivery of e may still lead to a mail, or to a copy  *)
(* in the DLQ, and those that may still give everything back by exiting.   *)
BeforeMail == {"buffered", "decoded", "unseen", "dialled"}
BeforePark == {"buffered", "decoded", "unseen", "dialled", "mailed", "failed", "park"}

Mailing(e) == {w \in Workers : stage[w][e] \in BeforeMail}
Parking(e) == {w \in Workers : open[w] /\ stage[w][e] \in BeforePark}
Leaving    == {w \in Workers : cancelled[w]}

(* The event is where somebody may still get it from. *)
Ready(e)   == IF place[e] \in {"unsent", "main"} THEN 1 ELSE 0
Pending(e) == IF place[e] \in {"unsent", "main", "retry"} THEN 1 ELSE 0

MailInv ==
    \A e \in Events :
        mails[e] + Cardinality(Mailing(e)) + Cardinality(Leaving) + Ready(e)
           <= 1 + deaths[e] + faults

DLQInv ==
    \A e \in Events :
        dlq[e] + Cardinality(Parking(e)) + Cardinality(Leaving) + Pending(e)
           <= 1 + faults

(* What a step does to the places, and who may still spend, as far as the  *)
(* budgets care.                                                           *)
Handles(w, e) ==
    \/ DropUndecodable(w, e) \/ Take(w, e) \/ ExistsByEventID(w, e) \/ Dial(w, e)
    \/ CreateSent(w, e) \/ Retry(w, e) \/ RecordFailure(w, e) \/ Ack(w, e)

(* A step of a worker with one delivery concerns that delivery only, and   *)
(* on an open channel the event was out with it.                           *)
LEMMA DeliveryStep ==
    ASSUME TypeOK, Custody, NEW w \in Workers, NEW e \in Events,
           \/ Handles(w, e) \/ Transmit(w, e) \/ Park(w, e) \/ ParkFailed(w, e)
    PROVE  /\ stage[w][e] # "none"
           /\ open[w] => place[e] = "out"
           /\ UNCHANGED <<deaths, proc, open, cancelled>>
           /\ \A v \in Workers, x \in Events :
                 ~(v = w /\ x = e) => stage'[v][x] = stage[v][x]
           /\ \A x \in Events :
                 x # e => /\ place'[x] = place[x] /\ mails'[x] = mails[x]
                          /\ dlq'[x] = dlq[x]
<1> USE DEF TypeOK
<1>1. stage[w][e] # "none" /\ UNCHANGED <<deaths, proc, open, cancelled>>
      BY DEF Handles, DropUndecodable, Take, ExistsByEventID, Dial, Transmit,
             CreateSent, Retry, RecordFailure, Park, ParkFailed, Ack, broker, worker
<1>2. open[w] => place[e] = "out"
      BY <1>1 DEF Custody, Held
<1>3. \E s \in Stages : Goto(w, e, s)
      BY DEF Handles, DropUndecodable, Take, ExistsByEventID, Dial, Transmit,
             CreateSent, Retry, RecordFailure, Park, ParkFailed, Ack, Settle,
             Stages, InHand
<1>4. \A v \in Workers, x \in Events :
         ~(v = w /\ x = e) => stage'[v][x] = stage[v][x]
      BY <1>3, GotoLemma
<1>5. \A x \in Events : x # e => place'[x] = place[x]
  <2>1. \/ UNCHANGED place
        \/ \E to : place' = IF open[w] THEN [place EXCEPT ![e] = to] ELSE place
        BY DEF Handles, DropUndecodable, Take, ExistsByEventID, Dial, Transmit,
               CreateSent, Retry, RecordFailure, Park, ParkFailed, Ack, Settle, broker
  <2> QED  BY <2>1
<1>6. \A x \in Events : x # e => mails'[x] = mails[x] /\ dlq'[x] = dlq[x]
      BY DEF Handles, DropUndecodable, Take, ExistsByEventID, Dial, Transmit,
             CreateSent, Retry, RecordFailure, Park, ParkFailed, Ack, broker, store
<1> QED  BY <1>1, <1>2, <1>4, <1>5, <1>6

(* A channel that is lost, with or without its process, puts what it had   *)
(* out into the main queue.                                                *)
LEMMA LossStep ==
    ASSUME TypeOK, NEW w \in Workers,
           \/ Crash(w) \/ Exit(w) \/ ChannelClose(w)
    PROVE  /\ UNCHANGED <<deaths, dlq, mails>>
           /\ \A x \in Events :
                 place'[x] = IF open[w] /\ stage[w][x] # "none" THEN "main" ELSE place[x]
           /\ \A v \in Workers, x \in Events :
                 \/ stage'[v][x] = stage[v][x]
                 \/ v = w /\ stage'[v][x] = "none"
           /\ \A v \in Workers : open'[v] <=> open[v] /\ v # w
           /\ \A v \in Workers \ {w} : cancelled'[v] = cancelled[v]
           /\ cancelled'[w] => cancelled[w] /\ ChannelClose(w)
<1> USE DEF TypeOK
<1>1. CASE Crash(w) \/ Exit(w)
  <2>1. Die(w)
        BY <1>1 DEF Crash, Exit
  <2> QED  BY <2>1, RequeueLemma DEF Die, store
<1>2. CASE ChannelClose(w)
      BY <1>2, RequeueLemma DEF ChannelClose, store
<1> QED  BY <1>1, <1>2

-----------------------------------------------------------------------------
(* Mails *)

(* A step may change the amounts by any m, g, l, r that add up.            *)
LEMMA MailArith ==
    ASSUME IsFiniteSet(Workers), TypeOK, TypeOK', MailInv, NEW x \in Events,
           NEW m \in Int, NEW g \in Int, NEW l \in Int, NEW r \in Int,
           mails'[x] = mails[x] + m,
           Cardinality(Mailing(x)') <= Cardinality(Mailing(x)) + g,
           Cardinality(Leaving') <= Cardinality(Leaving) + l,
           Ready(x)' <= Ready(x) + r,
           m + g + l + r <= (deaths'[x] - deaths[x]) + (faults' - faults)
    PROVE  mails'[x] + Cardinality(Mailing(x)') + Cardinality(Leaving')
              + Ready(x)' <= 1 + deaths'[x] + faults'
<1>1. /\ Mailing(x) \in SUBSET Workers /\ Mailing(x)' \in SUBSET Workers
      /\ Leaving \in SUBSET Workers /\ Leaving' \in SUBSET Workers
      BY DEF Mailing, Leaving
<1>2. /\ Cardinality(Mailing(x)) \in Nat /\ Cardinality(Mailing(x)') \in Nat
      /\ Cardinality(Leaving) \in Nat /\ Cardinality(Leaving') \in Nat
      BY <1>1, CountLemma
<1>3. /\ mails[x] \in Nat /\ deaths[x] \in Nat /\ deaths'[x] \in Nat
      /\ faults \in Nat /\ faults' \in Nat
      BY DEF TypeOK
<1>4. Ready(x) \in Nat /\ Ready(x)' \in Nat
      BY DEF Ready
<1>5. mails[x] + Cardinality(Mailing(x)) + Cardinality(Leaving) + Ready(x)
         <= 1 + deaths[x] + faults
      BY DEF MailInv
<1> QED  BY <1>2, <1>3, <1>4, <1>5

LEMMA DLQArith ==
    ASSUME IsFiniteSet(Workers), TypeOK, TypeOK', DLQInv, NEW x \in Events,
           NEW d \in Int, NEW g \in Int, NEW l \in Int, NEW r \in Int,
           dlq'[x] = dlq[x] + d,
           Cardinality(Parking(x)') <= Cardinality(Parking(x)) + g,
           Cardinality(Leaving') <= Cardinality(Leaving) + l,
           Pending(x)' <= Pending(x) + r,
           faults + d + g + l + r <= faults'
    PROVE  dlq'[x] + Cardinality(Parking(x)') + Cardinality(Leaving')
              + Pending(x)' <= 1 + faults'
<1>1. /\ Parking(x) \in SUBSET Workers /\ Parking(x)' \in SUBSET Workers
      /\ Leaving \in SUBSET Workers /\ Leaving' \in SUBSET Workers
      BY DEF Parking, Leaving
<1>2. /\ Cardinality(Parking(x)) \in Nat /\ Cardinality(Parking(x)') \in Nat
      /\ Cardinality(Leaving) \in Nat /\ Cardinality(Leaving') \in Nat
      BY <1>1, CountLemma
<1>3. dlq[x] \in Nat /\ dlq'[x] \in Nat /\ faults \in Nat /\ faults' \in Nat
      BY DEF TypeOK
<1>4. Pending(x) \in Nat /\ Pending(x)' \in Nat
      BY DEF Pending
<1>5. dlq[x] + Cardinality(Parking(x)) + Cardinality(Leaving) + Pending(x)
         <= 1 + faults
      BY DEF DLQInv
<1> QED  BY <1>2, <1>3, <1>4, <1>5

(* The two sets may lose a worker, keep their members or gain one.         *)
LEMMA CountMailing ==
    ASSUME IsFiniteSet(Workers), NEW x \in Events
    PROVE  /\ Mailing(x)' \subseteq Mailing(x) =>
                 Cardinality(Mailing(x)') <= Cardinality(Mailing(x)) + 0
           /\ \A w \in Workers : Mailing(x)' \subseteq Mailing(x) \cup {w} =>
                 Cardinality(Mailing(x)') <= Cardinality(Mailing(x)) + 1
           /\ \A w \in Mailing(x) : Mailing(x)' \subseteq Mailing(x) \ {w} =>
                 Cardinality(Mailing(x)') <= Cardinality(Mailing(x)) + (-1)
<1>1. Mailing(x) \in SUBSET Workers /\ Mailing(x)' \in SUBSET Workers
      BY DEF Mailing
<1> HIDE DEF Mailing
<1> QED  BY <1>1, CountLemma

LEMMA CountParking ==
    ASSUME IsFiniteSet(Workers), NEW x \in Events
    PROVE  /\ Parking(x)' \subseteq Parking(x) =>
                 Cardinality(Parking(x)') <= Cardinality(Parking(x)) + 0
           /\ \A w \in Workers : Parking(x)' \subseteq Parking(x) \cup {w} =>
                 Cardinality(Parking(x)') <= Cardinality(Parking(x)) + 1
           /\ \A w \in Parking(x) : Parking(x)' \subseteq Parking(x) \ {w} =>
                 Cardinality(Parking(x)') <= Cardinality(Parking(x)) + (-1)
<1>1. Parking(x) \in SUBSET Workers /\ Parking(x)' \in SUBSET Workers
      BY DEF Parking
<1> HIDE DEF Parking
<1> QED  BY <1>1, CountLemma

LEMMA CountLeaving ==
    ASSUME IsFiniteSet(Workers)
    PROVE  /\ Leaving' \subseteq Leaving =>
                 Cardinality(Leaving') <= Cardinality(Leaving) + 0
           /\ \A w \in Workers : Leaving' \subseteq Leaving \cup {w} =>
                 Cardinality(Leaving') <= Cardinality(Leaving) + 1
           /\ \A w \in Leaving : Leaving' \subseteq Leaving \ {w} =>
                 Cardinality(Leaving') <= Cardinality(Leaving) + (-1)
<1>1. Leaving \in SUBSET Workers /\ Leaving' \in SUBSET Workers
      BY DEF Leaving
<1> QED  BY <1>1, CountLemma

LEMMA MailInit == IsFiniteSet(Workers) /\ Init => MailInv
<1> SUFFICES ASSUME Init PROVE MailInv
    OBVIOUS
<1>1. ASSUME NEW x \in Events PROVE Mailing(x) = {} /\ Leaving = {}
      BY DEF Init, Mailing, Leaving, BeforeMail
<1>2. Cardinality({}) = 0
      BY FS_EmptySet
<1>3. \A x \in Events : mails[x] = 0 /\ deaths[x] = 0 /\ faults = 0 /\ Ready(x) = 1
      BY DEF Init, Ready
<1> QED  BY <1>1, <1>2, <1>3 DEF MailInv

LEMMA MailNext ==
    ASSUME IsFiniteSet(Workers), TypeOK, TypeOK', Custody, MailInv, [Next]_vars
    PROVE  MailInv'
<1> SUFFICES ASSUME NEW x \in Events
             PROVE  mails'[x] + Cardinality(Mailing(x)') + Cardinality(Leaving')
                       + Ready(x)' <= 1 + deaths'[x] + faults'
    BY DEF MailInv
<1> DEFINE Goal == mails'[x] + Cardinality(Mailing(x)') + Cardinality(Leaving')
                      + Ready(x)' <= 1 + deaths'[x] + faults'
<1>t. /\ mails[x] \in Nat /\ deaths[x] \in Nat /\ deaths'[x] \in Nat
      /\ faults \in Nat /\ faults' \in Nat /\ mails'[x] \in Nat
      /\ 0 \in Int /\ 1 \in Int /\ -1 \in Int
      BY DEF TypeOK
<1>r. Ready(x) \in {0, 1} /\ Ready(x)' \in {0, 1}
      BY DEF Ready
(* A step that changes no amount, or pays for the one it adds.             *)
<1>q. ASSUME Mailing(x)' \subseteq Mailing(x), Leaving' \subseteq Leaving,
             mails'[x] = mails[x],
             \/ /\ Ready(x)' = 1 => Ready(x) = 1
                /\ deaths'[x] >= deaths[x] /\ faults' >= faults
             \/ deaths'[x] + faults' > deaths[x] + faults
      PROVE  Goal
  <2>1. CASE /\ Ready(x)' = 1 => Ready(x) = 1
             /\ deaths'[x] >= deaths[x] /\ faults' >= faults
    <3>1. /\ mails'[x] = mails[x] + 0 /\ Ready(x)' <= Ready(x) + 0
          /\ 0 + 0 + 0 + 0 <= (deaths'[x] - deaths[x]) + (faults' - faults)
          BY <1>t, <1>r, <1>q, <2>1
    <3> QED  BY <1>t, <1>q, <3>1, CountMailing, CountLeaving, MailArith
  <2>2. CASE deaths'[x] + faults' > deaths[x] + faults
    <3>1. /\ mails'[x] = mails[x] + 0 /\ Ready(x)' <= Ready(x) + 1
          /\ 0 + 0 + 0 + 1 <= (deaths'[x] - deaths[x]) + (faults' - faults)
          BY <1>t, <1>r, <1>q, <2>2
    <3> QED  BY <1>t, <1>q, <3>1, CountMailing, CountLeaving, MailArith
  <2> QED  BY <1>q, <2>1, <2>2
<1> HIDE DEF Goal
<1>1. ASSUME NEW e \in Events, Publish(e) PROVE Goal
  <2>1. /\ Mailing(x)' \subseteq Mailing(x) /\ Leaving' \subseteq Leaving
        /\ mails'[x] = mails[x] /\ deaths'[x] = deaths[x] /\ faults' = faults
        /\ Ready(x)' = 1 => Ready(x) = 1
        BY <1>1 DEF Publish, store, worker, Mailing, Leaving, Ready, TypeOK
  <2> QED  BY <2>1, <1>q, <1>t
<1>2. ASSUME NEW e \in Events, Expire(e) PROVE Goal
  <2>1. /\ Mailing(x)' \subseteq Mailing(x) /\ Leaving' \subseteq Leaving
        /\ mails'[x] = mails[x] /\ faults' = faults
        BY <1>2 DEF Expire, store, worker, Mailing, Leaving
  <2>2. \/ x = e /\ deaths'[x] = deaths[x] + 1
        \/ x # e /\ deaths'[x] = deaths[x] /\ place'[x] = place[x]
        BY <1>2 DEF Expire, TypeOK
  <2>3. CASE x = e
        BY <2>1, <2>2, <2>3, <1>q, <1>t
  <2>4. CASE x # e
    <3>1. Ready(x)' = 1 => Ready(x) = 1
          BY <2>2, <2>4 DEF Ready
    <3> QED  BY <2>1, <2>2, <2>4, <3>1, <1>q, <1>t
  <2> QED  BY <2>3, <2>4
<1>3. ASSUME NEW w \in Workers, NEW e \in Events, Deliver(w, e) PROVE Goal
  <2>s. "buffered" \in Stages
        BY DEF Stages
  <2>1. /\ Leaving' \subseteq Leaving
        /\ mails'[x] = mails[x] /\ deaths'[x] = deaths[x] /\ faults' = faults
        BY <1>3 DEF Deliver, store, worker, Leaving
  <2>2. \A v \in Workers : stage'[v][x] = IF v = w /\ x = e THEN "buffered"
                                             ELSE stage[v][x]
        BY <1>3, <2>s, GotoLemma DEF Deliver, TypeOK
  <2>3. CASE x = e
    <3>1. Ready(x) = 1 /\ Ready(x)' = 0
          BY <1>3, <2>3 DEF Deliver, Ready, TypeOK
    <3>2. Mailing(x)' \subseteq Mailing(x) \cup {w}
          BY <2>2 DEF Mailing
    <3>3. Cardinality(Mailing(x)') <= Cardinality(Mailing(x)) + 1
          BY <3>2, CountMailing
    <3>4. Cardinality(Leaving') <= Cardinality(Leaving) + 0
          BY <2>1, CountLeaving
    <3>5. /\ mails'[x] = mails[x] + 0 /\ Ready(x)' <= Ready(x) + (-1)
          /\ 0 + 1 + 0 + (-1) <= (deaths'[x] - deaths[x]) + (faults' - faults)
          BY <1>t, <2>1, <3>1
    <3> QED  BY <1>t, <3>3, <3>4, <3>5, MailArith DEF Goal
  <2>4. CASE x # e
    <3>1. Ready(x)' = 1 => Ready(x) = 1
          BY <1>3, <2>4 DEF Deliver, Ready, TypeOK
    <3>2. Mailing(x)' \subseteq Mailing(x)
          BY <2>2, <2>4 DEF Mailing
    <3> QED  BY <2>1, <3>1, <3>2, <1>q, <1>t
  <2> QED  BY <2>3, <2>4
<1>4. ASSUME NEW w \in Workers, NEW e \in Events, Handles(w, e) PROVE Goal
  <2>1. /\ UNCHANGED <<deaths, proc, open, cancelled>>
        /\ \A v \in Workers : ~(v = w /\ x = e) => stage'[v][x] = stage[v][x]
        /\ x # e => place'[x] = place[x] /\ mails'[x] = mails[x]
        BY <1>4, DeliveryStep
  <2>2. /\ stage'[w][e] \in BeforeMail => stage[w][e] \in BeforeMail
        /\ mails' = mails /\ faults' = faults
        /\ place'[e] = place[e] \/ place'[e] \in {"done", "retry"}
    <3>1. /\ mails' = mails /\ faults' = faults
          /\ place'[e] = place[e] \/ place'[e] \in {"done", "retry"}
          BY <1>4 DEF Handles, DropUndecodable, Take, ExistsByEventID, Dial,
             CreateSent, Retry, RecordFailure, Ack, Settle, broker, store, TypeOK
    <3>2. stage'[w][e] \in BeforeMail => stage[w][e] \in BeforeMail
          BY <1>4 DEF Handles, DropUndecodable, Take, ExistsByEventID, Dial,
             CreateSent, Retry, RecordFailure, Ack, Settle, Goto, BeforeMail, TypeOK
    <3> QED  BY <3>1, <3>2
  <2>3. Mailing(x)' \subseteq Mailing(x) /\ Leaving' \subseteq Leaving
        BY <2>1, <2>2 DEF Mailing, Leaving
  <2>4. Ready(x)' = 1 => Ready(x) = 1
        BY <2>1, <2>2 DEF Ready
  <2> QED  BY <2>1, <2>2, <2>3, <2>4, <1>q, <1>t
<1>5. ASSUME NEW w \in Workers, NEW e \in Events, Transmit(w, e) PROVE Goal
  <2>1. /\ UNCHANGED <<deaths, proc, open, cancelled>>
        /\ \A v \in Workers : ~(v = w /\ x = e) => stage'[v][x] = stage[v][x]
        /\ x # e => place'[x] = place[x] /\ mails'[x] = mails[x]
        BY <1>5, DeliveryStep
  <2>2. /\ stage[w][e] = "dialled" /\ stage'[w][e] \in {"mailed", "failed"}
        /\ UNCHANGED place /\ faults' = faults
        /\ mails'[e] \in {mails[e], mails[e] + 1}
        BY <1>5 DEF Transmit, Goto, broker, TypeOK
  <2>3. Ready(x)' = Ready(x) /\ Leaving' \subseteq Leaving
        /\ Mailing(x)' \subseteq Mailing(x)
        BY <2>1, <2>2 DEF Ready, Leaving, Mailing, BeforeMail
  <2>4. CASE mails'[x] = mails[x]
        BY <2>1, <2>2, <2>3, <2>4, <1>q, <1>t
  <2>5. CASE x = e /\ mails'[x] = mails[x] + 1
    <3>1. w \in Mailing(x) /\ Mailing(x)' \subseteq Mailing(x) \ {w}
          BY <2>1, <2>2, <2>5 DEF Mailing, BeforeMail
    <3>2. Cardinality(Mailing(x)') <= Cardinality(Mailing(x)) + (-1)
          BY <3>1, CountMailing
    <3>3. Cardinality(Leaving') <= Cardinality(Leaving) + 0
          BY <2>3, CountLeaving
    <3>4. /\ Ready(x)' <= Ready(x) + 0
          /\ 1 + (-1) + 0 + 0 <= (deaths'[x] - deaths[x]) + (faults' - faults)
          BY <1>t, <1>r, <2>1, <2>2, <2>3
    <3> QED  BY <1>t, <2>5, <3>2, <3>3, <3>4, MailArith DEF Goal
  <2> QED  BY <2>1, <2>2, <2>4, <2>5
<1>6. ASSUME NEW w \in Workers, NEW e \in Events, Park(w, e) \/ ParkFailed(w, e)
      PROVE  Goal
  <2>1. /\ UNCHANGED <<deaths, proc, open, cancelled>>
        /\ \A v \in Workers : ~(v = w /\ x = e) => stage'[v][x] = stage[v][x]
        /\ x # e => place'[x] = place[x]
        BY <1>6, DeliveryStep
  <2>2. /\ mails' = mails /\ stage'[w][e] \in {"parked", "none"}
        /\ faults' = faults \/ faults' = faults + 1
        /\ faults' = faults => place' = place
        BY <1>6 DEF Park, ParkFailed, Settle, Goto, Fault, store, TypeOK
  <2>3. Leaving' \subseteq Leaving /\ Mailing(x)' \subseteq Mailing(x)
        BY <2>1, <2>2 DEF Leaving, Mailing, BeforeMail
  <2>4. faults' = faults => Ready(x)' = Ready(x)
        BY <2>2 DEF Ready
  <2> QED  BY <2>1, <2>2, <2>3, <2>4, <1>q, <1>t
<1>7. ASSUME NEW w \in Workers, Start(w) \/ Return(w) PROVE Goal
  <2>1. /\ Mailing(x)' \subseteq Mailing(x) /\ Leaving' \subseteq Leaving
        /\ mails'[x] = mails[x] /\ deaths'[x] = deaths[x] /\ faults' = faults
        /\ Ready(x)' = Ready(x)
        BY <1>7 DEF Start, Return, broker, store, Mailing, Leaving, Ready
  <2> QED  BY <2>1, <1>q, <1>t
<1>8. ASSUME NEW w \in Workers, Crash(w) \/ ChannelClose(w) PROVE Goal
  <2>1. /\ mails'[x] = mails[x] /\ deaths'[x] = deaths[x]
        /\ \A v \in Workers : stage'[v][x] = stage[v][x] \/ stage'[v][x] = "none"
        /\ \A v \in Workers : cancelled'[v] => cancelled[v]
        BY <1>8, LossStep
  <2>2. faults' = faults + 1
        BY <1>8 DEF Crash, ChannelClose, Fault
  <2>3. Leaving' \subseteq Leaving /\ Mailing(x)' \subseteq Mailing(x)
        BY <2>1 DEF Leaving, Mailing, BeforeMail
  <2> QED  BY <2>1, <2>2, <2>3, <1>q, <1>t
<1>9. ASSUME NEW w \in Workers, Exit(w) PROVE Goal
  <2>1. /\ mails'[x] = mails[x] /\ deaths'[x] = deaths[x]
        /\ \A v \in Workers : stage'[v][x] = stage[v][x] \/ stage'[v][x] = "none"
        /\ \A v \in Workers : cancelled'[v] => cancelled[v]
        BY <1>9, LossStep
  <2>2. faults' = faults /\ cancelled[w] /\ ~cancelled'[w]
        BY <1>9 DEF Exit, Die, TypeOK
  <2>3. /\ w \in Leaving /\ Leaving' \subseteq Leaving \ {w}
        /\ Mailing(x)' \subseteq Mailing(x)
        BY <2>1, <2>2 DEF Leaving, Mailing, BeforeMail
  <2>4. Cardinality(Mailing(x)') <= Cardinality(Mailing(x)) + 0
        BY <2>3, CountMailing
  <2>5. Cardinality(Leaving') <= Cardinality(Leaving) + (-1)
        BY <2>3, CountLeaving
  <2>6. /\ mails'[x] = mails[x] + 0 /\ Ready(x)' <= Ready(x) + 1
        /\ 0 + 0 + (-1) + 1 <= (deaths'[x] - deaths[x]) + (faults' - faults)
        BY <1>t, <1>r, <2>1, <2>2
  <2> QED  BY <1>t, <2>4, <2>5, <2>6, MailArith DEF Goal
<1>10. ASSUME NEW w \in Workers, Cancel(w) PROVE Goal
  <2>1. /\ mails'[x] = mails[x] /\ deaths'[x] = deaths[x] /\ faults' = faults + 1
        /\ Leaving' \subseteq Leaving \cup {w}
        /\ Mailing(x)' \subseteq Mailing(x) /\ Ready(x)' = Ready(x)
        BY <1>10 DEF Cancel, Fault, broker, store, Leaving, Mailing, Ready, TypeOK
  <2>2. Cardinality(Mailing(x)') <= Cardinality(Mailing(x)) + 0
        BY <2>1, CountMailing
  <2>3. Cardinality(Leaving') <= Cardinality(Leaving) + 1
        BY <2>1, CountLeaving
  <2>4. /\ mails'[x] = mails[x] + 0 /\ Ready(x)' <= Ready(x) + 0
        /\ 0 + 0 + 1 + 0 <= (deaths'[x] - deaths[x]) + (faults' - faults)
        BY <1>t, <1>r, <2>1
  <2> QED  BY <1>t, <2>2, <2>3, <2>4, MailArith DEF Goal
<1>11. ASSUME UNCHANGED vars PROVE Goal
  <2>1. /\ Mailing(x)' \subseteq Mailing(x) /\ Leaving' \subseteq Leaving
        /\ mails'[x] = mails[x] /\ deaths'[x] = deaths[x] /\ faults' = faults
        /\ Ready(x)' = Ready(x)
        BY <1>11 DEF vars, Mailing, Leaving, Ready
  <2> QED  BY <2>1, <1>q, <1>t
<1>12. Goal
       BY <1>1, <1>2, <1>3, <1>4, <1>5, <1>6, <1>7, <1>8, <1>9, <1>10, <1>11
       DEF Next, Consume, Handle, Handles, Process
<1> QED  BY <1>12 DEF Goal

(* For any finite number of workers, a user is mailed for one event at     *)
(* most once, and once more per retry and per fault.                       *)
THEOREM MailsBounded == ASSUME IsFiniteSet(Workers) PROVE Spec => []MailBudget
<1>1. IInv /\ MailInv /\ [Next]_vars => MailInv'
      BY IInvNext, MailNext DEF IInv
<1>2. IInv /\ MailInv => MailBudget
  <2> SUFFICES ASSUME TypeOK, MailInv, NEW x \in Events
               PROVE  mails[x] <= 1 + deaths[x] + faults
      BY DEF IInv, MailBudget
  <2>1. Mailing(x) \in SUBSET Workers /\ Leaving \in SUBSET Workers
        BY DEF Mailing, Leaving
  <2>2. Cardinality(Mailing(x)) \in Nat /\ Cardinality(Leaving) \in Nat
        BY <2>1, CountLemma
  <2>3. /\ mails[x] + Cardinality(Mailing(x)) + Cardinality(Leaving) + Ready(x)
              <= 1 + deaths[x] + faults
        /\ mails[x] \in Nat /\ deaths[x] \in Nat /\ faults \in Nat
        BY DEF MailInv, TypeOK
  <2>4. Ready(x) \in Nat
        BY DEF Ready
  <2> QED  BY <2>2, <2>3, <2>4
<1>3. Init => MailInv
      BY MailInit
<1> QED  BY <1>1, <1>2, <1>3, Invariance, PTL DEF Spec

-----------------------------------------------------------------------------
(* Copies in the DLQ *)

LEMMA DLQInit == IsFiniteSet(Workers) /\ Init => DLQInv
<1> SUFFICES ASSUME Init PROVE DLQInv
    OBVIOUS
<1>1. ASSUME NEW x \in Events PROVE Parking(x) = {} /\ Leaving = {}
      BY DEF Init, Parking, Leaving, BeforePark
<1>2. Cardinality({}) = 0
      BY FS_EmptySet
<1>3. \A x \in Events : dlq[x] = 0 /\ faults = 0 /\ Pending(x) = 1
      BY DEF Init, Pending
<1> QED  BY <1>1, <1>2, <1>3 DEF DLQInv

LEMMA DLQNext ==
    ASSUME IsFiniteSet(Workers), TypeOK, TypeOK', Vacant, Custody, DLQInv,
           [Next]_vars
    PROVE  DLQInv'
<1> SUFFICES ASSUME NEW x \in Events
             PROVE  dlq'[x] + Cardinality(Parking(x)') + Cardinality(Leaving')
                       + Pending(x)' <= 1 + faults'
    BY DEF DLQInv
<1> DEFINE Goal == dlq'[x] + Cardinality(Parking(x)') + Cardinality(Leaving')
                      + Pending(x)' <= 1 + faults'
<1>t. /\ dlq[x] \in Nat /\ dlq'[x] \in Nat
      /\ faults \in Nat /\ faults' \in Nat
      /\ 0 \in Int /\ 1 \in Int /\ -1 \in Int
      BY DEF TypeOK
<1>r. Pending(x) \in {0, 1} /\ Pending(x)' \in {0, 1}
      BY DEF Pending
(* A step that changes no amount, or pays for the one it adds.             *)
<1>q. ASSUME Parking(x)' \subseteq Parking(x), Leaving' \subseteq Leaving,
             dlq'[x] = dlq[x],
             \/ (Pending(x)' = 1 => Pending(x) = 1) /\ faults' = faults
             \/ faults' = faults + 1
      PROVE  Goal
  <2>1. CASE (Pending(x)' = 1 => Pending(x) = 1) /\ faults' = faults
    <3>1. /\ dlq'[x] = dlq[x] + 0 /\ Pending(x)' <= Pending(x) + 0
          /\ faults + 0 + 0 + 0 + 0 <= faults'
          BY <1>t, <1>r, <1>q, <2>1
    <3> QED  BY <1>t, <1>q, <3>1, CountParking, CountLeaving, DLQArith
  <2>2. CASE faults' = faults + 1
    <3>1. /\ dlq'[x] = dlq[x] + 0 /\ Pending(x)' <= Pending(x) + 1
          /\ faults + 0 + 0 + 0 + 1 <= faults'
          BY <1>t, <1>r, <1>q, <2>2
    <3> QED  BY <1>t, <1>q, <3>1, CountParking, CountLeaving, DLQArith
  <2> QED  BY <1>q, <2>1, <2>2
(* A worker gains or gives up its delivery, and the broker the other way.  *)
<1>g. ASSUME NEW w \in Workers, Parking(x)' \subseteq Parking(x) \cup {w},
             Leaving' \subseteq Leaving, dlq'[x] = dlq[x], faults' = faults,
             Pending(x) = 1, Pending(x)' = 0
      PROVE  Goal
  <2>1. Cardinality(Parking(x)') <= Cardinality(Parking(x)) + 1
        BY <1>g, CountParking
  <2>2. Cardinality(Leaving') <= Cardinality(Leaving) + 0
        BY <1>g, CountLeaving
  <2>3. /\ dlq'[x] = dlq[x] + 0 /\ Pending(x)' <= Pending(x) + (-1)
        /\ faults + 0 + 1 + 0 + (-1) <= faults'
        BY <1>t, <1>g
  <2> QED  BY <1>t, <2>1, <2>2, <2>3, DLQArith
<1>l. ASSUME NEW w \in Parking(x), Parking(x)' \subseteq Parking(x) \ {w},
             Leaving' \subseteq Leaving, faults' = faults,
             \/ dlq'[x] = dlq[x]
             \/ dlq'[x] = dlq[x] + 1 /\ Pending(x)' = Pending(x)
      PROVE  Goal
  <2>1. Cardinality(Parking(x)') <= Cardinality(Parking(x)) + (-1)
        BY <1>l, CountParking
  <2>2. Cardinality(Leaving') <= Cardinality(Leaving) + 0
        BY <1>l, CountLeaving
  <2>3. CASE dlq'[x] = dlq[x]
    <3>1. /\ dlq'[x] = dlq[x] + 0 /\ Pending(x)' <= Pending(x) + 1
          /\ faults + 0 + (-1) + 0 + 1 <= faults'
          BY <1>t, <1>r, <1>l, <2>3
    <3> QED  BY <1>t, <2>1, <2>2, <3>1, DLQArith
  <2>4. CASE dlq'[x] = dlq[x] + 1 /\ Pending(x)' = Pending(x)
    <3>1. /\ Pending(x)' <= Pending(x) + 0
          /\ faults + 1 + (-1) + 0 + 0 <= faults'
          BY <1>t, <1>r, <1>l, <2>4
    <3> QED  BY <1>t, <2>1, <2>2, <2>4, <3>1, DLQArith
  <2> QED  BY <1>l, <2>3, <2>4
<1> HIDE DEF Goal
<1>1. ASSUME NEW e \in Events, Publish(e) \/ Expire(e) PROVE Goal
  <2>1. /\ Parking(x)' \subseteq Parking(x) /\ Leaving' \subseteq Leaving
        /\ dlq'[x] = dlq[x] /\ faults' = faults
        BY <1>1 DEF Publish, Expire, store, worker, Parking, Leaving
  <2>2. Pending(x)' = 1 => Pending(x) = 1
        BY <1>1 DEF Publish, Expire, Pending, TypeOK
  <2> QED  BY <2>1, <2>2, <1>q
<1>2. ASSUME NEW w \in Workers, NEW e \in Events, Deliver(w, e) PROVE Goal
  <2>s. "buffered" \in Stages
        BY DEF Stages
  <2>1. /\ Leaving' \subseteq Leaving
        /\ dlq'[x] = dlq[x] /\ faults' = faults /\ open' = open
        BY <1>2 DEF Deliver, store, worker, Leaving
  <2>2. \A v \in Workers : stage'[v][x] = IF v = w /\ x = e THEN "buffered"
                                             ELSE stage[v][x]
        BY <1>2, <2>s, GotoLemma DEF Deliver, TypeOK
  <2>3. CASE x = e
    <3>1. Pending(x) = 1 /\ Pending(x)' = 0
          BY <1>2, <2>3 DEF Deliver, Pending, TypeOK
    <3>2. Parking(x)' \subseteq Parking(x) \cup {w}
          BY <2>1, <2>2 DEF Parking
    <3> QED  BY <2>1, <3>1, <3>2, <1>g
  <2>4. CASE x # e
    <3>1. Pending(x)' = 1 => Pending(x) = 1
          BY <1>2, <2>4 DEF Deliver, Pending, TypeOK
    <3>2. Parking(x)' \subseteq Parking(x)
          BY <2>1, <2>2, <2>4 DEF Parking
    <3> QED  BY <2>1, <3>1, <3>2, <1>q
  <2> QED  BY <2>3, <2>4
<1>3. ASSUME NEW w \in Workers, NEW e \in Events,
             Handles(w, e) \/ Transmit(w, e), ~Retry(w, e)
      PROVE  Goal
  <2>1. /\ UNCHANGED <<deaths, proc, open, cancelled>>
        /\ \A v \in Workers : ~(v = w /\ x = e) => stage'[v][x] = stage[v][x]
        /\ x # e => place'[x] = place[x]
        BY <1>3, DeliveryStep
  <2>2. /\ dlq' = dlq /\ faults' = faults
        /\ place'[e] = place[e] \/ place'[e] = "done"
        BY <1>3 DEF Handles, DropUndecodable, Take, ExistsByEventID, Dial, Transmit,
           CreateSent, RecordFailure, Ack, Settle, broker, store, TypeOK
  <2>3. stage'[w][e] \in BeforePark => stage[w][e] \in BeforePark
        BY <1>3 DEF Handles, DropUndecodable, Take, ExistsByEventID, Dial, Transmit,
           CreateSent, RecordFailure, Ack, Settle, Goto, BeforePark, TypeOK
  <2>4. Parking(x)' \subseteq Parking(x) /\ Leaving' \subseteq Leaving
        BY <2>1, <2>3 DEF Parking, Leaving
  <2>5. Pending(x)' = 1 => Pending(x) = 1
        BY <2>1, <2>2 DEF Pending
  <2> QED  BY <2>2, <2>4, <2>5, <1>q
<1>4. ASSUME NEW w \in Workers, NEW e \in Events,
             Retry(w, e) \/ Park(w, e) \/ ParkFailed(w, e)
      PROVE  Goal
  <2>1. /\ UNCHANGED <<deaths, proc, open, cancelled>>
        /\ \A v \in Workers : ~(v = w /\ x = e) => stage'[v][x] = stage[v][x]
        /\ x # e => place'[x] = place[x] /\ dlq'[x] = dlq[x]
        BY <1>4, DeliveryStep DEF Handles
  <2>2. /\ stage[w][e] \in {"failed", "park"} /\ stage'[w][e] \in {"parked", "none"}
        /\ faults' = faults \/ faults' = faults + 1
        /\ ~open[w] => UNCHANGED <<place, dlq>>
        /\ faults' # faults => dlq' = dlq
        /\ dlq'[e] = dlq[e] \/ (dlq'[e] = dlq[e] + 1 /\ place' = place)
    <3>1. CASE Retry(w, e)
          BY <3>1 DEF Retry, Settle, Goto, TypeOK
    <3>2. CASE Park(w, e)
          BY <3>2 DEF Park, Goto, TypeOK
    <3>3. CASE ParkFailed(w, e)
          BY <3>3 DEF ParkFailed, Settle, Goto, Fault, TypeOK
    <3> QED  BY <1>4, <3>1, <3>2, <3>3
  <2>3. Parking(x)' \subseteq Parking(x) /\ Leaving' \subseteq Leaving
        BY <2>1, <2>2 DEF Parking, Leaving, BeforePark
  <2>4. CASE faults' = faults /\ x = e /\ open[w]
    <3>1. w \in Parking(x) /\ Parking(x)' \subseteq Parking(x) \ {w}
          BY <2>1, <2>2, <2>4 DEF Parking, BeforePark
    <3>2. \/ dlq'[x] = dlq[x]
          \/ dlq'[x] = dlq[x] + 1 /\ Pending(x)' = Pending(x)
          BY <2>2, <2>4 DEF Pending
    <3> QED  BY <2>3, <2>4, <3>1, <3>2, <1>l
  <2>5. CASE faults' = faults /\ ~(x = e /\ open[w])
    <3>1. dlq'[x] = dlq[x] /\ Pending(x)' = Pending(x)
          BY <2>1, <2>2, <2>5 DEF Pending
    <3> QED  BY <2>3, <2>5, <3>1, <1>q
  <2>6. CASE faults' # faults
    <3>1. dlq'[x] = dlq[x] /\ faults' = faults + 1
          BY <2>2, <2>6
    <3> QED  BY <2>3, <3>1, <1>q
  <2> QED  BY <2>4, <2>5, <2>6
<1>5. ASSUME NEW w \in Workers, Start(w) \/ Return(w) PROVE Goal
  <2>1. /\ Leaving' \subseteq Leaving /\ dlq'[x] = dlq[x] /\ faults' = faults
        /\ Pending(x)' = Pending(x) /\ stage' = stage
        BY <1>5 DEF Start, Return, broker, store, Leaving, Pending
  <2>2. \A v \in Workers : open'[v] /\ ~open[v] => stage[v][x] = "none"
        BY <1>5 DEF Start, Return, Vacant, Held, TypeOK
  <2>3. Parking(x)' \subseteq Parking(x)
        BY <2>1, <2>2 DEF Parking, BeforePark
  <2> QED  BY <2>1, <2>3, <1>q
<1>6. ASSUME NEW w \in Workers, Crash(w) \/ ChannelClose(w) PROVE Goal
  <2>1. /\ dlq'[x] = dlq[x]
        /\ \A v \in Workers : stage'[v][x] = stage[v][x] \/ stage'[v][x] = "none"
        /\ \A v \in Workers : cancelled'[v] => cancelled[v]
        /\ \A v \in Workers : open'[v] => open[v]
        BY <1>6, LossStep
  <2>2. faults' = faults + 1
        BY <1>6 DEF Crash, ChannelClose, Fault
  <2>3. Leaving' \subseteq Leaving /\ Parking(x)' \subseteq Parking(x)
        BY <2>1 DEF Leaving, Parking, BeforePark
  <2> QED  BY <2>1, <2>2, <2>3, <1>q
<1>7. ASSUME NEW w \in Workers, Exit(w) PROVE Goal
  <2>1. /\ dlq'[x] = dlq[x]
        /\ \A v \in Workers : stage'[v][x] = stage[v][x] \/ stage'[v][x] = "none"
        /\ \A v \in Workers : cancelled'[v] => cancelled[v]
        /\ \A v \in Workers : open'[v] => open[v]
        BY <1>7, LossStep
  <2>2. faults' = faults /\ cancelled[w] /\ ~cancelled'[w]
        BY <1>7 DEF Exit, Die, TypeOK
  <2>3. /\ w \in Leaving /\ Leaving' \subseteq Leaving \ {w}
        /\ Parking(x)' \subseteq Parking(x)
        BY <2>1, <2>2 DEF Leaving, Parking, BeforePark
  <2>4. Cardinality(Parking(x)') <= Cardinality(Parking(x)) + 0
        BY <2>3, CountParking
  <2>5. Cardinality(Leaving') <= Cardinality(Leaving) + (-1)
        BY <2>3, CountLeaving
  <2>6. /\ dlq'[x] = dlq[x] + 0 /\ Pending(x)' <= Pending(x) + 1
        /\ faults + 0 + 0 + (-1) + 1 <= faults'
        BY <1>t, <1>r, <2>1, <2>2
  <2> QED  BY <1>t, <2>4, <2>5, <2>6, DLQArith DEF Goal
<1>8. ASSUME NEW w \in Workers, Cancel(w) PROVE Goal
  <2>1. /\ dlq'[x] = dlq[x] /\ faults' = faults + 1
        /\ Leaving' \subseteq Leaving \cup {w}
        /\ Parking(x)' \subseteq Parking(x) /\ Pending(x)' = Pending(x)
        BY <1>8 DEF Cancel, Fault, broker, store, Leaving, Parking, Pending, TypeOK
  <2>2. Cardinality(Parking(x)') <= Cardinality(Parking(x)) + 0
        BY <2>1, CountParking
  <2>3. Cardinality(Leaving') <= Cardinality(Leaving) + 1
        BY <2>1, CountLeaving
  <2>4. /\ dlq'[x] = dlq[x] + 0 /\ Pending(x)' <= Pending(x) + 0
        /\ faults + 0 + 0 + 1 + 0 <= faults'
        BY <1>t, <1>r, <2>1
  <2> QED  BY <1>t, <2>2, <2>3, <2>4, DLQArith DEF Goal
<1>9. ASSUME UNCHANGED vars PROVE Goal
  <2>1. /\ Parking(x)' \subseteq Parking(x) /\ Leaving' \subseteq Leaving
        /\ dlq'[x] = dlq[x] /\ faults' = faults /\ Pending(x)' = Pending(x)
        BY <1>9 DEF vars, Parking, Leaving, Pending
  <2> QED  BY <2>1, <1>q
<1>10. Goal
       BY <1>1, <1>2, <1>3, <1>4, <1>5, <1>6, <1>7, <1>8, <1>9
       DEF Next, Consume, Handle, Handles, Process
<1> QED  BY <1>10 DEF Goal

(* For any finite number of workers, an event is in the DLQ at most once,  *)
(* and once more per fault.                                                *)
THEOREM DLQCopiesBounded == ASSUME IsFiniteSet(Workers) PROVE Spec => []DLQBudget
<1>1. IInv /\ DLQInv /\ [Next]_vars => DLQInv'
      BY IInvNext, DLQNext DEF IInv
<1>2. IInv /\ DLQInv => DLQBudget
  <2> SUFFICES ASSUME TypeOK, DLQInv, NEW x \in Events
               PROVE  dlq[x] <= 1 + faults
      BY DEF IInv, DLQBudget
  <2>1. Parking(x) \in SUBSET Workers /\ Leaving \in SUBSET Workers
        BY DEF Parking, Leaving
  <2>2. Cardinality(Parking(x)) \in Nat /\ Cardinality(Leaving) \in Nat
        BY <2>1, CountLemma
  <2>3. /\ dlq[x] + Cardinality(Parking(x)) + Cardinality(Leaving) + Pending(x)
              <= 1 + faults
        /\ dlq[x] \in Nat /\ faults \in Nat
        BY DEF DLQInv, TypeOK
  <2>4. Pending(x) \in Nat
        BY DEF Pending
  <2> QED  BY <2>2, <2>3, <2>4
<1>3. Init => DLQInv
      BY DLQInit
<1> QED  BY <1>1, <1>2, <1>3, Invariance, PTL DEF Spec
=============================================================================
