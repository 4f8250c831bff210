------------------------- MODULE UserAccountsProofs -------------------------
(***************************************************************************)
(* Proofs about UserAccounts, for any number of ids, addresses and         *)
(* overlapping requests.                                                   *)
(***************************************************************************)
EXTENDS UserAccounts, TLAPS

(* What the slots hold: an insert has no target before its row is          *)
(* committed, its row is its own, and it is not announced before Publish.  *)
SlotInv ==
    /\ \A r \in Requests :
          /\ pc[r] \in {"exists", "insert"} =>
                op[r] \in Inserts /\ target[r] = NoId
          /\ pc[r] = "publish" =>
                op[r] \in Inserts /\ events[target[r]] = 0
          /\ pc[r] \in {"read", "check", "update", "delete"} =>
                op[r] \notin Inserts /\ target[r] \in born
          /\ pc[r] \in Busy => answer[r] \in {"none", "timeout", "gone"}
          /\ op[r] \in Inserts => target[r] \in born \cup {NoId}
    /\ \A r, s \in Requests :
          /\ op[r] \in Inserts /\ op[s] \in Inserts
          /\ target[r] = target[s] /\ target[r] # NoId
          => r = s

IInv ==
    /\ TypeOK
    /\ SlotInv
    /\ UniqueEmails
    /\ AnnouncedOnce
    /\ AnswersAreTrue

-----------------------------------------------------------------------------
(* The helpers *)

(* A reply frees the slot and tells the client only if it still waits.     *)
LEMMA ReplyLemma ==
    ASSUME TypeOK, NEW r \in Requests, NEW a \in Answers, Reply(r, a)
    PROVE  /\ pc' \in [Requests -> Busy \cup {"idle"}]
           /\ answer' \in [Requests -> Answers]
           /\ \A q \in Requests \ {r} : UNCHANGED <<pc[q], answer[q]>>
           /\ pc'[r] = "idle"
           /\ answer'[r] = IF answer[r] = "none" THEN a ELSE answer[r]
BY DEF TypeOK, Reply, Goto, Busy

LEMMA GotoLemma ==
    ASSUME TypeOK, NEW r \in Requests, NEW s \in Busy, Goto(r, s)
    PROVE  /\ pc' \in [Requests -> Busy \cup {"idle"}]
           /\ \A q \in Requests \ {r} : UNCHANGED pc[q]
           /\ pc'[r] = s
BY DEF TypeOK, Goto, Busy

(* Asking touches the one slot and no row.                                 *)
LEMMA AskLemma ==
    ASSUME TypeOK, NEW r \in Requests, NEW o \in Ops, NEW m \in Emails,
           NEW id \in Ids \cup {NoId}, NEW s \in Busy, Ask(r, o, m, id, s)
    PROVE  /\ pc[r] = "idle" /\ UNCHANGED <<email, born, events>>
           /\ op' \in [Requests -> Ops] /\ arg' \in [Requests -> Emails]
           /\ target' \in [Requests -> Ids \cup {NoId}]
           /\ answer' \in [Requests -> Answers]
           /\ pc' \in [Requests -> Busy \cup {"idle"}]
           /\ \A q \in Requests \ {r} :
                 UNCHANGED <<pc[q], answer[q], op[q], arg[q], target[q]>>
           /\ pc'[r] = s /\ answer'[r] = "none" /\ op'[r] = o
           /\ target'[r] = id
<1>1. pc' \in [Requests -> Busy \cup {"idle"}] /\ pc'[r] = s
      /\ \A q \in Requests \ {r} : UNCHANGED pc[q]
      BY GotoLemma DEF Ask
<1> QED  BY <1>1 DEF TypeOK, Ask, table, Answers

(* A new row gets an id that nobody knows yet.                             *)
LEMMA NewRowLemma ==
    ASSUME TypeOK, NEW r \in Requests, NewRow(r)
    PROVE  \E i \in Ids \ born :
              /\ email[i] = NoEmail /\ email'[i] = arg[r]
              /\ \A j \in Ids \ {i} : email'[j] = email[j]
              /\ email' \in [Ids -> Emails \cup {NoEmail}]
              /\ born' = born \cup {i}
              /\ target'[r] = i
              /\ \A q \in Requests \ {r} : target'[q] = target[q]
              /\ target' \in [Requests -> Ids \cup {NoId}]
<1>1. PICK i \in Ids \ born : /\ email' = [email EXCEPT ![i] = arg[r]]
                              /\ born' = born \cup {i}
                              /\ target' = [target EXCEPT ![r] = i]
      BY DEF NewRow
<1> QED  BY <1>1 DEF TypeOK

-----------------------------------------------------------------------------
LEMMA InitInv == Init => IInv
BY AccountsAssumption
DEF Init, IInv, TypeOK, SlotInv, UniqueEmails, AnnouncedOnce,
    AnswersAreTrue, Ops, Busy, Answers, Inserts

(* A step that leaves every row alone, and in which one slot only replies. *)
LEMMA JustReplies ==
    ASSUME IInv, NEW r \in Requests, NEW a \in Answers, Reply(r, a),
           pc[r] \in Busy, UNCHANGED <<table, events, ask, target>>,
           op[r] \in Inserts /\ a = "conflict" => target[r] = NoId,
           op[r] \in Inserts /\ a = "done" => target[r] # NoId
    PROVE  IInv'
<1> USE AccountsAssumption DEF IInv, TypeOK
<1>1. TypeOK'
      BY ReplyLemma DEF table, ask
<1>2. SlotInv'
      BY ReplyLemma DEF SlotInv, table, ask, Busy
<1>3. UniqueEmails' /\ AnnouncedOnce'
      BY DEF UniqueEmails, AnnouncedOnce, table
<1>4. AnswersAreTrue'
      BY ReplyLemma DEF AnswersAreTrue, SlotInv, table, ask
<1> QED  BY <1>1, <1>2, <1>3, <1>4

(* A step in which one slot only moves on among its reads.                 *)
LEMMA JustMoves ==
    ASSUME IInv, NEW r \in Requests, NEW s \in Busy, Goto(r, s),
           UNCHANGED <<table, events, ask, target, answer>>,
           \/ pc[r] = "exists" /\ s = "insert"
           \/ pc[r] \in {"read", "check"} /\ s \in {"check", "update"}
    PROVE  IInv'
<1> USE AccountsAssumption DEF IInv, TypeOK
<1>1. TypeOK'
      BY GotoLemma DEF table, ask
<1>2. SlotInv'
      BY GotoLemma DEF SlotInv, table, ask, Busy
<1>3. UniqueEmails' /\ AnnouncedOnce'
      BY DEF UniqueEmails, AnnouncedOnce, table
<1>4. AnswersAreTrue'
      BY GotoLemma DEF AnswersAreTrue, table, ask, Busy
<1> QED  BY <1>1, <1>2, <1>3, <1>4

(* A step in which a client asks for something.                            *)
LEMMA JustAsks ==
    ASSUME IInv, NEW r \in Requests, NEW o \in Ops, NEW m \in Emails,
           NEW id \in Ids \cup {NoId}, NEW s \in Busy, Ask(r, o, m, id, s),
           \/ o \in Inserts /\ s = "exists" /\ id = NoId
           \/ o \notin Inserts /\ s \in {"read", "delete"} /\ id \in born
    PROVE  IInv'
<1>a. /\ pc[r] = "idle" /\ UNCHANGED <<email, born, events>>
      /\ op' \in [Requests -> Ops] /\ arg' \in [Requests -> Emails]
      /\ target' \in [Requests -> Ids \cup {NoId}]
      /\ answer' \in [Requests -> Answers]
      /\ pc' \in [Requests -> Busy \cup {"idle"}]
      /\ \A q \in Requests \ {r} :
            UNCHANGED <<pc[q], answer[q], op[q], arg[q], target[q]>>
      /\ pc'[r] = s /\ answer'[r] = "none" /\ op'[r] = o /\ target'[r] = id
      BY AskLemma DEF IInv
<1> USE AccountsAssumption DEF IInv, TypeOK
<1>1. TypeOK'
      BY <1>a
<1>2. SlotInv'
      BY <1>a DEF SlotInv, Busy
<1>3. UniqueEmails' /\ AnnouncedOnce'
      BY <1>a DEF UniqueEmails, AnnouncedOnce
<1>4. AnswersAreTrue'
      BY <1>a DEF AnswersAreTrue, SlotInv, Busy
<1> QED  BY <1>1, <1>2, <1>3, <1>4

(* A step that changes one row of a slot that makes none, and replies.     *)
LEMMA RowReplies ==
    ASSUME IInv, NEW r \in Requests, NEW a \in Answers, Reply(r, a),
           pc[r] \in {"update", "delete"},
           NEW m \in Emails \cup {NoEmail},
           m = NoEmail \/ Holders(m) \subseteq {target[r]},
           email' = [email EXCEPT ![target[r]] = m],
           UNCHANGED <<born, events, ask, target>>
    PROVE  IInv'
<1> USE AccountsAssumption DEF IInv, TypeOK
<1>t. op[r] \notin Inserts /\ target[r] \in born /\ target[r] \in Ids
      BY DEF SlotInv
<1>1. TypeOK'
      BY <1>t, ReplyLemma DEF ask
<1>2. SlotInv'
      BY ReplyLemma DEF SlotInv, ask, Busy
<1>3. UniqueEmails' /\ AnnouncedOnce'
      BY <1>t DEF UniqueEmails, AnnouncedOnce, Holders
<1>4. AnswersAreTrue'
      BY <1>t, ReplyLemma DEF AnswersAreTrue, SlotInv, ask
<1> QED  BY <1>1, <1>2, <1>3, <1>4

-----------------------------------------------------------------------------
(* The insert: its row is new, and its address nobody else's. *)

LEMMA InsertCommits ==
    ASSUME IInv, NEW r \in Requests, pc[r] = "insert",
           Holders(arg[r]) = {}, NewRow(r), UNCHANGED <<events, ask>>,
           \/ Goto(r, "publish") /\ UNCHANGED answer
           \/ Reply(r, "error")
    PROVE  IInv'
<1> USE AccountsAssumption DEF IInv, TypeOK
<1> PICK i \in Ids \ born :
              /\ email[i] = NoEmail /\ email'[i] = arg[r]
              /\ \A j \in Ids \ {i} : email'[j] = email[j]
              /\ email' \in [Ids -> Emails \cup {NoEmail}]
              /\ born' = born \cup {i}
              /\ target'[r] = i
              /\ \A q \in Requests \ {r} : target'[q] = target[q]
              /\ target' \in [Requests -> Ids \cup {NoId}]
    BY NewRowLemma
<1>o. op[r] \in Inserts /\ target[r] = NoId
      /\ answer[r] \in {"none", "timeout", "gone"}
      BY DEF SlotInv, Busy
<1>e. events[i] = 0
      BY DEF AnnouncedOnce
<1>p. /\ pc' \in [Requests -> Busy \cup {"idle"}]
      /\ answer' \in [Requests -> Answers]
      /\ \A q \in Requests \ {r} : UNCHANGED <<pc[q], answer[q]>>
      /\ \/ pc'[r] = "publish" /\ answer'[r] = answer[r]
         \/ pc'[r] = "idle" /\ answer'[r] \in {"error", "timeout", "gone"}
  <2>1. CASE Goto(r, "publish") /\ UNCHANGED answer
        BY <2>1, GotoLemma DEF Busy
  <2>2. CASE Reply(r, "error")
        BY <2>2, <1>o, ReplyLemma DEF Answers
  <2> QED  BY <2>1, <2>2
<1>1. TypeOK'
      BY <1>p DEF ask
<1>2. SlotInv'
      BY <1>o, <1>e, <1>p DEF SlotInv, ask, Busy
<1>3. UniqueEmails'
      BY DEF UniqueEmails, Holders
<1>4. AnnouncedOnce'
      BY <1>e DEF AnnouncedOnce
<1>5. AnswersAreTrue'
      BY <1>o, <1>p, <1>2 DEF AnswersAreTrue, SlotInv, ask, Busy
<1> QED  BY <1>1, <1>2, <1>3, <1>4, <1>5

(* The publish: the first and last one for this user.                      *)
LEMMA PublishInv ==
    ASSUME IInv, NEW r \in Requests, Publish(r)
    PROVE  IInv'
<1> USE AccountsAssumption DEF IInv, TypeOK
<1>o. /\ pc[r] = "publish" /\ op[r] \in Inserts /\ target[r] \in born
      /\ target[r] \in Ids /\ events[target[r]] = 0 /\ Reply(r, "done")
      BY DEF Publish, SlotInv
<1>p. /\ pc' \in [Requests -> Busy \cup {"idle"}]
      /\ answer' \in [Requests -> Answers]
      /\ \A q \in Requests \ {r} : UNCHANGED <<pc[q], answer[q]>>
      /\ pc'[r] = "idle" /\ answer'[r] \in {"done", "timeout", "gone"}
      BY <1>o, ReplyLemma DEF Answers, SlotInv, Busy
<1>e. /\ events' \in [Ids -> Nat]
      /\ \A i \in Ids \ {target[r]} : events'[i] = events[i]
      /\ events'[target[r]] \in {0, 1}
      BY <1>o DEF Publish
<1>1. TypeOK'
      BY <1>p, <1>e DEF Publish, table, ask
<1>2. SlotInv'
      BY <1>o, <1>p, <1>e DEF Publish, SlotInv, table, ask, Busy
<1>3. UniqueEmails'
      BY DEF UniqueEmails, Publish, table
<1>4. AnnouncedOnce'
      BY <1>o, <1>e DEF AnnouncedOnce, Publish, table
<1>5. AnswersAreTrue'
      BY <1>o, <1>p DEF AnswersAreTrue, SlotInv, Publish, table, ask
<1> QED  BY <1>1, <1>2, <1>3, <1>4, <1>5

-----------------------------------------------------------------------------
LEMMA NextInv == IInv /\ [Next]_vars => IInv'
<1> SUFFICES ASSUME IInv, [Next]_vars PROVE IInv'
    OBVIOUS
<1> USE AccountsAssumption
<1>1. ASSUME NEW r \in Requests, NEW m \in Emails, Create(r, m) \/ Register(r, m)
      PROVE  IInv'
      BY <1>1, JustAsks DEF Create, Register, Ops, Inserts, Busy
<1>2. ASSUME NEW r \in Requests, NEW i \in Ids, NEW m \in Emails,
             UpdateUser(r, i, m)
      PROVE  IInv'
      BY <1>2, JustAsks DEF UpdateUser, Ops, Inserts, Busy
<1>3. ASSUME NEW r \in Requests, NEW i \in Ids, DeleteUser(r, i) PROVE IInv'
  <2>1. arg[r] \in Emails
        BY DEF IInv, TypeOK
  <2> QED  BY <1>3, <2>1, JustAsks DEF DeleteUser, Ops, Inserts, Busy
<1>4. ASSUME NEW r \in Requests, ExistsByEmail(r) PROVE IInv'
  <2>1. /\ pc[r] \in Busy /\ UNCHANGED <<table, events, ask, target>>
        /\ op[r] \in Inserts => target[r] = NoId
        BY <1>4 DEF ExistsByEmail, Busy, IInv, SlotInv
  <2>2. CASE Reply(r, "conflict") \/ Reply(r, "error")
        BY <2>1, <2>2, JustReplies DEF Answers
  <2>3. CASE /\ Goto(r, IF pc[r] = "exists" THEN "insert" ELSE "update")
             /\ UNCHANGED answer
        BY <1>4, <2>1, <2>3, JustMoves DEF ExistsByEmail, Busy
  <2> QED  BY <1>4, <2>2, <2>3 DEF ExistsByEmail
<1>5. ASSUME NEW r \in Requests, Insert(r) PROVE IInv'
  <2>1. pc[r] = "insert" /\ pc[r] \in Busy /\ UNCHANGED <<events, ask>>
        /\ target[r] = NoId
        BY <1>5 DEF Insert, Busy, IInv, SlotInv
  <2>2. CASE /\ Holders(arg[r]) = {} /\ NewRow(r)
             /\ \/ Goto(r, "publish") /\ UNCHANGED answer
                \/ Reply(r, "error")
        BY <2>1, <2>2, InsertCommits
  <2>3. CASE /\ Reply(r, "conflict") \/ Reply(r, "error")
             /\ UNCHANGED <<table, target>>
        BY <2>1, <2>3, JustReplies DEF Answers
  <2> QED  BY <1>5, <2>2, <2>3 DEF Insert
<1>6. ASSUME NEW r \in Requests, Publish(r) PROVE IInv'
      BY <1>6, PublishInv
<1>7. ASSUME NEW r \in Requests, GetByID(r) PROVE IInv'
  <2>1. /\ pc[r] = "read" /\ pc[r] \in Busy
        /\ UNCHANGED <<table, events, ask, target>>
        BY <1>7 DEF GetByID, Busy
  <2>2. CASE Reply(r, "not_found") \/ Reply(r, "error")
        BY <2>1, <2>2, JustReplies DEF Answers
  <2>3. CASE /\ Goto(r, IF email[target[r]] = arg[r]
                        THEN "update" ELSE "check")
             /\ UNCHANGED answer
        BY <2>1, <2>3, JustMoves DEF Busy
  <2> QED  BY <1>7, <2>2, <2>3 DEF GetByID
<1>8. ASSUME NEW r \in Requests, Update(r) PROVE IInv'
  <2>1. /\ pc[r] = "update" /\ pc[r] \in Busy /\ op[r] \notin Inserts
        /\ UNCHANGED <<born, events, ask, target>> /\ arg[r] \in Emails
        BY <1>8 DEF Update, Busy, IInv, SlotInv, TypeOK
  <2>2. CASE /\ \/ Reply(r, "not_found") \/ Reply(r, "conflict")
                \/ Reply(r, "error")
             /\ UNCHANGED email
        BY <2>1, <2>2, JustReplies DEF Answers, table
  <2>3. CASE /\ Holders(arg[r]) \subseteq {target[r]}
             /\ email' = [email EXCEPT ![target[r]] = arg[r]]
             /\ Reply(r, "done") \/ Reply(r, "error")
        BY <2>1, <2>3, RowReplies DEF Answers
  <2> QED  BY <1>8, <2>2, <2>3 DEF Update
<1>9. ASSUME NEW r \in Requests, Delete(r) PROVE IInv'
  <2>1. /\ pc[r] = "delete" /\ pc[r] \in Busy /\ op[r] \notin Inserts
        /\ UNCHANGED <<born, events, ask, target>>
        BY <1>9 DEF Delete, Busy, IInv, SlotInv
  <2>2. CASE /\ Reply(r, "not_found") \/ Reply(r, "error")
             /\ UNCHANGED email
        BY <2>1, <2>2, JustReplies DEF Answers, table
  <2>3. CASE /\ email' = [email EXCEPT ![target[r]] = NoEmail]
             /\ Reply(r, "done") \/ Reply(r, "error")
        BY <2>1, <2>3, RowReplies DEF Answers
  <2> QED  BY <1>9, <2>2, <2>3 DEF Delete
<1>10. ASSUME NEW r \in Requests, Deadline(r) \/ GiveUp(r) PROVE IInv'
      BY <1>10 DEF Deadline, GiveUp, Waiting, IInv, TypeOK, SlotInv,
         UniqueEmails, AnnouncedOnce, AnswersAreTrue, table, ask, Answers, Busy
<1>11. CASE Crash
      BY <1>11 DEF Crash, Waiting, IInv, TypeOK, SlotInv,
         UniqueEmails, AnnouncedOnce, AnswersAreTrue, table, ask, Answers, Busy
<1>12. CASE UNCHANGED vars
      BY <1>12 DEF vars, IInv, TypeOK, SlotInv, UniqueEmails, AnnouncedOnce,
         AnswersAreTrue, table, ask
<1> QED
    BY <1>1, <1>2, <1>3, <1>4, <1>5, <1>6, <1>7, <1>8, <1>9, <1>10, <1>11,
       <1>12 DEF Next

-----------------------------------------------------------------------------
(* The theorems *)

LEMMA Invariance == Spec => []IInv
BY InitInv, NextInv, PTL DEF Spec

(* Every variable keeps its type; in particular, only a user whose row was *)
(* committed is ever published (create, service.go:30-39).                 *)
THEOREM TypeCorrect == Spec => []TypeOK
<1>1. IInv => TypeOK
      BY DEF IInv
<1> QED  BY <1>1, Invariance, PTL

(* However many inserts and updates pass their checks at the same time, no *)
(* two users come to share an address.                                     *)
THEOREM EmailsAreUnique == Spec => []UniqueEmails
<1>1. IInv => UniqueEmails
      BY DEF IInv
<1> QED  BY <1>1, Invariance, PTL

(* No user is announced twice, whichever confirmation is lost and whoever  *)
(* gives up waiting for it.                                                *)
THEOREM UsersAreAnnouncedOnce == Spec => []AnnouncedOnce
<1>1. IInv => AnnouncedOnce
      BY DEF IInv
<1> QED  BY <1>1, Invariance, PTL

(* A client that is told "conflict" has made no user, and one that is told *)
(* "created" has made one of its own.                                      *)
THEOREM InsertsAnswerTruly == Spec => []AnswersAreTrue
<1>1. IInv => AnswersAreTrue
      BY DEF IInv
<1> QED  BY <1>1, Invariance, PTL

(* Only a row that exists is updated or deleted, and only an id that never *)
(* was is inserted.                                                        *)
LEMMA RowsNext ==
    ASSUME IInv, [Next]_vars
    PROVE  \A i \in born : email[i] = NoEmail => email'[i] = NoEmail
<1>1. ASSUME NEW r \in Requests, Insert(r)
      PROVE  \A i \in born : email[i] = NoEmail => email'[i] = NoEmail
  <2>1. CASE NewRow(r)
        BY <2>1, NewRowLemma DEF IInv, TypeOK
  <2> QED  BY <1>1, <2>1 DEF Insert, table
<1>2. ASSUME NEW r \in Requests, Update(r)
      PROVE  \A i \in born : email[i] = NoEmail => email'[i] = NoEmail
      BY <1>2 DEF Update, IInv, TypeOK
<1>3. ASSUME NEW r \in Requests, Delete(r)
      PROVE  \A i \in born : email[i] = NoEmail => email'[i] = NoEmail
      BY <1>3 DEF Delete, IInv, TypeOK
<1>4. CASE UNCHANGED email
      BY <1>4
<1> QED
    BY <1>1, <1>2, <1>3, <1>4
    DEF Next, Create, Register, UpdateUser, DeleteUser, Ask, ExistsByEmail,
        Publish, GetByID, Deadline, GiveUp, Crash, table, vars

(* An update that has read a row before it was deleted does not bring it   *)
(* back (Update, service.go:68-90 and repository.go:66-78).                *)
THEOREM UsersStayDeleted == Spec => DeletedForGood
<1>1. IInv /\ [Next]_vars =>
         [\A i \in born : email[i] = NoEmail => email'[i] = NoEmail]_vars
      BY RowsNext
<1> QED  BY <1>1, Invariance, PTL DEF Spec, DeletedForGood

(* Who is told "conflict", and by which statement.                         *)
LEMMA ConflictLemma ==
    ASSUME IInv, Next, NEW q \in Requests, answer[q] = "none", answer'[q] = "conflict"
    PROVE  \/ pc[q] \in {"exists", "insert", "check"} /\ Holders(arg[q]) # {}
           \/ pc[q] = "update" /\ ~(Holders(arg[q]) \subseteq {target[q]})
<1> DEFINE Told == \/ pc[q] \in {"exists", "insert", "check"} /\ Holders(arg[q]) # {}
                   \/ pc[q] = "update" /\ ~(Holders(arg[q]) \subseteq {target[q]})
<1>t. TypeOK
      BY DEF IInv
<1>1. ASSUME NEW r \in Requests, NEW a \in Answers \ {"conflict"}, Reply(r, a)
      PROVE  FALSE
      BY <1>t, <1>1, ReplyLemma
<1>2. ASSUME NEW r \in Requests, Reply(r, "conflict") PROVE r = q
      BY <1>t, <1>2, ReplyLemma DEF Answers
<1>3. answer' # answer
      OBVIOUS
<1>4. {"done", "error", "not_found"} \subseteq Answers \ {"conflict"}
      BY DEF Answers
<1>5. ASSUME NEW r \in Requests, ExistsByEmail(r) PROVE Told
      BY <1>1, <1>2, <1>3, <1>4, <1>5 DEF ExistsByEmail
<1>6. ASSUME NEW r \in Requests, Insert(r) PROVE Told
      BY <1>1, <1>2, <1>3, <1>4, <1>6 DEF Insert
<1>7. ASSUME NEW r \in Requests, Publish(r) \/ GetByID(r) \/ Delete(r)
      PROVE  FALSE
      BY <1>1, <1>3, <1>4, <1>7 DEF Publish, GetByID, Delete
<1>8. ASSUME NEW r \in Requests, Update(r) PROVE Told
      BY <1>1, <1>2, <1>3, <1>4, <1>8 DEF Update
<1>9. ASSUME NEW r \in Requests, NEW o, NEW m, NEW i, NEW s, Ask(r, o, m, i, s)
      PROVE  FALSE
      BY <1>t, <1>9 DEF Ask, TypeOK
<1>10. ASSUME NEW r \in Requests, Deadline(r) \/ GiveUp(r) PROVE FALSE
      BY <1>t, <1>10 DEF Deadline, GiveUp, TypeOK
<1>11. CASE Crash
      BY <1>t, <1>11 DEF Crash, TypeOK
<1> QED
    BY <1>5, <1>6, <1>7, <1>8, <1>9, <1>10, <1>11
    DEF Next, Create, Register, UpdateUser, DeleteUser

(* An insert is refused only while somebody has the address, whether the   *)
(* check or the unique constraint refuses it (service.go:50-58).           *)
THEOREM RefusedOnlyForCause == Spec => RefusedForCause
<1>1. IInv /\ [Next]_vars =>
         [\A r \in Requests :
            op[r] \in Inserts /\ answer[r] = "none" /\ answer'[r] = "conflict"
               => Holders(arg[r]) # {}]_vars
  <2> SUFFICES ASSUME IInv, Next, NEW q \in Requests, op[q] \in Inserts,
                      answer[q] = "none", answer'[q] = "conflict"
               PROVE  Holders(arg[q]) # {}
      OBVIOUS
  <2>1. pc[q] # "update"
        BY DEF IInv, SlotInv
  <2> QED  BY <2>1, ConflictLemma
<1> QED  BY <1>1, Invariance, PTL DEF Spec, RefusedForCause

-----------------------------------------------------------------------------
(* Updates *)

(* At most one update of a user is between its first statement and its     *)
(* last.                                                                   *)
Updating   == {"read", "check", "update"}
OneUpdater == \A r, s \in Requests :
                 /\ pc[r] \in Updating /\ pc[s] \in Updating
                 /\ target[r] = target[s]
                 => r = s

(* The address an update is to check is not the user's own.                *)
CheckInv == \A r \in Requests : pc[r] = "check" => email[target[r]] # arg[r]

(* Whoever writes a row that has been read, it is not an insert.           *)
LEMMA RowsKept ==
    ASSUME IInv, [Next]_vars, NEW i \in born
    PROVE  \/ email'[i] = email[i] \/ email'[i] = NoEmail
           \/ \E s \in Requests : pc[s] = "update" /\ target[s] = i /\ pc'[s] = "idle"
<1>1. ASSUME NEW r \in Requests, Insert(r) PROVE email'[i] = email[i]
  <2>1. CASE NewRow(r)
        BY <2>1, NewRowLemma DEF IInv, TypeOK
  <2> QED  BY <1>1, <2>1 DEF Insert, table
<1>2. ASSUME NEW r \in Requests, Update(r)
      PROVE  email'[i] = email[i] \/ (pc[r] = "update" /\ target[r] = i /\ pc'[r] = "idle")
  <2>1. pc[r] = "update" /\ pc'[r] = "idle"
        BY <1>2 DEF Update, Reply, Goto, IInv, TypeOK
  <2>2. CASE target[r] # i
        BY <1>2, <2>2 DEF Update, IInv, TypeOK
  <2> QED  BY <2>1, <2>2
<1>3. ASSUME NEW r \in Requests, Delete(r)
      PROVE  email'[i] = email[i] \/ email'[i] = NoEmail
      BY <1>3 DEF Delete, IInv, TypeOK
<1>4. CASE UNCHANGED email
      BY <1>4
<1> QED
    BY <1>1, <1>2, <1>3, <1>4
    DEF Next, Create, Register, UpdateUser, DeleteUser, Ask, ExistsByEmail,
        Publish, GetByID, Deadline, GiveUp, Crash, table, vars

(* A request is about to check its address if it was, or has just read     *)
(* the row.                                                                *)
LEMMA ChecksKept ==
    ASSUME IInv, [Next]_vars, NEW q \in Requests, pc'[q] = "check"
    PROVE  /\ target'[q] = target[q] /\ arg'[q] = arg[q]
           /\ \/ pc[q] = "check"
              \/ pc[q] = "read" /\ email[target[q]] # arg[q] /\ UNCHANGED email
<1>t. TypeOK
      BY DEF IInv
<1>1. ASSUME NEW r \in Requests, NEW a \in Answers, Reply(r, a)
      PROVE  pc'[q] = pc[q] /\ r # q
      BY <1>t, <1>1, ReplyLemma
<1>2. ASSUME NEW r \in Requests, NEW s \in Busy \ {"check"}, Goto(r, s)
      PROVE  pc'[q] = pc[q] /\ r # q
      BY <1>t, <1>2, GotoLemma
<1>3. /\ {"done", "error", "not_found", "conflict"} \subseteq Answers
      /\ {"exists", "insert", "publish", "read", "update", "delete"} \subseteq Busy \ {"check"}
      BY DEF Answers, Busy
<1>4. ASSUME NEW r \in Requests, NEW o, NEW m, NEW i, NEW s \in Busy \ {"check"},
             Ask(r, o, m, i, s)
      PROVE  pc'[q] = pc[q] /\ target'[q] = target[q] /\ arg'[q] = arg[q]
  <2>1. pc'[q] = pc[q] /\ r # q
        BY <1>2, <1>4 DEF Ask
  <2> QED  BY <1>t, <1>4, <2>1 DEF Ask, TypeOK
<1>5. ASSUME NEW r \in Requests, ExistsByEmail(r)
      PROVE  pc'[q] = pc[q] /\ UNCHANGED <<ask, target>>
      BY <1>1, <1>2, <1>3, <1>5 DEF ExistsByEmail
<1>6. ASSUME NEW r \in Requests, Insert(r)
      PROVE  pc'[q] = pc[q] /\ target'[q] = target[q] /\ UNCHANGED ask
  <2>1. pc'[q] = pc[q] /\ r # q /\ UNCHANGED ask
        BY <1>1, <1>2, <1>3, <1>6 DEF Insert
  <2>2. CASE NewRow(r)
        BY <1>t, <2>1, <2>2, NewRowLemma
  <2> QED  BY <1>6, <2>1, <2>2 DEF Insert
<1>7. ASSUME NEW r \in Requests, Publish(r) \/ Update(r) \/ Delete(r)
      PROVE  pc'[q] = pc[q] /\ UNCHANGED <<ask, target>>
      BY <1>1, <1>3, <1>7 DEF Publish, Update, Delete
<1>8. ASSUME NEW r \in Requests, GetByID(r)
      PROVE  /\ UNCHANGED <<ask, target, email>>
             /\ \/ pc[q] = "check"
                \/ pc[q] = "read" /\ email[target[q]] # arg[q]
  <2>1. UNCHANGED <<ask, target, email>> /\ pc[r] = "read"
        BY <1>8 DEF GetByID, table
  <2>2. CASE pc'[q] = pc[q]
        BY <2>1, <2>2
  <2>3. CASE pc'[q] # pc[q]
    <3>1. /\ ~ \E a \in Answers : Reply(r, a)
          /\ Goto(r, IF email[target[r]] = arg[r] THEN "update" ELSE "check")
          BY <1>1, <1>3, <1>8, <2>3 DEF GetByID
    <3>2. email[target[r]] # arg[r] /\ Goto(r, "check")
          BY <1>2, <1>3, <2>3, <3>1
    <3>3. r = q
          BY <1>t, <2>3, <3>2 DEF Goto, TypeOK
    <3> QED  BY <2>1, <3>2, <3>3
  <2> QED  BY <2>2, <2>3
<1>9. ASSUME NEW r \in Requests, Deadline(r) \/ GiveUp(r)
      PROVE  UNCHANGED <<ask, target, pc>>
      BY <1>9 DEF Deadline, GiveUp
<1>10. CASE Crash
      BY <1>10 DEF Crash
<1>11. CASE UNCHANGED vars
      BY <1>11 DEF vars
<1> QED
    BY <1>3, <1>4, <1>5, <1>6, <1>7, <1>8, <1>9, <1>10, <1>11
    DEF Next, Create, Register, UpdateUser, DeleteUser, ask

LEMMA CheckNext == IInv /\ OneUpdater /\ CheckInv /\ [Next]_vars => CheckInv'
<1> SUFFICES ASSUME IInv, OneUpdater, CheckInv, [Next]_vars,
                    NEW q \in Requests, pc'[q] = "check"
             PROVE  email'[target'[q]] # arg'[q]
    BY DEF CheckInv
<1>1. /\ target'[q] = target[q] /\ arg'[q] = arg[q]
      /\ \/ pc[q] = "check"
         \/ pc[q] = "read" /\ email[target[q]] # arg[q] /\ UNCHANGED email
      BY ChecksKept
<1>2. CASE pc[q] = "check"
  <2>1. email[target[q]] # arg[q] /\ arg[q] # NoEmail /\ target[q] \in born
        BY <1>2, AccountsAssumption DEF CheckInv, IInv, TypeOK, SlotInv
  <2>2. \A s \in Requests : pc[s] = "update" => target[s] # target[q]
        BY <1>2 DEF OneUpdater, Updating
  <2>3. email'[target[q]] \in {email[target[q]], NoEmail}
        BY <2>1, <2>2, RowsKept
  <2> QED  BY <1>1, <2>1, <2>3
<1> QED  BY <1>1, <1>2

(* docs/service.md:19 says that an update looks whether the new address    *)
(* belongs to a different user.  Where no two updates of one user overlap  *)
(* it is indeed refused only if one has it.                                *)
THEOREM UpdatesRefusedForOthers == Spec /\ []OneUpdater => RefusedForOthers
<1>1. Init => CheckInv
      BY DEF Init, CheckInv
<1>2. IInv /\ CheckInv /\ [Next]_vars =>
         [\A r \in Requests :
            op[r] = "update" /\ answer[r] = "none" /\ answer'[r] = "conflict"
               => Holders(arg[r]) \ {target[r]} # {}]_vars
  <2> SUFFICES ASSUME IInv, CheckInv, Next, NEW q \in Requests, op[q] = "update",
                      answer[q] = "none", answer'[q] = "conflict"
               PROVE  Holders(arg[q]) \ {target[q]} # {}
      OBVIOUS
  <2>1. pc[q] \notin {"exists", "insert"}
        BY DEF IInv, SlotInv, Inserts
  <2>2. pc[q] = "check" => target[q] \notin Holders(arg[q])
        BY DEF CheckInv, Holders
  <2> QED  BY <2>1, <2>2, ConflictLemma
<1> QED  BY <1>1, <1>2, CheckNext, Invariance, PTL DEF Spec, RefusedForOthers


-----------------------------------------------------------------------------
(* Refinement: what a statement does to the registry.                      *)

(* The table lists addresses, the registry their holders.                  *)
LEMMA HolderLemma ==
    ASSUME TypeOK, UniqueEmails, NEW m \in Emails
    PROVE  /\ HolderOf(m) \in Ids \cup {NoId}
           /\ \A i \in Ids : HolderOf(m) = i <=> email[i] = m
           /\ HolderOf(m) = NoId <=> Holders(m) = {}
<1> USE AccountsAssumption
<1>1. CASE Holders(m) = {}
  <2>1. HolderOf(m) = NoId
        BY <1>1 DEF HolderOf
  <2> QED  BY <1>1, <2>1 DEF Holders
<1>2. CASE Holders(m) # {}
  <2>1. HolderOf(m) = CHOOSE i \in Holders(m) : TRUE
        BY <1>2 DEF HolderOf
  <2>2. HolderOf(m) \in Holders(m)
        BY <1>2, <2>1
  <2> QED  BY <1>2, <2>2 DEF Holders, UniqueEmails
<1> QED  BY <1>1, <1>2

(* Without a write nobody's address changes hands. *)
LEMMA SameHolders ==
    ASSUME UNCHANGED email
    PROVE  \A a \in Emails : (HolderOf(a))' = HolderOf(a)
BY DEF HolderOf, Holders

(* Who holds what now is known if it is known of every row. *)
LEMMA HolderNext ==
    ASSUME TypeOK', UniqueEmails', NEW m \in Emails, NEW h \in Ids \cup {NoId},
           \A i \in Ids : email'[i] = m <=> h = i
    PROVE  (HolderOf(m))' = h
<1> USE AccountsAssumption
<1>1. CASE h = NoId
  <2>1. (Holders(m))' = {}
        BY <1>1 DEF Holders
  <2> QED  BY <1>1, <2>1 DEF HolderOf
<1>2. CASE h \in Ids
  <2>1. (Holders(m))' = {h}
        BY <1>2 DEF Holders
  <2> QED  BY <2>1 DEF HolderOf
<1> QED  BY <1>1, <1>2

(* A step that changes one row changes what its user holds. *)
LEMMA RowStep ==
    ASSUME IInv, IInv', NEW i \in Ids, NEW n \in Emails \cup {NoEmail},
           email' = [email EXCEPT ![i] = n]
    PROVE  \A a \in Emails :
              (HolderOf(a))' = IF a = n THEN i
                               ELSE IF HolderOf(a) = i THEN NoId
                               ELSE HolderOf(a)
<1> SUFFICES ASSUME NEW a \in Emails
             PROVE  (HolderOf(a))' = IF a = n THEN i
                                     ELSE IF HolderOf(a) = i THEN NoId
                                     ELSE HolderOf(a)
    OBVIOUS
<1>1. /\ email'[i] = n
      /\ \A j \in Ids \ {i} : email'[j] = email[j]
      BY DEF IInv, TypeOK
<1>2. /\ HolderOf(a) \in Ids \cup {NoId}
      /\ \A j \in Ids : HolderOf(a) = j <=> email[j] = a
      BY HolderLemma DEF IInv
<1>3. TypeOK' /\ UniqueEmails'
      BY DEF IInv
<1> DEFINE h == HolderOf(a)
<1> HIDE DEF h
<1>4. h \in Ids \cup {NoId} /\ \A j \in Ids : h = j <=> email[j] = a
      BY <1>2 DEF h
<1>5. CASE a = n
  <2>1. \A j \in Ids : email'[j] = a <=> i = j
        BY <1>1, <1>3, <1>5, AccountsAssumption DEF UniqueEmails, TypeOK
  <2> QED  BY <1>3, <1>5, <2>1, HolderNext
<1>6. CASE a # n /\ h = i
  <2>1. \A j \in Ids : email'[j] = a <=> NoId = j
        BY <1>1, <1>4, <1>6, AccountsAssumption
  <2>2. (HolderOf(a))' = NoId
        BY <1>3, <2>1, HolderNext
  <2> QED  BY <1>6, <2>2 DEF h
<1>7. CASE a # n /\ h # i
  <2>1. \A j \in Ids : email'[j] = a <=> h = j
        BY <1>1, <1>4, <1>7
  <2>2. (HolderOf(a))' = h
        BY <1>3, <1>4, <2>1, HolderNext
  <2> QED  BY <1>7, <2>2 DEF h
<1> QED  BY <1>5, <1>6, <1>7

(* The three ways to write a row, and the announcement. *)
LEMMA EnrolStep ==
    ASSUME IInv, IInv', NEW r \in Requests, NewRow(r), Holders(arg[r]) = {},
           UNCHANGED events
    PROVE  Registry!Next
<1>1. PICK i \in Ids \ born : /\ email' = [email EXCEPT ![i] = arg[r]]
                              /\ born' = born \cup {i}
      BY DEF NewRow
<1>2. arg[r] \in Emails /\ i \in Ids
      BY DEF IInv, TypeOK
<1>3. email[i] = NoEmail
      BY <1>1 DEF IInv, TypeOK
<1>4. HolderOf(arg[r]) = NoId
      BY DEF HolderOf
<1>5. \A a \in Emails : HolderOf(a) # i
      BY <1>2, <1>3, HolderLemma, AccountsAssumption DEF IInv
<1>6. \A a \in Emails : (HolderOf(a))' = IF a = arg[r] THEN i ELSE HolderOf(a)
      BY <1>1, <1>2, <1>5, RowStep
<1>7. Registry!Enrol(i, arg[r])
      BY <1>1, <1>2, <1>4, <1>6 DEF Registry!Enrol, Registry!Free
<1> QED  BY <1>2, <1>7 DEF Registry!Next

LEMMA RemoveStep ==
    ASSUME IInv, IInv', NEW i \in Ids, email[i] # NoEmail,
           email' = [email EXCEPT ![i] = NoEmail], UNCHANGED <<born, events>>
    PROVE  Registry!Next
<1>1. email[i] \in Emails /\ HolderOf(email[i]) = i
      BY HolderLemma DEF IInv, TypeOK
<1>2. \A a \in Emails : (HolderOf(a))' = IF HolderOf(a) = i THEN NoId ELSE HolderOf(a)
      BY RowStep, AccountsAssumption
<1>3. Registry!Remove(i)
      BY <1>1, <1>2 DEF Registry!Remove, Registry!Enrolled
<1> QED  BY <1>3 DEF Registry!Next

LEMMA MoveStep ==
    ASSUME IInv, IInv', NEW i \in Ids, NEW m \in Emails, email[i] # NoEmail,
           Holders(m) \subseteq {i},
           email' = [email EXCEPT ![i] = m], UNCHANGED <<born, events>>
    PROVE  Registry!Next \/ UNCHANGED Registry!vars
<1>1. email[i] \in Emails /\ HolderOf(email[i]) = i
      BY HolderLemma DEF IInv, TypeOK
<1>2. \A a \in Emails :
         (HolderOf(a))' = IF a = m THEN i
                          ELSE IF HolderOf(a) = i THEN NoId ELSE HolderOf(a)
      BY RowStep
<1>3. CASE HolderOf(m) = NoId
  <2>1. Registry!Move(i, m)
        BY <1>1, <1>2, <1>3 DEF Registry!Move, Registry!Enrolled, Registry!Free
  <2> QED  BY <2>1 DEF Registry!Next
<1>4. CASE HolderOf(m) # NoId
  <2>1. Holders(m) # {}
        BY <1>4 DEF HolderOf
  <2>2. email[i] = m
        BY <2>1 DEF Holders
  <2>3. UNCHANGED email
        BY <2>2 DEF IInv, TypeOK
  <2> QED  BY <2>3, SameHolders DEF Registry!vars
<1> QED  BY <1>3, <1>4

LEMMA AnnounceStep ==
    ASSUME IInv, NEW r \in Requests, Publish(r)
    PROVE  Registry!Next \/ UNCHANGED Registry!vars
<1>1. /\ target[r] \in born /\ target[r] \in Ids /\ events[target[r]] = 0
      /\ UNCHANGED <<email, born>>
      BY DEF Publish, IInv, TypeOK, SlotInv, table
<1>2. \A a \in Emails : (HolderOf(a))' = HolderOf(a)
      BY <1>1, SameHolders
<1>3. CASE UNCHANGED events
      BY <1>1, <1>2, <1>3 DEF Registry!vars
<1>4. CASE events' = [events EXCEPT ![target[r]] = @ + 1]
  <2>1. events' = [events EXCEPT ![target[r]] = 1]
        BY <1>1, <1>4 DEF IInv, TypeOK
  <2>2. Registry!Announce(target[r])
        BY <1>1, <1>2, <2>1 DEF Registry!Announce
  <2> QED  BY <1>1, <2>2 DEF Registry!Next
<1> QED  BY <1>3, <1>4 DEF Publish

LEMMA RegistryStep ==
    ASSUME IInv, IInv', [Next]_vars
    PROVE  Registry!Next \/ UNCHANGED Registry!vars
<1> DEFINE Goal == Registry!Next \/ UNCHANGED Registry!vars
<1>1. ASSUME UNCHANGED <<email, born, events>> PROVE Goal
  <2>1. \A a \in Emails : (HolderOf(a))' = HolderOf(a)
        BY <1>1, SameHolders
  <2> QED  BY <1>1, <2>1 DEF Registry!vars
<1>2. ASSUME NEW r \in Requests, Insert(r) PROVE Goal
  <2>1. CASE UNCHANGED <<table, target>>
        BY <1>1, <1>2, <2>1 DEF Insert, table
  <2>2. CASE Holders(arg[r]) = {} /\ NewRow(r)
        BY <1>2, <2>2, EnrolStep DEF Insert
  <2> QED  BY <1>2, <2>1, <2>2 DEF Insert
<1>3. ASSUME NEW r \in Requests, Publish(r) PROVE Goal
      BY <1>3, AnnounceStep
<1>4. ASSUME NEW r \in Requests, Update(r) PROVE Goal
  <2>1. target[r] \in Ids /\ arg[r] \in Emails
        BY <1>4 DEF Update, IInv, SlotInv, TypeOK
  <2> QED  BY <1>1, <1>4, <2>1, MoveStep DEF Update
<1>5. ASSUME NEW r \in Requests, Delete(r) PROVE Goal
  <2>1. target[r] \in Ids
        BY <1>5 DEF Delete, IInv, SlotInv, TypeOK
  <2> QED  BY <1>1, <1>5, <2>1, RemoveStep DEF Delete
<1> HIDE DEF Goal
<1>6. ASSUME NEW r \in Requests,
             \/ \E m \in Emails : Create(r, m) \/ Register(r, m)
             \/ \E i \in Ids, m \in Emails : UpdateUser(r, i, m)
             \/ \E i \in Ids : DeleteUser(r, i)
             \/ ExistsByEmail(r) \/ GetByID(r) \/ Deadline(r) \/ GiveUp(r)
      PROVE  Goal
      BY <1>1, <1>6 DEF Create, Register, UpdateUser, DeleteUser, Ask,
         ExistsByEmail, GetByID, Deadline, GiveUp, table
<1>7. ASSUME Crash \/ UNCHANGED vars PROVE Goal
      BY <1>1, <1>7 DEF Crash, vars, table
<1>8. Goal
      BY <1>2, <1>3, <1>4, <1>5, <1>6, <1>7 DEF Next
<1> QED  BY <1>8 DEF Goal

(* The user service implements UserRegistry: with any number of requests,  *)
(* failures and crashes in between, every statement is one change of the   *)
(* registry or none.                                                       *)
THEOREM AccountsKeepRegistry == Spec => KeepsRegistry
<1>1. Init => Registry!Init
  <2> SUFFICES ASSUME Init PROVE Registry!Init
      OBVIOUS
  <2>1. \A m \in Emails : Holders(m) = {}
        BY AccountsAssumption DEF Init, Holders
  <2>2. \A m \in Emails : HolderOf(m) = NoId
        BY <2>1 DEF HolderOf
  <2> QED  BY <2>2 DEF Init, Registry!Init
<1>2. IInv /\ IInv' /\ [Next]_vars => [Registry!Next]_(Registry!vars)
      BY RegistryStep
<1>3. Init => IInv
      BY InitInv
<1>4. IInv /\ [Next]_vars => IInv'
      BY NextInv
<1> QED  BY <1>1, <1>2, <1>3, <1>4, PTL DEF Spec, KeepsRegistry, Registry!Spec
=============================================================================
