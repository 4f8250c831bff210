------------------------- MODULE AuthSessionsProofs -------------------------
(***************************************************************************)
(* Proofs about AuthSessions, for any number of tokens, users and requests *)
(* in flight.                                                              *)
(***************************************************************************)
EXTENDS AuthSessions, FiniteSetTheorems, TLAPS

(* What the requests in flight know.  Parents of tokens never issued are   *)
(* unset; a request that is to save has deleted its own token; it acts for *)
(* that token's owner; a token being logged out is marked.                 *)
RequestInv ==
    /\ \A n \in Tokens \ minted : parent[n] = NoToken
    /\ \A r \in Requests :
          /\ pc[r] \in {"del", "save"} => who[r] \in Users
          /\ pc[r] \in {"get", "del", "logout"} => tok[r] \in minted
          /\ pc[r] \in {"del", "save"} /\ tok[r] # NoToken =>
                who[r] = owner[tok[r]]
          /\ pc[r] = "save" => tok[r] \notin live
          /\ pc[r] = "logout" => tok[r] \in forfeit

IInv ==
    /\ TypeOK
    /\ RequestInv
    /\ RotationExclusive
    /\ OwnerInherited
    /\ SessionSurvives

-----------------------------------------------------------------------------
(* The helpers *)

(* Saving under a fresh identifier touches nothing that was there before.  *)
LEMMA SetFresh ==
    ASSUME TypeOK, RequestInv, NEW r \in Requests, pc[r] = "save",
           NEW n \in Tokens \ minted, Set(r, n)
    PROVE  /\ minted' = minted \cup {n} /\ live' = live \cup {n}
           /\ \A t \in Tokens : t # n =>
                 owner'[t] = owner[t] /\ parent'[t] = parent[t]
           /\ owner'[n] = who[r] /\ who[r] \in Users
           /\ parent'[n] = tok[r] /\ tok[r] \in minted \cup {NoToken}
           /\ parent[n] = NoToken
           /\ owner' \in [Tokens -> Users \cup {NoUser}]
           /\ parent' \in [Tokens -> minted' \cup {NoToken}]
BY DEF TypeOK, RequestInv, Set

(* Answering resets the one request. *)
LEMMA AnswerLemma ==
    ASSUME TypeOK, NEW r \in Requests, Answer(r)
    PROVE  /\ \A q \in Requests :
                 IF q = r
                    THEN pc'[q] = "idle" /\ tok'[q] = NoToken /\ who'[q] = NoUser
                    ELSE UNCHANGED <<pc[q], tok[q], who[q]>>
           /\ pc' \in [Requests -> Steps]
           /\ tok' \in [Requests -> minted \cup {NoToken}]
           /\ who' \in [Requests -> Users \cup {NoUser}]
BY DEF TypeOK, Answer, Goto, Steps

-----------------------------------------------------------------------------
(* Type correctness needs to know for whom the requests act. *)

LEMMA InitInv == Init => IInv
BY SessionsAssumption
DEF Init, IInv, TypeOK, RequestInv, RotationExclusive, OwnerInherited,
    SessionSurvives, Steps

LEMMA TypeNext == TypeOK /\ RequestInv /\ [Next]_vars => TypeOK'
<1> SUFFICES ASSUME TypeOK, RequestInv, [Next]_vars PROVE TypeOK'
    OBVIOUS
<1> USE SessionsAssumption DEF TypeOK
<1>1. ASSUME NEW r \in Requests, NEW u \in Users, Login(r, u) PROVE TypeOK'
      BY <1>1 DEF Login, Goto, Steps, store
<1>2. ASSUME NEW r \in Requests, NEW t \in Tokens, Refresh(r, t) PROVE TypeOK'
      BY <1>2 DEF Refresh, Goto, Steps, store
<1>3. ASSUME NEW r \in Requests, NEW t \in Tokens, Logout(r, t) PROVE TypeOK'
      BY <1>3 DEF Logout, Goto, Steps, store
<1>4. ASSUME NEW r \in Requests, UserID(r) PROVE TypeOK'
  <2>1. CASE tok[r] \in live
        BY <1>4, <2>1 DEF UserID, Goto, Steps, store
  <2>2. CASE tok[r] \notin live
        BY <1>4, <2>2, AnswerLemma DEF UserID, store
  <2> QED  BY <2>1, <2>2
<1>5. ASSUME NEW r \in Requests, Delete(r) PROVE TypeOK'
      BY <1>5 DEF Delete, Goto, Steps
<1>6. ASSUME NEW r \in Requests, Save(r) PROVE TypeOK'
  <2>1. PICK n \in Tokens \ minted : Set(r, n) /\ handed' = handed \cup {n}
        BY <1>6 DEF Save
  <2> QED  BY <1>6, <2>1, SetFresh, AnswerLemma DEF Save
<1>7. ASSUME NEW r \in Requests, LogoutDelete(r) PROVE TypeOK'
      BY <1>7, AnswerLemma DEF LogoutDelete
<1>8. ASSUME NEW r \in Requests, Fail(r) PROVE TypeOK'
  <2>1. /\ Answer(r) /\ UNCHANGED handed
        /\ forfeit' \subseteq minted
        BY <1>8 DEF Fail
  <2>2. CASE UNCHANGED store \/ (live' = live \ {tok[r]}
                                   /\ UNCHANGED <<minted, owner, parent>>)
        BY <2>1, <2>2, AnswerLemma DEF store
  <2>3. CASE pc[r] = "save" /\ \E n \in Tokens \ minted : Set(r, n)
    <3>1. PICK n \in Tokens \ minted : Set(r, n)
          BY <2>3
    <3> QED  BY <2>1, <2>3, <3>1, SetFresh, AnswerLemma
  <2> QED  BY <1>8, <2>2, <2>3 DEF Fail
<1>9. ASSUME NEW t \in Tokens, Expire(t) PROVE TypeOK'
      BY <1>9 DEF Expire
<1>10. CASE UNCHANGED vars
      BY <1>10 DEF vars
<1> QED
    BY <1>1, <1>2, <1>3, <1>4, <1>5, <1>6, <1>7, <1>8, <1>9, <1>10 DEF Next

-----------------------------------------------------------------------------
(* The requests *)

LEMMA RequestNext == IInv /\ TypeOK' /\ [Next]_vars => RequestInv'
<1> SUFFICES ASSUME TypeOK, RequestInv, TypeOK', [Next]_vars PROVE RequestInv'
    BY DEF IInv
<1> USE SessionsAssumption DEF TypeOK, RequestInv
<1>1. ASSUME NEW r \in Requests, NEW u \in Users, Login(r, u) PROVE RequestInv'
      BY <1>1 DEF Login, Goto, store
<1>2. ASSUME NEW r \in Requests, NEW t \in Tokens, Refresh(r, t)
      PROVE  RequestInv'
      BY <1>2 DEF Refresh, Goto, store
<1>3. ASSUME NEW r \in Requests, NEW t \in Tokens, Logout(r, t)
      PROVE  RequestInv'
      BY <1>3 DEF Logout, Goto, store
<1>4. ASSUME NEW r \in Requests, UserID(r) PROVE RequestInv'
  <2>1. CASE tok[r] \in live
        BY <1>4, <2>1 DEF UserID, Goto, store
  <2>2. CASE tok[r] \notin live
        BY <1>4, <2>2, AnswerLemma DEF UserID, store
  <2> QED  BY <2>1, <2>2
<1>5. ASSUME NEW r \in Requests, Delete(r) PROVE RequestInv'
      BY <1>5 DEF Delete, Goto
(* Whoever else is about to save holds an older token than the fresh one.  *)
<1>s. ASSUME NEW r \in Requests, pc[r] = "save", Answer(r),
             NEW n \in Tokens \ minted, Set(r, n), forfeit \subseteq forfeit'
      PROVE  RequestInv'
      BY <1>s, SetFresh, AnswerLemma
<1>6. ASSUME NEW r \in Requests, Save(r) PROVE RequestInv'
      BY <1>6, <1>s DEF Save
<1>7. ASSUME NEW r \in Requests, LogoutDelete(r) PROVE RequestInv'
      BY <1>7, AnswerLemma DEF LogoutDelete
<1>8. ASSUME NEW r \in Requests, Fail(r) PROVE RequestInv'
  <2>1. Answer(r) /\ forfeit \subseteq forfeit'
        BY <1>8 DEF Fail
  <2>2. CASE UNCHANGED store \/ (live' = live \ {tok[r]}
                                   /\ UNCHANGED <<minted, owner, parent>>)
        BY <2>1, <2>2, AnswerLemma DEF store
  <2>3. CASE pc[r] = "save" /\ \E n \in Tokens \ minted : Set(r, n)
        BY <1>s, <2>1, <2>3
  <2> QED  BY <1>8, <2>2, <2>3 DEF Fail
<1>9. ASSUME NEW t \in Tokens, Expire(t) PROVE RequestInv'
      BY <1>9 DEF Expire
<1>10. CASE UNCHANGED vars
      BY <1>10 DEF vars
<1> QED
    BY <1>1, <1>2, <1>3, <1>4, <1>5, <1>6, <1>7, <1>8, <1>9, <1>10 DEF Next

-----------------------------------------------------------------------------
(* The store *)

(* Every step either saves one token for a request that deleted its own    *)
(* and is answered with that, or only takes keys away.                     *)
LEMMA StoreStep ==
    ASSUME TypeOK, RequestInv, [Next]_vars
    PROVE  \/ /\ live' \subseteq live /\ UNCHANGED <<minted, owner, parent>>
           \/ \E r \in Requests, n \in Tokens \ minted :
                 pc[r] = "save" /\ Set(r, n) /\ Answer(r)
<1>1. ASSUME NEW r \in Requests, Save(r) \/ Fail(r)
      PROVE  \/ live' \subseteq live /\ UNCHANGED <<minted, owner, parent>>
             \/ \E n \in Tokens \ minted :
                   pc[r] = "save" /\ Set(r, n) /\ Answer(r)
      BY <1>1 DEF Save, Fail, store
<1>2. ASSUME ~ \E r \in Requests : Save(r) \/ Fail(r)
      PROVE  live' \subseteq live /\ UNCHANGED <<minted, owner, parent>>
      BY <1>2 DEF Next, vars, store, Login, Refresh, Logout, UserID, Delete,
                  LogoutDelete, Expire
<1> QED  BY <1>1, <1>2

LEMMA RotationNext == IInv /\ [Next]_vars => RotationExclusive'
<1> SUFFICES ASSUME IInv, [Next]_vars PROVE RotationExclusive'
    OBVIOUS
<1> USE SessionsAssumption DEF IInv
<1>1. CASE live' \subseteq live /\ UNCHANGED <<minted, owner, parent>>
      BY <1>1 DEF RotationExclusive
<1>2. ASSUME NEW r \in Requests, NEW n \in Tokens \ minted,
             pc[r] = "save", Set(r, n)
      PROVE  RotationExclusive'
  <2>1. parent'[n] \notin live'
        BY <1>2, SetFresh DEF RequestInv, TypeOK
  <2>2. ASSUME NEW m \in live, m # n PROVE parent'[m] \notin live'
        BY <1>2, <2>2, SetFresh DEF TypeOK, RotationExclusive
  <2> QED  BY <1>2, <2>1, <2>2, SetFresh DEF RotationExclusive
<1> QED  BY <1>1, <1>2, StoreStep

LEMMA OwnerNext == IInv /\ [Next]_vars => OwnerInherited'
<1> SUFFICES ASSUME IInv, [Next]_vars PROVE OwnerInherited'
    OBVIOUS
<1> USE SessionsAssumption DEF IInv
<1>1. CASE live' \subseteq live /\ UNCHANGED <<minted, owner, parent>>
      BY <1>1 DEF OwnerInherited
<1>2. ASSUME NEW r \in Requests, NEW n \in Tokens \ minted,
             pc[r] = "save", Set(r, n)
      PROVE  OwnerInherited'
  <2>1. parent'[n] # NoToken => owner'[n] = owner'[parent'[n]]
        BY <1>2, SetFresh DEF RequestInv, TypeOK
  <2>2. ASSUME NEW m \in minted
        PROVE  parent'[m] # NoToken => owner'[m] = owner'[parent'[m]]
        BY <1>2, SetFresh DEF TypeOK, OwnerInherited
  <2> QED  BY <1>2, <2>1, <2>2, SetFresh DEF OwnerInherited
<1> QED  BY <1>1, <1>2, StoreStep

-----------------------------------------------------------------------------
(* Survival *)

(* Tokens keep their children: a parent is set once, when its token is new. *)
LEMMA ChildrenStay ==
    ASSUME TypeOK, RequestInv, [Next]_vars
    PROVE  /\ minted \subseteq minted'
           /\ \A n \in minted : parent'[n] = parent[n]
<1>1. CASE UNCHANGED <<minted, owner, parent>>
      BY <1>1
<1>2. ASSUME NEW r \in Requests, NEW n \in Tokens \ minted,
             pc[r] = "save", Set(r, n)
      PROVE  /\ minted \subseteq minted'
             /\ \A m \in minted : parent'[m] = parent[m]
      BY <1>2, SetFresh DEF TypeOK
<1> QED  BY <1>1, <1>2, StoreStep

(* A token keeps its excuse if it stays in Redis, or its refresh goes on,  *)
(* or its received successor is there.                                     *)
LEMMA SurvivesStep ==
    ASSUME IInv, TypeOK', [Next]_vars, UNCHANGED handed,
           forfeit \subseteq forfeit',
           \A t \in handed \ forfeit' :
              /\ t \in live => t \in live' \/ Past(t)' # {}
              /\ Past(t) # {} => Past(t)' # {}
    PROVE  SessionSurvives'
<1> SUFFICES ASSUME NEW t \in handed \ forfeit'
             PROVE  \/ t \in live' \/ Past(t)' # {}
                    \/ Children(t)' \cap handed # {}
    BY DEF SessionSurvives
<1>1. CASE t \in live \/ Past(t) # {}
      BY <1>1
<1>2. CASE Children(t) \cap handed # {}
  <2>1. PICK n \in Tokens : n \in handed /\ parent[n] = t
        BY <1>2 DEF Children
  <2>2. n \in minted
        BY <2>1 DEF IInv, TypeOK
  <2>3. parent'[n] = t
        BY <2>1, <2>2, ChildrenStay DEF IInv
  <2> QED  BY <2>1, <2>3 DEF Children
<1> QED  BY <1>1, <1>2 DEF IInv, SessionSurvives

LEMMA SurvivesNext == IInv /\ TypeOK' /\ [Next]_vars => SessionSurvives'
<1> SUFFICES ASSUME IInv, TypeOK', [Next]_vars PROVE SessionSurvives'
    OBVIOUS
<1>t. TypeOK /\ RequestInv
      BY DEF IInv
<1> USE DEF Past
<1>1. ASSUME NEW r \in Requests, NEW u \in Users, Login(r, u)
      PROVE  SessionSurvives'
      BY <1>1, <1>t, SurvivesStep DEF Login, Goto, store, TypeOK
<1>2. ASSUME NEW r \in Requests, NEW t \in Tokens, Refresh(r, t) \/ Logout(r, t)
      PROVE  SessionSurvives'
      BY <1>2, <1>t, SurvivesStep DEF Refresh, Logout, Goto, store, TypeOK
<1>3. ASSUME NEW r \in Requests, UserID(r) PROVE SessionSurvives'
  <2>1. CASE tok[r] \in live
        BY <1>3, <1>t, <2>1, SurvivesStep DEF UserID, Goto, store, TypeOK
  <2>2. CASE tok[r] \notin live
        BY <1>3, <1>t, <2>2, AnswerLemma, SurvivesStep DEF UserID, store
  <2> QED  BY <2>1, <2>2
<1>4. ASSUME NEW r \in Requests, Delete(r) PROVE SessionSurvives'
  <2>1. /\ live' = live \ {tok[r]} /\ UNCHANGED <<handed, forfeit, tok>>
        /\ pc[r] = "del" /\ pc' = [pc EXCEPT ![r] = "save"]
        BY <1>4 DEF Delete, Goto
  <2>2. r \in Past(tok[r])'
        BY <1>t, <2>1 DEF TypeOK
  <2>3. ASSUME NEW t, Past(t) # {} PROVE Past(t)' # {}
        BY <1>t, <2>1, <2>3 DEF TypeOK
  <2> QED  BY <2>1, <2>2, <2>3, SurvivesStep
<1>5. ASSUME NEW r \in Requests, Save(r) PROVE SessionSurvives'
  <2>1. PICK n \in Tokens \ minted : Set(r, n) /\ handed' = handed \cup {n}
        BY <1>5 DEF Save
  <2>2. pc[r] = "save" /\ Answer(r) /\ UNCHANGED forfeit
        BY <1>5 DEF Save
  <2> SUFFICES ASSUME NEW t \in handed' \ forfeit
               PROVE  \/ t \in live' \/ Past(t)' # {}
                      \/ Children(t)' \cap handed' # {}
      BY <2>2 DEF SessionSurvives
  <2>3. CASE t = n \/ t \in live
        BY <1>t, <2>1, <2>2, <2>3, SetFresh
  <2>4. CASE t \in handed /\ tok[r] = t
        BY <1>t, <2>1, <2>2, <2>4, SetFresh DEF Children
  <2>5. CASE t \in handed /\ tok[r] # t /\ Past(t) # {}
        BY <1>t, <2>2, <2>5, AnswerLemma
  <2>6. CASE t \in handed /\ Children(t) \cap handed # {}
    <3>1. PICK m \in Tokens : m \in handed /\ parent[m] = t
          BY <2>6 DEF Children
    <3>2. m \in minted /\ parent'[m] = t
          BY <1>t, <3>1, ChildrenStay DEF TypeOK
    <3> QED  BY <2>1, <3>1, <3>2 DEF Children
  <2> QED  BY <2>1, <2>2, <2>3, <2>4, <2>5, <2>6 DEF IInv, SessionSurvives
<1>6. ASSUME NEW r \in Requests, LogoutDelete(r) PROVE SessionSurvives'
  <2>1. /\ live \ {tok[r]} \subseteq live' /\ tok[r] \in forfeit
        /\ Answer(r) /\ UNCHANGED <<handed, forfeit>> /\ pc[r] = "logout"
        BY <1>6, <1>t DEF LogoutDelete, RequestInv
  <2> QED  BY <1>t, <2>1, AnswerLemma, SurvivesStep
<1>7. ASSUME NEW r \in Requests, Fail(r) PROVE SessionSurvives'
  <2>1. /\ Answer(r) /\ UNCHANGED handed
        /\ pc[r] \in {"get", "del", "save"}
        /\ forfeit' = IF pc[r] = "get" THEN forfeit
                                      ELSE forfeit \cup ({tok[r]} \ {NoToken})
        BY <1>7 DEF Fail
  <2>2. live \ {tok[r]} \subseteq live'
        BY <1>7 DEF Fail, store, Set
  <2>3. pc[r] = "get" => UNCHANGED live
        BY <1>7 DEF Fail, store
  <2>4. NoToken \notin handed
        BY <1>t, SessionsAssumption DEF TypeOK
  <2> QED  BY <1>t, <2>1, <2>2, <2>3, <2>4, AnswerLemma, SurvivesStep
<1>8. ASSUME NEW t \in Tokens, Expire(t) PROVE SessionSurvives'
      BY <1>8, SurvivesStep DEF Expire
<1>9. CASE UNCHANGED vars
      BY <1>9, SurvivesStep DEF vars
<1> QED
    BY <1>1, <1>2, <1>3, <1>4, <1>5, <1>6, <1>7, <1>8, <1>9 DEF Next

(* No refresh gets past the lookup of a token that is gone.                *)
LEMMA PastShrinks ==
    ASSUME TypeOK, RequestInv, [Next]_vars, NEW t \in minted, t \notin live
    PROVE  Past(t)' \subseteq Past(t)
<1> SUFFICES ASSUME NEW q \in Requests, pc'[q] \in {"del", "save"}, tok'[q] = t,
                    ~(pc[q] \in {"del", "save"} /\ tok[q] = t)
             PROVE  FALSE
    BY DEF Past
<1>2. t # NoToken
      BY SessionsAssumption DEF TypeOK
<1>3. ASSUME NEW r \in Requests, Answer(r) PROVE FALSE
      BY <1>2, <1>3, AnswerLemma
<1>4. ASSUME NEW r \in Requests, NEW x \in Tokens \cup Users,
             Login(r, x) \/ Refresh(r, x) \/ Logout(r, x)
      PROVE  FALSE
      BY <1>2, <1>4 DEF Login, Refresh, Logout, Goto, TypeOK
<1>5. ASSUME NEW r \in Requests, UserID(r) PROVE FALSE
      BY <1>3, <1>5 DEF UserID, Goto, TypeOK
<1>6. ASSUME NEW r \in Requests, Delete(r) PROVE FALSE
      BY <1>6 DEF Delete, Goto, TypeOK
<1>7. CASE UNCHANGED <<pc, tok>>
      BY <1>7
<1> QED
    BY <1>3, <1>4, <1>5, <1>6, <1>7
    DEF Next, vars, Save, LogoutDelete, Fail, Expire

-----------------------------------------------------------------------------
(* Forks *)

(* As long as a token is valid it has no successor, and afterwards each of *)
(* its refreshes is still under way, has left one, or has left none.       *)
ForkInv ==
    \A t \in minted :
       /\ t \in live => Children(t) = {}
       /\ IsFiniteSet(Children(t))
       /\ Cardinality(Children(t)) + Cardinality(Past(t)) <= Cardinality(Requests)

LEMMA CountPast ==
    ASSUME IsFiniteSet(Requests), NEW A \in SUBSET Requests
    PROVE  /\ Cardinality(A) \in Nat /\ Cardinality(Requests) \in Nat
           /\ Cardinality(A) <= Cardinality(Requests)
           /\ \A B \in SUBSET A : Cardinality(B) \in Nat /\ Cardinality(B) <= Cardinality(A)
           /\ \A r \in A : \A B \in SUBSET (A \ {r}) :
                 Cardinality(B) \in Nat /\ Cardinality(B) <= Cardinality(A) - 1
<1>1. IsFiniteSet(A) /\ Cardinality(A) <= Cardinality(Requests)
      BY FS_Subset
<1>2. Cardinality(A) \in Nat /\ Cardinality(Requests) \in Nat
      BY <1>1, FS_CardinalityType
<1>3. ASSUME NEW B \in SUBSET A
      PROVE  Cardinality(B) \in Nat /\ Cardinality(B) <= Cardinality(A)
      BY <1>1, FS_Subset, FS_CardinalityType
<1>4. ASSUME NEW r \in A, NEW B \in SUBSET (A \ {r})
      PROVE  Cardinality(B) \in Nat /\ Cardinality(B) <= Cardinality(A) - 1
  <2>1. IsFiniteSet(A \ {r}) /\ Cardinality(A \ {r}) = Cardinality(A) - 1
        BY <1>1, FS_RemoveElement
  <2> QED  BY <2>1, FS_Subset, FS_CardinalityType
<1> QED  BY <1>1, <1>2, <1>3, <1>4

(* A token that is unchanged in Redis, or expires.                         *)
LEMMA ForkKept ==
    ASSUME IsFiniteSet(Requests), TypeOK, RequestInv, ForkInv, [Next]_vars,
           NEW t \in minted, Children(t)' = Children(t), t \in live' => t \in live
    PROVE  /\ t \in live' => Children(t)' = {}
           /\ IsFiniteSet(Children(t)')
           /\ Cardinality(Children(t)') + Cardinality(Past(t)') <= Cardinality(Requests)
<1>1. /\ Past(t) \in SUBSET Requests /\ Past(t)' \in SUBSET Requests
      BY DEF Past
<1>2. IsFiniteSet(Children(t)) /\ Cardinality(Children(t)) \in Nat
      BY FS_CardinalityType DEF ForkInv
<1>3. CASE t \in live
  <2>1. Cardinality(Children(t)) = 0 /\ Children(t) = {}
        BY <1>3, FS_EmptySet DEF ForkInv
  <2>2. Cardinality(Past(t)') \in Nat /\ Cardinality(Past(t)') <= Cardinality(Requests)
        BY <1>1, CountPast
  <2> QED  BY <1>2, <2>1, <2>2
<1>4. CASE t \notin live
  <2>1. Past(t)' \subseteq Past(t)
        BY <1>4, PastShrinks
  <2>2. /\ Cardinality(Past(t)') \in Nat /\ Cardinality(Past(t)') <= Cardinality(Past(t))
        /\ Cardinality(Past(t)) \in Nat /\ Cardinality(Requests) \in Nat
        BY <1>1, <2>1, CountPast
  <2>3. Cardinality(Children(t)) + Cardinality(Past(t)) <= Cardinality(Requests)
        BY DEF ForkInv
  <2> QED  BY <1>2, <1>4, <2>2, <2>3
<1> QED  BY <1>3, <1>4

LEMMA ForkNext ==
    ASSUME IsFiniteSet(Requests), TypeOK, RequestInv, TypeOK', ForkInv, [Next]_vars
    PROVE  ForkInv'
<1> SUFFICES ASSUME NEW t \in minted'
             PROVE  /\ t \in live' => Children(t)' = {}
                    /\ IsFiniteSet(Children(t)')
                    /\ Cardinality(Children(t)') + Cardinality(Past(t)')
                          <= Cardinality(Requests)
    BY DEF ForkInv
<1>1. CASE live' \subseteq live /\ UNCHANGED <<minted, owner, parent>>
  <2>1. t \in minted /\ Children(t)' = Children(t) /\ (t \in live' => t \in live)
        BY <1>1 DEF Children
  <2> QED  BY <2>1, ForkKept
<1>2. ASSUME NEW r \in Requests, NEW n \in Tokens \ minted,
             pc[r] = "save", Set(r, n), Answer(r)
      PROVE  /\ t \in live' => Children(t)' = {}
             /\ IsFiniteSet(Children(t)')
             /\ Cardinality(Children(t)') + Cardinality(Past(t)')
                   <= Cardinality(Requests)
  <2>1. /\ minted' = minted \cup {n} /\ live' = live \cup {n}
        /\ parent'[n] = tok[r] /\ parent[n] = NoToken
        /\ \A m \in Tokens : m # n => parent'[m] = parent[m]
        /\ tok[r] \in minted \cup {NoToken}
        BY <1>2, SetFresh
  <2>2. NoToken \notin minted
        BY SessionsAssumption DEF TypeOK
  <2>3. CASE t = n
    <3>1. Children(t)' = {}
          BY <2>1, <2>2, <2>3, SessionsAssumption DEF Children, TypeOK
    <3>2. IsFiniteSet({}) /\ Cardinality({}) = 0
          BY FS_EmptySet
    <3>3. Past(t)' \in SUBSET Requests
          BY DEF Past
    <3>4. Cardinality(Past(t)') \in Nat /\ Cardinality(Past(t)') <= Cardinality(Requests)
          /\ Cardinality(Requests) \in Nat
          BY <3>3, CountPast
    <3> QED  BY <3>1, <3>2, <3>4
  <2>4. CASE t # n /\ tok[r] # t
    <3>1. t \in minted /\ (t \in live' => t \in live)
          BY <2>1, <2>4
    <3>2. Children(t)' = Children(t)
          BY <2>1, <2>2, <2>4, <3>1 DEF Children
    <3> QED  BY <3>1, <3>2, ForkKept
  <2>5. CASE t # n /\ tok[r] = t
    <3>1. t \in minted /\ t \notin live /\ t \notin live'
          BY <1>2, <2>1, <2>5 DEF RequestInv
    <3>2. Children(t)' = Children(t) \cup {n}
          BY <2>1, <2>2, <2>5, <3>1 DEF Children
    <3>3. r \in Past(t) /\ Past(t) \in SUBSET Requests
          BY <1>2, <2>5 DEF Past
    <3>4. r \notin Past(t)'
          BY <1>2, AnswerLemma DEF Past
    <3>5. Past(t)' \in SUBSET (Past(t) \ {r})
          BY <3>1, <3>4, PastShrinks
    <3>6. /\ Cardinality(Past(t)') \in Nat /\ Cardinality(Past(t)) \in Nat
          /\ Cardinality(Past(t)') <= Cardinality(Past(t)) - 1
          /\ Cardinality(Requests) \in Nat
          BY <3>3, <3>5, CountPast
    <3>7. /\ IsFiniteSet(Children(t))
          /\ Cardinality(Children(t)) + Cardinality(Past(t)) <= Cardinality(Requests)
          BY <3>1 DEF ForkInv
    <3>8. /\ IsFiniteSet(Children(t)')
          /\ Cardinality(Children(t)) \in Nat /\ Cardinality(Children(t)') \in Nat
          /\ Cardinality(Children(t)') <= Cardinality(Children(t)) + 1
      <4>1. /\ IsFiniteSet(Children(t) \cup {n})
            /\ Cardinality(Children(t) \cup {n}) =
                  IF n \in Children(t) THEN Cardinality(Children(t))
                                       ELSE Cardinality(Children(t)) + 1
            BY <3>7, FS_AddElement
      <4>2. Cardinality(Children(t)) \in Nat
            BY <3>7, FS_CardinalityType
      <4> QED  BY <3>2, <4>1, <4>2
    <3> QED  BY <3>1, <3>6, <3>7, <3>8
  <2> QED  BY <2>3, <2>4, <2>5
<1> QED  BY <1>1, <1>2, StoreStep

-----------------------------------------------------------------------------
(* The theorems *)

LEMMA Invariance == Spec => []IInv
<1>1. IInv /\ [Next]_vars => IInv'
  <2>1. IInv /\ [Next]_vars => TypeOK'
        BY TypeNext DEF IInv
  <2> QED  BY <2>1, RequestNext, RotationNext, OwnerNext, SurvivesNext DEF IInv
<1> QED  BY InitInv, <1>1, PTL DEF Spec

(* Every variable keeps its type, and every token in Redis has an owner.   *)
THEOREM TypeCorrect == Spec => []TypeOK
<1>1. IInv => TypeOK
      BY DEF IInv
<1> QED  BY <1>1, Invariance, PTL

(* A refreshed token and its successor are never both valid.               *)
THEOREM RotationIsExclusive == Spec => []RotationExclusive
<1>1. IInv => RotationExclusive
      BY DEF IInv
<1> QED  BY <1>1, Invariance, PTL

(* All the tokens of a session belong to the user who logged in.           *)
THEOREM SessionsKeepTheirOwner == Spec => []OwnerInherited
<1>1. IInv => OwnerInherited
      BY DEF IInv
<1> QED  BY <1>1, Invariance, PTL

(* Without a logout, an expiry or a failure a client keeps its session.    *)
THEOREM SessionsSurvive == Spec => []SessionSurvives
<1>1. IInv => SessionSurvives
      BY DEF IInv
<1> QED  BY <1>1, Invariance, PTL

(* A spent, logged out or expired token never becomes valid again.         *)
THEOREM DeadTokensStayDead == Spec => DeadStaysDead
<1>1. IInv /\ [Next]_vars => [\A t \in minted \ live : t \notin live']_vars
  <2> SUFFICES ASSUME IInv, [Next]_vars, NEW t \in minted \ live
               PROVE  t \notin live'
      OBVIOUS
  <2>1. CASE live' \subseteq live
        BY <2>1
  <2>2. ASSUME NEW r \in Requests, NEW n \in Tokens \ minted, Set(r, n)
        PROVE  t \notin live'
        BY <2>2 DEF Set
  <2> QED  BY <2>1, <2>2, StoreStep DEF IInv
<1> QED  BY <1>1, Invariance, PTL DEF DeadStaysDead, Spec

(* A dead token is spent for good once its last refresh is answered.       *)
THEOREM DeadTokensAreBarren == Spec => BarrenWhenDead
<1>1. IInv /\ [Next]_vars =>
         [\A t \in minted :
            t \notin live /\ Past(t) = {} =>
               Past(t)' = {} /\ Children(t)' = Children(t)]_vars
  <2> SUFFICES ASSUME IInv, [Next]_vars, NEW t \in minted, t \notin live,
                      Past(t) = {}
               PROVE  Past(t)' = {} /\ Children(t)' = Children(t)
      OBVIOUS
  <2>t. TypeOK /\ RequestInv
        BY DEF IInv
  <2>1. Children(t)' = Children(t)
    <3>1. CASE UNCHANGED <<minted, owner, parent>>
          BY <3>1 DEF Children
    <3>2. ASSUME NEW r \in Requests, NEW n \in Tokens \ minted,
                 pc[r] = "save", Set(r, n)
          PROVE  Children(t)' = Children(t)
      <4>1. tok[r] # t
            BY <3>2 DEF Past
      <4>2. /\ parent[n] # t /\ parent'[n] # t
            /\ \A m \in Tokens : m # n => parent'[m] = parent[m]
            BY <2>t, <3>2, <4>1, SetFresh, SessionsAssumption DEF TypeOK
      <4> QED  BY <4>2 DEF Children
    <3> QED  BY <2>t, <3>1, <3>2, StoreStep
  <2>2. Past(t)' = {}
        BY <2>t, PastShrinks
  <2> QED  BY <2>1, <2>2
<1> QED  BY <1>1, Invariance, PTL DEF BarrenWhenDead, Spec

(* However many clients present a token at the same time, it is refreshed  *)
(* into at most as many tokens as requests can overlap.                    *)
THEOREM ForksBounded == ASSUME IsFiniteSet(Requests) PROVE Spec => []ForkBound
<1>1. Init => ForkInv
      BY DEF Init, ForkInv
<1>2. IInv /\ IInv' /\ ForkInv /\ [Next]_vars => ForkInv'
      BY ForkNext DEF IInv
<1>3. IInv /\ ForkInv => ForkBound
  <2> SUFFICES ASSUME ForkInv, NEW t \in minted
               PROVE  Cardinality(Children(t)) <= Cardinality(Requests)
      BY DEF ForkBound
  <2>1. Past(t) \in SUBSET Requests
        BY DEF Past
  <2>2. Cardinality(Past(t)) \in Nat /\ Cardinality(Requests) \in Nat
        BY <2>1, CountPast
  <2>3. /\ IsFiniteSet(Children(t))
        /\ Cardinality(Children(t)) + Cardinality(Past(t)) <= Cardinality(Requests)
        BY DEF ForkInv
  <2>4. Cardinality(Children(t)) \in Nat
        BY <2>3, FS_CardinalityType
  <2> QED  BY <2>2, <2>3, <2>4
<1> QED  BY <1>1, <1>2, <1>3, Invariance, PTL DEF Spec


(* At most one refresh of a token is between its lookup and its answer.    *)
NoOverlap == \A t \in minted : \A a, b \in Past(t) : a = b

OnceInv ==
    \A t \in minted :
       /\ \A m, n \in Children(t) : m = n
       /\ Children(t) # {} => t \notin live /\ Past(t) = {}

LEMMA OnceNext == IInv /\ NoOverlap /\ OnceInv /\ [Next]_vars => OnceInv'
<1> SUFFICES ASSUME TypeOK, RequestInv, NoOverlap, OnceInv, [Next]_vars PROVE OnceInv'
    BY DEF IInv
(* A token whose children stay the same. *)
<1>1. ASSUME NEW t \in minted, Children(t)' = Children(t), t \in live' => t \in live
      PROVE  /\ \A m, n \in Children(t)' : m = n
             /\ Children(t)' # {} => t \notin live' /\ Past(t)' = {}
  <2>1. Children(t) # {} => t \notin live /\ Past(t) = {}
        BY DEF OnceInv
  <2>2. t \notin live => Past(t)' \subseteq Past(t)
        BY PastShrinks
  <2>3. \A m, n \in Children(t)' : m = n
        BY <1>1 DEF OnceInv
  <2> QED  BY <1>1, <2>1, <2>2, <2>3
<1>2. CASE live' \subseteq live /\ UNCHANGED <<minted, owner, parent>>
  <2>1. \A t \in minted : Children(t)' = Children(t)
        BY <1>2 DEF Children
  <2> QED  BY <1>1, <1>2, <2>1 DEF OnceInv
<1>3. ASSUME NEW r \in Requests, NEW n \in Tokens \ minted,
             pc[r] = "save", Set(r, n), Answer(r)
      PROVE  OnceInv'
  <2>1. /\ minted' = minted \cup {n} /\ live' = live \cup {n} /\ n \in Tokens
        /\ parent'[n] = tok[r] /\ parent[n] = NoToken
        /\ \A m \in Tokens : m # n => parent'[m] = parent[m]
        /\ parent' \in [Tokens -> minted' \cup {NoToken}]
        BY <1>3, SetFresh
  <2>2. tok[r] \in minted \cup {NoToken} /\ n \notin minted /\ NoToken \notin Tokens
        /\ minted \subseteq Tokens
        BY SessionsAssumption DEF TypeOK
  (* The new token has no child: nobody was minted from it. *)
  <2>3. Children(n)' = {}
    <3>1. \A m \in Tokens : parent'[m] # n
      <4>1. \A m \in Tokens : m # n => parent'[m] \in minted \cup {NoToken}
            BY <2>1 DEF TypeOK
      <4> QED  BY <2>1, <2>2, <4>1
    <3> QED  BY <3>1 DEF Children
  (* The one it was refreshed from had none, and nobody else is past it.   *)
  <2>4. ASSUME NEW t \in minted, t = tok[r]
        PROVE  /\ \A m, k \in Children(t)' : m = k
               /\ t \notin live' /\ Past(t)' = {}
    <3>1. r \in Past(t)
          BY <1>3, <2>4 DEF Past
    <3>2. Children(t) = {}
          BY <3>1 DEF OnceInv
    <3>3. Children(t)' = {n}
          BY <2>1, <2>2, <2>4, <3>2 DEF Children
    <3>4. t \notin live /\ t # NoToken
          BY <1>3, <2>2, <2>4 DEF RequestInv
    <3>5. Past(t)' \subseteq Past(t)
          BY <3>4, PastShrinks
    <3>6. r \notin Past(t)'
          BY <1>3, AnswerLemma DEF Past
    <3>7. \A a \in Past(t) : a = r
          BY <3>1 DEF NoOverlap
    <3> QED  BY <2>1, <2>2, <3>3, <3>4, <3>5, <3>6, <3>7
  <2>5. ASSUME NEW t \in minted, t # tok[r]
        PROVE  Children(t)' = Children(t) /\ (t \in live' => t \in live)
    <3>1. t # NoToken /\ t # n
          BY <2>2
    <3> QED  BY <2>1, <2>2, <2>5, <3>1 DEF Children
  <2> QED  BY <1>1, <2>1, <2>3, <2>4, <2>5 DEF OnceInv
<1> QED  BY <1>2, <1>3, StoreStep

(* docs/auth.md:151 says that a stolen token can only be used once.  That  *)
(* holds of the runs in which no two refreshes of one token overlap,       *)
(* whatever else overlaps with them and whichever of them fail.            *)
THEOREM SingleUseUnlessOverlapping == Spec /\ []NoOverlap => []UsedOnce
<1>1. Init => OnceInv
      BY DEF Init, OnceInv
<1>2. OnceInv => UsedOnce
  <2> SUFFICES ASSUME OnceInv, NEW t \in minted PROVE Cardinality(Children(t)) <= 1
      BY DEF UsedOnce
  <2>1. CASE Children(t) = {}
        BY <2>1, FS_EmptySet
  <2>2. ASSUME NEW n \in Children(t) PROVE Cardinality(Children(t)) <= 1
    <3>1. Children(t) = {n}
          BY <2>2 DEF OnceInv
    <3>2. Cardinality({n}) = 1
          BY FS_Singleton
    <3> QED  BY <3>1, <3>2
  <2> QED  BY <2>1, <2>2
<1> QED  BY <1>1, <1>2, OnceNext, Invariance, PTL DEF Spec


-----------------------------------------------------------------------------
(* Refinement: what a command does to the rotation.                        *)

LEMMA StateLemma ==
    ASSUME NEW t
    PROVE  /\ StateOf(t) = "valid" <=> t \in live
           /\ StateOf(t) = "spent" <=> t \in minted \ live
           /\ StateOf(t) = "fresh" <=> t \notin minted \cup live
BY DEF StateOf

(* A store that only loses what is in S. *)
LEMMA StatesLose ==
    ASSUME TypeOK, NEW S \in SUBSET live, live' = live \ S, UNCHANGED minted
    PROVE  \A t \in Tokens :
              (StateOf(t))' = IF t \in S THEN "spent" ELSE StateOf(t)
BY DEF StateOf, TypeOK

(* A fresh token becomes valid and no other changes. *)
LEMMA StatesGain ==
    ASSUME TypeOK, NEW n \in Tokens \ minted,
           minted' = minted \cup {n}, live' = live \cup {n}
    PROVE  \A t \in Tokens :
              (StateOf(t))' = IF t = n THEN "valid" ELSE StateOf(t)
BY DEF StateOf, TypeOK

(* A request that is answered gives up its claim, and no other does.       *)
LEMMA ClaimsAnswered ==
    ASSUME TypeOK, NEW r \in Requests, Answer(r)
    PROVE  \A t \in Tokens : Past(t)' = Past(t) \ {r}
<1> SUFFICES ASSUME NEW t \in Tokens PROVE Past(t)' = Past(t) \ {r}
    OBVIOUS
<1>1. \A q \in Requests :
         IF q = r THEN pc'[q] = "idle" ELSE UNCHANGED <<pc[q], tok[q]>>
      BY AnswerLemma
<1> QED  BY <1>1 DEF Past

(* Only the request that is answered had a claim, and only on its token.   *)
LEMMA OwnClaim ==
    ASSUME NEW r \in Requests, NEW t \in Tokens, tok[r] # t \/ pc[r] \notin {"del", "save"}
    PROVE  Past(t) \ {r} = Past(t)
BY DEF Past

(* The commands that write or end something. *)
LEMMA IssueStep ==
    ASSUME IInv, NEW r \in Requests, NEW n \in Tokens \ minted,
           pc[r] = "save", Set(r, n), Answer(r)
    PROVE  Rotation!Next
<1>1. TypeOK /\ RequestInv
      BY DEF IInv
<1>2. /\ \A t \in Tokens : (StateOf(t))' = IF t = n THEN "valid" ELSE StateOf(t)
      /\ StateOf(n) = "fresh"
      BY <1>1, StatesGain, StateLemma DEF Set, TypeOK
<1>3. /\ owner' = [owner EXCEPT ![n] = who[r]] /\ who[r] \in Users
      /\ parent' = [parent EXCEPT ![n] = tok[r]]
      BY <1>1 DEF Set, RequestInv
<1>4. \A t \in Tokens : Past(t)' = Past(t) \ {r}
      BY <1>1, ClaimsAnswered
<1>5. CASE tok[r] = NoToken
  <2>1. \A t \in Tokens : Past(t)' = Past(t)
        BY <1>4, <1>5, OwnClaim, SessionsAssumption
  <2>2. Rotation!Login(n, who[r])
        BY <1>2, <1>3, <1>5, <2>1 DEF Rotation!Login, Rotation!Issue
  <2> QED  BY <1>3, <2>2 DEF Rotation!Next
<1>6. CASE tok[r] # NoToken
  <2>1. tok[r] \in minted \ live /\ tok[r] \in Tokens /\ who[r] = owner[tok[r]]
        BY <1>1, <1>6 DEF TypeOK, RequestInv
  <2>2. StateOf(tok[r]) = "spent" /\ r \in Past(tok[r])
        BY <2>1, StateLemma DEF Past
  <2>3. \A t \in Tokens :
           Past(t)' = IF t = tok[r] THEN Past(t) \ {r} ELSE Past(t)
        BY <1>4, OwnClaim
  <2>4. Rotation!Renew(r, tok[r], n)
        BY <1>2, <1>3, <2>1, <2>2, <2>3 DEF Rotation!Renew, Rotation!Issue
  <2> QED  BY <2>1, <2>4 DEF Rotation!Next
<1> QED  BY <1>5, <1>6

(* A key goes, and with it perhaps the claim of the request that took it.  *)
LEMMA SpendStep ==
    ASSUME IInv, NEW t \in Tokens, NEW C \in SUBSET Requests,
           live' = live \ {t}, UNCHANGED <<minted, owner, parent>>,
           \A x \in Tokens : Past(x)' = IF x = t THEN Past(x) \ C ELSE Past(x)
    PROVE  Rotation!Next
<1>1. CASE t \in live
  <2>1. StateOf(t) = "valid"
        BY <1>1, StateLemma
  <2>2. \A x \in Tokens : (StateOf(x))' = IF x = t THEN "spent" ELSE StateOf(x)
    <3>1. {t} \in SUBSET live /\ TypeOK
          BY <1>1 DEF IInv
    <3>2. \A x \in Tokens :
             (StateOf(x))' = IF x \in {t} THEN "spent" ELSE StateOf(x)
          BY <3>1, StatesLose
    <3> QED  BY <3>2
  <2>3. Rotation!Spend(C, t)
        BY <2>1, <2>2 DEF Rotation!Spend
  <2> QED  BY <2>3 DEF Rotation!Next
<1>2. CASE t \notin live
  <2>1. live' = live
        BY <1>2
  <2>2. \A x \in Tokens : (StateOf(x))' = StateOf(x)
        BY <2>1 DEF StateOf
  <2>3. Rotation!GiveUp(C, t)
        BY <2>2 DEF Rotation!GiveUp
  <2> QED  BY <2>3 DEF Rotation!Next
<1> QED  BY <1>1, <1>2

(* Nothing is written and at most the one request is answered. *)
LEMMA QuietStep ==
    ASSUME IInv, NEW r \in Requests, UNCHANGED store, Answer(r)
    PROVE  Rotation!Next \/ UNCHANGED Rotation!vars
<1>1. \A x \in Tokens : (StateOf(x))' = StateOf(x)
      BY DEF StateOf, store
<1>2. \A t \in Tokens : Past(t)' = Past(t) \ {r}
      BY ClaimsAnswered DEF IInv
<1>3. UNCHANGED <<owner, parent>>
      BY DEF store
<1>4. CASE tok[r] \in Tokens
  <2>1. \A t \in Tokens : Past(t)' = IF t = tok[r] THEN Past(t) \ {r} ELSE Past(t)
        BY <1>2, OwnClaim
  <2>2. Rotation!GiveUp({r}, tok[r])
        BY <1>1, <1>3, <2>1 DEF Rotation!GiveUp
  <2> QED  BY <1>4, <2>2 DEF Rotation!Next
<1>5. CASE tok[r] \notin Tokens
  <2>1. \A t \in Tokens : Past(t)' = Past(t)
        BY <1>2, <1>5, OwnClaim
  <2> QED  BY <1>1, <1>3, <2>1 DEF Rotation!vars
<1> QED  BY <1>4, <1>5

LEMMA StutterStep ==
    ASSUME UNCHANGED store, \A t \in Tokens : Past(t)' = Past(t)
    PROVE  UNCHANGED Rotation!vars
<1>1. \A x \in Tokens : (StateOf(x))' = StateOf(x)
      BY DEF StateOf, store
<1> QED  BY <1>1 DEF Rotation!vars, store

LEMMA RotationStep ==
    ASSUME IInv, [Next]_vars
    PROVE  Rotation!Next \/ UNCHANGED Rotation!vars
<1> DEFINE Goal == Rotation!Next \/ UNCHANGED Rotation!vars
<1>t. TypeOK /\ RequestInv
      BY DEF IInv
<1>1. ASSUME NEW r \in Requests, NEW u \in Users, Login(r, u) PROVE Goal
  <2>1. UNCHANGED store /\ \A t \in Tokens : Past(t)' = Past(t)
        BY <1>1, <1>t, SessionsAssumption DEF Login, Goto, Past, TypeOK
  <2> QED  BY <2>1, StutterStep
<1>2. ASSUME NEW r \in Requests, NEW t \in Tokens, Refresh(r, t) \/ Logout(r, t)
      PROVE  Goal
  <2>1. UNCHANGED store /\ \A x \in Tokens : Past(x)' = Past(x)
        BY <1>2, <1>t DEF Refresh, Logout, Goto, Past, TypeOK
  <2> QED  BY <2>1, StutterStep
<1>3. ASSUME NEW r \in Requests, UserID(r) PROVE Goal
  <2>1. CASE tok[r] \in live
    <3>1. /\ UNCHANGED store /\ UNCHANGED tok /\ pc[r] = "get"
          /\ pc' = [pc EXCEPT ![r] = "del"] /\ tok[r] \in Tokens
          BY <1>3, <1>t, <2>1 DEF UserID, Goto, TypeOK
    <3>2. \A x \in Tokens :
             Past(x)' = IF x = tok[r] THEN Past(x) \cup {r} ELSE Past(x)
          BY <1>t, <3>1 DEF Past, TypeOK
    <3>3. /\ StateOf(tok[r]) = "valid"
          /\ \A x \in Tokens : (StateOf(x))' = StateOf(x)
          BY <2>1, <3>1, StateLemma DEF StateOf, store
    <3>4. Rotation!Claim(r, tok[r])
          BY <3>1, <3>2, <3>3 DEF Rotation!Claim, store
    <3> QED  BY <3>1, <3>4 DEF Rotation!Next
  <2>2. CASE tok[r] \notin live
        BY <1>3, <2>2, QuietStep DEF UserID
  <2> QED  BY <2>1, <2>2
<1>4. ASSUME NEW r \in Requests, Delete(r) PROVE Goal
  <2>1. \A x \in Tokens : Past(x)' = Past(x)
        BY <1>4, <1>t DEF Delete, Goto, Past, TypeOK
  <2>2. tok[r] \in Tokens
        BY <1>4, <1>t DEF Delete, RequestInv, TypeOK
  <2>3. /\ live' = live \ {tok[r]} /\ UNCHANGED <<minted, owner, parent>>
        /\ \A x \in Tokens : Past(x)' = IF x = tok[r] THEN Past(x) \ {} ELSE Past(x)
        BY <1>4, <2>1 DEF Delete
  <2> QED  BY <2>2, <2>3, SpendStep
<1>5. ASSUME NEW r \in Requests, Save(r) PROVE Goal
      BY <1>5, IssueStep DEF Save
<1>6. ASSUME NEW r \in Requests, LogoutDelete(r) PROVE Goal
  <2>1. /\ Answer(r) /\ UNCHANGED <<minted, owner, parent>>
        /\ tok[r] \in Tokens /\ pc[r] = "logout"
        BY <1>6, <1>t DEF LogoutDelete, RequestInv, TypeOK
  <2>2. \A x \in Tokens : Past(x)' = Past(x)
        BY <1>t, <2>1, ClaimsAnswered, OwnClaim
  <2>3. CASE live' = live
    <3>1. UNCHANGED store
          BY <2>1, <2>3 DEF store
    <3> QED  BY <2>2, <3>1, StutterStep
  <2>4. CASE live' = live \ {tok[r]}
    <3>1. \A x \in Tokens : Past(x)' = IF x = tok[r] THEN Past(x) \ {} ELSE Past(x)
          BY <2>2
    <3> QED  BY <2>1, <2>4, <3>1, SpendStep
  <2> QED  BY <1>6, <2>3, <2>4 DEF LogoutDelete
<1>7. ASSUME NEW r \in Requests, Fail(r) PROVE Goal
  <2>1. Answer(r)
        BY <1>7 DEF Fail
  <2>2. CASE UNCHANGED store
        BY <2>1, <2>2, QuietStep
  <2>3. CASE /\ pc[r] = "del" /\ live' = live \ {tok[r]}
             /\ UNCHANGED <<minted, owner, parent>>
    <3>1. tok[r] \in Tokens
          BY <1>t, <2>3 DEF RequestInv, TypeOK
    <3>2. \A x \in Tokens :
             Past(x)' = IF x = tok[r] THEN Past(x) \ {r} ELSE Past(x)
          BY <1>t, <2>1, ClaimsAnswered, OwnClaim
    <3> QED  BY <2>3, <3>1, <3>2, SpendStep
  <2>4. CASE pc[r] = "save" /\ \E n \in Tokens \ minted : Set(r, n)
        BY <2>1, <2>4, IssueStep
  <2> QED  BY <1>7, <2>2, <2>3, <2>4 DEF Fail
<1>8. ASSUME NEW t \in Tokens, Expire(t) PROVE Goal
  <2>1. /\ live' = live \ {t} /\ UNCHANGED <<minted, owner, parent>>
        /\ \A x \in Tokens : Past(x)' = IF x = t THEN Past(x) \ {} ELSE Past(x)
        BY <1>8 DEF Expire, Past
  <2> QED  BY <2>1, SpendStep
<1>9. ASSUME UNCHANGED vars PROVE Goal
  <2>1. UNCHANGED store /\ \A x \in Tokens : Past(x)' = Past(x)
        BY <1>9 DEF vars, store, Past
  <2> QED  BY <2>1, StutterStep
<1> QED
    BY <1>1, <1>2, <1>3, <1>4, <1>5, <1>6, <1>7, <1>8, <1>9 DEF Next

(* The auth service implements TokenRotation: with any number of requests, *)
(* failing at any point, a token is exchanged only for claims made while   *)
(* it was valid, after it was spent, and for tokens of the same user.      *)
THEOREM SessionsKeepRotation == Spec => KeepsRotation
<1>1. Init => Rotation!Init
      BY DEF Init, Rotation!Init, StateOf, Past
<1>2. IInv /\ [Next]_vars => [Rotation!Next]_(Rotation!vars)
      BY RotationStep
<1> QED  BY <1>1, <1>2, Invariance, PTL DEF Spec, KeepsRotation, Rotation!Spec
=============================================================================
