---------------------------- MODULE AuthSessions ----------------------------
(***************************************************************************)
(* Refresh-token sessions of the auth service: the Redis keys "refresh:t"  *)
(* and the requests that read, delete and write them.                      *)
(*                                                                         *)
(*   services/auth/internal/auth/service.go      Login, Refresh, Logout    *)
(*   services/auth/internal/auth/repository.go   Save, UserID, Delete      *)
(*   services/auth/internal/auth/http_handler.go the cookies               *)
(*                                                                         *)
(* A request is one HTTP request in flight; each Redis command it issues   *)
(* is an action of its own.  A command fails before or after Redis ran it. *)
(***************************************************************************)
EXTENDS Naturals, FiniteSets

CONSTANTS
    Tokens,     \* the refresh tokens uuid.NewString can return; bound
    Users,      \* accounts with valid credentials
    Requests,   \* requests that can be in flight at the same time
    NoToken,    \* the parent of a token that a login issued
    NoUser      \* the owner of a token that was never issued

ASSUME SessionsAssumption ==
    /\ NoToken \notin Tokens
    /\ NoUser \notin Users

VARIABLES
    minted,     \* tokens that were written to Redis at some time
    live,       \* tokens that Redis has a key of now
    owner,      \* owner[t]: the user id stored under t
    parent,     \* parent[t]: the token that was refreshed into t
    handed,     \* tokens some client received in a cookie
    forfeit,    \* tokens logged out, expired, or lost to a failing request
    pc,         \* pc[r]: the next step of request r
    tok,        \* tok[r]: the token in r's cookie
    who         \* who[r]: the user r acts for

store == <<minted, live, owner, parent>>
vars  == <<minted, live, owner, parent, handed, forfeit, pc, tok, who>>

Steps == {"idle", "get", "del", "save", "logout"}

TypeOK ==
    /\ minted  \subseteq Tokens
    /\ live    \subseteq minted
    /\ owner   \in [Tokens -> Users \cup {NoUser}]
    /\ \A t \in minted : owner[t] \in Users
    /\ parent  \in [Tokens -> minted \cup {NoToken}]
    /\ handed  \subseteq minted
    /\ forfeit \subseteq minted
    /\ pc      \in [Requests -> Steps]
    /\ tok     \in [Requests -> minted \cup {NoToken}]
    /\ who     \in [Requests -> Users \cup {NoUser}]

Init ==
    /\ minted  = {}
    /\ live    = {}
    /\ owner   = [t \in Tokens |-> NoUser]
    /\ parent  = [t \in Tokens |-> NoToken]
    /\ handed  = {}
    /\ forfeit = {}
    /\ pc      = [r \in Requests |-> "idle"]
    /\ tok     = [r \in Requests |-> NoToken]
    /\ who     = [r \in Requests |-> NoUser]

-----------------------------------------------------------------------------
(* Helpers *)

Goto(r, s) == pc' = [pc EXCEPT ![r] = s]

(* The request is answered; its local state is gone. *)
Answer(r) ==
    /\ Goto(r, "idle")
    /\ tok' = [tok EXCEPT ![r] = NoToken]
    /\ who' = [who EXCEPT ![r] = NoUser]

(* The refreshes that found t in Redis and have not answered yet. *)
Past(t) == {r \in Requests : pc[r] \in {"del", "save"} /\ tok[r] = t}

Children(t) == {n \in Tokens : parent[n] = t}

(* SET refresh:n, with the user r acts for. *)
Set(r, n) ==
    /\ minted' = minted \cup {n}
    /\ live'   = live \cup {n}
    /\ owner'  = [owner EXCEPT ![n] = who[r]]
    /\ parent' = [parent EXCEPT ![n] = tok[r]]

-----------------------------------------------------------------------------
(* Deviations: steps of the next section with one plausible bug each, to   *)
(* be put in the place of the original.                                    *)

(* UserID, its result dropped. *)
GetForgetsUser(r) ==
    /\ pc[r] = "get"
    /\ \/ tok[r] \in live /\ Goto(r, "del") /\ UNCHANGED <<tok, who>>
       \/ tok[r] \notin live /\ Answer(r)
    /\ UNCHANGED <<store, handed, forfeit>>

(* UserID, a missing key overlooked. *)
GetAnything(r) ==
    /\ pc[r] = "get"
    /\ who' = [who EXCEPT ![r] = owner[tok[r]]]
    /\ Goto(r, "del")
    /\ UNCHANGED <<store, handed, forfeit, tok>>

(* Delete, its error overlooked. *)
DeleteOrNot(r) ==
    /\ pc[r] = "del"
    /\ live' \in {live, live \ {tok[r]}}
    /\ Goto(r, "save")
    /\ UNCHANGED <<minted, owner, parent, handed, forfeit, tok, who>>

(* Delete, of all the tokens of the user. *)
DeleteAllOfUser(r) ==
    /\ pc[r] = "del"
    /\ live' = {t \in live : owner[t] # who[r]}
    /\ Goto(r, "save")
    /\ UNCHANGED <<minted, owner, parent, handed, forfeit, tok, who>>

(* Save, under an identifier that is only not in use at the moment. *)
SaveReused(r) ==
    /\ pc[r] = "save"
    /\ \E n \in Tokens \ live : Set(r, n) /\ handed' = handed \cup {n}
    /\ Answer(r)
    /\ UNCHANGED forfeit

-----------------------------------------------------------------------------
(* The requests *)

(* Login: GetByEmail found the account and the password matches.  (When    *)
(* not, or when the lookup fails, the answer is 401 and nothing happened.) *)
Login(r, u) ==
    /\ pc[r] = "idle"
    /\ tok' = [tok EXCEPT ![r] = NoToken]
    /\ who' = [who EXCEPT ![r] = u]
    /\ Goto(r, "save")
    /\ UNCHANGED <<store, handed, forfeit>>

(* Refresh and Logout: a client presents a cookie it once received.        *)
Refresh(r, t) ==
    /\ pc[r] = "idle" /\ t \in handed
    /\ tok' = [tok EXCEPT ![r] = t]
    /\ Goto(r, "get")
    /\ UNCHANGED <<store, handed, forfeit, who>>

Logout(r, t) ==
    /\ pc[r] = "idle" /\ t \in handed
    /\ tok' = [tok EXCEPT ![r] = t]
    /\ forfeit' = forfeit \cup {t}
    /\ Goto(r, "logout")
    /\ UNCHANGED <<store, handed, who>>

(* tokenStore.UserID: no key means 401. *)
UserID(r) ==
    /\ pc[r] = "get"
    /\ \/ /\ tok[r] \in live
          /\ who' = [who EXCEPT ![r] = owner[tok[r]]]
          /\ Goto(r, "del")
          /\ UNCHANGED tok
       \/ tok[r] \notin live /\ Answer(r)
    /\ UNCHANGED <<store, handed, forfeit>>

(* tokenStore.Delete in Refresh; deleting a missing key is no error.       *)
Delete(r) ==
    /\ pc[r] = "del"
    /\ live' = live \ {tok[r]}
    /\ Goto(r, "save")
    /\ UNCHANGED <<minted, owner, parent, handed, forfeit, tok, who>>

(* issueTokenPair: a fresh identifier is saved and returned in the cookie. *)
Save(r) ==
    /\ pc[r] = "save"
    /\ \E n \in Tokens \ minted : Set(r, n) /\ handed' = handed \cup {n}
    /\ Answer(r)
    /\ UNCHANGED forfeit

(* tokenStore.Delete in Logout, whose error is discarded. *)
LogoutDelete(r) ==
    /\ pc[r] = "logout"
    /\ live' \in {live \ {tok[r]}, live}
    /\ Answer(r)
    /\ UNCHANGED <<minted, owner, parent, handed, forfeit>>

(* A request fails on the way: Redis or the token issuer returns an error, *)
(* the client goes away, the process dies.  The command under way may have *)
(* been executed all the same.                                             *)
Fail(r) ==
    /\ pc[r] \in {"get", "del", "save"}
    /\ Answer(r)
    /\ forfeit' = IF pc[r] = "get" THEN forfeit
                                  ELSE forfeit \cup ({tok[r]} \ {NoToken})
    /\ \/ UNCHANGED store
       \/ /\ pc[r] = "del"
          /\ live' = live \ {tok[r]}
          /\ UNCHANGED <<minted, owner, parent>>
       \/ /\ pc[r] = "save"
          /\ \E n \in Tokens \ minted : Set(r, n)
    /\ UNCHANGED handed

(* The key's expiry passes. *)
Expire(t) ==
    /\ t \in live
    /\ live' = live \ {t}
    /\ forfeit' = forfeit \cup {t}
    /\ UNCHANGED <<minted, owner, parent, handed, pc, tok, who>>

Next ==
    \/ \E r \in Requests, u \in Users : Login(r, u)
    \/ \E r \in Requests, t \in Tokens : Refresh(r, t) \/ Logout(r, t)
    \/ \E r \in Requests :
          UserID(r) \/ Delete(r) \/ Save(r) \/ LogoutDelete(r) \/ Fail(r)
    \/ \E t \in Tokens : Expire(t)

Spec == Init /\ [][Next]_vars

-----------------------------------------------------------------------------
(* Properties *)

(* docs/auth.md:152: a token and the one it was refreshed into are never   *)
(* both valid, whatever requests overlap and whichever of them fail.       *)
RotationExclusive ==
    \A n \in live : parent[n] \notin live

(* A session never changes hands: a refreshed token belongs to the user    *)
(* the presented one belonged to.                                          *)
OwnerInherited ==
    \A n \in minted : parent[n] # NoToken => owner[n] = owner[parent[n]]

(* A token that was spent, logged out or expired is never valid again.     *)
DeadStaysDead ==
    [][\A t \in minted \ live : t \notin live']_vars

(* A token that is gone, and whose last refresh is answered, is spent for  *)
(* good: no later refresh gets past the lookup and it has no further       *)
(* successors.                                                             *)
BarrenWhenDead ==
    [][\A t \in minted :
         t \notin live /\ Past(t) = {} =>
            Past(t)' = {} /\ Children(t)' = Children(t)]_vars

(* One token yields at most as many successors as requests can overlap:    *)
(* with one request at a time it is single-use.                            *)
ForkBound ==
    \A t \in minted : Cardinality(Children(t)) <= Cardinality(Requests)

(* A client is not thrown out for nothing: unless its token was logged     *)
(* out, expired or hit by a failure, the token is valid, is being          *)
(* exchanged, or was exchanged for one the client received.                *)
SessionSurvives ==
    \A t \in handed \ forfeit :
        t \in live \/ Past(t) # {} \/ Children(t) \cap handed # {}

(* The rotation the store and the requests stand for. *)
StateOf(t) == CASE t \in live          -> "valid"
                [] t \in minted \ live -> "spent"
                [] OTHER               -> "fresh"

Rotation == INSTANCE TokenRotation WITH
    Claims  <- Requests,
    state   <- [t \in Tokens |-> StateOf(t)],
    claimed <- [t \in Tokens |-> Past(t)]

(* However the commands of overlapping requests interleave or fail, a      *)
(* token is only ever exchanged by a request that found it valid, after it *)
(* was spent, for a new token of the same user, and never valid again.     *)
KeepsRotation == Rotation!Spec

(* docs/auth.md:151: "A stolen token can only be used once".               *)
UsedOnce ==
    \A t \in minted : Cardinality(Children(t)) <= 1
=============================================================================
