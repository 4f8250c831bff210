--------------------------- MODULE TokenRotation ---------------------------
(***************************************************************************)
(* What the auth service promises about its refresh tokens, with no Redis  *)
(* commands and no failing requests in sight.  A token is issued once, for *)
(* good to one user; while it is valid it can be claimed for a renewal; it *)
(* is spent once and for all; and only a claim on a token that is spent by *)
(* now is exchanged, for one new token of the same user.                   *)
(* AuthSessions implements it.                                             *)
(***************************************************************************)

CONSTANTS
    Tokens,     \* the tokens there may be
    Users,      \* the users they may belong to
    Claims,     \* the renewals that may be under way
    NoToken,    \* the parent of a token issued for a password
    NoUser      \* the owner of a token not issued yet

VARIABLES
    state,      \* state[t]: "fresh", "valid" or "spent"
    owner,      \* owner[t]: the user t belongs to
    parent,     \* parent[t]: the token t was issued for
    claimed     \* claimed[t]: the claims on t that are open

vars == <<state, owner, parent, claimed>>

Init ==
    /\ state   = [t \in Tokens |-> "fresh"]
    /\ owner   = [t \in Tokens |-> NoUser]
    /\ parent  = [t \in Tokens |-> NoToken]
    /\ claimed = [t \in Tokens |-> {}]

Issue(n, u, p) ==
    /\ state[n] = "fresh"
    /\ state'  = [state EXCEPT ![n] = "valid"]
    /\ owner'  = [owner EXCEPT ![n] = u]
    /\ parent' = [parent EXCEPT ![n] = p]

Login(n, u) == Issue(n, u, NoToken) /\ UNCHANGED claimed

Claim(c, t) ==
    /\ state[t] = "valid"
    /\ claimed' = [claimed EXCEPT ![t] = @ \cup {c}]
    /\ UNCHANGED <<state, owner, parent>>

Renew(c, t, n) ==
    /\ state[t] = "spent" /\ c \in claimed[t]
    /\ Issue(n, owner[t], t)
    /\ claimed' = [claimed EXCEPT ![t] = @ \ {c}]

(* Claims can be given up at any time, also together with the token.       *)
GiveUp(C, t) ==
    /\ claimed' = [claimed EXCEPT ![t] = @ \ C]
    /\ UNCHANGED <<state, owner, parent>>

Spend(C, t) ==
    /\ state[t] = "valid"
    /\ state' = [state EXCEPT ![t] = "spent"]
    /\ claimed' = [claimed EXCEPT ![t] = @ \ C]
    /\ UNCHANGED <<owner, parent>>

Next ==
    \E t \in Tokens :
        \/ \E u \in Users : Login(t, u)
        \/ \E c \in Claims : Claim(c, t) \/ \E n \in Tokens : Renew(c, t, n)
        \/ \E C \in SUBSET Claims : GiveUp(C, t) \/ Spend(C, t)

Spec == Init /\ [][Next]_vars
=============================================================================
