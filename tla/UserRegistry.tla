---------------------------- MODULE UserRegistry ----------------------------
(***************************************************************************)
(* What the user service promises about its accounts, with no requests, no *)
(* checks and no failures in sight: an address belongs to at most one user *)
(* at a time, each change of it happens at once and as a whole, an id that *)
(* was removed never comes back, and a user is announced at most once.     *)
(* UserAccounts implements it: where its table lists the address of every  *)
(* id, the registry lists the holder of every address.                     *)
(***************************************************************************)
EXTENDS Naturals

CONSTANTS
    Ids,        \* the users there may be
    Emails,     \* the addresses they may have
    NoId        \* the holder of a free address

VARIABLES
    holder,     \* holder[m]: the user whose address is m, or NoId
    known,      \* the ids ever enrolled
    announced   \* announced[i]: how often user i was announced

vars == <<holder, known, announced>>

Init ==
    /\ holder    = [m \in Emails |-> NoId]
    /\ known     = {}
    /\ announced = [i \in Ids |-> 0]

Free(m)     == holder[m] = NoId
Enrolled(i) == \E m \in Emails : holder[m] = i

Enrol(i, m) ==
    /\ i \notin known /\ Free(m)
    /\ holder' = [holder EXCEPT ![m] = i]
    /\ known'  = known \cup {i}
    /\ UNCHANGED announced

Announce(i) ==
    /\ i \in known /\ announced[i] = 0
    /\ announced' = [announced EXCEPT ![i] = 1]
    /\ UNCHANGED <<holder, known>>

Move(i, m) ==
    /\ Enrolled(i) /\ Free(m)
    /\ holder' = [a \in Emails |-> IF a = m THEN i
                                   ELSE IF holder[a] = i THEN NoId
                                   ELSE holder[a]]
    /\ UNCHANGED <<known, announced>>

Remove(i) ==
    /\ Enrolled(i)
    /\ holder' = [a \in Emails |-> IF holder[a] = i THEN NoId ELSE holder[a]]
    /\ UNCHANGED <<known, announced>>

Next ==
    \E i \in Ids :
        \/ Announce(i) \/ Remove(i)
        \/ \E m \in Emails : Enrol(i, m) \/ Move(i, m)

Spec == Init /\ [][Next]_vars
=============================================================================
