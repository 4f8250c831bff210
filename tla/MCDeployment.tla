---------------------------- MODULE MCDeployment ----------------------------
(* TLC instances of Deployment and of Topology.                            *)
EXTENDS Deployment, TLC

CONSTANTS r1, r2    \* model values

Two == {r1, r2}

Notification == {"notification"}

(* All is good, or one setting of one service is not. *)
Good     == [s \in Services |-> [v \in Variables |-> "good"]]
Used(s)  == Required(s) \cup (IF s \in Consumers THEN ConsumerVars ELSE {})
OneOff(s) ==
    {[Good EXCEPT ![s][v] = x] : v \in Used(s), x \in {"unset", "junk"}}

(* user and notification together, and each service alone with one setting *)
(* off and a second fault.  auth meets the other two only in requests,     *)
(* which UserAccounts models.                                              *)
Pair  == {[services |-> {"user", "notification"}, env |-> Good, faults |-> 1]}
Alone == UNION {{[services |-> {s}, env |-> e, faults |-> 2]
                   : e \in {Good} \cup OneOff(s)} : s \in Services}
Systems == Pair \cup Alone

TTLVar == {"NOTIFICATION_CONSUMER_RETRY_TTL"}
=============================================================================
