--------------------------- MODULE EventDelivery ---------------------------
(***************************************************************************)
(* What the retry/DLQ pipeline promises about one queue, with no broker,   *)
(* no worker and no failure in sight: an accepted event stays outstanding  *)
(* until evidence of its outcome exists (an audit row or a copy in the     *)
(* dead-letter queue), and it is outstanding only for a finite time.       *)
(* Consumer.tla implements it.                                             *)
(***************************************************************************)

CONSTANTS
    Events,     \* the messages the broker may accept
    Exempt      \* the ones that may be discarded without a trace

VARIABLES
    status,     \* status[e]: "new", "outstanding" or "settled"
    evidence    \* the events an operator can find a row or a DLQ copy of

vars == <<status, evidence>>

TypeOK ==
    /\ status \in [Events -> {"new", "outstanding", "settled"}]
    /\ evidence \subseteq Events

Init ==
    /\ status = [e \in Events |-> "new"]
    /\ evidence = {}

Accept(e) ==
    /\ status[e] = "new"
    /\ status' = [status EXCEPT ![e] = "outstanding"]
    /\ UNCHANGED evidence

Record(e) ==
    /\ status[e] # "new"
    /\ evidence' = evidence \cup {e}
    /\ UNCHANGED status

Settle(e) ==
    /\ status[e] = "outstanding"
    /\ e \in evidence \cup Exempt
    /\ status' = [status EXCEPT ![e] = "settled"]
    /\ UNCHANGED evidence

Next == \E e \in Events : Accept(e) \/ Record(e) \/ Settle(e)

Safety == Init /\ [][Next]_vars

(* An outstanding event moves on: to evidence of its outcome, then out. *)
Progress(e) == status[e] = "outstanding" /\ (Record(e) \/ Settle(e))

Spec == Safety /\ \A e \in Events : WF_vars(Progress(e))
=============================================================================
