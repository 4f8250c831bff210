----------------------------- MODULE MCConsumer -----------------------------
(* TLC instances of Consumer: which events, workers and faults a run has.  *)
EXTENDS Consumer, TLC

CONSTANTS plain, twin, poison, garbage, w1, w2    \* model values

Pair      == {plain, twin}
One       == {plain}
Mixed     == {plain, poison, garbage}
PoisonOne == {poison}
Garbage   == {garbage}
None      == {}
Fleet     == {w1, w2}
Lone      == {w1}

(* All the faults a process survives by being started again. *)
Durable   == AllFaults \ {"channel"}

CrashOnly == {"crash"}

Symmetry  == Permutations(Pair) \cup Permutations(Fleet)
=============================================================================
