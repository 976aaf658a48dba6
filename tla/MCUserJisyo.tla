----------------------------- MODULE MCUserJisyo -----------------------------
(* Instances of UserJisyo for TLC.                                         *)
EXTENDS UserJisyo, SequencesExt

Symmetry == Permutations(Midasi) \cup Permutations(Candidate)

(* BOUND of the run with every fault: what torn lines leave in the lists   *)
(* does not pile up over restarts.                                         *)
ShortLists ==
  /\ \A m \in Midasi : Len(table[m]) <= 1
  /\ \A i \in 1..Len(journal) : Len(journal[i].list) <= 2
=============================================================================
