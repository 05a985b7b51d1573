---------------------------- MODULE MCMaintenance ----------------------------
(***************************************************************************)
(* Two invocations are enough: what overlapping costs shows with two, and  *)
(* any number of them may follow one another.                              *)
(***************************************************************************)
EXTENDS Maintenance, TLC

Symmetry == Permutations(Invocation)

=============================================================================
