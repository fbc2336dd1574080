---------------------------- MODULE MCDetachedRun ----------------------------
(***************************************************************************)
(* Model-checking instances of DetachedRun.  Call ids, and operators of    *)
(* the same kind, are interchangeable: no definition tells them apart, and *)
(* the liveness runs use no symmetry.                                      *)
(***************************************************************************)
EXTENDS OwnershipInvariant, TLC

CallSymmetry      == Permutations(Call)
RecoverySymmetry  == Permutations(Call) \cup Permutations(Recoverer)
=============================================================================
