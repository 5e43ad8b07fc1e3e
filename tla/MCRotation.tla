---------------------------- MODULE MCRotation -----------------------------
(***************************************************************************)
(* Two accounts, each the address of a node and the authority of a         *)
(* provider; two programs; three honest keys, one that signs anything, a   *)
(* rogue point and malformed bytes; up to three signed intentions: enough  *)
(* for a registration and two rotations, which race from one key or lead   *)
(* back to it.                                                             *)
(***************************************************************************)
EXTENDS Rotation, TLC

Symmetry == Permutations(Honest) \cup Permutations(Ids)
=============================================================================
