------------------------------ MODULE MCScalar ------------------------------
(***************************************************************************)
(* Limbs of two one-bit bytes, so eight-bit scalars modulo 241: inverses   *)
(* of every byte string; products of operands around zero, the order and   *)
(* the largest byte string, among them the 14 pairs that need the full     *)
(* width; powers for the exponents of the tests' kind, from zero to the    *)
(* order less one, and two that only the reductions are checked for.       *)
(***************************************************************************)
EXTENDS Scalar

SomeFactors == {0, 1, 2, 15, 16, 120, 121} \cup 202 .. 255
SomeExponents == {0, 1, 2, 6, 100, 240, 241, 255}
=============================================================================
