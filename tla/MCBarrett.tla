----------------------------- MODULE MCBarrett ------------------------------
(***************************************************************************)
(* Eight-bit scalars modulo 241.  Among the operands from 200 up, 58 pairs *)
(* leave a remainder of 2*N or more, and 14 of those one above 2^9, which  *)
(* needs the full width (2^257 in the code).                               *)
(***************************************************************************)
EXTENDS Barrett

NearOrder == {0, 1, 2, 120, 121} \cup 200 .. 240
NearOrderProducts == {i * j : i, j \in NearOrder}
=============================================================================
