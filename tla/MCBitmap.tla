------------------------------ MODULE MCBitmap ------------------------------
(***************************************************************************)
(* Limbs of two bits: bitmaps of eight positions, all of them reachable,   *)
(* and every node count, on and off a limb boundary.                       *)
(***************************************************************************)
EXTENDS Bitmap
=============================================================================
