----------------------------- MODULE MCSampler ------------------------------
(***************************************************************************)
(* Up to six members, three digests of three words each, words 0 .. 10.    *)
(***************************************************************************)
EXTENDS Sampler
=============================================================================
