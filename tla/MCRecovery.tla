---------------------------- MODULE MCRecovery -----------------------------
(***************************************************************************)
(* The curve y^2 = x^3 + 7*x + 7 over the field of 13, of prime order 11,  *)
(* in bytes 0 .. 15.  As on secp256k1 the order is in the upper half of    *)
(* the width and below the field's, and no coordinate is zero; unlike      *)
(* there a point whose x is not a scalar is not rare (2*G, with x = 12).   *)
(***************************************************************************)
EXTENDS Recovery, Sequences

Coordinates == <<<<2, 4>>, <<12, 8>>, <<8, 4>>, <<3, 9>>, <<7, 10>>,
                 <<7, 3>>, <<3, 4>>, <<8, 9>>, <<12, 5>>, <<2, 9>>>>
CurveX == [k \in 1 .. 10 |-> Coordinates[k][1]]
CurveY == [k \in 1 .. 10 |-> Coordinates[k][2]]

\* Every aggregate signature and every proof of possession; partials of three
\* keys over well and badly formed nonces, with every triple of scalars.
OffCurve == <<2, 5>>
NoPoint == <<0, 0>>
AllCalls ==
  [kind : {"aggregate"}, key : 1 .. 10, hash : 0 .. 15, s : 0 .. 15, commitment : 1 .. 10]
  \cup [kind : {"pop"}, prefix : {2, 3}, x : 0 .. 15, hash : 0 .. 15, r : 0 .. 15, s : 0 .. 15]
  \cup [kind : {"pop"}, prefix : {0, 4}, x : {2, 3}, hash : {1}, r : {2}, s : {3}]
  \cup [kind : {"partial"}, x : {1, 2, 7}, r1 : {<<2, 4>>, <<12, 8>>, <<8, 9>>, OffCurve},
        r2 : {<<7, 10>>, <<12, 5>>, <<3, 9>>, NoPoint}, b : 0 .. 15, c : 0 .. 15, s : 0 .. 15]
=============================================================================
