------------------------------ MODULE MCChain -------------------------------
(***************************************************************************)
(* Two node slots and two provider slots; a key that is rotated, and a     *)
(* node and a provider that leave.  With one provider in four records,     *)
(* spare capacity follows the provider table.                              *)
(***************************************************************************)
EXTENDS Chain

CONSTANTS a1, a2, a3

Member(account, k) == [account |-> account, key |-> k]

FirstKey == Member(a1, 1)
RotatedKey == Member(a1, 2)
Second == Member(a2, 1)
Provider == Member(a3, 3)

Segment2(first, second) == [slot \in 0 .. 1 |-> IF slot = 0 THEN first ELSE second]
Segment1(only) == [slot \in 0 .. 0 |-> only]

SmallMemberships ==
  {[nodes |-> Segment2(FirstKey, Second), providers |-> Segment1(Provider)],
   [nodes |-> Segment2(RotatedKey, Second), providers |-> Segment1(Provider)],
   [nodes |-> Segment2(Hole, Second), providers |-> <<>>]}

SmallSpares == {Second}

\* Nodes only, a node and the provider, too few.
SmallBitmaps == {{0, 1}, {0, 2}, {1}}

\* Half seconds: a second begins at each even stamp.
SmallStamps == {1, 3, 4, 6}

SmallPayloads ==
  [version : 1 .. MaxVersions, required : Thresholds,
   timestamp : SmallStamps]

=============================================================================
