---------------------------- MODULE MCSelection -----------------------------
(***************************************************************************)
(* Three node slots, of which any but the last may be a hole, and two      *)
(* provider slots; two windows of two milliseconds.                        *)
(***************************************************************************)
EXTENDS Selection

CONSTANT a1

Live == [account |-> a1, key |-> 1]

\* The last record of a segment is live.
Segments(sizes) ==
  UNION {{table \in [0 .. size - 1 -> {Live, Hole}] : size > 0 => table[size - 1] = Live} :
           size \in sizes}

SnapshotOf(nodes, providers, buffer) ==
  [version |-> 1, nodeCount |-> Cardinality(DOMAIN nodes),
   providerCount |-> Cardinality(DOMAIN providers), redundancyBuffer |-> buffer,
   nodes |-> nodes, providers |-> providers]

SmallProviders(nodes) ==
  IF Cardinality(DOMAIN nodes) = 3 THEN {[slot \in 0 .. 1 |-> IF slot = 0 THEN Hole ELSE Live]}
  ELSE {[slot \in 0 .. 1 |-> Live]}

SmallSnapshots ==
  UNION {{SnapshotOf(nodes, providers, buffer) :
            providers \in SmallProviders(nodes), buffer \in {0, 1}} :
           nodes \in Segments({0, 2, 3})}

=============================================================================
