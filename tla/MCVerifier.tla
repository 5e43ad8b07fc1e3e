----------------------------- MODULE MCVerifier -----------------------------
(***************************************************************************)
(* Small instances of Verifier: two node slots, two provider slots and a   *)
(* group of order 3 or 5, so that coalitions can cancel to infinity.       *)
(***************************************************************************)
EXTENDS Verifier

CONSTANTS a1, a2

Member(account, k) == [account |-> account, key |-> k]

SnapshotOf(nodes, providers) ==
  [version |-> 1, nodeCount |-> Cardinality(DOMAIN nodes),
   providerCount |-> Cardinality(DOMAIN providers), redundancyBuffer |-> 0,
   nodes |-> nodes, providers |-> providers]

\* A segment of `size` slots; as the program stores them, the last record is live.
Segments(size, members) ==
  {table \in [0 .. size - 1 -> members \cup {Hole}] : size > 0 => table[size - 1] # Hole}

\* Full tables: keys that cancel (1 + 2), a key that does not parse, holes.
WideRegistries ==
  {SnapshotOf(nodes, providers) :
     nodes \in Segments(2, {Member(a1, 1)}) \cup Segments(1, {Member(a2, Unparsable)}),
     providers \in {<<>>} \cup Segments(2, {Member(a2, 2)})}
  \cup \* a selection-only view: counts without tables
  {[SnapshotOf(<<>>, <<>>) EXCEPT !.nodeCount = 2, !.providerCount = 1]}

WidePayloads ==
  {[version |-> 1, required |-> 2, body |-> "b"], [version |-> 1, required |-> 3, body |-> "b"]}
OddPayloads ==
  {[version |-> 1, required |-> 0, body |-> "b"], [version |-> 2, required |-> 2, body |-> "b"]}

AllPayloads == WidePayloads \cup OddPayloads

\* The signature covers this attestation, or the same payload under another bitmap.
Signed(payload, signers) ==
  {[payload |-> payload, signers |-> covered] : covered \in {signers, signers \cup {0}}}

AttestationsOf(payloads, bitmaps, keys) ==
  UNION {[payload : {payload}, signers : {signers}, scalarValid : BOOLEAN,
          signedKey : keys, signedMessage : Signed(payload, signers)] :
           payload \in payloads, signers \in bitmaps}

WideAttestations ==
  AttestationsOf(WidePayloads, SUBSET Bits, {1, 2})
    \cup AttestationsOf(OddPayloads, {{}, {0, 1}, {1, 2}, {0, 1, 2}, {1, 2, 3}}, {1, 2})

-----------------------------------------------------------------------------
(***************************************************************************)
(* Two callers: fewer attestations, all pairs of calls.                    *)
(***************************************************************************)
PairRegistries ==
  {SnapshotOf([s \in 0 .. 1 |-> IF s = 0 THEN Member(a1, 1) ELSE Member(a2, 2)],
              [s \in 0 .. 0 |-> Member(a1, k)]) : k \in {1, 2}}
  \cup {SnapshotOf([s \in 0 .. 1 |-> IF s = 0 THEN Hole ELSE Member(a1, 1)],
                   [s \in 0 .. 0 |-> Member(a2, 4)])}

PairPayloads == {[version |-> 1, required |-> 2, body |-> "b"]}

PairAttestations ==
  {claim \in AttestationsOf(PairPayloads, {{0, 1}, {1, 2}, {0, 1, 2}}, {2, 3, 4}) :
     claim.signedMessage = [payload |-> claim.payload, signers |-> claim.signers]}

=============================================================================
