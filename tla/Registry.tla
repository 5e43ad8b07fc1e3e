------------------------------ MODULE Registry ------------------------------
(***************************************************************************)
(* The registry snapshot of state.rs: which member a signer bit binds to,  *)
(* and which node slots are live.  A bitmap is the set of its set bits     *)
(* (bitmap.rs); bits below NodeSlots are operator nodes, the others are    *)
(* data providers.                                                         *)
(*                                                                         *)
(* A public key is the point key * G of the secp256k1 group, written as    *)
(* key \in 1 .. Order-1; the group has prime order, so addition of points  *)
(* is addition modulo Order and 0 is the point at infinity.  A record      *)
(* whose coordinates do not parse (a zero coordinate, or one that is not a *)
(* field element) has key Unparsable.                                      *)
(***************************************************************************)
EXTENDS Integers, FiniteSets

CONSTANTS
  NodeSlots,     \* NODE_SLOTS, 64 in the code
  MaxBits,       \* MAX_REGISTRY_NODES, 256 in the code
  Order,         \* order of the group of curve points
  Accounts,      \* member accounts
  NoAccount      \* the zero account, which marks a hole

ASSUME SlotsAssumption == NodeSlots \in Nat /\ MaxBits \in Nat /\ NodeSlots <= MaxBits
ASSUME OrderAssumption == Order \in Nat /\ Order > 1
ASSUME AccountAssumption == NoAccount \notin Accounts

Bits == 0 .. MaxBits - 1
Infinity == 0
Unparsable == 0
Points == 0 .. Order - 1

Entry == [account : Accounts \cup {NoAccount}, key : Points]
Hole == [account |-> NoAccount, key |-> Unparsable]
IsVacant(entry) == entry.account = NoAccount

Table == UNION {[0 .. size - 1 -> Entry] : size \in 0 .. MaxBits}

View == [version : Nat, nodeCount : Nat, providerCount : Nat,
         redundancyBuffer : Nat, nodes : Table, providers : Table]

-----------------------------------------------------------------------------
(***************************************************************************)
(* The two segments of a bitmap.                                           *)
(***************************************************************************)
NodeBits(bitmap) == {bit \in bitmap : bit < NodeSlots}
ProviderBits(bitmap) == bitmap \ NodeBits(bitmap)

(***************************************************************************)
(* RegistryView::signer, in two parts: Resolves(view, bit) when it returns *)
(* a record, and Signer(view, bit) that record.                            *)
(***************************************************************************)
Segment(view, bit) ==
  IF bit < NodeSlots
  THEN [table |-> view.nodes, slot |-> bit, count |-> view.nodeCount]
  ELSE [table |-> view.providers, slot |-> bit - NodeSlots, count |-> view.providerCount]

Signer(view, bit) == Segment(view, bit).table[Segment(view, bit).slot]

Resolves(view, bit) ==
  LET segment == Segment(view, bit)
  IN  /\ segment.slot < segment.count
      /\ segment.slot \in DOMAIN segment.table
      /\ ~ IsVacant(segment.table[segment.slot])

(***************************************************************************)
(* RegistryView::live_slots: without a table that covers them, all the     *)
(* examined slots count as live.                                           *)
(***************************************************************************)
ExaminedSlots(view) == {slot \in 0 .. NodeSlots - 1 : slot < view.nodeCount}

LiveSlots(view) ==
  {slot \in ExaminedSlots(view) :
     ExaminedSlots(view) \subseteq DOMAIN view.nodes => ~ IsVacant(view.nodes[slot])}

\* LiveSlots::slot: the slot with exactly `rank` live slots below it.
SlotOfRank(view, rank) ==
  CHOOSE slot \in LiveSlots(view) :
    Cardinality({below \in LiveSlots(view) : below < slot}) = rank

-----------------------------------------------------------------------------
(***************************************************************************)
(* The sum of the keys at the bits of a set, as for_each_set_bit adds them *)
(* up: in ascending order, so the highest bit comes last.                  *)
(***************************************************************************)
Highest(bitmap) == CHOOSE bit \in bitmap : \A other \in bitmap : other <= bit
Lowest(bitmap) == CHOOSE bit \in bitmap : \A other \in bitmap : bit <= other

\* As a bug: the sum is not reduced.
PlusUnreduced(p, q) == p + q

Plus(p, q) == (p + q) % Order

KeySum(view, bitmap) ==
  LET sum[set \in SUBSET Bits] ==
        IF set = {} THEN Infinity
        ELSE Plus(sum[set \ {Highest(set)}], Signer(view, Highest(set)).key)
  IN  sum[bitmap]

=============================================================================
