------------------------------- MODULE Groups -------------------------------
(***************************************************************************)
(* The groups derive_group_bitmap (bitmap.rs) may return, and the          *)
(* arithmetic of one draw.                                                 *)
(***************************************************************************)
EXTENDS Integers, FiniteSets

CONSTANTS
  MaxNodes,        \* 256 in the code
  WordMax          \* u32::MAX, the largest value of one draw

ASSUME WordAssumption ==
  /\ MaxNodes \in Nat \ {0}
  /\ WordMax \in Nat /\ WordMax >= MaxNodes

Slots(nodeCount) == 0 .. nodeCount - 1

\* Parameters that derive_group_bitmap does not refuse outright.
Drawable(nodeCount, groupSize) ==
  nodeCount > 0 /\ nodeCount <= MaxNodes /\ groupSize <= nodeCount

\* As a bug: fewer members than asked for.
GroupsUpTo(nodeCount, groupSize) ==
  {group \in SUBSET Slots(nodeCount) : Cardinality(group) <= groupSize}

\* The bitmaps that are a group of `groupSize` out of `nodeCount` members.
GroupsOf(nodeCount, groupSize) ==
  {group \in SUBSET Slots(nodeCount) : Cardinality(group) = groupSize}

\* Nothing is drawn for the empty group and for the group of all members.
IsTrivial(nodeCount, groupSize) == groupSize = 0 \/ groupSize = nodeCount

(***************************************************************************)
(* Draws at or above the limit are rejected, so that the accepted values   *)
(* fall on the slots evenly.                                               *)
(***************************************************************************)
\* As a bug: no draw is rejected.
UnrejectedLimit(nodeCount) == WordMax + 1

Limit(nodeCount) == (WordMax \div nodeCount) * nodeCount

Accepted(word, nodeCount) == word < Limit(nodeCount)
SlotOf(word, nodeCount) == word % nodeCount

=============================================================================
