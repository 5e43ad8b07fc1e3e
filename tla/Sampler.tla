------------------------------ MODULE Sampler -------------------------------
(***************************************************************************)
(* derive_group_bitmap and sample_without_replacement (bitmap.rs), draw by *)
(* draw.  Digests are DrawsPerDigest words long; a word may have any value *)
(* (Keccak is external), so every sequence of draws is explored.           *)
(***************************************************************************)
EXTENDS Groups, FiniteSetsExt

CONSTANTS
  MaxRounds,       \* DERIVE_GROUP_BITMAP_MAX_ROUNDS, 65 536 in the code
  DrawsPerDigest   \* 8 in the code

ASSUME RoundAssumption == MaxRounds \in Nat /\ DrawsPerDigest \in Nat \ {0}

VARIABLES
  nodeCount, groupSize,  \* the parameters of derive_group_bitmap
  phase,                 \* "start", "sample", and then how it ended
  group,                 \* the bitmap it returns
  counter,               \* digests taken
  left,                  \* words of the current digest not looked at yet
  selected,              \* slots selected so far, as the code counts them
  bitmap                 \* the selected slots

vars == <<nodeCount, groupSize, phase, group, counter, left, selected, bitmap>>
params == <<nodeCount, groupSize>>

AllSlots == Slots(nodeCount)

\* As a bug: the complement is taken one member too late.
LateComplement == groupSize > nodeCount \div 2 + 1

\* A large group is drawn as the complement of its small complement.
ByComplement == groupSize > nodeCount \div 2

Target == IF ByComplement THEN nodeCount - groupSize ELSE groupSize

Fail == phase' = "failed" /\ UNCHANGED group

Return(answer) == phase' = "chosen" /\ group' = answer

-----------------------------------------------------------------------------
Init ==
  /\ nodeCount \in 0 .. MaxNodes + 1
  /\ groupSize \in 0 .. MaxNodes + 1
  /\ phase = "start" /\ group = {}
  /\ counter = 0 /\ left = 0 /\ selected = 0 /\ bitmap = {}

Refuse ==
  /\ phase = "start"
  /\ ~ Drawable(nodeCount, groupSize)
  /\ Fail
  /\ UNCHANGED <<params, counter, left, selected, bitmap>>

Trivial ==
  /\ phase = "start"
  /\ Drawable(nodeCount, groupSize) /\ IsTrivial(nodeCount, groupSize)
  /\ Return(IF groupSize = 0 THEN {} ELSE AllSlots)
  /\ UNCHANGED <<params, counter, left, selected, bitmap>>

StartSampling ==
  /\ phase = "start"
  /\ Drawable(nodeCount, groupSize) /\ ~ IsTrivial(nodeCount, groupSize)
  /\ phase' = "sample"
  /\ UNCHANGED <<params, group, counter, left, selected, bitmap>>

\* As bugs: a digest too many, and a digest taken again and again.
TakeExtraDigest ==
  /\ phase = "sample"
  /\ selected < Target /\ left = 0
  /\ counter <= MaxRounds
  /\ counter' = counter + 1
  /\ left' = DrawsPerDigest
  /\ UNCHANGED <<params, phase, group, selected, bitmap>>

RetakeDigest ==
  /\ phase = "sample"
  /\ selected < Target /\ left = 0
  /\ counter < MaxRounds
  /\ left' = DrawsPerDigest
  /\ UNCHANGED <<params, phase, group, counter, selected, bitmap>>

TakeDigest ==
  /\ phase = "sample"
  /\ selected < Target /\ left = 0
  /\ counter < MaxRounds
  /\ counter' = counter + 1
  /\ left' = DrawsPerDigest
  /\ UNCHANGED <<params, phase, group, selected, bitmap>>

\* As a bug: the last digest is not used.
GiveUpAtLastDigest ==
  /\ phase = "sample"
  /\ selected < Target
  /\ counter >= MaxRounds
  /\ Fail
  /\ UNCHANGED <<params, counter, left, selected, bitmap>>

GiveUp ==
  /\ phase = "sample"
  /\ selected < Target /\ left = 0
  /\ counter >= MaxRounds
  /\ Fail
  /\ UNCHANGED <<params, counter, left, selected, bitmap>>

\* As a bug: a repeated slot counts as another member.
DrawRepeated(word) ==
  /\ phase = "sample"
  /\ selected < Target /\ left > 0
  /\ left' = left - 1
  /\ IF Accepted(word, nodeCount)
     THEN /\ bitmap' = bitmap \cup {SlotOf(word, nodeCount)}
          /\ selected' = selected + 1
     ELSE UNCHANGED <<bitmap, selected>>
  /\ UNCHANGED <<params, phase, group, counter>>

\* One word: rejected above the limit, and ignored when its slot is taken.
Draw(word) ==
  LET slot == SlotOf(word, nodeCount)
  IN  /\ phase = "sample"
      /\ selected < Target /\ left > 0
      /\ left' = left - 1
      /\ \/ /\ Accepted(word, nodeCount) /\ slot \notin bitmap
            /\ bitmap' = bitmap \cup {slot}
            /\ selected' = selected + 1
         \/ /\ ~ Accepted(word, nodeCount) \/ slot \in bitmap
            /\ UNCHANGED <<bitmap, selected>>
      /\ UNCHANGED <<params, phase, group, counter>>

\* As a bug: the complement is returned.
FinishDrawn ==
  /\ phase = "sample"
  /\ selected >= Target
  /\ Return(bitmap)
  /\ UNCHANGED <<params, counter, left, selected, bitmap>>

\* The rest of the digest is dropped; a complement is taken by XOR.
Finish ==
  /\ phase = "sample"
  /\ selected >= Target
  /\ Return(IF ByComplement THEN SymDiff(AllSlots, bitmap) ELSE bitmap)
  /\ UNCHANGED <<params, counter, left, selected, bitmap>>

Next ==
  \/ Refuse \/ Trivial \/ StartSampling \/ TakeDigest \/ GiveUp \/ Finish
  \/ \E word \in 0 .. WordMax : Draw(word)

Spec == Init /\ [][Next]_vars

\* Sequential code: it goes on for as long as there is a next statement.
FairSpec == Spec /\ WF_vars(Next)

-----------------------------------------------------------------------------
TypeOK ==
  /\ nodeCount \in 0 .. MaxNodes + 1 /\ groupSize \in 0 .. MaxNodes + 1
  /\ phase \in {"start", "sample", "chosen", "failed"}
  /\ group \in SUBSET Slots(MaxNodes)
  /\ counter \in 0 .. MaxRounds
  /\ left \in 0 .. DrawsPerDigest
  /\ selected \in 0 .. MaxNodes
  /\ bitmap \in SUBSET Slots(MaxNodes)

Choice == INSTANCE GroupChoice WITH
            status <- IF phase \in {"start", "sample"} THEN "undecided" ELSE phase

(***************************************************************************)
(* derive_group_bitmap chooses one group of exactly the requested size or  *)
(* fails, and it fails only on bad parameters or out of a draw.            *)
(***************************************************************************)
ChoiceSpec == Choice!Spec

(***************************************************************************)
(* The result is a group of exactly groupSize slots below nodeCount,       *)
(* whichever of the two ways it was drawn.                                 *)
(***************************************************************************)
ExactGroup ==
  phase = "chosen" => group \in GroupsOf(nodeCount, groupSize)

(***************************************************************************)
(* Drawable parameters fail only after every word of MaxRounds digests has *)
(* been looked at without filling the group.                               *)
(***************************************************************************)
FailsOnlyExhausted ==
  (phase = "failed" /\ Drawable(nodeCount, groupSize))
    => counter = MaxRounds /\ left = 0 /\ Cardinality(bitmap) < Target

(***************************************************************************)
(* At every draw the free slots outnumber the taken ones, so an accepted   *)
(* word is more likely than not to be new: drawing the smaller side is what*)
(* keeps the number of rounds low.                                         *)
(***************************************************************************)
DrawsStayCheap ==
  (phase = "sample" /\ selected < Target)
    => Cardinality(AllSlots \ bitmap) > Cardinality(bitmap)

(***************************************************************************)
(* A draw is fair: every slot is hit by the same number of accepted words, *)
(* and by at least one.                                                    *)
(***************************************************************************)
FairDraw ==
  phase = "sample" =>
    \A slot \in AllSlots :
      LET hits(s) == {word \in 0 .. WordMax :
                        Accepted(word, nodeCount) /\ SlotOf(word, nodeCount) = s}
      IN  /\ hits(slot) # {}
          /\ Cardinality(hits(slot)) = Cardinality(hits(0))

(***************************************************************************)
(* The derivation ends, whatever the digests are.                          *)
(***************************************************************************)
Terminates == <>(phase \in {"chosen", "failed"})

=============================================================================
