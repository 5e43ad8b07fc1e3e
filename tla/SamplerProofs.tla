--------------------------- MODULE SamplerProofs ----------------------------
(***************************************************************************)
(* Proofs about the sampler, for every number of members, word size, round *)
(* limit and digest length.                                                *)
(***************************************************************************)
EXTENDS Sampler, FiniteSetTheorems, TLAPS

(***************************************************************************)
(* The bookkeeping of the draw: `selected` is the number of slots in the   *)
(* bitmap, sampling is only for parameters that need it, and never goes    *)
(* past the target.                                                        *)
(***************************************************************************)
Bookkeeping ==
  /\ bitmap \subseteq AllSlots
  /\ IsFiniteSet(bitmap) /\ selected = Cardinality(bitmap)
  /\ phase = "start" => bitmap = {}
  /\ bitmap # {} => Drawable(nodeCount, groupSize)
  /\ phase = "sample" =>
       /\ Drawable(nodeCount, groupSize) /\ ~ IsTrivial(nodeCount, groupSize)
       /\ selected <= Target

Inv == TypeOK /\ Bookkeeping /\ ExactGroup /\ FailsOnlyExhausted

-----------------------------------------------------------------------------
(***************************************************************************)
(* The members below a count are as many as the count.                     *)
(***************************************************************************)
LEMMA SlotsCounted ==
  ASSUME NEW n \in Nat
  PROVE  IsFiniteSet(Slots(n)) /\ Cardinality(Slots(n)) = n
BY FS_Interval, 0 \in Int, n - 1 \in Int DEF Slots

(***************************************************************************)
(* The complement of a group within the members has the other members.     *)
(***************************************************************************)
LEMMA ComplementCounted ==
  ASSUME NEW n \in Nat, NEW drawn \in SUBSET Slots(n)
  PROVE  /\ SymDiff(Slots(n), drawn) \in SUBSET Slots(n)
         /\ Cardinality(SymDiff(Slots(n), drawn)) = n - Cardinality(drawn)
<1>1. SymDiff(Slots(n), drawn) = Slots(n) \ drawn
  BY DEF SymDiff
<1>2. IsFiniteSet(drawn) /\ Slots(n) \cap drawn = drawn
  BY SlotsCounted, FS_Subset
<1>3. Cardinality(Slots(n) \ drawn) = Cardinality(Slots(n)) - Cardinality(Slots(n) \cap drawn)
  BY SlotsCounted, FS_Difference
<1> QED
  BY <1>1, <1>2, <1>3, SlotsCounted

(***************************************************************************)
(* The group that is drawn, or whose complement is drawn, is non-empty and *)
(* at most half of the members.                                            *)
(***************************************************************************)
LEMMA TargetIsSmall ==
  ASSUME nodeCount \in Nat, groupSize \in Nat,
         Drawable(nodeCount, groupSize), ~ IsTrivial(nodeCount, groupSize)
  PROVE  /\ Target \in Nat \ {0}
         /\ 2 * Target <= nodeCount
         /\ Target = IF ByComplement THEN nodeCount - groupSize ELSE groupSize
BY DEF Target, ByComplement, Drawable, IsTrivial

(***************************************************************************)
(* A word that is accepted falls on a slot of a member.                    *)
(***************************************************************************)
LEMMA SlotInRange ==
  ASSUME NEW n \in Nat \ {0}, NEW word \in Nat
  PROVE  SlotOf(word, n) \in Slots(n)
BY DEF SlotOf, Slots

-----------------------------------------------------------------------------

(***************************************************************************)
(* The invariant holds initially.                                          *)
(***************************************************************************)
LEMMA InitInv == Init => Inv
<1> SUFFICES ASSUME Init PROVE Inv
  OBVIOUS
<1> USE DEF Init
<1>1. IsFiniteSet({}) /\ Cardinality({}) = 0
  BY FS_EmptySet
<1>2. TypeOK
  BY <1>1, WordAssumption, RoundAssumption DEF TypeOK
<1>3. Bookkeeping
  BY <1>1 DEF Bookkeeping, AllSlots
<1> QED
  BY <1>2, <1>3 DEF Inv, ExactGroup, FailsOnlyExhausted

(***************************************************************************)
(* Every step preserves the invariant.                                     *)
(***************************************************************************)
LEMMA NextInv == Inv /\ [Next]_vars => Inv'
<1> SUFFICES ASSUME Inv, [Next]_vars PROVE Inv'
  OBVIOUS
<1> USE WordAssumption, RoundAssumption
<1>0. /\ nodeCount \in Nat /\ groupSize \in Nat
      /\ selected = Cardinality(bitmap) /\ IsFiniteSet(bitmap)
  BY DEF Inv, TypeOK, Bookkeeping
<1>1. CASE Refuse
  <2>1. TypeOK' /\ Bookkeeping' /\ ExactGroup'
    BY <1>1 DEF Inv, TypeOK, Bookkeeping, ExactGroup, Refuse, Fail, params, AllSlots, Target, ByComplement
  <2>2. FailsOnlyExhausted'
    BY <1>1 DEF Inv, Refuse, params, FailsOnlyExhausted
  <2> QED
    BY <2>1, <2>2 DEF Inv
<1>2. CASE Trivial
  <2>1. PICK answer \in SUBSET AllSlots :
          Return(answer) /\ Cardinality(answer) = groupSize
    <3>1. CASE groupSize = 0
      BY <1>2, <3>1, FS_EmptySet DEF Trivial
    <3>2. CASE groupSize # 0
      BY <1>2, <3>2, <1>0, SlotsCounted DEF Trivial, IsTrivial, AllSlots
    <3> QED
      BY <3>1, <3>2
  <2>2. AllSlots \subseteq Slots(MaxNodes)
    BY <1>2, <1>0 DEF Trivial, Drawable, AllSlots, Slots
  <2>3. TypeOK' /\ Bookkeeping'
    BY <1>2, <2>1, <2>2 DEF Inv, TypeOK, Bookkeeping, Trivial, Return, params, AllSlots, Target, ByComplement
  <2>4. ExactGroup' /\ FailsOnlyExhausted'
    BY <1>2, <2>1 DEF Trivial, Return, params, ExactGroup, FailsOnlyExhausted, GroupsOf, AllSlots
  <2> QED
    BY <2>3, <2>4 DEF Inv
<1>3. CASE StartSampling
  <2>1. 0 <= Target /\ bitmap = {} /\ selected = 0
    BY <1>3, <1>0, TargetIsSmall, FS_EmptySet DEF StartSampling, Inv, Bookkeeping
  <2>2. TypeOK' /\ Bookkeeping'
    BY <1>3, <2>1 DEF Inv, TypeOK, Bookkeeping, StartSampling, params, AllSlots, Target, ByComplement
  <2> QED
    BY <1>3, <2>2 DEF Inv, StartSampling, ExactGroup, FailsOnlyExhausted
<1>4. CASE TakeDigest
  <2>1. TypeOK'
    BY <1>4 DEF Inv, TypeOK, TakeDigest, params
  <2>2. Bookkeeping'
    BY <1>4 DEF Inv, Bookkeeping, TakeDigest, params, AllSlots, Target, ByComplement
  <2> QED
    BY <1>4, <2>1, <2>2 DEF Inv, TakeDigest, ExactGroup, FailsOnlyExhausted
<1>5. CASE GiveUp
  <2>1. TypeOK' /\ Bookkeeping' /\ ExactGroup'
    BY <1>5 DEF Inv, TypeOK, Bookkeeping, ExactGroup, GiveUp, Fail, params, AllSlots, Target, ByComplement
  <2>2. counter = MaxRounds /\ left = 0 /\ Cardinality(bitmap) < Target
    BY <1>5, <1>0 DEF GiveUp, Inv, TypeOK
  <2>3. FailsOnlyExhausted'
    BY <1>5, <2>2 DEF GiveUp, params, FailsOnlyExhausted, Target, ByComplement
  <2> QED
    BY <2>1, <2>3 DEF Inv
<1>6. CASE Finish
  <2>1. /\ bitmap \in SUBSET Slots(nodeCount)
        /\ Drawable(nodeCount, groupSize) /\ ~ IsTrivial(nodeCount, groupSize)
        /\ Cardinality(bitmap) = Target
    BY <1>6, <1>0, TargetIsSmall, FS_CardinalityType DEF Finish, Inv, Bookkeeping, AllSlots
  <2>2. group' \in GroupsOf(nodeCount, groupSize)
    <3>1. CASE ByComplement
      <4>1. group' = SymDiff(Slots(nodeCount), bitmap) /\ Cardinality(bitmap) = nodeCount - groupSize
        BY <1>6, <3>1, <2>1 DEF Finish, Return, AllSlots, Target
      <4> QED
        BY <4>1, <1>0, <2>1, ComplementCounted DEF GroupsOf
    <3>2. CASE ~ ByComplement
      BY <1>6, <3>2, <2>1 DEF Finish, Return, Target, GroupsOf
    <3> QED
      BY <3>1, <3>2
  <2>3. group' \in SUBSET Slots(MaxNodes)
    BY <2>1, <2>2, <1>0 DEF GroupsOf, Slots, Drawable
  <2>4. TypeOK' /\ Bookkeeping'
    BY <1>6, <2>3 DEF Inv, TypeOK, Bookkeeping, Finish, Return, params, AllSlots, Target, ByComplement
  <2> QED
    BY <1>6, <2>2, <2>4 DEF Inv, Finish, Return, params, ExactGroup, FailsOnlyExhausted
<1>7. ASSUME NEW word \in 0 .. WordMax, Draw(word) PROVE Inv'
  <2> DEFINE slot == SlotOf(word, nodeCount)
  <2>1. /\ Drawable(nodeCount, groupSize) /\ ~ IsTrivial(nodeCount, groupSize)
        /\ selected < Target /\ Target \in Nat
        /\ slot \in Slots(nodeCount) /\ slot \in Slots(MaxNodes)
    <3>1. Drawable(nodeCount, groupSize) /\ ~ IsTrivial(nodeCount, groupSize) /\ selected < Target
      BY <1>7 DEF Draw, Inv, Bookkeeping
    <3>2. nodeCount \in Nat \ {0} /\ nodeCount <= MaxNodes /\ word \in Nat
      BY <3>1, <1>0 DEF Drawable
    <3>3. slot \in Slots(nodeCount)
      BY <3>2, SlotInRange
    <3> QED
      BY <3>1, <3>2, <3>3, <1>0, TargetIsSmall DEF Slots
  <2>2. left' \in 0 .. DrawsPerDigest
    BY <1>7 DEF Draw, Inv, TypeOK
  <2>3. /\ bitmap' \subseteq Slots(nodeCount) /\ bitmap' \subseteq Slots(MaxNodes)
        /\ IsFiniteSet(bitmap') /\ selected' = Cardinality(bitmap')
        /\ selected' <= Target
    <3>1. CASE bitmap' = bitmap \cup {slot} /\ slot \notin bitmap /\ selected' = selected + 1
      BY <3>1, <2>1, <1>0, FS_AddElement, FS_CardinalityType DEF Inv, TypeOK, Bookkeeping, AllSlots
    <3>2. CASE bitmap' = bitmap /\ selected' = selected
      BY <3>2, <2>1, <1>0, FS_CardinalityType DEF Inv, TypeOK, Bookkeeping, AllSlots
    <3> QED
      BY <1>7, <3>1, <3>2 DEF Draw
  <2>4. selected' \in 0 .. MaxNodes
    BY <2>1, <2>3, <1>0, TargetIsSmall, FS_CardinalityType DEF Drawable
  <2>5. TypeOK'
    BY <1>7, <2>2, <2>3, <2>4 DEF Draw, Inv, TypeOK, params
  <2>6. Bookkeeping'
    BY <1>7, <2>1, <2>3 DEF Draw, params, Bookkeeping, AllSlots, Target, ByComplement, Inv
  <2> QED
    BY <1>7, <2>5, <2>6 DEF Draw, Inv, ExactGroup, FailsOnlyExhausted
<1>8. CASE UNCHANGED vars
  BY <1>8 DEF vars, Inv, TypeOK, Bookkeeping, ExactGroup, FailsOnlyExhausted, AllSlots, Target, ByComplement
<1> QED
  BY <1>1, <1>2, <1>3, <1>4, <1>5, <1>6, <1>7, <1>8 DEF Next

-----------------------------------------------------------------------------
(***************************************************************************)
(* The inductive invariant holds throughout.                               *)
(***************************************************************************)
THEOREM Invariance == Spec => []Inv
<1> QED
  BY InitInv, NextInv, PTL DEF Spec

(***************************************************************************)
(* The state of the draw keeps its types: no counter leaves its range.     *)
(***************************************************************************)
THEOREM TypeCorrect == Spec => []TypeOK
<1>1. Inv => TypeOK
  BY DEF Inv
<1> QED
  BY <1>1, Invariance, PTL

(***************************************************************************)
(* derive_group_bitmap returns only groups of exactly the requested size.  *)
(***************************************************************************)
THEOREM GroupIsExact == Spec => []ExactGroup
<1>1. Inv => ExactGroup
  BY DEF Inv
<1> QED
  BY <1>1, Invariance, PTL

(***************************************************************************)
(* Drawable parameters fail only when all MaxRounds digests are used up.   *)
(***************************************************************************)
THEOREM FailureIsExhaustion == Spec => []FailsOnlyExhausted
<1>1. Inv => FailsOnlyExhausted
  BY DEF Inv
<1> QED
  BY <1>1, Invariance, PTL

(***************************************************************************)
(* At every draw more slots are free than taken, for any number of members:*)
(* the smaller side of the group is drawn.                                 *)
(***************************************************************************)
THEOREM DrawIsCheap == Spec => []DrawsStayCheap
<1>1. Inv => DrawsStayCheap
  <2> SUFFICES ASSUME Inv, phase = "sample", selected < Target
               PROVE  Cardinality(AllSlots \ bitmap) > Cardinality(bitmap)
    BY DEF DrawsStayCheap
  <2>1. /\ nodeCount \in Nat /\ groupSize \in Nat
        /\ bitmap \in SUBSET Slots(nodeCount) /\ IsFiniteSet(bitmap)
        /\ Cardinality(bitmap) < Target
        /\ Drawable(nodeCount, groupSize) /\ ~ IsTrivial(nodeCount, groupSize)
    BY DEF Inv, TypeOK, Bookkeeping, AllSlots
  <2>2. Target \in Nat /\ 2 * Target <= nodeCount
    BY <2>1, TargetIsSmall
  <2>3. Cardinality(AllSlots \ bitmap) = nodeCount - Cardinality(bitmap)
    <3>1. AllSlots \cap bitmap = bitmap
      BY <2>1 DEF AllSlots
    <3>2. IsFiniteSet(AllSlots) /\ Cardinality(AllSlots) = nodeCount
      BY <2>1, SlotsCounted DEF AllSlots
    <3>3. Cardinality(AllSlots \ bitmap)
            = Cardinality(AllSlots) - Cardinality(AllSlots \cap bitmap)
      BY <3>2, <2>1, FS_Difference
    <3> QED
      BY <3>1, <3>2, <3>3
  <2> QED
    BY <2>1, <2>2, <2>3, FS_CardinalityType
<1> QED
  BY <1>1, Invariance, PTL

-----------------------------------------------------------------------------
(***************************************************************************)
(* The instance counts members as this module does.                        *)
(***************************************************************************)
LEMMA SameCardinality ==
  ASSUME NEW S
  PROVE  Choice!Cardinality(S) = Cardinality(S)
BY DEF Choice!Cardinality, Cardinality

(***************************************************************************)
(* The draw implements the abstract choice: it starts undecided, the steps *)
(* in which it concludes are a refusal, a choice or a failure of           *)
(* GroupChoice, and no other step shows.                                   *)
(***************************************************************************)
THEOREM ImplementsChoice == Spec => ChoiceSpec
<1>1. Init => Choice!Init
  BY DEF Init, Choice!Init
<1>2. Inv /\ Inv' /\ [Next]_vars => [Choice!Next]_(Choice!choiceVars)
  <2> SUFFICES ASSUME Inv, Inv', [Next]_vars
               PROVE  [Choice!Next]_(Choice!choiceVars)
    OBVIOUS
  <2>0. /\ Choice!Drawable(nodeCount, groupSize) = Drawable(nodeCount, groupSize)
        /\ Choice!IsTrivial(nodeCount, groupSize) = IsTrivial(nodeCount, groupSize)
        /\ Choice!GroupsOf(nodeCount, groupSize) = GroupsOf(nodeCount, groupSize)
    BY SameCardinality
       DEF Choice!Drawable, Drawable, Choice!IsTrivial, IsTrivial, Choice!GroupsOf,
           GroupsOf, Choice!Slots, Slots
  <2>1. CASE Refuse
    BY <2>0, <2>1 DEF Refuse, Fail, params, Choice!Next, Choice!Refuse
  <2>2. CASE Trivial
    <3>1. group' \in GroupsOf(nodeCount, groupSize) /\ phase' = "chosen"
      BY <2>2 DEF Trivial, Return, params, Inv, ExactGroup
    <3> QED
      BY <2>0, <2>2, <3>1 DEF Trivial, params, Choice!Next, Choice!Choose
  <2>3. CASE StartSampling
    BY <2>3 DEF StartSampling, params, Choice!choiceVars
  <2>4. CASE TakeDigest
    BY <2>4 DEF TakeDigest, params, Choice!choiceVars
  <2>5. CASE GiveUp
    <3>1. Drawable(nodeCount, groupSize) /\ ~ IsTrivial(nodeCount, groupSize)
      BY <2>5 DEF GiveUp, Inv, Bookkeeping
    <3> QED
      BY <2>0, <2>5, <3>1 DEF GiveUp, Fail, params, Choice!Next, Choice!GiveUp
  <2>6. CASE Finish
    <3>1. group' \in GroupsOf(nodeCount, groupSize) /\ Drawable(nodeCount, groupSize)
      BY <2>6 DEF Finish, Return, params, Inv, ExactGroup, Bookkeeping
    <3> QED
      BY <2>0, <2>6, <3>1 DEF Finish, Return, params, Choice!Next, Choice!Choose
  <2>7. ASSUME NEW word \in 0 .. WordMax, Draw(word)
        PROVE  [Choice!Next]_(Choice!choiceVars)
    BY <2>7 DEF Draw, params, Choice!choiceVars
  <2>8. CASE UNCHANGED vars
    BY <2>8 DEF vars, Choice!choiceVars
  <2> QED
    BY <2>1, <2>2, <2>3, <2>4, <2>5, <2>6, <2>7, <2>8 DEF Next
<1> QED
  BY <1>1, <1>2, Invariance, PTL DEF Spec, ChoiceSpec, Choice!Spec

-----------------------------------------------------------------------------
(***************************************************************************)
(* A number in the k-th block of n numbers has quotient k.                 *)
(***************************************************************************)
LEMMA BlockOf ==
  ASSUME NEW n \in Nat \ {0}, NEW k \in Nat, NEW slot \in 0 .. n - 1
  PROVE  (n * k + slot) % n = slot /\ (n * k + slot) \div n = k
<1> DEFINE word == n * k + slot
<1> DEFINE q == word \div n
<1> DEFINE r == word % n
<1>1. word \in Nat /\ n * k \in Nat
  OBVIOUS
<1>2. q \in Nat /\ r \in 0 .. n - 1 /\ word = n * q + r /\ n * q \in Nat
  BY <1>1
<1>3. n * k + slot = n * q + r
  BY <1>2
<1> HIDE DEF q, r
<1>4. CASE k < q
  <2>1. q - 1 - k \in Nat
    BY <1>2, <1>4
  <2>2. n * (q - 1 - k) \in Nat
    BY <2>1
  <2>3. n * (q - 1 - k) = n * q - n - n * k
    BY <1>2
  <2> QED
    BY <1>1, <1>2, <1>3, <2>2, <2>3
<1>5. CASE q < k
  <2>1. k - 1 - q \in Nat
    BY <1>2, <1>5
  <2>2. n * (k - 1 - q) \in Nat
    BY <2>1
  <2>3. n * (k - 1 - q) = n * k - n - n * q
    BY <1>2
  <2> QED
    BY <1>1, <1>2, <1>3, <2>2, <2>3
<1>6. k = q
  BY <1>2, <1>4, <1>5
<1>7. r = slot
  BY <1>2, <1>3, <1>6
<1> QED
  BY <1>6, <1>7 DEF q, r

(***************************************************************************)
(* The words that hit a slot, one in each complete block below WordMax.    *)
(***************************************************************************)
Hits(n, slot) == {word \in 0 .. WordMax : Accepted(word, n) /\ SlotOf(word, n) = slot}

\* A block has one hit, so the hits are as many as the blocks.
LEMMA HitsCounted ==
  ASSUME NEW n \in 1 .. MaxNodes, NEW slot \in Slots(n)
  PROVE  /\ Hits(n, slot) # {}
         /\ Cardinality(Hits(n, slot)) = WordMax \div n
<1> DEFINE blocks == WordMax \div n
<1>1. n \in Nat \ {0} /\ slot \in 0 .. n - 1 /\ WordMax \in Nat /\ n <= WordMax
  BY WordAssumption DEF Slots
<1>2. /\ blocks \in Nat /\ n * blocks <= WordMax /\ WordMax < n * blocks + n
      /\ blocks * n = n * blocks
  BY <1>1
<1>3. Limit(n) = n * blocks
  BY <1>1, <1>2 DEF Limit
<1> HIDE DEF blocks
<1>4. blocks >= 1
  <2>1. blocks = 0 => n * blocks = 0
    BY <1>1
  <2> QED
    BY <1>1, <1>2, <2>1
<1> DEFINE hitIn == [k \in 0 .. blocks - 1 |-> n * k + slot]
<1>5. ASSUME NEW k \in 0 .. blocks - 1
      PROVE  n * k + slot \in Hits(n, slot) /\ (n * k + slot) \div n = k
  <2>1. k \in Nat /\ blocks - 1 - k \in Nat
    BY <1>2
  <2>2. n * (blocks - 1 - k) \in Nat
    BY <1>1, <2>1
  <2>3. n * (blocks - 1 - k) = n * blocks - n - n * k
    BY <1>1, <1>2, <2>1
  <2>4. n * k \in Nat /\ n * blocks \in Nat
    BY <1>1, <1>2, <2>1
  <2>5. n * k + slot < n * blocks /\ n * k + slot \in 0 .. WordMax
    BY <1>1, <1>2, <2>2, <2>3, <2>4
  <2>6. (n * k + slot) % n = slot /\ (n * k + slot) \div n = k
    BY <1>1, <2>1, BlockOf
  <2> QED
    BY <1>3, <2>5, <2>6 DEF Hits, Accepted, SlotOf
<1>6. ASSUME NEW word \in Hits(n, slot)
      PROVE  \E k \in 0 .. blocks - 1 : n * k + slot = word
  <2> DEFINE k == word \div n
  <2>1. word \in Nat /\ word < n * blocks /\ word % n = slot
    BY <1>1, <1>3 DEF Hits, Accepted, SlotOf
  <2>2. k \in Nat /\ word = n * k + slot
    BY <1>1, <2>1
  <2> HIDE DEF k
  <2>3. k < blocks
    <3> SUFFICES ASSUME ~ k < blocks PROVE FALSE
      OBVIOUS
    <3>1. k - blocks \in Nat
      BY <1>2, <2>2
    <3>2. n * (k - blocks) \in Nat
      BY <1>1, <3>1
    <3>3. n * (k - blocks) = n * k - n * blocks
      BY <1>1, <1>2, <2>2
    <3>4. n * k \in Nat /\ n * blocks \in Nat
      BY <1>1, <1>2, <2>2
    <3> QED
      BY <1>1, <2>1, <2>2, <3>2, <3>3, <3>4
  <2> QED
    BY <1>2, <2>2, <2>3
<1>7. hitIn \in Surjection(0 .. blocks - 1, Hits(n, slot))
  BY <1>5, <1>6 DEF Surjection
<1>8. hitIn \in Injection(0 .. blocks - 1, Hits(n, slot))
  <2>1. \A k, l \in 0 .. blocks - 1 : n * k + slot = n * l + slot => k = l
    BY <1>5
  <2> QED
    BY <1>5, <2>1 DEF Injection, IsInjective
<1>9. IsFiniteSet(0 .. blocks - 1) /\ Cardinality(0 .. blocks - 1) = blocks
  BY <1>2, <1>4, 0 \in Int, blocks - 1 \in Int, FS_Interval
<1> HIDE DEF hitIn
<1>10. Cardinality(Hits(n, slot)) = blocks
  BY <1>7, <1>8, <1>9, FS_Surjection
<1>11. 0 \in 0 .. blocks - 1
  BY <1>2, <1>4
<1> QED
  BY <1>5, <1>10, <1>11 DEF blocks

(***************************************************************************)
(* Every slot is hit by the same number of accepted words, however many    *)
(* members and whatever the size of a word (the rejection limit).          *)
(***************************************************************************)
THEOREM DrawIsFair == Spec => []FairDraw
<1>1. Inv => FairDraw
  <2> SUFFICES ASSUME Inv, phase = "sample", NEW slot \in AllSlots
               PROVE  /\ Hits(nodeCount, slot) # {}
                      /\ Cardinality(Hits(nodeCount, slot)) = Cardinality(Hits(nodeCount, 0))
    BY DEF FairDraw, Hits
  <2>1. nodeCount \in 1 .. MaxNodes
    BY DEF Inv, TypeOK, Bookkeeping, Drawable
  <2>2. 0 \in Slots(nodeCount) /\ slot \in Slots(nodeCount)
    BY <2>1, WordAssumption DEF AllSlots, Slots
  <2> QED
    BY <2>1, <2>2, HitsCounted
<1> QED
  BY <1>1, Invariance, PTL

=============================================================================
