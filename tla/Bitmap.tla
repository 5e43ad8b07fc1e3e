------------------------------- MODULE Bitmap -------------------------------
(***************************************************************************)
(* Bitmap (bitmap.rs) as a word: a group is drawn into four limbs, a live  *)
(* mask is set bit by bit, and either is then peeled from its lowest bit.  *)
(* The other modules take a bitmap as the set of its positions; this one   *)
(* says that the words really are those sets.                              *)
(***************************************************************************)
EXTENDS Words, FiniteSetsExt, Sequences

VARIABLES
  count,    \* node_count
  mode,     \* what the bitmap is being used for
  limbs,    \* the limbs a group is drawn into
  word,     \* the bitmap
  members,  \* the positions meant to be in it
  left,     \* what for_each_set_bit has not visited
  visited   \* what it has, in order

bitmapVars == <<count, mode, limbs, word, members, left, visited>>

Width == 4 * LimbBits
Ones == Pow(2, Width) - 1
Positions(bm) == {pos \in 0 .. Width - 1 : (bm \div Pow(2, pos)) % 2 = 1}

\* The word with these bits set; the operators of Rust work bit by bit.
WordOf(set) ==
  Numeral([j \in 0 .. Width - 1 |-> IF Width - 1 - j \in set THEN 1 ELSE 0], Width, 2)

And(x, y) == WordOf(Positions(x) \cap Positions(y))
Or(x, y) == WordOf(Positions(x) \cup Positions(y))
Xor(x, y) == WordOf((Positions(x) \ Positions(y)) \cup (Positions(y) \ Positions(x)))
Complement(bm) == Ones - bm

clear_bit(bm, pos) == And(bm, Complement(Pow(2, pos)))

trailing_zeros(bm) == Min(Positions(bm))

popcount(bm) == Cardinality(Positions(bm))

is_subset(bm, other) == And(bm, Complement(other)) = 0

validate_upper_bits_clear(bm, n) ==
  n <= Width /\ is_subset(bm, IF n = Width THEN Ones ELSE Pow(2, n) - 1)

\* A bitmap less its n lowest bits.
Peel(bm, n) ==
  LET peeled[i \in 0 .. n] ==
        IF i = 0 THEN bm
        ELSE IF peeled[i - 1] = 0 THEN 0
        ELSE clear_bit(peeled[i - 1], trailing_zeros(peeled[i - 1]))
  IN  peeled[n]

\* The bit of a rank, or Width for none.
nth_set_bit(bm, rank) ==
  IF Peel(bm, rank) = 0 THEN Width ELSE trailing_zeros(Peel(bm, rank))

\* As a bug: the limbs are laid out most significant first.
SwappedLimbs(x) == Val(be32_to_limbs_le(limbs_le_to_be32([i \in 0 .. 3 |-> x[3 - i]])))

\* load of the big-endian bytes the limbs are written to.
from_limbs(x) == Val(be32_to_limbs_le(limbs_le_to_be32(x)))

limb_of(pos) == [limb |-> pos \div LimbBits, mask |-> Pow(2, pos % LimbBits)]

full_mask_limbs(n) ==
  [i \in 0 .. 3 |-> LET low == i * LimbBits
                    IN  IF n >= low + LimbBits THEN Base - 1
                        ELSE IF n > low THEN Pow(2, n - low) - 1
                        ELSE 0]

-----------------------------------------------------------------------------
BitmapInit ==
  /\ count \in 1 .. Width
  /\ mode \in {"draw", "mark"}
  /\ limbs = [i \in 0 .. 3 |-> 0]
  /\ word = 0 /\ members = {} /\ left = 0 /\ visited = <<>>

\* sample_without_replacement: a position that is not taken yet.
Draw(pos) ==
  LET at == limb_of(pos)
  IN  /\ mode = "draw"
      /\ And(limbs[at.limb], at.mask) = 0
      /\ limbs' = [limbs EXCEPT ![at.limb] = Or(@, at.mask)]
      /\ members' = members \cup {pos}
      /\ UNCHANGED <<count, mode, word, left, visited>>

Use(bm) == word' = bm /\ left' = bm /\ mode' = "peel"

\* derive_group_bitmap returns what was drawn, or its complement.
ReturnDrawn ==
  /\ mode = "draw"
  /\ Use(from_limbs(limbs))
  /\ UNCHANGED <<count, limbs, members, visited>>

ReturnComplement ==
  /\ mode = "draw"
  /\ Use(from_limbs([i \in 0 .. 3 |-> Xor(full_mask_limbs(count)[i], limbs[i])]))
  /\ members' = (0 .. count - 1) \ members
  /\ UNCHANGED <<count, limbs, visited>>

\* set_bit, as live_slots calls it.
SetBit(pos) ==
  /\ mode = "mark"
  /\ \A other \in members : other < pos
  /\ word' = Or(word, Pow(2, pos))
  /\ members' = members \cup {pos}
  /\ UNCHANGED <<count, mode, limbs, left, visited>>

StartPeel ==
  /\ mode = "mark"
  /\ Use(word)
  /\ UNCHANGED <<count, limbs, members, visited>>

\* for_each_set_bit.
Visit ==
  /\ mode = "peel" /\ left # 0
  /\ left' = clear_bit(left, trailing_zeros(left))
  /\ visited' = Append(visited, trailing_zeros(left))
  /\ UNCHANGED <<count, mode, limbs, word, members>>

Peeled == mode = "peel" /\ left = 0 /\ UNCHANGED bitmapVars

BitmapNext ==
  \/ \E pos \in 0 .. count - 1 : Draw(pos) \/ SetBit(pos)
  \/ ReturnDrawn \/ ReturnComplement \/ StartPeel \/ Visit \/ Peeled

BitmapSpec == BitmapInit /\ [][BitmapNext]_bitmapVars

-----------------------------------------------------------------------------
(***************************************************************************)
(* Whichever way a bitmap was built, it holds the positions meant and no   *)
(* other; the range check accepts it for exactly the node counts that      *)
(* cover them; and its bits are visited once each, in the order in which   *)
(* nth_set_bit ranks them, whatever limb boundaries they lie across.       *)
(***************************************************************************)
WordsAreSets ==
  mode = "peel" =>
    /\ Positions(word) = members
    /\ popcount(word) = Len(visited) + popcount(left)
    /\ \A n \in 0 .. Width + 1 :
         validate_upper_bits_clear(word, n) <=>
           n <= Width /\ members \subseteq 0 .. n - 1
    /\ \A k \in 1 .. Len(visited) : nth_set_bit(word, k - 1) = visited[k]
    /\ \A k \in 2 .. Len(visited) : visited[k - 1] < visited[k]
    /\ left = 0 => nth_set_bit(word, Len(visited)) = Width
=============================================================================
