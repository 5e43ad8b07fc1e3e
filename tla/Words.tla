------------------------------- MODULE Words -------------------------------
(***************************************************************************)
(* Multi-precision words as scalar.rs keeps them: a 32-byte big-endian     *)
(* integer, and four u64 limbs, least significant first.  The widths are   *)
(* parameters (8 bits a byte and 8 bytes a limb in the code); indices      *)
(* start at 0, as there.                                                   *)
(***************************************************************************)
EXTENDS Integers, FiniteSets

CONSTANTS ByteBits, LimbBytes

ASSUME WidthAssumption == ByteBits \in Nat \ {0} /\ LimbBytes \in Nat \ {0}

Pow(b, n) == LET p[i \in 0 .. n] == IF i = 0 THEN 1 ELSE p[i - 1] * b IN p[n]

\* The number with the digits d[0], ..., d[n - 1], most significant first.
Numeral(d, n, b) ==
  LET lead[i \in 0 .. n] == IF i = 0 THEN 0 ELSE lead[i - 1] * b + d[i - 1]
  IN  lead[n]

Byte == Pow(2, ByteBits)
LimbBits == ByteBits * LimbBytes
Base == Pow(Byte, LimbBytes)
Size == 4 * LimbBytes

\* The number little-endian limbs stand for, and back.
Val(x) ==
  LET k == Cardinality(DOMAIN x)
  IN  Numeral([j \in 0 .. k - 1 |-> x[k - 1 - j]], k, Base)

LimbsOf(v, k) == [i \in 0 .. k - 1 |-> (v \div Pow(Base, i)) % Base]

be32_to_limbs_le(x) ==
  [i \in 0 .. 3 |-> Numeral([j \in 0 .. LimbBytes - 1 |-> x[Size - (i + 1) * LimbBytes + j]],
                           LimbBytes, Byte)]

limbs_le_to_be32(x) ==
  [j \in 0 .. Size - 1 |->
     (x[3 - (j \div LimbBytes)] \div Pow(Byte, LimbBytes - 1 - (j % LimbBytes))) % Byte]

BytesOf(v) == limbs_le_to_be32(LimbsOf(v, 4))

get_bit_be(x, index) ==
  (x[index \div ByteBits] \div Pow(2, ByteBits - 1 - (index % ByteBits))) % 2

IsLess(a, b) ==
  \E i \in DOMAIN a :
    a[i] < b[i] /\ \A j \in DOMAIN a : j > i => a[j] = b[j]

\* As a bug: the borrow of the second subtraction is dropped.
DroppedBorrow(a, b) ==
  [i \in DOMAIN a |->
     (a[i] - b[i] - (IF i > 0 /\ a[i - 1] < b[i - 1] THEN 1 ELSE 0)) % Base]

\* Subtraction modulo the width: a borrow arises from either subtraction.
Minus(a, b) ==
  LET borrow[i \in 0 .. Cardinality(DOMAIN a)] ==
        IF i > 0 /\ a[i - 1] - b[i - 1] - borrow[i - 1] < 0 THEN 1 ELSE 0
  IN  [i \in DOMAIN a |-> (a[i] - b[i] - borrow[i]) % Base]

\* One row of a schoolbook product: out + digit * b * Base^i, carried along.
Row(out, digit, b, i) ==
  LET m == Cardinality(DOMAIN b)
      carry[j \in 0 .. m] ==
        IF j = 0 THEN 0
        ELSE (digit * b[j - 1] + out[i + j - 1] + carry[j - 1]) \div Base
  IN  [k \in DOMAIN out |->
         CASE k \in i .. i + m - 1 -> (digit * b[k - i] + out[k] + carry[k - i]) % Base
           [] k = i + m -> carry[m]
           [] OTHER -> out[k]]

mul_limbs(a, b) ==
  LET k == Cardinality(DOMAIN a)
      rows[i \in 0 .. k] ==
        IF i = 0 THEN [j \in 0 .. k + Cardinality(DOMAIN b) - 1 |-> 0]
        ELSE Row(rows[i - 1], a[i - 1], b, i - 1)
  IN  rows[k]

Limb(x, i) == IF i \in DOMAIN x THEN x[i] ELSE 0

\* Five limbs of x, from limb lo on, shifted right by `shift` bits more.
ShiftRight(x, lo, shift) ==
  [i \in 0 .. 4 |-> Limb(x, lo + i) \div Pow(2, shift)
                    + ((Limb(x, lo + i + 1) * Pow(2, LimbBits - shift)) % Base)]

Low(x, k) == [i \in 0 .. k - 1 |-> x[i]]
=============================================================================
