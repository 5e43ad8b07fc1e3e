----------------------------- MODULE WordProofs -----------------------------
(***************************************************************************)
(* The arithmetic on words is right at every width: Barrett reduction on   *)
(* whole numbers, for every order in the upper half of its width; the limb *)
(* arithmetic of Scalar, every step of which is one of Barrett's on the    *)
(* numbers its words stand for, whatever the limbs carry and borrow; the   *)
(* powers and inverses made of it, by Fermat's theorem; and the bitmaps,   *)
(* which are the sets of their positions.                                  *)
(***************************************************************************)
EXTENDS Scalar, Barrett, Bitmap, FiniteSetTheorems, WellFoundedInduction, TLAPS

(***************************************************************************)
(* Induction and recursion on the numbers up to a bound.                   *)
(***************************************************************************)

\* A set of naturals that is not empty has a least element.
LEMMA LeastNumber ==
  ASSUME NEW set \in SUBSET Nat, set # {}
  PROVE  \E least \in set : \A other \in set : least <= other
<1> DEFINE Smaller == {pair \in Nat \X Nat : pair[1] < pair[2]}
<1>1. OpToRel(<, Nat) = Smaller
  BY Zenon DEF OpToRel
<1>2. IsWellFoundedOn(Smaller, Nat)
  BY <1>1, NatLessThanWellFounded
<1>3. PICK least \in set : \A other \in set : <<other, least>> \notin Smaller
  BY <1>2, WFMin
<1>4. ASSUME NEW other \in set PROVE least <= other
  <2>1. ~ (other < least)
    BY <1>3
  <2> QED
    BY <2>1, least \in Nat, other \in Nat
<1> QED
  BY <1>4

\* What holds of zero and goes from each number to the next holds up to the bound.
LEMMA Ascent ==
  ASSUME NEW n \in Nat, NEW Holds, 0 \in Holds,
         \A i \in 0 .. n - 1 : i \in Holds => i + 1 \in Holds
  PROVE  \A i \in 0 .. n : i \in Holds
<1> DEFINE Bad == {i \in 0 .. n : i \notin Holds}
<1> SUFFICES ASSUME Bad # {} PROVE FALSE
  OBVIOUS
<1>1. PICK least \in Bad : \A other \in Bad : least <= other
  BY LeastNumber, Bad \in SUBSET Nat
<1>2. least - 1 \in 0 .. n - 1 /\ least = (least - 1) + 1
  BY <1>1
<1>3. least - 1 \in Holds
  BY <1>1, <1>2
<1> QED
  BY <1>1, <1>2, <1>3

\* The same from the bound down.
LEMMA Descent ==
  ASSUME NEW n \in Nat, NEW Holds, n \in Holds,
         \A i \in 0 .. n - 1 : i + 1 \in Holds => i \in Holds
  PROVE  \A i \in 0 .. n : i \in Holds
<1> DEFINE Mirror == {j \in 0 .. n : n - j \in Holds}
<1>1. 0 \in Mirror
  OBVIOUS
<1>2. ASSUME NEW j \in 0 .. n - 1, j \in Mirror PROVE j + 1 \in Mirror
  <2>1. n - (j + 1) \in 0 .. n - 1 /\ (n - (j + 1)) + 1 = n - j
    OBVIOUS
  <2> QED
    BY <1>2, <2>1
<1>3. \A j \in 0 .. n : j \in Mirror
  <2> HIDE DEF Mirror
  <2> QED
    BY <1>1, <1>2, Ascent
<1>4. ASSUME NEW i \in 0 .. n PROVE i \in Holds
  <2>1. n - i \in 0 .. n /\ n - (n - i) = i
    OBVIOUS
  <2> QED
    BY <1>3, <2>1
<1> QED
  BY <1>4

\* The function that a recursion with this first value and this step defines.
Recursion(f, n, first, step) ==
  f = [j \in 0 .. n |-> IF j = 0 THEN first ELSE step[j][f[j - 1]]]

\* A recursion up to a bound has a solution.
LEMMA RecursionExists ==
  ASSUME NEW n \in Nat, NEW S, NEW first \in S, NEW step \in [1 .. n -> [S -> S]]
  PROVE  \E f \in [0 .. n -> S] : Recursion(f, n, first, step)
<1> DEFINE Solved == {m \in 0 .. n : \E f \in [0 .. m -> S] : Recursion(f, m, first, step)}
<1>1. 0 \in Solved
  <2> DEFINE f == [j \in 0 .. 0 |-> first]
  <2>1. f \in [0 .. 0 -> S] /\ Recursion(f, 0, first, step)
    BY DEF Recursion
  <2> QED
    BY <2>1
<1>2. ASSUME NEW m \in 0 .. n - 1, m \in Solved PROVE m + 1 \in Solved
  <2>1. PICK f \in [0 .. m -> S] : Recursion(f, m, first, step)
    BY <1>2
  <2> DEFINE g == [j \in 0 .. m + 1 |-> IF j = m + 1 THEN step[m + 1][f[m]] ELSE f[j]]
  <2>2. f[m] \in S /\ step[m + 1] \in [S -> S]
    BY <2>1
  <2>3. step[m + 1][f[m]] \in S
    BY <2>2
  <2>4. g \in [0 .. m + 1 -> S]
    BY <2>1, <2>3
  <2>5. ASSUME NEW j \in 0 .. m + 1
        PROVE  g[j] = IF j = 0 THEN first ELSE step[j][g[j - 1]]
    <3>1. CASE j = m + 1
      <4>1. j # 0 /\ j - 1 = m /\ g[m] = f[m]
        BY <3>1
      <4> QED
        BY <3>1, <4>1
    <3>2. CASE j # m + 1
      <4>1. j \in 0 .. m /\ g[j] = f[j]
        BY <3>2
      <4>2. j # 0 => j - 1 \in 0 .. m + 1 /\ j - 1 # m + 1
        BY <4>1
      <4>3. j # 0 => g[j - 1] = f[j - 1]
        BY <4>2
      <4>4. f[j] = IF j = 0 THEN first ELSE step[j][f[j - 1]]
        BY <2>1, <4>1 DEF Recursion
      <4> QED
        BY <4>1, <4>3, <4>4
    <3> QED
      BY <3>1, <3>2
  <2>6. Recursion(g, m + 1, first, step)
    BY <2>4, <2>5 DEF Recursion
  <2> QED
    BY <2>4, <2>6
<1>3. \A m \in 0 .. n : m \in Solved
  <2> HIDE DEF Solved
  <2> QED
    BY <1>1, <1>2, Ascent
<1> QED
  BY <1>3

\* Functions that start alike and go on alike are alike.
LEMMA Agreement ==
  ASSUME NEW m \in Nat, NEW f, NEW g, g[0] = f[0],
         \A j \in 0 .. m - 1 : g[j] = f[j] => g[j + 1] = f[j + 1]
  PROVE  \A j \in 0 .. m : g[j] = f[j]
<1> DEFINE Same == {j \in 0 .. m : g[j] = f[j]}
<1>1. 0 \in Same
  OBVIOUS
<1>2. ASSUME NEW j \in 0 .. m - 1, j \in Same PROVE j + 1 \in Same
  BY <1>2
<1>3. \A j \in 0 .. m : j \in Same
  <2> HIDE DEF Same
  <2> QED
    BY <1>1, <1>2, Ascent
<1> QED
  BY <1>3

(***************************************************************************)
(* Powers, and numbers from their digits.                                  *)
(***************************************************************************)

\* Powers as the recursion defines them.
LEMMA PowEquations ==
  ASSUME NEW b \in Int, NEW n \in Nat
  PROVE  Pow(b, n) \in Int /\ Pow(b, 0) = 1 /\ Pow(b, n + 1) = Pow(b, n) * b
<1> DEFINE top == n + 1
           step == [i \in 1 .. top |-> [v \in Int |-> v * b]]
           Solves(f, m) == f = [i \in 0 .. m |-> IF i = 0 THEN 1 ELSE f[i - 1] * b]
           chosen(m) == CHOOSE f : Solves(f, m)
<1>1. top \in Nat /\ step \in [1 .. top -> [Int -> Int]]
  OBVIOUS
<1>2. PICK f \in [0 .. top -> Int] : Recursion(f, top, 1, step)
  <2> HIDE DEF step, top
  <2> QED
    BY <1>1, 1 \in Int, RecursionExists
<1>3. ASSUME NEW i \in 1 .. top, NEW v \in Int PROVE step[i][v] = v * b
  BY <1>3
<1> HIDE DEF step
<1>4. \A i \in 1 .. top : f[i] = f[i - 1] * b
  <2> SUFFICES ASSUME NEW i \in 1 .. top PROVE f[i] = f[i - 1] * b
    OBVIOUS
  <2>1. f[i - 1] \in Int
    BY <1>2
  <2>2. f[i] = step[i][f[i - 1]]
    BY <1>2 DEF Recursion
  <2> QED
    BY <1>3, <2>1, <2>2
<1>5. f[0] = 1
  BY <1>2 DEF Recursion
<1>6. ASSUME NEW m \in 0 .. top PROVE Pow(b, m) = f[m]
  <2>1. Solves([i \in 0 .. m |-> f[i]], m)
    BY <1>4, <1>5
  <2>2. Solves(chosen(m), m)
    BY <2>1
  <2> DEFINE g == chosen(m)
  <2>3. Pow(b, m) = g[m]
    BY DEF Pow
  <2>4. g = [i \in 0 .. m |-> IF i = 0 THEN 1 ELSE g[i - 1] * b]
    BY <2>2
  <2> HIDE DEF g
  <2>5. g[0] = f[0]
    BY <1>5, <2>4
  <2>6. ASSUME NEW j \in 0 .. m - 1, g[j] = f[j] PROVE g[j + 1] = f[j + 1]
    <3>1. j + 1 \in 0 .. m /\ j + 1 \in 1 .. top /\ (j + 1) - 1 = j
      BY <1>6
    <3>2. g[j + 1] = g[j] * b
      BY <2>4, <3>1
    <3>3. f[j + 1] = f[j] * b
      BY <1>4, <3>1
    <3> QED
      BY <2>6, <3>2, <3>3
  <2>7. \A j \in 0 .. m : g[j] = f[j]
    BY <2>5, <2>6, m \in Nat, Agreement
  <2> QED
    BY <2>3, <2>7
<1> QED
  BY <1>2, <1>4, <1>5, <1>6

\* A number from its digits, one digit after the other.
LEMMA NumeralEquations ==
  ASSUME NEW b \in Int, NEW n \in Nat, NEW d, \A i \in 0 .. n - 1 : d[i] \in Int
  PROVE  /\ Numeral(d, 0, b) = 0
         /\ \A i \in 0 .. n : Numeral(d, i, b) \in Int
         /\ \A i \in 0 .. n - 1 : Numeral(d, i + 1, b) = Numeral(d, i, b) * b + d[i]
<1> DEFINE step == [i \in 1 .. n |-> [v \in Int |-> v * b + d[i - 1]]]
           Solves(f, m) ==
             f = [i \in 0 .. m |-> IF i = 0 THEN 0 ELSE f[i - 1] * b + d[i - 1]]
           chosen(m) == CHOOSE f : Solves(f, m)
<1>1. step \in [1 .. n -> [Int -> Int]]
  <2> SUFFICES ASSUME NEW i \in 1 .. n, NEW v \in Int PROVE v * b + d[i - 1] \in Int
    OBVIOUS
  <2>1. d[i - 1] \in Int /\ v * b \in Int
    OBVIOUS
  <2> QED
    BY <2>1
<1>2. PICK f \in [0 .. n -> Int] : Recursion(f, n, 0, step)
  <2> HIDE DEF step
  <2> QED
    BY <1>1, 0 \in Int, RecursionExists
<1>3. ASSUME NEW i \in 1 .. n, NEW v \in Int PROVE step[i][v] = v * b + d[i - 1]
  BY <1>3
<1> HIDE DEF step
<1>4. \A i \in 1 .. n : f[i] = f[i - 1] * b + d[i - 1]
  <2> SUFFICES ASSUME NEW i \in 1 .. n PROVE f[i] = f[i - 1] * b + d[i - 1]
    OBVIOUS
  <2>1. f[i - 1] \in Int
    BY <1>2
  <2>2. f[i] = step[i][f[i - 1]]
    BY <1>2 DEF Recursion
  <2> QED
    BY <1>3, <2>1, <2>2
<1>5. f[0] = 0
  BY <1>2 DEF Recursion
<1>6. ASSUME NEW m \in 0 .. n PROVE Numeral(d, m, b) = f[m]
  <2>1. Solves([i \in 0 .. m |-> f[i]], m)
    BY <1>4, <1>5
  <2>2. Solves(chosen(m), m)
    BY <2>1
  <2> DEFINE g == chosen(m)
  <2>3. Numeral(d, m, b) = g[m]
    BY DEF Numeral
  <2>4. g = [i \in 0 .. m |-> IF i = 0 THEN 0 ELSE g[i - 1] * b + d[i - 1]]
    BY <2>2
  <2> HIDE DEF g
  <2>5. g[0] = f[0]
    BY <1>5, <2>4
  <2>6. ASSUME NEW j \in 0 .. m - 1, g[j] = f[j] PROVE g[j + 1] = f[j + 1]
    <3>1. j + 1 \in 0 .. m /\ j + 1 \in 1 .. n /\ (j + 1) - 1 = j
      BY <1>6
    <3>2. g[j + 1] = g[j] * b + d[j]
      BY <2>4, <3>1
    <3>3. f[j + 1] = f[j] * b + d[j]
      BY <1>4, <3>1
    <3> QED
      BY <2>6, <3>2, <3>3
  <2>7. \A j \in 0 .. m : g[j] = f[j]
    BY <2>5, <2>6, m \in Nat, Agreement
  <2> QED
    BY <2>3, <2>7
<1> QED
  BY <1>2, <1>4, <1>5, <1>6

\* Powers of a positive number are positive.
LEMMA PowPositive ==
  ASSUME NEW b \in Nat \ {0}, NEW n \in Nat
  PROVE  Pow(b, n) \in Nat \ {0}
<1> DEFINE Good == {i \in 0 .. n : Pow(b, i) \in Nat \ {0}}
<1>1. 0 \in Good
  BY PowEquations
<1>2. ASSUME NEW i \in 0 .. n - 1, i \in Good PROVE i + 1 \in Good
  <2>1. Pow(b, i + 1) = Pow(b, i) * b
    BY PowEquations
  <2>2. Pow(b, i) * b \in Nat \ {0}
    <3> DEFINE p == Pow(b, i)
    <3>1. p \in Nat \ {0}
      BY <1>2
    <3> HIDE DEF p
    <3>2. p * b \in Nat /\ p * b # 0
      BY <3>1
    <3> QED
      BY <3>2 DEF p
  <2> QED
    BY <2>1, <2>2
<1>3. \A i \in 0 .. n : i \in Good
  <2> HIDE DEF Good
  <2> QED
    BY <1>1, <1>2, Ascent
<1> QED
  BY <1>3

\* Exponents add up.
LEMMA PowSum ==
  ASSUME NEW b \in Int, NEW m \in Nat, NEW n \in Nat
  PROVE  Pow(b, m + n) = Pow(b, m) * Pow(b, n)
<1> DEFINE Good == {i \in 0 .. n : Pow(b, m + i) = Pow(b, m) * Pow(b, i)}
<1>1. 0 \in Good
  <2>1. m + 0 = m /\ Pow(b, m) \in Int /\ Pow(b, 0) = 1
    BY PowEquations
  <2>2. Pow(b, m) * 1 = Pow(b, m)
    BY <2>1
  <2> QED
    BY <2>1, <2>2
<1>2. ASSUME NEW i \in 0 .. n - 1, i \in Good PROVE i + 1 \in Good
  <2> DEFINE p == Pow(b, m)
             q == Pow(b, i)
  <2>1. p \in Int /\ q \in Int /\ Pow(b, i + 1) = q * b
    BY PowEquations
  <2>2. Pow(b, (m + i) + 1) = Pow(b, m + i) * b
    BY PowEquations, m + i \in Nat
  <2>3. Pow(b, m + i) = p * q
    BY <1>2
  <2> HIDE DEF p, q
  <2>4. (p * q) * b = p * (q * b)
    BY <2>1
  <2>5. Pow(b, m + (i + 1)) = p * Pow(b, i + 1)
    <3>1. (m + i) + 1 = m + (i + 1)
      OBVIOUS
    <3> QED
      BY <3>1, <2>1, <2>2, <2>3, <2>4
  <2> QED
    BY <2>5 DEF p
<1>3. \A i \in 0 .. n : i \in Good
  <2> HIDE DEF Good
  <2> QED
    BY <1>1, <1>2, Ascent
<1> QED
  BY <1>3

\* Exponents multiply.
LEMMA PowProduct ==
  ASSUME NEW b \in Int, NEW m \in Nat, NEW n \in Nat
  PROVE  Pow(b, m * n) = Pow(Pow(b, m), n)
<1> DEFINE p == Pow(b, m)
           Good == {i \in 0 .. n : Pow(b, m * i) = Pow(p, i)}
<1>1. 0 \in Good
  <2>1. m * 0 = 0 /\ p \in Int
    BY PowEquations
  <2>2. Pow(p, 0) = 1 /\ Pow(b, 0) = 1
    BY <2>1, PowEquations
  <2> QED
    BY <2>1, <2>2
<1>2. ASSUME NEW i \in 0 .. n - 1, i \in Good PROVE i + 1 \in Good
  <2>1. m * i \in Nat /\ m * (i + 1) = m * i + m /\ p \in Int
    BY PowEquations
  <2>2. Pow(b, m * i + m) = Pow(b, m * i) * Pow(b, m)
    BY <2>1, PowSum
  <2>3. Pow(p, i + 1) = Pow(p, i) * p
    BY <2>1, PowEquations
  <2> QED
    BY <1>2, <2>1, <2>2, <2>3
<1>3. \A i \in 0 .. n : i \in Good
  <2> HIDE DEF Good
  <2> QED
    BY <1>1, <1>2, Ascent
<1> QED
  BY <1>3

-----------------------------------------------------------------------------
(***************************************************************************)
(* Division.                                                               *)
(***************************************************************************)

\* Division of naturals rounds down.
LEMMA DivisionRoundsDown ==
  ASSUME NEW a \in Nat, NEW b \in Nat \ {0}
  PROVE  /\ a \div b \in Nat
         /\ b * (a \div b) <= a
         /\ a < b * (a \div b) + b
  OBVIOUS

\* A common positive factor may be cancelled.
LEMMA Cancel ==
  ASSUME NEW a \in Int, NEW b \in Int, NEW c \in Nat \ {0}
  PROVE  /\ c * a <= c * b => a <= b
         /\ c * a < c * b => a < b
  OBVIOUS

\* The remainder of a number written as a multiple and a small rest.
LEMMA RestIsRemainder ==
  ASSUME NEW a \in Nat, NEW b \in Nat \ {0}, NEW q \in Int, NEW s \in 0 .. b - 1,
         a = q * b + s
  PROVE  s = a % b
  OBVIOUS

\* The quotient of a number between two successive multiples.
LEMMA QuotientIs ==
  ASSUME NEW a \in Nat, NEW b \in Nat \ {0}, NEW q \in Nat,
         b * q <= a, a < b * q + b
  PROVE  a \div b = q
<1> DEFINE d == a \div b
<1>1. d \in Nat /\ b * d <= a /\ a < b * d + b
  BY DivisionRoundsDown
<1> HIDE DEF d
<1>2. b * d < b * (q + 1) /\ b * q < b * (d + 1)
  BY <1>1
<1>3. d < q + 1 /\ q < d + 1
  BY <1>1, <1>2, Cancel
<1> QED
  BY <1>1, <1>3 DEF d

\* Quotient and remainder make up the number.
LEMMA QuotientAndRemainder ==
  ASSUME NEW a \in Int, NEW b \in Nat \ {0}
  PROVE  /\ a \div b \in Int /\ a % b \in 0 .. b - 1
         /\ a = b * (a \div b) + (a % b)
         /\ (a % b) + b * (a \div b) = a
         /\ a >= 0 => a \div b \in Nat
  OBVIOUS

DividedTwice(a, b, c) == (a \div b) \div c = a \div (b * c)

\* Two divisions, one after the other, are one.
LEMMA DivisionsCompose ==
  ASSUME NEW a \in Nat, NEW b \in Nat \ {0}, NEW c \in Nat \ {0}
  PROVE  DividedTwice(a, b, c) /\ b * c \in Nat \ {0}
<1> DEFINE u == a \div b
           v == u \div c
<1>1. u \in Nat /\ b * u <= a /\ a < b * u + b
  BY DivisionRoundsDown
<1>2. v \in Nat /\ c * v <= u /\ u < c * v + c
  BY <1>1, DivisionRoundsDown
<1> HIDE DEF u, v
<1>3. b * c \in Nat \ {0}
  <2>1. b * c \in Nat /\ b * c > 0
    OBVIOUS
  <2> QED
    BY <2>1
<1>4. (b * c) * v <= a
  <2>1. b * (c * v) <= b * u
    BY <1>1, <1>2
  <2> QED
    BY <1>1, <1>2, <2>1
<1>5. a < (b * c) * v + b * c
  <2>1. u + 1 <= c * v + c
    BY <1>1, <1>2
  <2>2. b * (u + 1) <= b * (c * v + c)
    BY <1>1, <1>2, <2>1
  <2> QED
    BY <1>1, <1>2, <2>2
<1>6. a \div (b * c) = v
  <2> DEFINE e == b * c
  <2>1. e \in Nat \ {0} /\ e * v <= a /\ a < e * v + e
    BY <1>3, <1>4, <1>5
  <2> HIDE DEF e
  <2>2. a \div e = v
    BY <1>2, <2>1, QuotientIs
  <2> QED
    BY <2>2 DEF e
<1> QED
  BY <1>3, <1>6 DEF u, v, DividedTwice

\* The same, written out.
LEMMA TwiceDivided ==
  ASSUME NEW a \in Nat, NEW b \in Nat \ {0}, NEW c \in Nat \ {0}
  PROVE  (a \div b) \div c = a \div (b * c) /\ b * c \in Nat \ {0}
<1>1. DividedTwice(a, b, c) /\ b * c \in Nat \ {0}
  BY DivisionsCompose
<1> QED
  BY <1>1 DEF DividedTwice

-----------------------------------------------------------------------------
(***************************************************************************)
(* Words of limbs, least significant first, and the numbers they stand     *)
(* for.                                                                    *)
(***************************************************************************)
Word(k) == [0 .. k - 1 -> 0 .. Base - 1]

\* The number of the limbs from i on.
Upper(x, k, i) == Numeral([j \in 0 .. k - 1 |-> x[k - 1 - j]], k - i, Base)

\* The widths.
LEMMA WidthFacts ==
  /\ ByteBits \in Nat \ {0} /\ LimbBytes \in Nat \ {0} /\ LimbBits \in Nat \ {0}
  /\ Size \in Nat /\ Byte \in Nat \ {0} /\ Base \in Nat /\ Base >= 2
  /\ Pow(2, LimbBits) = Base
<1>1. ByteBits \in Nat \ {0} /\ LimbBytes \in Nat \ {0}
  BY WidthAssumption
<1>2. LimbBits \in Nat /\ LimbBits > 0
  BY <1>1 DEF LimbBits
<1>3. Pow(2, LimbBits) = Base
  BY <1>1, 2 \in Int, PowProduct DEF LimbBits, Base, Byte
<1>4. Byte \in Nat \ {0}
  BY <1>1, 2 \in Nat \ {0}, PowPositive DEF Byte
<1>5. Base >= 2 /\ Base \in Nat
  <2>1. LimbBits - 1 \in Nat /\ (LimbBits - 1) + 1 = LimbBits
    BY <1>2
  <2>2. Pow(2, LimbBits) = Pow(2, LimbBits - 1) * 2
    BY <2>1, 2 \in Int, PowEquations
  <2>3. Pow(2, LimbBits - 1) \in Nat \ {0}
    BY <2>1, 2 \in Nat \ {0}, PowPositive
  <2> QED
    BY <1>3, <2>2, <2>3
<1> QED
  BY <1>1, <1>2, <1>3, <1>4, <1>5 DEF Size

\* The limbs of a word, one after the other from the top.
LEMMA UpperEquations ==
  ASSUME NEW k \in Nat, NEW x \in Word(k)
  PROVE  /\ Val(x) = Upper(x, k, 0)
         /\ Upper(x, k, k) = 0
         /\ \A i \in 0 .. k - 1 : Upper(x, k, i) = x[i] + Base * Upper(x, k, i + 1)
         /\ \A i \in 0 .. k : Upper(x, k, i) \in Nat /\ Upper(x, k, i) < Pow(Base, k - i)
<1> DEFINE d == [j \in 0 .. k - 1 |-> x[k - 1 - j]]
<1>1. Base \in Nat /\ Base >= 2 /\ Base \in Int
  BY WidthFacts
<1>2. Val(x) = Numeral(d, k, Base)
  <2>1. DOMAIN x = 0 .. k - 1
    BY DEF Word
  <2>2. Cardinality(0 .. k - 1) = k
    BY FS_Interval
  <2> QED
    BY <2>1, <2>2 DEF Val
<1>3. ASSUME NEW j \in 0 .. k - 1
      PROVE  d[j] = x[k - 1 - j] /\ d[j] \in 0 .. Base - 1 /\ d[j] \in Int
  <2>1. k - 1 - j \in 0 .. k - 1
    OBVIOUS
  <2>2. x[k - 1 - j] \in 0 .. Base - 1
    BY <2>1 DEF Word
  <2> QED
    BY <1>1, <2>2
<1>4. \A i : Upper(x, k, i) = Numeral(d, k - i, Base)
  BY DEF Upper
<1> HIDE DEF d
<1>5. /\ Numeral(d, 0, Base) = 0
      /\ \A i \in 0 .. k : Numeral(d, i, Base) \in Int
      /\ \A i \in 0 .. k - 1 : Numeral(d, i + 1, Base) = Numeral(d, i, Base) * Base + d[i]
  BY <1>1, <1>3, NumeralEquations
<1>6. Upper(x, k, k) = 0 /\ k - 0 = k
  BY <1>4, <1>5
<1>7. ASSUME NEW i \in 0 .. k - 1
      PROVE  Upper(x, k, i) = x[i] + Base * Upper(x, k, i + 1)
  <2> DEFINE j == k - (i + 1)
  <2>1. j \in 0 .. k - 1 /\ j + 1 = k - i /\ k - 1 - j = i /\ j \in 0 .. k
    OBVIOUS
  <2>2. Upper(x, k, i + 1) = Numeral(d, j, Base) /\ Upper(x, k, i) = Numeral(d, j + 1, Base)
    BY <1>4, <2>1
  <2> HIDE DEF j
  <2>3. Numeral(d, j + 1, Base) = Numeral(d, j, Base) * Base + d[j]
    BY <1>5, <2>1
  <2>4. d[j] = x[i] /\ d[j] \in Int /\ Numeral(d, j, Base) \in Int
    BY <1>3, <1>5, <2>1
  <2>5. ASSUME NEW u \in Int, NEW v \in Int PROVE u * Base + v = v + Base * u
    BY <1>1
  <2> QED
    BY <2>2, <2>3, <2>4, <2>5
<1> DEFINE Good == {i \in 0 .. k : Upper(x, k, i) \in Nat /\ Upper(x, k, i) < Pow(Base, k - i)}
<1>8. k \in Good
  <2>1. k - k = 0 /\ Pow(Base, 0) = 1
    BY <1>1, PowEquations
  <2> QED
    BY <1>6, <2>1
<1>9. ASSUME NEW i \in 0 .. k - 1, i + 1 \in Good PROVE i \in Good
  <2>1. k - (i + 1) \in Nat /\ (k - (i + 1)) + 1 = k - i
    OBVIOUS
  <2> DEFINE u == Upper(x, k, i + 1)
             p == Pow(Base, k - (i + 1))
  <2>2. Pow(Base, k - i) = p * Base /\ p \in Int
    BY <1>1, <2>1, PowEquations
  <2>3. u \in Nat /\ u < p
    BY <1>9
  <2>4. Upper(x, k, i) = x[i] + Base * u
    BY <1>7
  <2>5. x[i] \in 0 .. Base - 1
    BY DEF Word
  <2> HIDE DEF u, p
  <2>6. Base * (u + 1) <= Base * p /\ Base * u \in Nat
    BY <1>1, <2>2, <2>3
  <2>7. x[i] + Base * u \in Nat /\ x[i] + Base * u < p * Base
    BY <1>1, <2>2, <2>3, <2>5, <2>6
  <2> QED
    BY <2>2, <2>4, <2>7
<1>10. \A i \in 0 .. k : i \in Good
  <2> HIDE DEF Good
  <2> QED
    BY <1>8, <1>9, Descent
<1> QED
  BY <1>2, <1>4, <1>6, <1>7, <1>10

\* The limbs from i on fill a word exactly as far as they are kept.
LEMMA LowValue ==
  ASSUME NEW n \in Nat, NEW k \in 0 .. n, NEW x \in Word(n)
  PROVE  /\ Low(x, k) \in Word(k)
         /\ Val(x) = Val(Low(x, k)) + Pow(Base, k) * Upper(x, n, k)
<1> DEFINE y == Low(x, k)
           top == Upper(x, n, k)
           Good == {i \in 0 .. k :
                      Upper(x, n, i) = Upper(y, k, i) + Pow(Base, k - i) * top}
<1>1. y \in Word(k) /\ \A i \in 0 .. k - 1 : y[i] = x[i]
  BY DEF Low, Word
<1>2. Base \in Int /\ k \in Nat /\ top \in Int
  BY WidthFacts, UpperEquations
<1> HIDE DEF y, top
<1>3. Upper(y, k, k) = 0 /\ Val(y) = Upper(y, k, 0) /\ Val(x) = Upper(x, n, 0)
  BY <1>1, <1>2, UpperEquations
<1>4. k \in Good
  <2>1. k - k = 0 /\ Pow(Base, 0) = 1
    BY <1>2, PowEquations
  <2>2. 0 + 1 * top = top
    BY <1>2
  <2> QED
    BY <1>3, <2>1, <2>2 DEF top
<1>5. ASSUME NEW i \in 0 .. k - 1, i + 1 \in Good PROVE i \in Good
  <2> DEFINE u == Upper(y, k, i + 1)
             p == Pow(Base, k - (i + 1))
  <2>1. k - (i + 1) \in Nat /\ (k - (i + 1)) + 1 = k - i /\ i \in 0 .. n - 1 /\ i + 1 \in 0 .. k
    BY <1>2
  <2>2. Pow(Base, k - i) = p * Base /\ p \in Int
    BY <1>2, <2>1, PowEquations
  <2>3. Upper(x, n, i + 1) = u + p * top
    BY <1>5
  <2>4. Upper(x, n, i) = x[i] + Base * Upper(x, n, i + 1)
    BY <2>1, UpperEquations
  <2>5. Upper(y, k, i) = y[i] + Base * u /\ u \in Int
    BY <1>1, <1>2, <2>1, UpperEquations
  <2>6. y[i] = x[i] /\ y[i] \in Int
    BY <1>1, <1>2 DEF Word
  <2> HIDE DEF u, p
  <2>7. Base * (u + p * top) = Base * u + (p * Base) * top
    BY <1>2, <2>2, <2>5
  <2>8. p * top \in Int /\ Base * u \in Int /\ (p * Base) * top \in Int
    BY <1>2, <2>2, <2>5
  <2> QED
    BY <2>2, <2>3, <2>4, <2>5, <2>6, <2>7, <2>8
<1>6. \A i \in 0 .. k : i \in Good
  <2> HIDE DEF Good
  <2> QED
    BY <1>2, <1>4, <1>5, Descent
<1>7. Upper(x, n, 0) = Upper(y, k, 0) + Pow(Base, k) * top
  BY <1>2, <1>6, k - 0 = k
<1> QED
  BY <1>1, <1>3, <1>7 DEF y, top

\* Words compare as their numbers do.
LEMMA IsLessValue ==
  ASSUME NEW k \in Nat, NEW x \in Word(k), NEW y \in Word(k)
  PROVE  IsLess(x, y) <=> Val(x) < Val(y)
<1> DEFINE Less(i) == \E l \in i .. k - 1 :
                        x[l] < y[l] /\ \A j \in l + 1 .. k - 1 : x[j] = y[j]
           Equal(i) == \A j \in i .. k - 1 : x[j] = y[j]
           Good == {i \in 0 .. k : /\ Less(i) <=> Upper(x, k, i) < Upper(y, k, i)
                                   /\ Equal(i) <=> Upper(x, k, i) = Upper(y, k, i)}
<1>1. IsLess(x, y) <=> Less(0)
  <2>1. DOMAIN x = 0 .. k - 1
    BY DEF Word
  <2>2. ASSUME NEW l \in 0 .. k - 1
        PROVE  (\A j \in DOMAIN x : j > l => x[j] = y[j])
               <=> (\A j \in l + 1 .. k - 1 : x[j] = y[j])
    BY <2>1
  <2> QED
    BY <2>1, <2>2 DEF IsLess
<1>2. k \in Good
  <2>1. Upper(x, k, k) = 0 /\ Upper(y, k, k) = 0
    BY UpperEquations
  <2>2. k .. k - 1 = {}
    OBVIOUS
  <2> QED
    BY <2>1, <2>2
<1>3. ASSUME NEW i \in 0 .. k - 1, i + 1 \in Good PROVE i \in Good
  <2> DEFINE u == Upper(x, k, i + 1)
             v == Upper(y, k, i + 1)
  <2>1. u \in Nat /\ v \in Nat
    BY UpperEquations, i + 1 \in 0 .. k
  <2>2. Upper(x, k, i) = x[i] + Base * u /\ Upper(y, k, i) = y[i] + Base * v
    BY UpperEquations
  <2>3. x[i] \in 0 .. Base - 1 /\ y[i] \in 0 .. Base - 1 /\ Base \in Nat /\ Base >= 2
    BY WidthFacts DEF Word
  <2>4. /\ Less(i + 1) <=> u < v
        /\ Equal(i + 1) <=> u = v
    BY <1>3
  <2>5. Equal(i) <=> x[i] = y[i] /\ Equal(i + 1)
    OBVIOUS
  <2>6. Less(i) <=> Less(i + 1) \/ (x[i] < y[i] /\ Equal(i + 1))
    <3>1. i .. k - 1 = {i} \cup (i + 1 .. k - 1)
      OBVIOUS
    <3> QED
      BY <3>1
  <2> HIDE DEF u, v, Less, Equal
  <2>7. CASE u < v
    <3>1. Base * (u + 1) <= Base * v
      BY <2>1, <2>3, <2>7
    <3>2. x[i] + Base * u < y[i] + Base * v
      BY <2>1, <2>3, <3>1
    <3> QED
      BY <2>1, <2>2, <2>3, <2>4, <2>5, <2>6, <2>7, <3>2
  <2>8. CASE v < u
    <3>1. Base * (v + 1) <= Base * u
      BY <2>1, <2>3, <2>8
    <3>2. y[i] + Base * v < x[i] + Base * u
      BY <2>1, <2>3, <3>1
    <3> QED
      BY <2>1, <2>2, <2>3, <2>4, <2>5, <2>6, <2>8, <3>2
  <2>9. CASE u = v
    <3>1. Base * u \in Nat
      BY <2>1, <2>3
    <3> QED
      BY <2>1, <2>2, <2>3, <2>4, <2>5, <2>6, <2>9, <3>1
  <2> QED
    BY <2>1, <2>7, <2>8, <2>9
<1>4. \A i \in 0 .. k : i \in Good
  <2> HIDE DEF Good
  <2> QED
    BY <1>2, <1>3, Descent
<1>5. Less(0) <=> Upper(x, k, 0) < Upper(y, k, 0)
  BY <1>4
<1> HIDE DEF Less
<1>6. Val(x) = Upper(x, k, 0) /\ Val(y) = Upper(y, k, 0)
  BY UpperEquations
<1> QED
  BY <1>1, <1>5, <1>6

\* The borrows of a subtraction, and the limbs they leave.
LEMMA BorrowsExist ==
  ASSUME NEW k \in Nat, NEW x \in Word(k), NEW y \in Word(k)
  PROVE  \E borrow \in [0 .. k -> {0, 1}] :
           /\ Minus(x, y) = [i \in 0 .. k - 1 |-> (x[i] - y[i] - borrow[i]) % Base]
           /\ borrow[0] = 0
           /\ \A i \in 0 .. k - 1 :
                borrow[i + 1] = IF x[i] - y[i] - borrow[i] < 0 THEN 1 ELSE 0
<1> DEFINE step == [i \in 1 .. k |-> [v \in {0, 1} |->
                      IF x[i - 1] - y[i - 1] - v < 0 THEN 1 ELSE 0]]
           Solves(f) == f = [i \in 0 .. Cardinality(DOMAIN x) |->
                               IF i > 0 /\ x[i - 1] - y[i - 1] - f[i - 1] < 0 THEN 1 ELSE 0]
<1>0. DOMAIN x = 0 .. k - 1 /\ Cardinality(DOMAIN x) = k
  BY FS_Interval DEF Word
<1>1. step \in [1 .. k -> [{0, 1} -> {0, 1}]]
  OBVIOUS
<1>2. PICK f \in [0 .. k -> {0, 1}] : Recursion(f, k, 0, step)
  <2> DEFINE S == {0, 1}
  <2>1. step \in [1 .. k -> [S -> S]] /\ 0 \in S
    BY <1>1
  <2> HIDE DEF step, S
  <2>2. \E f \in [0 .. k -> S] : Recursion(f, k, 0, step)
    BY <2>1, RecursionExists
  <2> QED
    BY <2>2 DEF S
<1>3. \A i \in 0 .. k : f[i] = IF i > 0 /\ x[i - 1] - y[i - 1] - f[i - 1] < 0 THEN 1 ELSE 0
  <2> SUFFICES ASSUME NEW i \in 0 .. k
               PROVE  f[i] = IF i > 0 /\ x[i - 1] - y[i - 1] - f[i - 1] < 0 THEN 1 ELSE 0
    OBVIOUS
  <2>1. CASE i = 0
    BY <1>2, <2>1 DEF Recursion
  <2>2. CASE i # 0
    <3>1. i \in 1 .. k /\ i - 1 \in 0 .. k
      BY <2>2
    <3>2. f[i - 1] \in {0, 1}
      BY <1>2, <3>1
    <3>3. f[i] = step[i][f[i - 1]]
      <4> HIDE DEF step
      <4> QED
        BY <1>2, <2>2 DEF Recursion
    <3> DEFINE v == f[i - 1]
    <3>4. step[i][v] = IF x[i - 1] - y[i - 1] - v < 0 THEN 1 ELSE 0
      BY <3>1, <3>2
    <3> QED
      BY <2>2, <3>3, <3>4
  <2> QED
    BY <2>1, <2>2
<1>4. Solves(f)
  BY <1>0, <1>2, <1>3
<1> DEFINE g == CHOOSE h : Solves(h)
<1>5. Solves(g)
  BY <1>4
<1>6. Minus(x, y) = [i \in 0 .. k - 1 |-> (x[i] - y[i] - g[i]) % Base]
  <2>1. Minus(x, y) = [i \in DOMAIN x |-> (x[i] - y[i] - g[i]) % Base]
    BY DEF Minus
  <2> HIDE DEF g
  <2> QED
    BY <1>0, <2>1
<1>7. /\ g = [i \in 0 .. k |-> g[i]]
      /\ \A i \in 0 .. k : g[i] = IF i > 0 /\ x[i - 1] - y[i - 1] - g[i - 1] < 0 THEN 1 ELSE 0
  <2>1. g = [i \in 0 .. Cardinality(DOMAIN x) |->
               IF i > 0 /\ x[i - 1] - y[i - 1] - g[i - 1] < 0 THEN 1 ELSE 0]
    BY <1>5
  <2> HIDE DEF g
  <2> QED
    BY <1>0, <2>1
<1> HIDE DEF g
<1>8. g \in [0 .. k -> {0, 1}]
  <2>1. \A i \in 0 .. k : g[i] \in {0, 1}
    BY <1>7
  <2> QED
    BY <1>7, <2>1
<1>9. g[0] = 0
  BY <1>7, 0 \in 0 .. k, ~ (0 > 0)
<1>10. ASSUME NEW i \in 0 .. k - 1
       PROVE  g[i + 1] = IF x[i] - y[i] - g[i] < 0 THEN 1 ELSE 0
  <2>1. i + 1 \in 0 .. k /\ i + 1 > 0 /\ (i + 1) - 1 = i
    OBVIOUS
  <2> QED
    BY <1>7, <2>1
<1> QED
  BY <1>6, <1>8, <1>9, <1>10

\* A subtraction is right up to a multiple of the width.
LEMMA MinusValue ==
  ASSUME NEW k \in Nat, NEW x \in Word(k), NEW y \in Word(k)
  PROVE  /\ Minus(x, y) \in Word(k)
         /\ \E c \in {0, 1} : Val(Minus(x, y)) = Val(x) - Val(y) + Pow(Base, k) * c
<1>1. PICK borrow \in [0 .. k -> {0, 1}] :
           /\ Minus(x, y) = [i \in 0 .. k - 1 |-> (x[i] - y[i] - borrow[i]) % Base]
           /\ borrow[0] = 0
           /\ \A i \in 0 .. k - 1 :
                borrow[i + 1] = IF x[i] - y[i] - borrow[i] < 0 THEN 1 ELSE 0
  BY BorrowsExist
<1>2. Base \in Nat /\ Base >= 2 /\ Base \in Int
  BY WidthFacts
<1>3. ASSUME NEW i \in 0 .. k - 1
      PROVE  /\ Minus(x, y)[i] = x[i] - y[i] - borrow[i] + Base * borrow[i + 1]
             /\ Minus(x, y)[i] \in 0 .. Base - 1
             /\ x[i] \in Int /\ y[i] \in Int /\ borrow[i] \in Int /\ borrow[i + 1] \in Int
  <2>1. x[i] \in 0 .. Base - 1 /\ y[i] \in 0 .. Base - 1
    BY DEF Word
  <2>2. borrow[i] \in {0, 1} /\ i \in 0 .. k /\ i + 1 \in 0 .. k
    BY <1>1
  <2>3. borrow[i + 1] = IF x[i] - y[i] - borrow[i] < 0 THEN 1 ELSE 0
    BY <1>1
  <2>4. Minus(x, y)[i] = (x[i] - y[i] - borrow[i]) % Base
    BY <1>1
  <2> DEFINE t == x[i] - y[i] - borrow[i]
  <2>5. t \in - Base .. Base - 1
    BY <1>2, <2>1, <2>2
  <2> HIDE DEF t
  <2>6. t % Base = IF t < 0 THEN t + Base ELSE t
    BY <1>2, <2>5
  <2>7. t % Base \in 0 .. Base - 1
    BY <1>2, <2>5
  <2>8. t % Base = t + Base * borrow[i + 1]
    <3>1. CASE t < 0
      <4>1. borrow[i + 1] = 1 /\ Base * 1 = Base
        BY <1>2, <2>3, <3>1 DEF t
      <4> QED
        BY <2>6, <3>1, <4>1
    <3>2. CASE ~ (t < 0)
      <4>1. borrow[i + 1] = 0 /\ Base * 0 = 0
        BY <1>2, <2>3, <3>2 DEF t
      <4> QED
        BY <2>5, <2>6, <3>2, <4>1
    <3> QED
      BY <3>1, <3>2
  <2>9. x[i] \in Int /\ y[i] \in Int /\ borrow[i] \in Int /\ borrow[i + 1] \in Int
    BY <2>1, <2>2, <1>1
  <2> QED
    BY <2>4, <2>7, <2>8, <2>9 DEF t
<1> DEFINE z == Minus(x, y)
<1>4. z \in Word(k)
  BY <1>1, <1>3 DEF Word
<1> HIDE DEF z
<1> DEFINE c == borrow[k]
           Good == {i \in 0 .. k : Upper(z, k, i) = Upper(x, k, i) - Upper(y, k, i) - borrow[i]
                                                    + Pow(Base, k - i) * c}
<1>5. k \in Good
  <2>1. Upper(x, k, k) = 0 /\ Upper(y, k, k) = 0 /\ Upper(z, k, k) = 0
    BY <1>4, UpperEquations
  <2>2. k - k = 0 /\ Pow(Base, 0) = 1
    BY <1>2, PowEquations
  <2>3. c \in Int
    BY <1>1
  <2> QED
    BY <2>1, <2>2, <2>3
<1>6. ASSUME NEW i \in 0 .. k - 1, i + 1 \in Good PROVE i \in Good
  <2> DEFINE u == Upper(x, k, i + 1)
             v == Upper(y, k, i + 1)
             w == Upper(z, k, i + 1)
             p == Pow(Base, k - (i + 1))
  <2>1. k - (i + 1) \in Nat /\ (k - (i + 1)) + 1 = k - i /\ i + 1 \in 0 .. k
    OBVIOUS
  <2>2. Pow(Base, k - i) = p * Base /\ p \in Int
    BY <1>2, <2>1, PowEquations
  <2>3. u \in Int /\ v \in Int /\ w \in Int
    BY <1>4, <2>1, UpperEquations
  <2>4. /\ Upper(x, k, i) = x[i] + Base * u
        /\ Upper(y, k, i) = y[i] + Base * v
        /\ Upper(z, k, i) = z[i] + Base * w
    BY <1>4, UpperEquations
  <2>5. z[i] = x[i] - y[i] - borrow[i] + Base * borrow[i + 1]
    BY <1>3 DEF z
  <2>6. w = u - v - borrow[i + 1] + p * c
    BY <1>6
  <2>7. x[i] \in Int /\ y[i] \in Int /\ borrow[i] \in Int /\ borrow[i + 1] \in Int /\ c \in Int
    BY <1>1, <1>3
  <2> HIDE DEF u, v, w, p, c
  <2>8. Base * w = Base * u - Base * v - Base * borrow[i + 1] + (p * Base) * c
    <3> DEFINE e == borrow[i + 1]
    <3>1. e \in Int /\ w = u - v - e + p * c
      BY <2>6, <2>7
    <3> HIDE DEF e
    <3>2. Base * (u - v - e + p * c) = Base * u - Base * v - Base * e + (p * Base) * c
      BY <1>2, <2>2, <2>3, <2>7, <3>1
    <3> QED
      BY <3>1, <3>2 DEF e
  <2>9. /\ Base * u \in Int /\ Base * v \in Int /\ Base * borrow[i + 1] \in Int
        /\ (p * Base) * c \in Int
    BY <1>2, <2>2, <2>3, <2>7
  <2>10. Upper(z, k, i) = (x[i] + Base * u) - (y[i] + Base * v) - borrow[i] + (p * Base) * c
    <3> DEFINE xi == x[i]
               yi == y[i]
               zi == z[i]
               bi == borrow[i]
               bu == Base * u
               bv == Base * v
               be == Base * borrow[i + 1]
               bc == (p * Base) * c
    <3>1. /\ xi \in Int /\ yi \in Int /\ bi \in Int
          /\ bu \in Int /\ bv \in Int /\ be \in Int /\ bc \in Int
      BY <2>7, <2>9
    <3>2. Upper(z, k, i) = zi + (bu - bv - be + bc)
      BY <2>4, <2>8
    <3>3. zi = xi - yi - bi + be
      BY <2>5
    <3> HIDE DEF xi, yi, zi, bi, bu, bv, be, bc
    <3>4. Upper(z, k, i) = (xi + bu) - (yi + bv) - bi + bc
      BY <3>1, <3>2, <3>3
    <3> QED
      BY <3>4 DEF xi, yi, bi, bu, bv, bc
  <2>11. Upper(z, k, i) = Upper(x, k, i) - Upper(y, k, i) - borrow[i] + Pow(Base, k - i) * c
    BY <2>2, <2>4, <2>10
  <2> QED
    BY <2>11 DEF c
<1>7. \A i \in 0 .. k : i \in Good
  <2> HIDE DEF Good
  <2> QED
    BY <1>5, <1>6, Descent
<1>8. /\ Val(x) = Upper(x, k, 0) /\ Val(y) = Upper(y, k, 0) /\ Val(z) = Upper(z, k, 0)
      /\ Upper(x, k, 0) \in Int /\ Upper(y, k, 0) \in Int
  BY <1>4, UpperEquations
<1>9. Upper(z, k, 0) = Upper(x, k, 0) - Upper(y, k, 0) - 0 + Pow(Base, k) * c
  BY <1>1, <1>7, k - 0 = k
<1>10. c \in {0, 1} /\ Pow(Base, k) * c \in Int
  <2>1. Pow(Base, k) \in Int
    BY <1>2, PowEquations
  <2>2. c \in {0, 1}
    BY <1>1
  <2> QED
    BY <2>1, <2>2
<1> QED
  <2>1. Val(z) = Val(x) - Val(y) + Pow(Base, k) * c
    BY <1>8, <1>9, <1>10
  <2> QED
    BY <1>4, <1>10, <2>1 DEF z

\* Words hold the numbers below their width.
LEMMA ValBounds ==
  ASSUME NEW k \in Nat, NEW x \in Word(k)
  PROVE  Val(x) \in Nat /\ Val(x) < Pow(Base, k)
<1>1. 0 \in 0 .. k /\ k - 0 = k
  OBVIOUS
<1> QED
  BY <1>1, UpperEquations

\* A subtraction of a word that is not greater is exact.
LEMMA MinusExact ==
  ASSUME NEW k \in Nat, NEW x \in Word(k), NEW y \in Word(k), Val(y) <= Val(x)
  PROVE  Val(Minus(x, y)) = Val(x) - Val(y)
<1> DEFINE z == Minus(x, y)
           p == Pow(Base, k)
<1>1. PICK c \in {0, 1} : Val(z) = Val(x) - Val(y) + p * c
  BY MinusValue
<1>2. z \in Word(k)
  BY MinusValue
<1> HIDE DEF z
<1>3. \A t \in Word(k) : Val(t) \in Nat /\ Val(t) < p
  BY ValBounds
<1>4. p \in Int
  BY WidthFacts, PowEquations
<1> HIDE DEF p
<1>5. CASE c = 1
  <2>1. p * c = p
    BY <1>4, <1>5
  <2> QED
    BY <1>1, <1>2, <1>3, <1>4, <2>1
<1>6. CASE c = 0
  <2>1. p * c = 0
    BY <1>4, <1>6
  <2> QED
    BY <1>1, <1>3, <2>1 DEF z
<1> QED
  BY <1>5, <1>6

\* A number below the width of a word is held by its limbs.
LEMMA LimbsOfValue ==
  ASSUME NEW k \in Nat, NEW v \in Nat, v < Pow(Base, k)
  PROVE  LimbsOf(v, k) \in Word(k) /\ Val(LimbsOf(v, k)) = v
<1> DEFINE x == LimbsOf(v, k)
<1>1. Base \in Nat \ {0} /\ Base \in Int
  BY WidthFacts
<1>2. ASSUME NEW i \in 0 .. k
      PROVE  Pow(Base, i) \in Nat \ {0} /\ v \div Pow(Base, i) \in Nat
  <2>1. Pow(Base, i) \in Nat \ {0}
    BY <1>1, PowPositive
  <2> QED
    BY <2>1, DivisionRoundsDown
<1>3. ASSUME NEW i \in 0 .. k - 1
      PROVE  /\ x[i] = (v \div Pow(Base, i)) % Base
             /\ x[i] \in 0 .. Base - 1
  <2>1. v \div Pow(Base, i) \in Int
    BY <1>2
  <2>2. x[i] = (v \div Pow(Base, i)) % Base
    BY DEF LimbsOf
  <2> QED
    BY <1>1, <2>1, <2>2, QuotientAndRemainder
<1>4. x \in Word(k)
  BY <1>3 DEF LimbsOf, Word
<1> HIDE DEF x
<1> DEFINE Good == {i \in 0 .. k : Upper(x, k, i) = v \div Pow(Base, i)}
<1>5. k \in Good
  <2> DEFINE p == Pow(Base, k)
  <2>1. p \in Nat \ {0} /\ v < p
    BY <1>2
  <2> HIDE DEF p
  <2>2. p * 0 <= v /\ v < p * 0 + p
    BY <2>1
  <2>3. v \div p = 0
    BY <2>1, <2>2, QuotientIs
  <2>4. Upper(x, k, k) = 0
    BY <1>4, UpperEquations
  <2> QED
    BY <2>3, <2>4 DEF p
<1>6. ASSUME NEW i \in 0 .. k - 1, i + 1 \in Good PROVE i \in Good
  <2> DEFINE u == v \div Pow(Base, i)
             p == Pow(Base, i)
  <2>1. p \in Nat \ {0} /\ u \in Nat
    BY <1>2
  <2>2. Pow(Base, i + 1) = p * Base
    BY <1>1, PowEquations
  <2>3. u \div Base = v \div Pow(Base, i + 1)
    BY <1>1, <2>1, <2>2, TwiceDivided
  <2>4. Upper(x, k, i) = x[i] + Base * Upper(x, k, i + 1)
    BY <1>4, UpperEquations
  <2>5. Upper(x, k, i + 1) = u \div Base
    BY <1>6, <2>3
  <2>6. x[i] = u % Base
    BY <1>3
  <2>7. (u % Base) + Base * (u \div Base) = u
    <3> HIDE DEF u
    <3>1. u \in Int /\ Base \in Nat \ {0}
      BY <1>1, <2>1
    <3> QED
      BY <3>1, QuotientAndRemainder
  <2> QED
    BY <2>4, <2>5, <2>6, <2>7
<1>7. \A i \in 0 .. k : i \in Good
  <2> HIDE DEF Good
  <2> QED
    BY <1>5, <1>6, Descent
<1>8. Upper(x, k, 0) = v
  <2>1. Pow(Base, 0) = 1 /\ v \div 1 = v
    BY <1>1, PowEquations
  <2> QED
    BY <1>7, <2>1
<1> QED
  BY <1>4, <1>8, UpperEquations DEF x

\* Limbs that are zero from i on stand for zero.
LEMMA UpperZero ==
  ASSUME NEW n \in Nat, NEW x \in Word(n), NEW i \in 0 .. n, \A j \in i .. n - 1 : x[j] = 0
  PROVE  Upper(x, n, i) = 0
<1> DEFINE Good == {j \in 0 .. n : j >= i => Upper(x, n, j) = 0}
<1>1. n \in Good
  BY UpperEquations
<1>2. ASSUME NEW j \in 0 .. n - 1, j + 1 \in Good PROVE j \in Good
  <2>1. CASE j >= i
    <3>1. x[j] = 0 /\ Upper(x, n, j + 1) = 0
      BY <1>2, <2>1
    <3>2. Upper(x, n, j) = x[j] + Base * Upper(x, n, j + 1)
      BY UpperEquations
    <3>3. Base * 0 = 0
      BY WidthFacts
    <3> QED
      BY <3>1, <3>2, <3>3
  <2> QED
    BY <2>1
<1>3. \A j \in 0 .. n : j \in Good
  <2> HIDE DEF Good
  <2> QED
    BY <1>1, <1>2, Descent
<1> QED
  BY <1>3

\* What a row adds to a limb, with the carry, leaves a carry that is a limb.
LEMMA CarryBound ==
  ASSUME NEW u \in 0 .. Base - 1, NEW v \in 0 .. Base - 1, NEW w \in 0 .. Base - 1,
         NEW c \in 0 .. Base - 1
  PROVE  /\ u * v + w + c \in Nat
         /\ (u * v + w + c) \div Base \in 0 .. Base - 1
<1>1. Base \in Nat \ {0} /\ Base >= 2
  BY WidthFacts
<1> DEFINE m == Base - 1
           t == u * v + w + c
<1>2. u * v \in Nat /\ u * v <= m * m
  <2>1. u * v <= m * v /\ m * v <= m * m /\ u * v \in Nat /\ m * v \in Nat /\ m * m \in Nat
    BY <1>1
  <2> QED
    BY <2>1
<1>3. t \in Nat /\ t <= m * m + m + m
  <2>1. m * m \in Nat
    BY <1>1
  <2> QED
    BY <1>1, <1>2, <2>1
<1>4. m * m + m + m < Base * Base
  BY <1>1
<1> HIDE DEF t
<1>5. t \div Base \in Nat /\ Base * (t \div Base) <= t
  BY <1>1, <1>3, DivisionRoundsDown
<1> DEFINE q == t \div Base
<1>6. Base * q < Base * Base
  <2>1. Base * q \in Nat /\ Base * Base \in Nat /\ m * m \in Nat
    BY <1>1, <1>5
  <2> QED
    BY <1>1, <1>3, <1>4, <1>5, <2>1
<1> HIDE DEF q
<1>7. q < Base
  BY <1>1, <1>5, <1>6, Cancel DEF q
<1> QED
  BY <1>1, <1>3, <1>5, <1>7 DEF t, q

\* A row as it is computed, with its carries.
RowLimbs(out, n, digit, b, m, i, carry) ==
  [k \in 0 .. n - 1 |->
     CASE k \in i .. i + m - 1 -> (digit * b[k - i] + out[k] + carry[k - i]) % Base
       [] k = i + m -> carry[m]
       [] OTHER -> out[k]]

Carries(out, n, digit, b, m, i, carry) ==
  /\ carry \in [0 .. m -> 0 .. Base - 1]
  /\ Row(out, digit, b, i) = RowLimbs(out, n, digit, b, m, i, carry)
  /\ carry[0] = 0
  /\ \A j \in 0 .. m - 1 :
       carry[j + 1] = (digit * b[j] + out[i + j] + carry[j]) \div Base

\* The carries of a row.
LEMMA CarriesExist ==
  ASSUME NEW n \in Nat, NEW out \in Word(n), NEW digit \in 0 .. Base - 1,
         NEW m \in Nat, NEW b \in Word(m), NEW i \in Nat, i + m < n
  PROVE  \E carry : Carries(out, n, digit, b, m, i, carry)
<1> DEFINE Limbs == 0 .. Base - 1
           Sum(j, v) == (digit * b[j - 1] + out[i + j - 1] + v) \div Base
           step == [j \in 1 .. m |-> [v \in Limbs |-> Sum(j, v)]]
           Solves(f) == f = [j \in 0 .. Cardinality(DOMAIN b) |->
                               IF j = 0 THEN 0
                               ELSE (digit * b[j - 1] + out[i + j - 1] + f[j - 1]) \div Base]
<1>0. DOMAIN b = 0 .. m - 1 /\ Cardinality(DOMAIN b) = m /\ DOMAIN out = 0 .. n - 1
  BY FS_Interval DEF Word
<1>1. Base \in Nat \ {0} /\ 0 \in Limbs
  BY WidthFacts
<1>2. ASSUME NEW j \in 1 .. m, NEW v \in Limbs PROVE Sum(j, v) \in Limbs
  <2>1. j - 1 \in 0 .. m - 1 /\ i + j - 1 \in 0 .. n - 1
    OBVIOUS
  <2>2. b[j - 1] \in Limbs /\ out[i + j - 1] \in Limbs
    BY <2>1 DEF Word
  <2> QED
    BY <2>2, CarryBound
<1> HIDE DEF Sum, Limbs
<1>3. step \in [1 .. m -> [Limbs -> Limbs]]
  BY <1>2
<1>4. PICK f \in [0 .. m -> Limbs] : Recursion(f, m, 0, step)
  <2> HIDE DEF step
  <2>1. \E f \in [0 .. m -> Limbs] : Recursion(f, m, 0, step)
    BY <1>1, <1>3, RecursionExists
  <2> QED
    BY <2>1
<1>5. ASSUME NEW j \in 0 .. m
      PROVE  f[j] = IF j = 0 THEN 0 ELSE Sum(j, f[j - 1])
  <2>1. CASE j = 0
    BY <1>4, <2>1 DEF Recursion
  <2>2. CASE j # 0
    <3>1. j \in 1 .. m /\ j - 1 \in 0 .. m
      BY <2>2
    <3>2. f[j - 1] \in Limbs
      BY <1>4, <3>1
    <3>3. f[j] = step[j][f[j - 1]]
      <4> HIDE DEF step
      <4> QED
        BY <1>4, <2>2 DEF Recursion
    <3> DEFINE v == f[j - 1]
    <3>4. step[j][v] = Sum(j, v)
      BY <3>1, <3>2
    <3> QED
      BY <2>2, <3>3, <3>4
  <2> QED
    BY <2>1, <2>2
<1>6. Solves(f)
  BY <1>0, <1>4, <1>5 DEF Sum
<1> DEFINE g == CHOOSE h : Solves(h)
<1>7. Solves(g)
  BY <1>6
<1>8. Row(out, digit, b, i) =
        [k \in DOMAIN out |->
           CASE k \in i .. i + Cardinality(DOMAIN b) - 1 ->
                  (digit * b[k - i] + out[k] + g[k - i]) % Base
             [] k = i + Cardinality(DOMAIN b) -> g[Cardinality(DOMAIN b)]
             [] OTHER -> out[k]]
  BY DEF Row
<1>9. \A j \in 0 .. m : g[j] = f[j]
  <2> HIDE DEF g
  <2>1. \A j \in 0 .. m : g[j] = IF j = 0 THEN 0 ELSE Sum(j, g[j - 1])
    BY <1>0, <1>7 DEF Sum
  <2>2. g[0] = f[0]
    BY <1>5, <2>1
  <2>3. ASSUME NEW j \in 0 .. m - 1, g[j] = f[j] PROVE g[j + 1] = f[j + 1]
    <3>1. j + 1 \in 0 .. m /\ j + 1 # 0 /\ (j + 1) - 1 = j
      OBVIOUS
    <3> QED
      BY <1>5, <2>1, <2>3, <3>1
  <2> QED
    BY <2>2, <2>3, Agreement
<1> HIDE DEF g, Solves
<1>10. Row(out, digit, b, i) = RowLimbs(out, n, digit, b, m, i, g)
  BY <1>0, <1>8 DEF RowLimbs
<1>11. RowLimbs(out, n, digit, b, m, i, g) = RowLimbs(out, n, digit, b, m, i, f)
  <2>1. \A k \in i .. i + m - 1 : g[k - i] = f[k - i]
    BY <1>9
  <2> QED
    BY <1>9, <2>1 DEF RowLimbs
<1>12. ASSUME NEW j \in 0 .. m - 1
       PROVE  f[j + 1] = (digit * b[j] + out[i + j] + f[j]) \div Base
  <2>1. j + 1 \in 0 .. m /\ j + 1 # 0 /\ (j + 1) - 1 = j /\ i + (j + 1) - 1 = i + j
    OBVIOUS
  <2>2. f[j + 1] = Sum(j + 1, f[j])
    BY <1>5, <2>1
  <2> QED
    BY <2>1, <2>2 DEF Sum
<1>13. f \in [0 .. m -> 0 .. Base - 1] /\ f[0] = 0
  BY <1>4, <1>5 DEF Limbs
<1>14. Row(out, digit, b, i) = RowLimbs(out, n, digit, b, m, i, f)
  BY <1>10, <1>11
<1> QED
  BY <1>12, <1>13, <1>14 DEF Carries

\* A row is a word; it leaves the limbs below it, and those above it, as they were.
LEMMA RowTyped ==
  ASSUME NEW n \in Nat, NEW out \in Word(n), NEW digit \in 0 .. Base - 1,
         NEW m \in Nat, NEW b \in Word(m), NEW i \in Nat, i + m < n
  PROVE  /\ Row(out, digit, b, i) \in Word(n)
         /\ \A k \in 0 .. n - 1 :
              k < i \/ k > i + m => Row(out, digit, b, i)[k] = out[k]
<1>0. PICK carry : Carries(out, n, digit, b, m, i, carry)
  BY CarriesExist
<1>1. /\ Row(out, digit, b, i) = RowLimbs(out, n, digit, b, m, i, carry)
      /\ carry \in [0 .. m -> 0 .. Base - 1]
  BY <1>0 DEF Carries
<1>2. Base \in Nat \ {0}
  BY WidthFacts
<1> DEFINE row == RowLimbs(out, n, digit, b, m, i, carry)
<1>3. ASSUME NEW k \in 0 .. n - 1 PROVE row[k] \in 0 .. Base - 1
  <2>1. CASE k \in i .. i + m - 1
    <3>1. k - i \in 0 .. m - 1 /\ k - i \in 0 .. m
      BY <2>1
    <3>2. b[k - i] \in 0 .. Base - 1 /\ out[k] \in 0 .. Base - 1
      BY <3>1 DEF Word
    <3>3. carry[k - i] \in 0 .. Base - 1
      BY <1>1, <3>1
    <3> DEFINE t == digit * b[k - i] + out[k] + carry[k - i]
    <3>4. t \in Nat
      BY <3>2, <3>3, CarryBound
    <3>5. row[k] = t % Base
      BY <2>1 DEF RowLimbs
    <3> HIDE DEF t
    <3>6. t % Base \in 0 .. Base - 1
      BY <1>2, <3>4, QuotientAndRemainder
    <3> QED
      BY <3>5, <3>6
  <2>2. CASE k \notin i .. i + m - 1 /\ k = i + m
    <3>1. row[k] = carry[m]
      BY <2>2 DEF RowLimbs
    <3>2. carry[m] \in 0 .. Base - 1
      BY <1>1
    <3> QED
      BY <3>1, <3>2
  <2>3. CASE k \notin i .. i + m - 1 /\ k # i + m
    <3>1. row[k] = out[k]
      BY <2>3 DEF RowLimbs
    <3>2. out[k] \in 0 .. Base - 1
      BY DEF Word
    <3> QED
      BY <3>1, <3>2
  <2> QED
    BY <2>1, <2>2, <2>3
<1>4. row \in Word(n)
  <2>1. row = [k \in 0 .. n - 1 |-> row[k]]
    BY DEF RowLimbs
  <2> HIDE DEF row
  <2> QED
    BY <1>3, <2>1 DEF Word
<1>5. ASSUME NEW k \in 0 .. n - 1, k < i \/ k > i + m PROVE row[k] = out[k]
  BY <1>5 DEF RowLimbs
<1> QED
  BY <1>1, <1>4, <1>5

\* From its own limb on, a row adds its digit times the other factor.
LEMMA RowValue ==
  ASSUME NEW n \in Nat, NEW out \in Word(n), NEW digit \in 0 .. Base - 1,
         NEW m \in Nat, NEW b \in Word(m), NEW i \in Nat, i + m < n,
         \A k \in i + m .. n - 1 : out[k] = 0
  PROVE  Upper(Row(out, digit, b, i), n, i) = Upper(out, n, i) + digit * Val(b)
<1>0. PICK carry : Carries(out, n, digit, b, m, i, carry)
  BY CarriesExist
<1>1. /\ Row(out, digit, b, i) = RowLimbs(out, n, digit, b, m, i, carry)
      /\ carry \in [0 .. m -> 0 .. Base - 1] /\ carry[0] = 0
      /\ \A j \in 0 .. m - 1 :
           carry[j + 1] = (digit * b[j] + out[i + j] + carry[j]) \div Base
  BY <1>0 DEF Carries
<1> DEFINE row == Row(out, digit, b, i)
<1>2. Base \in Nat \ {0} /\ Base \in Int
  BY WidthFacts
<1>3. row \in Word(n) /\ \A k \in 0 .. n - 1 : k > i + m => row[k] = 0
  <2>1. \A k \in 0 .. n - 1 : k > i + m => row[k] = out[k] /\ k \in i + m .. n - 1
    BY RowTyped
  <2> QED
    BY <2>1, RowTyped
<1>4. row[i + m] = carry[m]
  <2>1. i + m \in 0 .. n - 1 /\ i + m \notin i .. i + m - 1
    OBVIOUS
  <2> QED
    BY <1>1, <2>1 DEF RowLimbs
<1>5. ASSUME NEW j \in 0 .. m - 1
      PROVE  row[i + j] = (digit * b[j] + out[i + j] + carry[j]) % Base
  <2>1. i + j \in 0 .. n - 1 /\ i + j \in i .. i + m - 1 /\ (i + j) - i = j
    OBVIOUS
  <2> QED
    BY <1>1, <2>1 DEF RowLimbs
<1> HIDE DEF row
<1> DEFINE Good == {j \in 0 .. m : Upper(row, n, i + j) =
                                     Upper(out, n, i + j) + digit * Upper(b, m, j) + carry[j]}
<1>6. m \in Good
  <2>1. Upper(b, m, m) = 0 /\ digit * 0 = 0
    BY UpperEquations
  <2>2. Upper(out, n, i + m) = 0
    BY i + m \in 0 .. n, UpperZero
  <2>3. Upper(row, n, i + m + 1) = 0
    <3>1. \A k \in i + m + 1 .. n - 1 : row[k] = 0
      BY <1>3
    <3> QED
      BY <1>3, <3>1, i + m + 1 \in 0 .. n, UpperZero
  <2>4. Upper(row, n, i + m) = carry[m] + Base * Upper(row, n, i + m + 1)
    BY <1>3, <1>4, i + m \in 0 .. n - 1, UpperEquations
  <2>5. Base * 0 = 0 /\ carry[m] \in Int
    BY <1>1, <1>2
  <2> QED
    BY <2>1, <2>2, <2>3, <2>4, <2>5
<1>7. ASSUME NEW j \in 0 .. m - 1, j + 1 \in Good PROVE j \in Good
  <2> DEFINE uo == Upper(out, n, i + j + 1)
             ub == Upper(b, m, j + 1)
             oj == out[i + j]
             bj == b[j]
             cj == carry[j]
             t == digit * bj + oj + cj
             c == carry[j + 1]
             s == row[i + j]
  <2>1. /\ i + j \in 0 .. n - 1 /\ i + j + 1 \in 0 .. n /\ i + (j + 1) = i + j + 1
        /\ j + 1 \in 0 .. m /\ j \in 0 .. m
    OBVIOUS
  <2>2. bj \in 0 .. Base - 1 /\ oj \in 0 .. Base - 1
    BY <2>1 DEF Word
  <2>3. cj \in 0 .. Base - 1
    BY <1>1, <2>1
  <2>4. t \in Nat
    BY <2>2, <2>3, CarryBound
  <2>5. c = t \div Base /\ s = t % Base
    BY <1>1, <1>5
  <2>6. /\ Upper(row, n, i + j) = s + Base * Upper(row, n, i + j + 1)
        /\ Upper(out, n, i + j) = oj + Base * uo
        /\ Upper(b, m, j) = bj + Base * ub
        /\ uo \in Int /\ ub \in Int
    <3>1. Upper(row, n, i + j) = s + Base * Upper(row, n, i + j + 1)
      BY <1>3, <2>1, UpperEquations
    <3>2. Upper(out, n, i + j) = oj + Base * uo /\ uo \in Int
      BY <2>1, UpperEquations
    <3>3. Upper(b, m, j) = bj + Base * ub /\ ub \in Int
      BY <2>1, UpperEquations
    <3> QED
      BY <3>1, <3>2, <3>3
  <2>7. Upper(row, n, i + j + 1) = uo + digit * ub + c
    BY <1>7, <2>1
  <2>8. t = digit * bj + oj + cj
    OBVIOUS
  <2> HIDE DEF uo, ub, oj, bj, cj, t, c, s
  <2>9. s + Base * c = t /\ s \in Int /\ c \in Int
    BY <1>2, <2>4, <2>5, QuotientAndRemainder
  <2>10. s + Base * (uo + digit * ub + c) = (oj + Base * uo) + digit * (bj + Base * ub) + cj
    <3>1. Base * (uo + digit * ub + c) = Base * uo + Base * (digit * ub) + Base * c
      BY <1>2, <2>6, <2>9
    <3>2. digit * (bj + Base * ub) = digit * bj + Base * (digit * ub)
      BY <1>2, <2>2, <2>6
    <3> DEFINE e1 == Base * uo
               e2 == Base * (digit * ub)
               e3 == Base * c
               e4 == digit * bj
    <3>3. e1 \in Int /\ e2 \in Int /\ e3 \in Int /\ e4 \in Int
      BY <1>2, <2>2, <2>6, <2>9
    <3>4. s + e3 = e4 + oj + cj
      BY <2>8, <2>9
    <3> HIDE DEF e1, e2, e3, e4
    <3>5. s + (e1 + e2 + e3) = (oj + e1) + (e4 + e2) + cj
      BY <2>2, <2>3, <2>9, <3>3, <3>4
    <3> QED
      BY <3>1, <3>2, <3>5 DEF e1, e2, e3, e4
  <2>11. Upper(row, n, i + j) = Upper(out, n, i + j) + digit * Upper(b, m, j) + cj
    BY <2>6, <2>7, <2>10
  <2> QED
    BY <2>1, <2>11 DEF cj
<1>8. \A j \in 0 .. m : j \in Good
  <2> HIDE DEF Good
  <2> QED
    BY <1>6, <1>7, Descent
<1>9. Upper(row, n, i) = Upper(out, n, i) + digit * Upper(b, m, 0) + 0
  BY <1>1, <1>8, 0 \in 0 .. m, i + 0 = i
<1>10. Val(b) = Upper(b, m, 0) /\ Upper(b, m, 0) \in Int /\ Upper(out, n, i) \in Int
  <2>1. i \in 0 .. n
    OBVIOUS
  <2> QED
    BY <2>1, UpperEquations
<1>11. digit * Upper(b, m, 0) \in Int
  BY <1>2, <1>10
<1> QED
  BY <1>9, <1>10, <1>11 DEF row

\* The rows of a product, from no limb of the first factor to all of them.
Rows(a, k, b, m, rows) ==
  /\ rows \in [0 .. k -> Word(k + m)]
  /\ mul_limbs(a, b) = rows[k]
  /\ rows[0] = [j \in 0 .. k + m - 1 |-> 0]
  /\ \A i \in 0 .. k - 1 : rows[i + 1] = Row(rows[i], a[i], b, i)

\* The rows exist.
LEMMA RowsExist ==
  ASSUME NEW k \in Nat, NEW a \in Word(k), NEW m \in Nat, NEW b \in Word(m)
  PROVE  \E rows : Rows(a, k, b, m, rows)
<1> DEFINE n == k + m
           W == Word(n)
           zero == [j \in 0 .. n - 1 |-> 0]
           step == [i \in 1 .. k |-> [out \in W |-> Row(out, a[i - 1], b, i - 1)]]
           Shape(f, ka, mb) == f = [i \in 0 .. ka |->
                                      IF i = 0 THEN [j \in 0 .. ka + mb - 1 |-> 0]
                                      ELSE Row(f[i - 1], a[i - 1], b, i - 1)]
           Solves(f) == Shape(f, Cardinality(DOMAIN a), Cardinality(DOMAIN b))
<1>0. Cardinality(DOMAIN a) = k /\ Cardinality(DOMAIN b) = m /\ n \in Nat
  BY FS_Interval DEF Word
<1>1. zero \in W
  <2>1. 0 \in 0 .. Base - 1
    BY WidthFacts
  <2> QED
    BY <2>1 DEF Word
<1>2. ASSUME NEW i \in 1 .. k, NEW out \in W PROVE Row(out, a[i - 1], b, i - 1) \in W
  <2> DEFINE h == i - 1
             digit == a[h]
  <2>1. h \in Nat /\ h \in 0 .. k - 1 /\ h + m < n
    BY DEF n
  <2>2. digit \in 0 .. Base - 1
    BY <2>1 DEF Word
  <2> HIDE DEF h, digit, n
  <2>3. Row(out, digit, b, h) \in Word(n)
    BY <1>0, <2>1, <2>2, RowTyped
  <2> QED
    BY <2>3 DEF h, digit
<1>3. step \in [1 .. k -> [W -> W]]
  <2> HIDE DEF W
  <2> QED
    BY <1>2
<1>4. PICK f \in [0 .. k -> W] : Recursion(f, k, zero, step)
  <2> HIDE DEF step, W, zero
  <2>1. \E f \in [0 .. k -> W] : Recursion(f, k, zero, step)
    BY <1>1, <1>3, RecursionExists
  <2> QED
    BY <2>1
<1>5. ASSUME NEW i \in 0 .. k
      PROVE  f[i] = IF i = 0 THEN zero ELSE Row(f[i - 1], a[i - 1], b, i - 1)
  <2>1. CASE i = 0
    <3> HIDE DEF step, zero
    <3> QED
      BY <1>4, <2>1 DEF Recursion
  <2>2. CASE i # 0
    <3>1. i \in 1 .. k /\ i - 1 \in 0 .. k
      BY <2>2
    <3>2. f[i - 1] \in W
      BY <1>4, <3>1
    <3>3. f[i] = step[i][f[i - 1]]
      <4> HIDE DEF step, zero
      <4> QED
        BY <1>4, <2>2 DEF Recursion
    <3> DEFINE v == f[i - 1]
    <3>4. step[i][v] = Row(v, a[i - 1], b, i - 1)
      <4> HIDE DEF W
      <4> QED
        BY <3>1, <3>2
    <3> QED
      BY <2>2, <3>3, <3>4
  <2> QED
    BY <2>1, <2>2
<1>6. Solves(f)
  <2>1. f = [i \in 0 .. k |-> f[i]]
    BY <1>4
  <2>2. f = [i \in 0 .. k |-> IF i = 0 THEN zero ELSE Row(f[i - 1], a[i - 1], b, i - 1)]
    <3> HIDE DEF zero
    <3> QED
      BY <1>5, <2>1
  <2>3. Shape(f, k, m)
    BY <2>2
  <2> HIDE DEF Shape
  <2> QED
    BY <1>0, <2>3
<1> DEFINE g == CHOOSE h : Solves(h)
<1>7. Solves(g)
  BY <1>6
<1>8. mul_limbs(a, b) = g[Cardinality(DOMAIN a)]
  BY DEF mul_limbs
<1> HIDE DEF g
<1>9. g = [i \in 0 .. k |-> IF i = 0 THEN zero ELSE Row(g[i - 1], a[i - 1], b, i - 1)]
  <2>1. Shape(g, k, m)
    <3> HIDE DEF Shape
    <3> QED
      BY <1>0, <1>7
  <2>2. zero = [j \in 0 .. k + m - 1 |-> 0]
    OBVIOUS
  <2> HIDE DEF zero
  <2>3. g = [i \in 0 .. k |-> IF i = 0 THEN [j \in 0 .. k + m - 1 |-> 0]
                              ELSE Row(g[i - 1], a[i - 1], b, i - 1)]
    BY <2>1
  <2> QED
    BY <2>2, <2>3
<1> HIDE DEF zero, Solves, Shape
<1>10. \A i \in 0 .. k : g[i] = f[i]
  <2>1. g[0] = f[0]
    BY <1>5, <1>9
  <2>2. ASSUME NEW j \in 0 .. k - 1, g[j] = f[j] PROVE g[j + 1] = f[j + 1]
    <3>1. j + 1 \in 0 .. k /\ j + 1 # 0 /\ (j + 1) - 1 = j
      OBVIOUS
    <3> QED
      BY <1>5, <1>9, <2>2, <3>1
  <2> QED
    BY <2>1, <2>2, Agreement
<1>11. mul_limbs(a, b) = f[k]
  BY <1>0, <1>8, <1>10
<1>12. f[0] = zero
  BY <1>5
<1>13. ASSUME NEW i \in 0 .. k - 1 PROVE f[i + 1] = Row(f[i], a[i], b, i)
  <2>1. i + 1 \in 0 .. k /\ i + 1 # 0 /\ (i + 1) - 1 = i
    OBVIOUS
  <2> QED
    BY <1>5, <2>1
<1>14. Rows(a, k, b, m, f)
  BY <1>4, <1>11, <1>12, <1>13 DEF Rows, zero
<1> QED
  BY <1>14

\* The product of two words is exact.
LEMMA MulValue ==
  ASSUME NEW k \in Nat, NEW a \in Word(k), NEW m \in Nat, NEW b \in Word(m)
  PROVE  /\ mul_limbs(a, b) \in Word(k + m)
         /\ Val(mul_limbs(a, b)) = Val(a) * Val(b)
<1> DEFINE n == k + m
<1>0. PICK rows : Rows(a, k, b, m, rows)
  BY RowsExist
<1>1. /\ rows \in [0 .. k -> Word(n)] /\ mul_limbs(a, b) = rows[k]
      /\ rows[0] = [j \in 0 .. n - 1 |-> 0]
      /\ \A i \in 0 .. k - 1 : rows[i + 1] = Row(rows[i], a[i], b, i)
  BY <1>0 DEF Rows
<1>2. n \in Nat /\ Base \in Nat \ {0} /\ Val(b) \in Int
  BY WidthFacts, ValBounds
<1>3. ASSUME NEW i \in 0 .. k - 1
      PROVE  /\ rows[i] \in Word(n) /\ rows[i + 1] \in Word(n) /\ i \in Nat /\ i + m < n
             /\ a[i] \in 0 .. Base - 1
             /\ \A l \in 0 .. n - 1 : l < i \/ l > i + m => rows[i + 1][l] = rows[i][l]
  <2> DEFINE out == rows[i]
             digit == a[i]
  <2>1. out \in Word(n) /\ i \in Nat /\ i + m < n
    BY <1>1
  <2>2. digit \in 0 .. Base - 1
    BY DEF Word
  <2>3. rows[i + 1] = Row(out, digit, b, i) /\ rows[i + 1] \in Word(n)
    BY <1>1
  <2> HIDE DEF out, digit, n
  <2>4. \A l \in 0 .. n - 1 : l < i \/ l > i + m => Row(out, digit, b, i)[l] = out[l]
    BY <1>2, <2>1, <2>2, RowTyped
  <2> QED
    BY <2>1, <2>2, <2>3, <2>4 DEF out, digit
<1>4. \A i \in 0 .. k : \A l \in i + m .. n - 1 : rows[i][l] = 0
  <2> DEFINE Clear == {i \in 0 .. k : \A l \in i + m .. n - 1 : rows[i][l] = 0}
  <2>1. 0 \in Clear
    BY <1>1
  <2>2. ASSUME NEW i \in 0 .. k - 1, i \in Clear PROVE i + 1 \in Clear
    <3>1. ASSUME NEW l \in (i + 1) + m .. n - 1 PROVE rows[i + 1][l] = 0
      <4>1. l \in 0 .. n - 1 /\ l > i + m /\ l \in i + m .. n - 1
        OBVIOUS
      <4> QED
        BY <1>3, <2>2, <4>1
    <3> QED
      BY <3>1
  <2>3. \A i \in 0 .. k : i \in Clear
    <3> HIDE DEF Clear
    <3> QED
      BY <2>1, <2>2, Ascent
  <2> QED
    BY <2>3
<1>5. \A i \in 0 .. k - 1 : rows[k][i] = rows[i + 1][i]
  <2> SUFFICES ASSUME NEW i \in 0 .. k - 1 PROVE rows[k][i] = rows[i + 1][i]
    OBVIOUS
  <2> DEFINE Kept == {l \in 0 .. k : l > i => rows[l][i] = rows[i + 1][i]}
  <2>1. 0 \in Kept
    OBVIOUS
  <2>2. ASSUME NEW l \in 0 .. k - 1, l \in Kept PROVE l + 1 \in Kept
    <3>1. CASE l > i
      <4>1. i \in 0 .. n - 1 /\ i < l
        BY <3>1
      <4>2. rows[l + 1][i] = rows[l][i]
        BY <1>3, <4>1
      <4> QED
        BY <2>2, <3>1, <4>2
    <3>2. CASE l <= i
      <4>1. l + 1 > i => l + 1 = i + 1
        BY <3>2
      <4> QED
        BY <4>1
    <3> QED
      BY <3>1, <3>2
  <2>3. \A l \in 0 .. k : l \in Kept
    <3> HIDE DEF Kept
    <3> QED
      BY <2>1, <2>2, Ascent
  <2>4. k \in 0 .. k /\ k > i
    OBVIOUS
  <2> QED
    BY <2>3, <2>4
<1> DEFINE last == rows[k]
<1>6. last \in Word(n) /\ k \in 0 .. n
  BY <1>1
<1> DEFINE Good == {i \in 0 .. k :
                      Upper(last, n, i) = Upper(rows[i], n, i) + Upper(a, k, i) * Val(b)}
<1>7. k \in Good
  <2>1. Upper(a, k, k) = 0 /\ 0 * Val(b) = 0
    BY <1>2, UpperEquations
  <2>2. Upper(last, n, k) \in Int
    <3> HIDE DEF n, last
    <3> QED
      BY <1>2, <1>6, UpperEquations
  <2> QED
    BY <2>1, <2>2
<1>8. ASSUME NEW i \in 0 .. k - 1, i + 1 \in Good PROVE i \in Good
  <2> DEFINE next == rows[i + 1]
             out == rows[i]
             digit == a[i]
             v == Val(b)
             ua == Upper(a, k, i + 1)
             un == Upper(next, n, i + 1)
             s == next[i]
             d == Upper(out, n, i)
  <2>1. i \in 0 .. n - 1 /\ i + 1 \in 0 .. n /\ i \in 0 .. n /\ i + 1 \in 0 .. k
    BY <1>2
  <2>2. out \in Word(n) /\ next \in Word(n) /\ digit \in 0 .. Base - 1 /\ i + m < n /\ i \in Nat
    BY <1>3
  <2>3. next = Row(out, digit, b, i)
    BY <1>1
  <2>4. \A l \in i + m .. n - 1 : out[l] = 0
    BY <1>4
  <2>5. last[i] = s
    BY <1>5
  <2>6. Upper(last, n, i + 1) = un + ua * v
    BY <1>8
  <2> HIDE DEF n, last, out, next, digit, v
  <2>7. Upper(next, n, i) = d + digit * v
    BY <1>2, <2>2, <2>3, <2>4, RowValue DEF v
  <2>8. Upper(next, n, i) = s + Base * un /\ un \in Int
    BY <1>2, <2>1, <2>2, UpperEquations
  <2>9. Upper(last, n, i) = s + Base * (un + ua * v)
    BY <1>2, <1>6, <2>1, <2>5, <2>6, UpperEquations
  <2>10. Upper(a, k, i) = digit + Base * ua /\ ua \in Int
    BY <2>1, UpperEquations DEF digit
  <2>11. d \in Int /\ s \in Int /\ v \in Int
    <3>1. d \in Int
      BY <1>2, <2>1, <2>2, UpperEquations
    <3>2. s \in Int
      BY <1>2, <2>1, <2>2 DEF Word
    <3> QED
      BY <1>2, <3>1, <3>2 DEF v
  <2> HIDE DEF ua, un, s, d
  <2>12. s + Base * (un + ua * v) = d + (digit + Base * ua) * v
    <3>1. Base * (un + ua * v) = Base * un + Base * (ua * v)
      BY <1>2, <2>8, <2>10, <2>11
    <3>2. (digit + Base * ua) * v = digit * v + Base * (ua * v)
      BY <1>2, <2>2, <2>10, <2>11
    <3> DEFINE e1 == Base * un
               e2 == Base * (ua * v)
               e3 == digit * v
    <3>3. e1 \in Int /\ e2 \in Int /\ e3 \in Int
      BY <1>2, <2>2, <2>8, <2>10, <2>11
    <3>4. s + e1 = d + e3
      BY <2>7, <2>8
    <3> HIDE DEF e1, e2, e3
    <3>5. s + (e1 + e2) = d + (e3 + e2)
      BY <2>11, <3>3, <3>4
    <3> QED
      BY <3>1, <3>2, <3>5 DEF e1, e2, e3
  <2>13. Upper(last, n, i) = d + Upper(a, k, i) * v
    BY <2>9, <2>10, <2>12
  <2> QED
    BY <2>13 DEF d, out, v
<1>9. \A i \in 0 .. k : i \in Good
  <2> HIDE DEF Good
  <2> QED
    BY <1>7, <1>8, Descent
<1>10. Upper(last, n, 0) = Upper(rows[0], n, 0) + Upper(a, k, 0) * Val(b)
  BY <1>9, 0 \in 0 .. k
<1>11. Upper(rows[0], n, 0) = 0
  <2> DEFINE zero == rows[0]
  <2>1. zero \in Word(n) /\ \A j \in 0 .. n - 1 : zero[j] = 0
    BY <1>1
  <2> HIDE DEF n, zero
  <2>2. Upper(zero, n, 0) = 0
    BY <1>2, <2>1, 0 \in 0 .. n, UpperZero
  <2> QED
    BY <2>2 DEF zero
<1>12. Val(last) = Upper(last, n, 0) /\ Val(a) = Upper(a, k, 0) /\ Val(a) \in Int
  <2> HIDE DEF n, last
  <2> QED
    BY <1>2, <1>6, UpperEquations, ValBounds
<1>13. Val(a) * Val(b) \in Int
  BY <1>2, <1>12
<1>14. Val(last) = Val(a) * Val(b)
  BY <1>10, <1>11, <1>12, <1>13
<1> QED
  BY <1>1, <1>6, <1>14

\* One limb of a word shifted right, with the bits of the limb above.
Joined(u, v, c, d) == u \div c + ((v * d) % Base)

JoinedWell(s, u, v, c) == s \in 0 .. Base - 1 /\ c * s = u - (u % c) + Base * (v % c)

\* Each limb shifted right is a limb, and c times it the two limbs less what it drops.
LEMMA ShiftedLimb ==
  ASSUME NEW u \in 0 .. Base - 1, NEW v \in 0 .. Base - 1,
         NEW c \in Nat \ {0}, NEW d \in Nat \ {0}, c * d = Base
  PROVE  JoinedWell(Joined(u, v, c, d), u, v, c)
<1> USE DEF Joined, JoinedWell
<1>1. Base \in Nat \ {0} /\ u \in Nat /\ v \in Nat
  BY WidthFacts
<1> DEFINE uq == u \div c
           ur == u % c
           vq == v \div c
           vr == v % c
<1>2. uq \in Nat /\ ur \in 0 .. c - 1 /\ u = c * uq + ur
  BY u \in Int, u >= 0, QuotientAndRemainder
<1>3. vq \in Nat /\ vr \in 0 .. c - 1 /\ v = c * vq + vr
  BY v \in Int, v >= 0, QuotientAndRemainder
<1> HIDE DEF uq, ur, vq, vr
<1>4. vr * d \in 0 .. Base - 1 /\ vr * d <= Base - d
  <2>1. vr * d \in Nat /\ vr * d <= (c - 1) * d
    BY <1>3
  <2>2. (c - 1) * d = Base - d
    <3>1. (c - 1) * d = c * d - d
      OBVIOUS
    <3> QED
      BY <3>1
  <2> QED
    BY <1>1, <2>1, <2>2
<1>5. (v * d) % Base = vr * d
  <2>1. v * d = vq * Base + vr * d
    <3>1. (c * vq + vr) * d = vq * (c * d) + vr * d
      BY <1>3
    <3> QED
      BY <1>3, <3>1
  <2> DEFINE e == vr * d
             w == v * d
  <2>2. w \in Nat /\ w = vq * Base + e /\ e \in 0 .. Base - 1
    BY <1>1, <1>4, <2>1
  <2> HIDE DEF e, w
  <2>3. e = w % Base
    BY <1>1, <1>3, <2>2, RestIsRemainder
  <2> QED
    BY <2>3 DEF e, w
<1>6. uq < d
  <2>1. c * uq < c * d
    <3>1. c * uq \in Nat
      BY <1>2
    <3> QED
      BY <1>1, <1>2, <3>1
  <2> QED
    BY <1>2, <2>1, Cancel
<1>7. uq + vr * d \in 0 .. Base - 1
  BY <1>1, <1>2, <1>4, <1>6
<1>8. c * (uq + vr * d) = u - ur + Base * vr
  <2>1. c * (uq + vr * d) = c * uq + (c * d) * vr
    BY <1>2, <1>3
  <2>2. c * uq \in Int /\ c * uq = u - ur
    BY <1>1, <1>2
  <2> QED
    BY <1>1, <1>2, <1>3, <2>1, <2>2
<1> QED
  BY <1>5, <1>7, <1>8 DEF uq, ur, vr

\* What is left of a word from limb lo on.
LEMMA UpperIsQuotient ==
  ASSUME NEW n \in Nat, NEW x \in Word(n), NEW lo \in 0 .. n
  PROVE  Upper(x, n, lo) = Val(x) \div Pow(Base, lo)
<1> DEFINE low == Low(x, lo)
           u == Upper(x, n, lo)
           p == Pow(Base, lo)
<1>1. low \in Word(lo) /\ Val(x) = Val(low) + p * u
  BY LowValue
<1>2. u \in Nat /\ Val(x) \in Nat
  BY UpperEquations, ValBounds
<1>3. p \in Nat \ {0}
  BY WidthFacts, PowPositive
<1>4. Val(low) \in Nat /\ Val(low) < p
  BY <1>1, ValBounds
<1> HIDE DEF low, u, p
<1>5. p * u \in Nat
  BY <1>2, <1>3
<1>6. p * u <= Val(x) /\ Val(x) < p * u + p
  BY <1>1, <1>2, <1>3, <1>4, <1>5
<1>7. Val(x) \div p = u
  BY <1>2, <1>3, <1>6, QuotientIs
<1> QED
  BY <1>7 DEF u, p

\* A shift right divides, if what it drops at the top is zero.
LEMMA ShiftValue ==
  ASSUME NEW n \in Nat, NEW x \in Word(n), NEW lo \in Nat, lo + 5 <= n,
         Upper(x, n, lo + 5) = 0, NEW shift \in 0 .. LimbBits
  PROVE  /\ ShiftRight(x, lo, shift) \in Word(5)
         /\ Val(ShiftRight(x, lo, shift)) = Val(x) \div (Pow(Base, lo) * Pow(2, shift))
<1> DEFINE c == Pow(2, shift)
           d == Pow(2, LimbBits - shift)
           y == ShiftRight(x, lo, shift)
           z(i) == Limb(x, lo + i)
<1>1. c \in Nat \ {0} /\ d \in Nat \ {0} /\ c * d = Base
  <2>1. LimbBits - shift \in Nat /\ shift \in Nat /\ shift + (LimbBits - shift) = LimbBits
    BY WidthFacts
  <2>2. c \in Nat \ {0} /\ d \in Nat \ {0}
    BY <2>1, 2 \in Nat \ {0}, PowPositive
  <2>3. c * d = Pow(2, LimbBits)
    BY <2>1, 2 \in Int, PowSum
  <2> QED
    BY <2>2, <2>3, WidthFacts
<1>2. Base \in Nat \ {0} /\ DOMAIN x = 0 .. n - 1
  BY WidthFacts DEF Word
<1>3. ASSUME NEW i \in 0 .. 4 PROVE z(i) = x[lo + i] /\ z(i) \in 0 .. Base - 1 /\ lo + i \in 0 .. n - 1
  <2>1. lo + i \in 0 .. n - 1
    OBVIOUS
  <2>2. x[lo + i] \in 0 .. Base - 1
    BY <2>1 DEF Word
  <2> QED
    BY <1>2, <2>1, <2>2 DEF Limb
<1>4. z(5) = 0
  <2>1. CASE lo + 5 = n
    <3>1. lo + 5 \notin DOMAIN x
      BY <1>2, <2>1
    <3> QED
      BY <3>1 DEF Limb
  <2>2. CASE lo + 5 # n
    <3> DEFINE h == lo + 5
               u == Upper(x, n, h + 1)
    <3>1. h \in 0 .. n - 1 /\ h + 1 \in 0 .. n
      BY <2>2
    <3> HIDE DEF h
    <3>2. Upper(x, n, h) = x[h] + Base * u /\ u \in Nat
      BY <3>1, UpperEquations
    <3>3. x[h] \in Nat /\ Upper(x, n, h) = 0
      BY <1>2, <3>1 DEF Word, h
    <3> HIDE DEF u
    <3>4. Base * u \in Nat
      BY <1>2, <3>2
    <3>5. x[h] = 0
      BY <3>2, <3>3, <3>4
    <3> QED
      BY <1>2, <3>1, <3>5 DEF Limb, h
  <2> QED
    BY <2>1, <2>2
<1>5. ASSUME NEW i \in 0 .. 5 PROVE z(i) \in 0 .. Base - 1
  <2>1. CASE i \in 0 .. 4
    BY <1>3, <2>1
  <2>2. CASE i = 5
    <3>1. 0 \in 0 .. Base - 1
      BY <1>2
    <3> QED
      BY <1>4, <2>2, <3>1, Zenon
  <2>3. i \in 0 .. 4 \/ i = 5
    <3> HIDE DEF z
    <3> QED
      OBVIOUS
  <2> QED
    BY <2>1, <2>2, <2>3, Zenon
<1>6. ASSUME NEW i \in 0 .. 4
      PROVE  y[i] \in 0 .. Base - 1 /\ c * y[i] = z(i) - (z(i) % c) + Base * (z(i + 1) % c)
  <2>1. y[i] = z(i) \div c + ((z(i + 1) * d) % Base)
    <3>1. (lo + i) + 1 = lo + (i + 1)
      OBVIOUS
    <3> QED
      BY <3>1 DEF ShiftRight
  <2> DEFINE u == z(i)
             v == z(i + 1)
  <2>2. u \in 0 .. Base - 1 /\ v \in 0 .. Base - 1
    BY <1>5
  <2> HIDE DEF u, v, c, d, y
  <2>3. /\ u \div c + ((v * d) % Base) \in 0 .. Base - 1
        /\ c * (u \div c + ((v * d) % Base)) = u - (u % c) + Base * (v % c)
    <3>1. JoinedWell(Joined(u, v, c, d), u, v, c)
      BY <1>1, <2>2, ShiftedLimb
    <3> QED
      BY <3>1 DEF Joined, JoinedWell
  <2> QED
    BY <2>1, <2>3 DEF u, v
<1>7. y \in Word(5)
  BY <1>6 DEF ShiftRight, Word
<1> HIDE DEF y, c, d
<1> DEFINE Good == {i \in 0 .. 5 :
                      c * Upper(y, 5, i) = Upper(x, n, lo + i) - (z(i) % c)}
<1>8. 5 \in Good
  <2>1. Upper(y, 5, 5) = 0 /\ c * 0 = 0 /\ 0 % c = 0
    BY <1>1, <1>7, UpperEquations
  <2> QED
    BY <1>4, <2>1
<1>9. ASSUME NEW i \in 0 .. 5 - 1, i + 1 \in Good PROVE i \in Good
  <2> DEFINE u == Upper(y, 5, i + 1)
             h == lo + i
             v == Upper(x, n, h + 1)
             s == z(i)
             sr == z(i) % c
             tr == z(i + 1) % c
  <2>1. i \in 0 .. 4 /\ h \in 0 .. n - 1 /\ h + 1 \in 0 .. n /\ i + 1 \in 0 .. 5
        /\ h + 1 = lo + (i + 1)
    OBVIOUS
  <2>2. u \in Int /\ Upper(y, 5, i) = y[i] + Base * u /\ y[i] \in Int
    BY <1>6, <1>7, <2>1, UpperEquations
  <2> HIDE DEF h
  <2>3. v \in Int /\ Upper(x, n, h) = x[h] + Base * v
    BY <2>1, UpperEquations
  <2>4. c * u = v - tr
    BY <1>9, <2>1
  <2>5. x[h] = s /\ s \in Int
    BY <1>3, <2>1 DEF h
  <2>6. sr \in Int /\ tr \in Int
    <3>1. \A w \in Int : w % c \in Int
      BY <1>1
    <3>2. z(i) \in Int /\ z(i + 1) \in Int
      BY <1>5, <2>1
    <3> HIDE DEF z
    <3> QED
      BY <3>1, <3>2
  <2>7. c * y[i] = s - sr + Base * tr
    BY <1>6, <2>1
  <2> HIDE DEF u, v, s, sr, tr, z
  <2>8. c * (y[i] + Base * u) = c * y[i] + Base * (c * u)
    BY <1>1, <1>2, <2>2
  <2>9. Base * (v - tr) = Base * v - Base * tr
    BY <1>2, <2>3, <2>6
  <2>10. c * y[i] \in Int /\ Base * v \in Int /\ Base * tr \in Int
    BY <1>1, <1>2, <2>2, <2>3, <2>6
  <2>11. c * Upper(y, 5, i) = Upper(x, n, h) - sr
    BY <2>2, <2>3, <2>4, <2>5, <2>6, <2>7, <2>8, <2>9, <2>10
  <2> QED
    BY <2>11 DEF h, sr
<1>10. \A i \in 0 .. 5 : i \in Good
  <2> HIDE DEF Good
  <2> QED
    BY <1>8, <1>9, Descent
<1>11. c * Upper(y, 5, 0) = Upper(x, n, lo) - (z(0) % c)
  BY <1>10, 0 \in 0 .. 5, lo + 0 = lo
<1>12. Val(y) = Upper(y, 5, 0) /\ Val(y) \in Nat /\ Upper(x, n, lo) \in Nat /\ lo \in 0 .. n
  BY <1>7, UpperEquations, ValBounds
<1>13. z(0) % c \in 0 .. c - 1
  <2>1. z(0) \in Int
    BY <1>5
  <2> HIDE DEF z
  <2> QED
    BY <1>1, <2>1, QuotientAndRemainder
<1>14. Val(y) = Upper(x, n, lo) \div c
  <2> DEFINE u == Upper(x, n, lo)
             v == Val(y)
             t == z(0) % c
  <2>1. c * v = u - t /\ u \in Nat /\ v \in Nat /\ t \in 0 .. c - 1
    BY <1>11, <1>12, <1>13
  <2> HIDE DEF u, v, t
  <2>2. c * v \in Nat
    BY <1>1, <2>1
  <2>3. c * v <= u /\ u < c * v + c
    BY <1>1, <2>1, <2>2
  <2>4. u \div c = v
    BY <1>1, <2>1, <2>3, QuotientIs
  <2> QED
    BY <2>4 DEF u, v
<1>15. Upper(x, n, lo) = Val(x) \div Pow(Base, lo)
  BY <1>12, UpperIsQuotient
<1>16. Pow(Base, lo) \in Nat \ {0} /\ Val(x) \in Nat
  BY <1>2, PowPositive, ValBounds
<1>17. (Val(x) \div Pow(Base, lo)) \div c = Val(x) \div (Pow(Base, lo) * c)
  BY <1>1, <1>16, TwiceDivided
<1> QED
  BY <1>7, <1>14, <1>15, <1>17 DEF y, c

-----------------------------------------------------------------------------
(***************************************************************************)
(* Byte strings, and the words they stand for.                             *)
(***************************************************************************)
Bytes == [0 .. Size - 1 -> 0 .. Byte - 1]

\* Digits below the base stand for a number below its power.
LEMMA NumeralBound ==
  ASSUME NEW b \in Nat \ {0}, NEW n \in Nat, NEW d, \A i \in 0 .. n - 1 : d[i] \in 0 .. b - 1
  PROVE  Numeral(d, n, b) \in 0 .. Pow(b, n) - 1
<1> DEFINE Good == {i \in 0 .. n : Numeral(d, i, b) \in 0 .. Pow(b, i) - 1}
<1>1. b \in Int /\ \A i \in 0 .. n - 1 : d[i] \in Int
  OBVIOUS
<1>2. 0 \in Good
  <2>1. Numeral(d, 0, b) = 0 /\ Pow(b, 0) = 1
    BY <1>1, NumeralEquations, PowEquations
  <2> QED
    BY <2>1
<1>3. ASSUME NEW i \in 0 .. n - 1, i \in Good PROVE i + 1 \in Good
  <2> DEFINE u == Numeral(d, i, b)
             p == Pow(b, i)
             e == d[i]
  <2>1. Pow(b, i + 1) = p * b /\ p \in Int
    BY <1>1, PowEquations
  <2>2. Numeral(d, i + 1, b) = u * b + e
    BY <1>1, NumeralEquations
  <2>3. u \in 0 .. p - 1 /\ e \in 0 .. b - 1
    BY <1>3
  <2> HIDE DEF u, p, e
  <2>4. (u + 1) * b <= p * b /\ u * b \in Nat /\ (u + 1) * b = u * b + b /\ p * b \in Int
    BY <2>1, <2>3
  <2>5. u * b + e \in 0 .. p * b - 1
    BY <2>3, <2>4
  <2> QED
    BY <2>1, <2>2, <2>5
<1>4. \A i \in 0 .. n : i \in Good
  <2> HIDE DEF Good
  <2> QED
    BY <1>2, <1>3, Ascent
<1> QED
  BY <1>4

\* A byte string is read as four limbs.
LEMMA BytesRead ==
  ASSUME NEW x \in Bytes
  PROVE  be32_to_limbs_le(x) \in Word(4)
<1> DEFINE d(i) == [j \in 0 .. LimbBytes - 1 |-> x[Size - (i + 1) * LimbBytes + j]]
<1>1. LimbBytes \in Nat \ {0} /\ Byte \in Nat \ {0} /\ Size = 4 * LimbBytes
      /\ Base = Pow(Byte, LimbBytes)
  BY WidthFacts DEF Size, Base
<1>2. ASSUME NEW i \in 0 .. 3, NEW j \in 0 .. LimbBytes - 1
      PROVE  Size - (i + 1) * LimbBytes + j \in 0 .. Size - 1
  <2>1. i = 0 \/ i = 1 \/ i = 2 \/ i = 3
    OBVIOUS
  <2> QED
    BY <1>1, <2>1
<1>3. ASSUME NEW i \in 0 .. 3 PROVE Numeral(d(i), LimbBytes, Byte) \in 0 .. Base - 1
  <2> DEFINE e == d(i)
  <2>1. ASSUME NEW j \in 0 .. LimbBytes - 1 PROVE e[j] \in 0 .. Byte - 1
    BY <1>2 DEF Bytes
  <2> HIDE DEF e
  <2>2. Numeral(e, LimbBytes, Byte) \in 0 .. Pow(Byte, LimbBytes) - 1
    BY <1>1, <2>1, NumeralBound
  <2> QED
    BY <1>1, <2>2 DEF e
<1>4. be32_to_limbs_le(x) = [i \in 0 .. 3 |-> Numeral(d(i), LimbBytes, Byte)]
  BY DEF be32_to_limbs_le
<1> HIDE DEF d
<1> QED
  BY <1>3, <1>4, 4 - 1 = 3 DEF Word

\* Four limbs are written as a byte string.
LEMMA BytesWritten ==
  ASSUME NEW x \in Word(4)
  PROVE  limbs_le_to_be32(x) \in Bytes
<1>1. LimbBytes \in Nat \ {0} /\ Byte \in Nat \ {0} /\ Size = 4 * LimbBytes /\ Base \in Nat
  BY WidthFacts DEF Size
<1>2. ASSUME NEW j \in 0 .. Size - 1
      PROVE  (x[3 - (j \div LimbBytes)] \div Pow(Byte, LimbBytes - 1 - (j % LimbBytes))) % Byte
               \in 0 .. Byte - 1
  <2> DEFINE i == j \div LimbBytes
             s == j % LimbBytes
             p == Pow(Byte, LimbBytes - 1 - s)
  <2>1. i \in Nat /\ LimbBytes * i <= j /\ s \in 0 .. LimbBytes - 1
    <3>1. j \in Nat /\ LimbBytes \in Nat \ {0}
      BY <1>1
    <3>2. i \in Nat /\ LimbBytes * i <= j
      BY <3>1, DivisionRoundsDown
    <3>3. s \in 0 .. LimbBytes - 1
      BY <3>1
    <3> QED
      BY <3>2, <3>3
  <2> HIDE DEF i, s
  <2>2. i \in 0 .. 3
    <3>1. LimbBytes * i < LimbBytes * 4
      BY <1>1, <2>1
    <3>2. i < 4
      BY <1>1, <2>1, <3>1, Cancel
    <3> QED
      BY <2>1, <3>2
  <2>3. p \in Nat \ {0}
    <3>1. LimbBytes - 1 - s \in Nat
      BY <1>1, <2>1
    <3> QED
      BY <1>1, <3>1, PowPositive
  <2>4. x[3 - i] \in Nat
    BY <1>1, <2>2 DEF Word
  <2> HIDE DEF p
  <2> DEFINE v == x[3 - i] \div p
  <2>5. v \in Nat
    BY <2>3, <2>4, DivisionRoundsDown
  <2> HIDE DEF v
  <2>6. v % Byte \in 0 .. Byte - 1
    BY <1>1, <2>5
  <2> QED
    BY <2>6 DEF v, p, i, s
<1> QED
  BY <1>2 DEF limbs_le_to_be32, Bytes

\* Any number has four limbs, and so a byte string.
LEMMA BytesOfTyped ==
  ASSUME NEW v \in Int
  PROVE  BytesOf(v) \in Bytes
<1>1. ASSUME NEW i \in 0 .. 3 PROVE (v \div Pow(Base, i)) % Base \in 0 .. Base - 1
  <2> DEFINE p == Pow(Base, i)
             u == v \div p
  <2>1. p \in Nat \ {0} /\ Base \in Nat \ {0}
    BY WidthFacts, PowPositive
  <2> HIDE DEF p
  <2>2. u \in Int
    BY <2>1
  <2> HIDE DEF u
  <2>3. u % Base \in 0 .. Base - 1
    BY <2>1, <2>2
  <2> QED
    BY <2>3 DEF u, p
<1>2. LimbsOf(v, 4) \in Word(4)
  BY <1>1, 4 - 1 = 3 DEF LimbsOf, Word
<1> QED
  BY <1>2, BytesWritten DEF BytesOf

-----------------------------------------------------------------------------
(***************************************************************************)
(* The order and the words of the reduction.                               *)
(***************************************************************************)

\* The order is in the upper half of its width, and five limbs hold it six times.
LEMMA OrderFacts ==
  /\ Half \in Nat \ {0} /\ Order \in Nat /\ Half < Order /\ Order < 2 * Half
  /\ Pow(Base, 4) = 2 * Half
  /\ Pow(Base, 3) * Pow(2, LimbBits - 1) = Half
  /\ Pow(Base, 8) = 4 * Half * Half
  /\ 8 * Half <= Pow(Base, 5)
<1> DEFINE c == Pow(2, LimbBits - 1)
           p == Pow(Base, 3)
<1>1. LimbBits \in Nat /\ LimbBits > 1 /\ Base \in Int /\ Base \in Nat \ {0}
  BY WidthFacts, LimbAssumption
<1>2. c \in Nat \ {0} /\ c * 2 = Base
  <2>1. LimbBits - 1 \in Nat /\ (LimbBits - 1) + 1 = LimbBits
    BY <1>1
  <2> QED
    BY <2>1, 2 \in Int, 2 \in Nat \ {0}, PowEquations, PowPositive, WidthFacts
<1>3. Base >= 4
  <2> DEFINE e == Pow(2, LimbBits - 2)
  <2>1. LimbBits - 2 \in Nat /\ (LimbBits - 2) + 1 = LimbBits - 1
    BY <1>1
  <2>2. c = e * 2 /\ e \in Nat \ {0}
    BY <2>1, 2 \in Int, 2 \in Nat \ {0}, PowEquations, PowPositive
  <2> HIDE DEF c, e
  <2> QED
    BY <1>2, <2>2
<1>4. p \in Nat \ {0}
  BY <1>1, PowPositive
<1>5. Pow(Base, 4) = p * Base
  BY <1>1, PowEquations, 3 + 1 = 4
<1> HIDE DEF c, p
<1>6. Pow(Base, 4) = 2 * (p * c) /\ p * c \in Nat \ {0}
  <2>1. p * Base = 2 * (p * c)
    BY <1>2, <1>4
  <2>2. p * c \in Nat /\ p * c > 0
    BY <1>2, <1>4
  <2> QED
    BY <1>5, <2>1, <2>2
<1>7. Half = p * c
  <2> DEFINE e == p * c
  <2>1. e \in Nat
    BY <1>6
  <2> HIDE DEF e
  <2>2. (2 * e) \div 2 = e
    BY <2>1
  <2> QED
    BY <1>6, <2>2 DEF e, Half
<1>8. Order \in Half + 1 .. Pow(Base, 4) - 1
  BY OrderAssumption DEF Half
<1>9. Pow(Base, 8) = 4 * Half * Half
  <2>1. Pow(Base, 8) = Pow(Base, 4) * Pow(Base, 4)
    BY <1>1, 4 + 4 = 8, PowSum
  <2>2. (2 * Half) * (2 * Half) = 4 * Half * Half
    BY <1>6, <1>7
  <2> QED
    BY <1>6, <1>7, <2>1, <2>2
<1>10. 8 * Half <= Pow(Base, 5)
  <2>1. Pow(Base, 5) = Pow(Base, 4) * Base
    BY <1>1, PowEquations, 4 + 1 = 5
  <2>2. (2 * Half) * 4 <= (2 * Half) * Base
    BY <1>1, <1>3, <1>6, <1>7
  <2> QED
    BY <1>6, <1>7, <2>1, <2>2
<1> QED
  BY <1>6, <1>7, <1>8, <1>9, <1>10 DEF c, p

\* The reciprocal of an order in the upper half of its width.
LEMMA ReciprocalBounds ==
  ASSUME NEW h \in Nat \ {0}, NEW n \in Nat, h < n, n < 2 * h
  PROVE  /\ (4 * h * h) \div n \in Nat
         /\ n * ((4 * h * h) \div n) <= 4 * h * h
         /\ 4 * h * h < n * ((4 * h * h) \div n) + n
         /\ (4 * h * h) \div n < 4 * h
<1> DEFINE mu == (4 * h * h) \div n
           w == 4 * h * h
<1>1. w \in Nat /\ n \in Nat \ {0}
  OBVIOUS
<1>2. mu \in Nat /\ n * mu <= w /\ w < n * mu + n
  <2>1. mu = w \div n
    OBVIOUS
  <2> HIDE DEF w, mu
  <2> QED
    BY <1>1, <2>1, DivisionRoundsDown
<1> HIDE DEF mu
<1>3. mu < 4 * h
  <2>1. w = h * (4 * h) /\ h * (4 * h) < n * (4 * h) /\ n * mu \in Nat /\ n * (4 * h) \in Nat
    BY <1>2
  <2>2. n * mu < n * (4 * h)
    BY <1>1, <1>2, <2>1
  <2> QED
    BY <1>1, <1>2, <2>2, Cancel
<1> QED
  BY <1>2, <1>3 DEF mu

(***************************************************************************)
(* The estimate of the quotient of a product is at most two too small:     *)
(* n * mu misses 4*h*h by less than n, and the high half of the product is *)
(* below 4*h, so rounding costs less than two multiples of n, and dropping *)
(* the low half of the product less than one.                              *)
(***************************************************************************)
LEMMA QuotientEstimated ==
  ASSUME NEW h \in Nat \ {0}, NEW n \in Nat, h < n, n < 2 * h,
         NEW mu \in Nat, n * mu <= 4 * h * h, 4 * h * h < n * mu + n,
         NEW v \in Nat, v <= (n - 1) * (n - 1),
         NEW q \in Nat, q = ((v \div h) * mu) \div (4 * h)
  PROVE  /\ v \div h \in Nat /\ v \div h < 4 * h
         /\ (v \div h) * mu < 8 * h * h
         /\ q * n <= v
         /\ v < (q + 3) * n
<1> DEFINE a == v \div h
<1>1. h \in Nat \ {0} /\ n \in Nat \ {0} /\ mu \in Nat /\ h < n /\ n < 2 * h
  OBVIOUS
<1>2. n * mu <= 4 * h * h /\ 4 * h * h < n * mu + n
  OBVIOUS
<1>3. a \in Nat /\ h * a <= v /\ v < h * a + h
  BY <1>1, DivisionRoundsDown
<1>4. a * mu \in Nat /\ 4 * h \in Nat \ {0}
  BY <1>1, <1>3
<1>5. q \in Nat /\ (4 * h) * q <= a * mu /\ a * mu < (4 * h) * q + 4 * h
  <2> DEFINE u == a * mu
             g == 4 * h
  <2>1. u \in Nat /\ g \in Nat \ {0} /\ q = u \div g
    BY <1>4
  <2> HIDE DEF u, g
  <2>2. g * q <= u /\ u < g * q + g
    BY <2>1, DivisionRoundsDown
  <2> QED
    BY <2>2 DEF u, g
<1> HIDE DEF a
<1>6. a < 4 * h
  <2>1. (n - 1) * (n - 1) < (2 * h) * (2 * h)
    BY <1>1
  <2>2. h * a < h * (4 * h)
    BY <2>1, <1>1, <1>3
  <2> QED BY <2>2, <1>1, <1>3, Cancel
<1>7. a * mu * n <= (4 * h) * v
  <2>1. a * mu * n <= a * (4 * h * h)
    BY <1>1, <1>2, <1>3
  <2>2. a * (4 * h * h) <= (4 * h) * v
    BY <1>1, <1>3
  <2>3. a * mu * n \in Nat /\ a * (4 * h * h) \in Nat /\ (4 * h) * v \in Nat
    BY <1>1, <1>3
  <2> QED
    BY <2>1, <2>2, <2>3
<1>8. a * mu < 8 * h * h
  <2>1. v < n * (2 * h)
    <3>1. (n - 1) * (n - 1) <= n * n - n /\ n * n <= n * (2 * h)
      BY <1>1
    <3>2. (n - 1) * (n - 1) \in Nat /\ n * n \in Nat /\ n * (2 * h) \in Nat
      BY <1>1
    <3> QED
      BY <1>1, <3>1, <3>2
  <2>2. (4 * h) * v < (4 * h) * (n * (2 * h))
    BY <1>1, <2>1
  <2>3. (4 * h) * (n * (2 * h)) = n * (8 * h * h) /\ a * mu * n = n * (a * mu)
    BY <1>1, <1>3
  <2>4. n * (a * mu) < n * (8 * h * h)
    <3>1. n * (a * mu) \in Nat /\ (4 * h) * v \in Nat /\ n * (8 * h * h) \in Nat
      BY <1>1, <1>3
    <3> QED
      BY <1>7, <2>2, <2>3, <3>1
  <2>5. a * mu \in Int /\ 8 * h * h \in Int
    BY <1>1, <1>3
  <2> QED
    BY <1>1, <2>4, <2>5, Cancel
<1> DEFINE g == 4 * h
           w == 4 * h * h
           p == a * mu
<1>9. /\ g \in Nat \ {0} /\ w \in Nat /\ p \in Nat /\ g * q \in Nat
      /\ g * q <= p /\ p < g * q + g /\ p * n <= g * v /\ a <= g
      /\ a * w = g * (h * a) /\ w <= n * mu + n /\ a * (n * mu + n) = p * n + a * n
  BY <1>1, <1>2, <1>3, <1>4, <1>5, <1>6, <1>7
<1> HIDE DEF g, w, p
<1>12. q * n <= v
  <2>1. (g * q) * n <= p * n /\ (g * q) * n = g * (q * n)
    BY <1>1, <1>5, <1>9
  <2>2. g * (q * n) <= g * v
    <3>1. p * n \in Int /\ g * v \in Int /\ g * (q * n) \in Int
      BY <1>1, <1>5, <1>9
    <3> QED
      BY <1>9, <2>1, <3>1
  <2> QED
    BY <1>5, <1>9, <2>2, q * n \in Int, Cancel
<1>10. h * a < (q + 2) * n
  <2>1. p * n < (g * q + g) * n
    BY <1>1, <1>5, <1>9
  <2>2. a * w <= a * (n * mu + n)
    <3> DEFINE e == n * mu + n
    <3>1. e \in Int /\ w <= e
      BY <1>1, <1>9
    <3> HIDE DEF e
    <3>2. a * w <= a * e
      BY <1>3, <1>9, <3>1
    <3> QED
      BY <3>2 DEF e
  <2>3. a * n <= g * n
    BY <1>1, <1>3, <1>9
  <2>4. (g * q + g) * n + g * n = g * ((q + 2) * n)
    BY <1>1, <1>5, <1>9
  <2>5. a * w \in Int /\ p * n \in Int /\ a * n \in Int /\ g * n \in Int
        /\ (g * q + g) * n \in Int
    BY <1>1, <1>3, <1>5, <1>9
  <2>6. a * w < g * ((q + 2) * n)
    BY <1>9, <2>1, <2>2, <2>3, <2>4, <2>5
  <2>7. h * a \in Int /\ (q + 2) * n \in Int
    BY <1>1, <1>3, <1>5
  <2> QED
    BY <1>9, <2>6, <2>7, Cancel
<1>11. v < (q + 3) * n
  BY <1>1, <1>3, <1>5, <1>10
<1> QED BY <1>3, <1>6, <1>8, <1>11, <1>12 DEF a

\* A word read from a byte string is reduced by one subtraction.
LEMMA ReducedOnce ==
  ASSUME NEW x \in Word(4)
  PROVE  /\ reduce_mod_n_le(x) \in Word(4)
         /\ Val(reduce_mod_n_le(x)) \in 0 .. Order - 1
         /\ Val(reduce_mod_n_le(x)) = Val(x) % Order
<1>1. Half \in Nat \ {0} /\ Order \in Nat /\ Half < Order /\ Order < 2 * Half
      /\ Pow(Base, 4) = 2 * Half
  BY OrderFacts
<1>2. N4 \in Word(4) /\ Val(N4) = Order
  BY <1>1, LimbsOfValue DEF N4
<1>3. Val(x) \in Nat /\ Val(x) < Pow(Base, 4)
  BY ValBounds
<1>4. IsLess(x, N4) <=> Val(x) < Order
  BY <1>2, IsLessValue
<1> DEFINE v == Val(x)
<1>5. v \in Nat /\ v < 2 * Half
  BY <1>1, <1>3
<1>6. CASE v < Order
  <2>1. v % Order = v
    BY <1>1, <1>5, <1>6
  <2> QED
    BY <1>1, <1>4, <1>5, <1>6, <2>1 DEF reduce_mod_n_le
<1>7. CASE ~ (v < Order)
  <2>1. Minus(x, N4) \in Word(4) /\ Val(Minus(x, N4)) = v - Order
    BY <1>1, <1>2, <1>5, <1>7, MinusExact, MinusValue
  <2> HIDE DEF v
  <2>2. v - Order \in 0 .. Order - 1
    BY <1>1, <1>5, <1>7
  <2>3. v - Order = v % Order
    BY <1>1, <1>5, <2>2, 1 * Order = Order, v = 1 * Order + (v - Order), RestIsRemainder
  <2> QED
    BY <1>4, <1>7, <2>1, <2>2, <2>3 DEF reduce_mod_n_le, v
<1> QED
  BY <1>6, <1>7

\* The reciprocal of the order.
Reciprocal == (4 * Half * Half) \div Order

\* The words of the order, of its reciprocal and of zero.
LEMMA ConstantWords ==
  /\ N4 \in Word(4) /\ Val(N4) = Order
  /\ N5 \in Word(5) /\ Val(N5) = Order
  /\ Mu5 \in Word(5) /\ Val(Mu5) = Reciprocal
  /\ Reciprocal \in Nat /\ Reciprocal < 4 * Half
  /\ Order * Reciprocal <= 4 * Half * Half
  /\ 4 * Half * Half < Order * Reciprocal + Order
<1>1. /\ Half \in Nat \ {0} /\ Order \in Nat /\ Half < Order /\ Order < 2 * Half
      /\ Pow(Base, 4) = 2 * Half /\ Pow(Base, 8) = 4 * Half * Half
      /\ 8 * Half <= Pow(Base, 5) /\ Pow(Base, 5) \in Int
  BY OrderFacts, WidthFacts, PowEquations
<1>2. /\ Reciprocal \in Nat /\ Reciprocal < 4 * Half
      /\ Order * Reciprocal <= 4 * Half * Half
      /\ 4 * Half * Half < Order * Reciprocal + Order
  BY <1>1, ReciprocalBounds DEF Reciprocal
<1>3. N4 \in Word(4) /\ Val(N4) = Order
  BY <1>1, LimbsOfValue DEF N4
<1>4. N5 \in Word(5) /\ Val(N5) = Order
  BY <1>1, LimbsOfValue DEF N5
<1>5. Mu5 \in Word(5) /\ Val(Mu5) = Reciprocal
  <2>1. Mu5 = LimbsOf(Reciprocal, 5)
    BY <1>1 DEF Mu5, Reciprocal
  <2>2. Reciprocal < Pow(Base, 5)
    BY <1>1, <1>2
  <2> QED
    BY <1>2, <2>1, <2>2, LimbsOfValue
<1> QED
  BY <1>2, <1>3, <1>4, <1>5

\* The high half of a product is what shr_255_from_512 leaves.
LEMMA HalfValue ==
  ASSUME NEW x \in Word(8)
  PROVE  /\ shr_255_from_512(x) \in Word(5)
         /\ Val(shr_255_from_512(x)) = Val(x) \div Half
<1>1. Upper(x, 8, 3 + 5) = 0
  BY UpperEquations, 3 + 5 = 8
<1>2. LimbBits - 1 \in 0 .. LimbBits
  BY WidthFacts
<1>3. /\ ShiftRight(x, 3, LimbBits - 1) \in Word(5)
      /\ Val(ShiftRight(x, 3, LimbBits - 1))
           = Val(x) \div (Pow(Base, 3) * Pow(2, LimbBits - 1))
  BY <1>1, <1>2, 3 + 5 <= 8, 8 \in Nat, 3 \in Nat, ShiftValue
<1> QED
  BY <1>3, OrderFacts DEF shr_255_from_512

\* The estimate is computed in full: its product does not reach the tenth limb.
LEMMA EstimateValue ==
  ASSUME NEW q \in Word(5), Val(q) * Reciprocal < 8 * Half * Half
  PROVE  /\ ShiftRight(mul_limbs(q, Mu5), 4, 1) \in Word(5)
         /\ Val(ShiftRight(mul_limbs(q, Mu5), 4, 1)) = (Val(q) * Reciprocal) \div (4 * Half)
<1> DEFINE x == mul_limbs(q, Mu5)
<1>1. x \in Word(10) /\ Val(x) = Val(q) * Reciprocal
  <2>1. Mu5 \in Word(5) /\ Val(Mu5) = Reciprocal
    BY ConstantWords
  <2> QED
    BY <2>1, 5 \in Nat, 5 + 5 = 10, MulValue
<1> HIDE DEF x
<1>2. Half \in Nat \ {0} /\ Pow(Base, 4) = 2 * Half /\ Pow(Base, 8) = 4 * Half * Half
      /\ Base \in Int /\ Base >= 2
  BY OrderFacts, WidthFacts
<1>3. Upper(x, 10, 4 + 5) = 0
  <2> DEFINE p == Pow(Base, 9)
  <2>1. Upper(x, 10, 9) = Val(x) \div p
    BY <1>1, 9 \in 0 .. 10, UpperIsQuotient
  <2>2. p = Pow(Base, 8) * Base /\ p \in Nat \ {0}
    BY <1>2, Base \in Nat \ {0}, 8 + 1 = 9, PowEquations, PowPositive
  <2>3. 8 * Half * Half <= p
    <3> DEFINE e == 4 * Half * Half
    <3>1. e \in Nat /\ 8 * Half * Half = e * 2 /\ p = e * Base
      BY <1>2, <2>2
    <3> HIDE DEF e, p
    <3>2. e * 2 <= e * Base
      BY <1>2, <3>1
    <3> QED
      BY <3>1, <3>2
  <2>4. Val(x) \in Nat /\ Val(x) < p
    <3>1. Val(x) \in Nat
      BY <1>1, ValBounds
    <3>2. 8 * Half * Half \in Int
      BY <1>2
    <3> QED
      BY <1>1, <2>2, <2>3, <3>1, <3>2
  <2> HIDE DEF p
  <2>5. p * 0 <= Val(x) /\ Val(x) < p * 0 + p
    BY <2>2, <2>4
  <2>6. Val(x) \div p = 0
    BY <2>2, <2>4, <2>5, QuotientIs
  <2> QED
    BY <2>1, <2>6, 4 + 5 = 9
<1>4. 1 \in 0 .. LimbBits
  BY WidthFacts
<1>5. /\ ShiftRight(x, 4, 1) \in Word(5)
      /\ Val(ShiftRight(x, 4, 1)) = Val(x) \div (Pow(Base, 4) * Pow(2, 1))
  BY <1>1, <1>3, <1>4, 4 + 5 <= 10, 10 \in Nat, 4 \in Nat, ShiftValue
<1>6. Pow(Base, 4) * Pow(2, 1) = 4 * Half
  <2>1. Pow(2, 1) = 2
    BY 2 \in Int, 0 \in Nat, 0 + 1 = 1, PowEquations
  <2>2. (2 * Half) * 2 = 4 * Half
    BY <1>2
  <2> QED
    BY <1>2, <2>1, <2>2
<1> QED
  BY <1>1, <1>5, <1>6 DEF x

\* What is left of a number at five limbs.
LEMMA LowFive ==
  ASSUME NEW n \in Nat, 5 <= n, NEW x \in Word(n)
  PROVE  /\ Low(x, 5) \in Word(5)
         /\ \E u \in Nat : Val(x) = Val(Low(x, 5)) + Pow(Base, 5) * u
<1>1. 5 \in 0 .. n
  OBVIOUS
<1>2. Upper(x, n, 5) \in Nat
  BY <1>1, UpperEquations
<1> QED
  BY <1>1, <1>2, LowValue

(***************************************************************************)
(* Five limbs are enough for the remainder: what they drop of the product  *)
(* and of the multiple of the order cancels out.                           *)
(***************************************************************************)
LEMMA RemainderValue ==
  ASSUME NEW x \in Word(8), NEW q \in Word(5),
         Val(q) * Order <= Val(x), Val(x) < (Val(q) + 3) * Order
  PROVE  /\ Remainder(x, q) \in Word(5)
         /\ Val(Remainder(x, q)) = Val(x) - Val(q) * Order
<1> DEFINE y == mul_limbs(q, N4)
           d == Minus(Low(x, 5), Low(y, 5))
           p == Pow(Base, 5)
           t == Val(x) - Val(q) * Order
<1>1. y \in Word(9) /\ Val(y) = Val(q) * Order
  <2>1. N4 \in Word(4) /\ Val(N4) = Order
    BY ConstantWords
  <2> QED
    BY <2>1, 5 \in Nat, 4 \in Nat, 5 + 4 = 9, MulValue
<1> HIDE DEF y
<1>2. Low(x, 5) \in Word(5) /\ \E u \in Nat : Val(x) = Val(Low(x, 5)) + p * u
  BY 8 \in Nat, 5 <= 8, LowFive
<1>3. Low(y, 5) \in Word(5) /\ \E u \in Nat : Val(y) = Val(Low(y, 5)) + p * u
  BY <1>1, 9 \in Nat, 5 <= 9, LowFive
<1>4. PICK u \in Nat : Val(x) = Val(Low(x, 5)) + p * u
  BY <1>2
<1>5. PICK v \in Nat : Val(y) = Val(Low(y, 5)) + p * v
  BY <1>3
<1>6. d \in Word(5) /\ \E c \in {0, 1} : Val(d) = Val(Low(x, 5)) - Val(Low(y, 5)) + p * c
  BY <1>2, <1>3, 5 \in Nat, MinusValue
<1>7. PICK c \in {0, 1} : Val(d) = Val(Low(x, 5)) - Val(Low(y, 5)) + p * c
  BY <1>6
<1>8. p \in Nat \ {0} /\ 8 * Half <= p
  BY OrderFacts, WidthFacts, PowPositive
<1>9. Half \in Nat /\ Order \in Nat /\ Order < 2 * Half
  BY OrderFacts
<1>10. Val(x) \in Nat /\ Val(q) \in Nat
  BY ValBounds
<1>11. t \in 0 .. p - 1
  <2> DEFINE e == Val(q) * Order
  <2>1. e \in Int /\ (Val(q) + 3) * Order = e + 3 * Order
    BY <1>9, <1>10
  <2> HIDE DEF e
  <2>2. Val(x) - e >= 0 /\ Val(x) - e < 3 * Order
    BY <1>9, <1>10, <2>1 DEF e
  <2>3. t = Val(x) - e
    BY DEF e
  <2> HIDE DEF t
  <2> QED
    BY <1>8, <1>9, <1>10, <2>1, <2>2, <2>3
<1>12. Val(d) \in 0 .. p - 1 /\ Val(Low(x, 5)) \in Int /\ Val(Low(y, 5)) \in Int
  BY <1>2, <1>3, <1>6, <1>8, ValBounds
<1>13. Val(d) = t + p * (c - u + v)
  <2> DEFINE lx == Val(Low(x, 5))
             ly == Val(Low(y, 5))
             pu == p * u
             pv == p * v
             pc == p * c
  <2>1. pu \in Int /\ pv \in Int /\ pc \in Int /\ p * (c - u + v) = pc - pu + pv
    BY <1>8
  <2>3. Val(d) = lx - ly + pc /\ lx \in Int /\ ly \in Int
    BY <1>7, <1>12
  <2>2. t = lx + pu - (ly + pv)
    <3>1. t = Val(x) - Val(y)
      <4> HIDE DEF p
      <4> QED
        BY <1>1
    <3>2. Val(x) = lx + pu
      BY <1>4
    <3>3. Val(y) = ly + pv
      BY <1>5
    <3> HIDE DEF lx, ly, pu, pv, t
    <3> QED
      BY <2>1, <2>3, <3>1, <3>2, <3>3
  <2> HIDE DEF lx, ly, pu, pv, pc, t, d
  <2> QED
    BY <2>1, <2>2, <2>3
<1> DEFINE k == c - u + v
           e == Val(d)
<1>14. k \in Int /\ e \in 0 .. p - 1 /\ e = t + p * k
  BY <1>12, <1>13
<1> HIDE DEF k, e, t, p
<1>15. k = 0
  <2>1. CASE k > 0
    <3>1. p * k >= p /\ p * k \in Int
      BY <1>8, <1>14, <2>1
    <3> QED
      BY <1>8, <1>11, <1>14, <3>1
  <2>2. CASE k < 0
    <3>1. p * k <= - p /\ p * k \in Int
      BY <1>8, <1>14, <2>2
    <3> QED
      BY <1>8, <1>11, <1>14, <3>1
  <2> QED
    BY <1>14, <2>1, <2>2
<1>16. e = t
  <2>1. p * 0 = 0
    BY <1>8
  <2> QED
    BY <1>11, <1>14, <1>15, <2>1
<1>17. Remainder(x, q) = d
  BY DEF Remainder, y
<1> HIDE DEF d
<1> QED
  BY <1>6, <1>16, <1>17 DEF e, t

-----------------------------------------------------------------------------
(***************************************************************************)
(* Byte strings and the numbers they stand for.                            *)
(***************************************************************************)

\* The digits of a limb, and the positions of its bytes.
LEMMA BytePosition ==
  ASSUME NEW i \in 0 .. 3, NEW j \in 0 .. LimbBytes - 1
  PROVE  /\ Size - (i + 1) * LimbBytes + j \in 0 .. Size - 1
         /\ (Size - (i + 1) * LimbBytes + j) \div LimbBytes = 3 - i
         /\ (Size - (i + 1) * LimbBytes + j) % LimbBytes = j
<1> DEFINE t == Size - (i + 1) * LimbBytes + j
           m == LimbBytes
           h == 3 - i
<1>1. m \in Nat \ {0} /\ Size = 4 * m /\ j \in 0 .. m - 1
  BY WidthFacts DEF Size
<1>2. h \in 0 .. 3 /\ t = h * m + j
  BY <1>1
<1> HIDE DEF t, m, h
<1>3. h * m \in Nat /\ h * m <= 3 * m /\ h * m = m * h
  BY <1>1, <1>2
<1>4. t \in Nat /\ t \in 0 .. Size - 1
  BY <1>1, <1>2, <1>3
<1>5. t \div m = h
  <2>1. m * h <= t /\ t < m * h + m
    BY <1>1, <1>2, <1>3
  <2> QED
    BY <1>1, <1>2, <1>4, <2>1, QuotientIs
<1>6. j = t % m
  BY <1>1, <1>2, <1>4, h \in Int, RestIsRemainder
<1> QED
  BY <1>4, <1>5, <1>6 DEF t, m, h

\* What is written as bytes is read back.
LEMMA ReadBack ==
  ASSUME NEW x \in Word(4)
  PROVE  be32_to_limbs_le(limbs_le_to_be32(x)) = x
<1> DEFINE y == limbs_le_to_be32(x)
           d(i) == [j \in 0 .. LimbBytes - 1 |-> y[Size - (i + 1) * LimbBytes + j]]
           n == LimbBytes
           b == Byte
<1>1. n \in Nat \ {0} /\ b \in Nat \ {0} /\ b \in Int /\ Base = Pow(b, n)
  BY WidthFacts DEF Base
<1>2. ASSUME NEW i \in 0 .. 3, NEW j \in 0 .. n - 1
      PROVE  d(i)[j] = (x[i] \div Pow(b, n - 1 - j)) % b
  <2> DEFINE t == Size - (i + 1) * LimbBytes + j
  <2>1. t \in 0 .. Size - 1 /\ t \div LimbBytes = 3 - i /\ t % LimbBytes = j
    BY BytePosition
  <2>2. d(i)[j] = y[t]
    OBVIOUS
  <2> HIDE DEF t, d
  <2>3. y[t] = (x[3 - (t \div LimbBytes)] \div Pow(Byte, LimbBytes - 1 - (t % LimbBytes))) % Byte
    BY <2>1 DEF limbs_le_to_be32
  <2>4. 3 - (3 - i) = i
    OBVIOUS
  <2> QED
    BY <2>1, <2>2, <2>3, <2>4
<1>3. ASSUME NEW i \in 0 .. 3 PROVE Numeral(d(i), n, b) = x[i]
  <2> DEFINE e == d(i)
             v == x[i]
             Good == {j \in 0 .. n : Numeral(e, j, b) = v \div Pow(b, n - j)}
  <2>1. v \in Nat /\ v < Pow(b, n)
    <3>1. v \in 0 .. Base - 1
      BY 4 - 1 = 3 DEF Word
    <3>2. Base \in Int
      BY WidthFacts
    <3> QED
      BY <1>1, <3>1, <3>2
  <2>2. \A j \in 0 .. n - 1 : e[j] = (v \div Pow(b, n - 1 - j)) % b
    BY <1>2
  <2> HIDE DEF e, v, n, b
  <2>3. ASSUME NEW j \in 0 .. n PROVE Pow(b, n - j) \in Nat \ {0} /\ v \div Pow(b, n - j) \in Nat
    <3>1. Pow(b, n - j) \in Nat \ {0}
      BY <1>1, n - j \in Nat, PowPositive
    <3> QED
      BY <2>1, <3>1, DivisionRoundsDown
  <2>4. \A j \in 0 .. n - 1 : e[j] \in Int
    <3> SUFFICES ASSUME NEW j \in 0 .. n - 1 PROVE e[j] \in Int
      OBVIOUS
    <3> DEFINE u == v \div Pow(b, n - (j + 1))
    <3>1. u \in Nat /\ n - (j + 1) = n - 1 - j
      BY <1>1, <2>3, j + 1 \in 0 .. n
    <3>2. e[j] = u % b
      BY <2>2, <3>1
    <3> HIDE DEF u
    <3> QED
      BY <1>1, <3>1, <3>2
  <2>5. 0 \in Good
    <3> DEFINE p == Pow(b, n)
    <3>1. Numeral(e, 0, b) = 0
      BY <1>1, <2>4, NumeralEquations
    <3>2. p \in Nat \ {0} /\ v < p /\ v \in Nat
      BY <1>1, <2>1, PowPositive
    <3> HIDE DEF p
    <3>3. v \div p = 0
      BY <3>2, p * 0 <= v, v < p * 0 + p, QuotientIs
    <3> QED
      BY <1>1, <3>1, <3>3, n - 0 = n DEF p
  <2>6. ASSUME NEW j \in 0 .. n - 1, j \in Good PROVE j + 1 \in Good
    <3> DEFINE u == v \div Pow(b, n - (j + 1))
    <3>1. n - (j + 1) \in Nat /\ (n - (j + 1)) + 1 = n - j /\ n - (j + 1) = n - 1 - j
      BY <1>1
    <3>2. u \in Nat /\ Pow(b, n - (j + 1)) \in Nat \ {0}
      BY <1>1, <2>3, j + 1 \in 0 .. n
    <3>3. Pow(b, n - j) = Pow(b, n - (j + 1)) * b
      BY <1>1, <3>1, PowEquations
    <3>4. u \div b = v \div Pow(b, n - j)
      BY <1>1, <2>1, <3>2, <3>3, TwiceDivided
    <3>5. Numeral(e, j + 1, b) = Numeral(e, j, b) * b + e[j]
      BY <1>1, <2>4, NumeralEquations
    <3>6. e[j] = u % b
      BY <2>2, <3>1
    <3>7. Numeral(e, j, b) = u \div b
      BY <2>6, <3>4
    <3> HIDE DEF u
    <3>8. (u \div b) * b + (u % b) = u
      BY <1>1, <3>2
    <3>9. Numeral(e, j + 1, b) = u
      BY <3>5, <3>6, <3>7, <3>8
    <3>10. j + 1 \in 0 .. n
      BY <1>1
    <3> QED
      BY <3>9, <3>10 DEF u
  <2>7. \A j \in 0 .. n : j \in Good
    <3> HIDE DEF Good
    <3> QED
      BY <1>1, <2>5, <2>6, Ascent
  <2>8. Pow(b, n - n) = 1 /\ n \in 0 .. n
    BY <1>1, n - n = 0, PowEquations
  <2> QED
    BY <2>1, <2>7, <2>8, v \div 1 = v DEF e, v
<1>4. be32_to_limbs_le(y) = [i \in 0 .. 3 |-> Numeral(d(i), n, b)]
  BY DEF be32_to_limbs_le
<1>5. x = [i \in 0 .. 3 |-> x[i]]
  BY 4 - 1 = 3 DEF Word
<1> HIDE DEF d, y
<1> QED
  BY <1>3, <1>4, <1>5 DEF y

\* The byte string of a number stands for it.
LEMMA NumberOfBytes ==
  ASSUME NEW v \in 0 .. Pow(Base, 4) - 1
  PROVE  BytesOf(v) \in Bytes /\ be32_to_limbs_le(BytesOf(v)) \in Word(4) /\ Number(BytesOf(v)) = v
<1>1. Pow(Base, 4) \in Int
  BY WidthFacts, PowEquations
<1>2. v \in Nat /\ v < Pow(Base, 4)
  BY <1>1
<1>3. LimbsOf(v, 4) \in Word(4) /\ Val(LimbsOf(v, 4)) = v
  BY <1>2, LimbsOfValue
<1> QED
  BY <1>2, <1>3, ReadBack, BytesOfTyped, v \in Int DEF BytesOf, Number

\* mod_reduce_once leaves the residue.
LEMMA ReducedBytes ==
  ASSUME NEW x \in Bytes
  PROVE  mod_reduce_once(x) \in Bytes /\ Number(mod_reduce_once(x)) = Number(x) % Order
<1> DEFINE w == be32_to_limbs_le(x)
           z == reduce_mod_n_le(w)
<1>1. w \in Word(4)
  BY BytesRead
<1> HIDE DEF w
<1>2. z \in Word(4) /\ Val(z) = Val(w) % Order
  BY <1>1, ReducedOnce
<1> HIDE DEF z
<1>3. limbs_le_to_be32(z) \in Bytes /\ be32_to_limbs_le(limbs_le_to_be32(z)) = z
  BY <1>2, BytesWritten, ReadBack
<1> QED
  BY <1>2, <1>3 DEF mod_reduce_once, Number, w, z

DigitOf(b, m, e, f) == ((b % m) \div e) % f = (b \div e) % f

\* A digit of a remainder is a digit of the number.
LEMMA DigitOfRemainder ==
  ASSUME NEW b \in Nat, NEW e \in Nat \ {0}, NEW f \in Nat \ {0}, NEW g \in Nat \ {0},
         NEW m \in Nat \ {0}, m = (e * f) * g
  PROVE  DigitOf(b, m, e, f)
<1> DEFINE q == b \div m
           s == b % m
           u == s \div e
           uq == u \div f
           ur == u % f
<1>1. q \in Nat /\ s \in Nat /\ b = m * q + s
  <2>1. b % m \in 0 .. m - 1 /\ b = m * (b \div m) + (b % m) /\ b \div m \in Nat
    BY b \in Int, b >= 0, QuotientAndRemainder
  <2> QED
    BY <2>1
<1> HIDE DEF q, s
<1>2. u \in Nat /\ e * u <= s /\ s < e * u + e
  BY <1>1, DivisionRoundsDown
<1> HIDE DEF u
<1>3. uq \in Nat /\ ur \in 0 .. f - 1 /\ u = f * uq + ur
  <2>1. u % f \in 0 .. f - 1 /\ u = f * (u \div f) + (u % f) /\ u \div f \in Nat
    BY <1>2, u \in Int, u >= 0, QuotientAndRemainder
  <2> QED
    BY <2>1
<1> HIDE DEF uq, ur
<1> DEFINE gq == g * q
           v == f * gq + u
<1>4. gq \in Nat /\ f * gq \in Nat /\ v \in Nat
  BY <1>1, <1>2
<1>5. m * q = e * (f * gq)
  BY <1>1
<1> HIDE DEF gq
<1>6. e * v = m * q + e * u
  BY <1>2, <1>4, <1>5
<1>7. b \div e = v
  <2>1. m * q \in Int /\ e * u \in Int
    BY <1>1, <1>2
  <2>2. e * v <= b /\ b < e * v + e
    BY <1>1, <1>2, <1>6, <2>1
  <2> HIDE DEF v
  <2> QED
    BY <1>4, <2>2, QuotientIs
<1>8. ur = v % f
  <2> DEFINE z == gq + uq
  <2>1. z \in Int /\ v = z * f + ur
    BY <1>3, <1>4
  <2> HIDE DEF z, v
  <2> QED
    BY <1>3, <1>4, <2>1, RestIsRemainder
<1> QED
  BY <1>7, <1>8 DEF ur, u, s, DigitOf

\* The digits of a number are got back from it.
LEMMA NumeralDigit ==
  ASSUME NEW b \in Nat \ {0}, NEW n \in Nat, NEW d, \A i \in 0 .. n - 1 : d[i] \in 0 .. b - 1,
         NEW j \in 0 .. n - 1
  PROVE  d[j] = (Numeral(d, n, b) \div Pow(b, n - 1 - j)) % b
<1> DEFINE v == Numeral(d, n, b)
           Good == {m \in 0 .. n : v \div Pow(b, n - m) = Numeral(d, m, b)}
<1>1. b \in Int /\ \A i \in 0 .. n - 1 : d[i] \in Int
  OBVIOUS
<1>2. ASSUME NEW m \in 0 .. n PROVE Numeral(d, m, b) \in Nat /\ Pow(b, n - m) \in Nat \ {0}
  <2>1. m \in Nat /\ n - m \in Nat /\ \A i \in 0 .. m - 1 : d[i] \in 0 .. b - 1
    OBVIOUS
  <2>2. Numeral(d, m, b) \in 0 .. Pow(b, m) - 1
    BY <2>1, NumeralBound
  <2>3. Pow(b, m) \in Int
    BY <1>1, <2>1, PowEquations
  <2> QED
    BY <2>1, <2>2, <2>3, PowPositive
<1>3. n \in Good
  <2>1. Pow(b, 0) = 1 /\ n - n = 0 /\ v \in Nat
    BY <1>1, <1>2, PowEquations
  <2> HIDE DEF v
  <2>2. v \div 1 = v
    BY <2>1
  <2> QED
    BY <2>1, <2>2 DEF v
<1>4. ASSUME NEW m \in 0 .. n - 1
      PROVE  /\ Numeral(d, m + 1, b) = b * Numeral(d, m, b) + d[m]
             /\ Numeral(d, m + 1, b) \div b = Numeral(d, m, b)
             /\ Numeral(d, m + 1, b) % b = d[m]
  <2> DEFINE u == Numeral(d, m, b)
             w == Numeral(d, m + 1, b)
             e == d[m]
  <2>1. w = u * b + e
    BY <1>1, NumeralEquations
  <2>2. u \in Nat /\ w \in Nat /\ e \in 0 .. b - 1
    BY <1>2, m + 1 \in 0 .. n
  <2> HIDE DEF u, w, e
  <2>3. b * u <= w /\ w < b * u + b /\ w = b * u + e
    BY <2>1, <2>2
  <2>4. w \div b = u
    BY <2>2, <2>3, QuotientIs
  <2>5. e = w % b
    BY <2>1, <2>2, u \in Int, RestIsRemainder
  <2> QED
    BY <2>3, <2>4, <2>5 DEF u, w, e
<1>5. ASSUME NEW m \in 0 .. n - 1, m + 1 \in Good PROVE m \in Good
  <2> DEFINE p == Pow(b, n - (m + 1))
  <2>1. n - (m + 1) \in Nat /\ (n - (m + 1)) + 1 = n - m
    OBVIOUS
  <2>2. Pow(b, n - m) = p * b /\ p \in Nat \ {0}
    BY <1>1, <2>1, PowEquations, PowPositive
  <2>3. v \div p = Numeral(d, m + 1, b)
    BY <1>5
  <2>4. v \in Nat
    BY <1>2, n \in 0 .. n
  <2> HIDE DEF p, v
  <2>5. (v \div p) \div b = v \div (p * b)
    <3>1. p \in Nat \ {0}
      BY <2>2
    <3>2. DividedTwice(v, p, b)
      BY <2>4, <3>1, DivisionsCompose
    <3> QED
      BY <3>2 DEF DividedTwice
  <2> QED
    BY <1>4, <2>2, <2>3, <2>5 DEF v
<1>6. \A m \in 0 .. n : m \in Good
  <2> HIDE DEF Good
  <2> QED
    BY <1>3, <1>5, Descent
<1>7. v \div Pow(b, n - (j + 1)) = Numeral(d, j + 1, b) /\ n - (j + 1) = n - 1 - j
  BY <1>6, j + 1 \in 0 .. n
<1> QED
  BY <1>4, <1>7

Bits == ByteBits * Size

\* The byte of a byte string at a position, from its number.
LEMMA ByteOfNumber ==
  ASSUME NEW x \in Bytes, NEW i \in 0 .. 3, NEW j \in 0 .. LimbBytes - 1
  PROVE  /\ be32_to_limbs_le(x) \in Word(4)
         /\ be32_to_limbs_le(x)[i] = (Number(x) \div Pow(Base, i)) % Base
         /\ x[Size - (i + 1) * LimbBytes + j]
              = (be32_to_limbs_le(x)[i] \div Pow(Byte, LimbBytes - 1 - j)) % Byte
<1> DEFINE w == be32_to_limbs_le(x)
           d == [l \in 0 .. LimbBytes - 1 |-> x[Size - (i + 1) * LimbBytes + l]]
<1>1. w \in Word(4)
  BY BytesRead
<1>2. LimbBytes \in Nat /\ Byte \in Nat \ {0} /\ Base \in Nat \ {0}
  BY WidthFacts
<1>3. w[i] = Numeral(d, LimbBytes, Byte)
  BY DEF be32_to_limbs_le
<1>4. ASSUME NEW l \in 0 .. LimbBytes - 1 PROVE d[l] \in 0 .. Byte - 1
  <2>1. Size - (i + 1) * LimbBytes + l \in 0 .. Size - 1
    BY BytePosition
  <2> QED
    BY <2>1 DEF Bytes
<1>5. d[j] = x[Size - (i + 1) * LimbBytes + j]
  OBVIOUS
<1> HIDE DEF d, w
<1>6. d[j] = (Numeral(d, LimbBytes, Byte) \div Pow(Byte, LimbBytes - 1 - j)) % Byte
  BY <1>2, <1>4, NumeralDigit
<1>7. w[i] = (Val(w) \div Pow(Base, i)) % Base
  <2> DEFINE u == Upper(w, 4, i)
             v == Upper(w, 4, i + 1)
             e == w[i]
  <2>1. u = e + Base * v /\ u \in Nat /\ v \in Nat
    <3>1. i \in 0 .. 4 /\ i + 1 \in 0 .. 4 /\ i \in 0 .. 4 - 1
      OBVIOUS
    <3>2. /\ \A l \in 0 .. 4 - 1 : Upper(w, 4, l) = w[l] + Base * Upper(w, 4, l + 1)
          /\ \A l \in 0 .. 4 : Upper(w, 4, l) \in Nat
      BY <1>1, 4 \in Nat, UpperEquations
    <3> QED
      BY <3>1, <3>2
  <2>2. u = Val(w) \div Pow(Base, i)
    BY <1>1, i \in 0 .. 4, 4 \in Nat, UpperIsQuotient
  <2>3. e \in 0 .. Base - 1
    BY <1>1, 4 - 1 = 3 DEF Word
  <2> HIDE DEF u, v, e
  <2>4. u = v * Base + e
    BY <1>2, <2>1, <2>3
  <2>5. e = u % Base
    BY <1>2, <2>1, <2>3, <2>4, v \in Int, RestIsRemainder
  <2> QED
    BY <2>2, <2>5 DEF e
<1> QED
  BY <1>1, <1>3, <1>5, <1>6, <1>7 DEF w, Number

\* A bit of a byte string, most significant first, from its number.
LEMMA BitOfNumber ==
  ASSUME NEW x \in Bytes, NEW t \in 0 .. Bits - 1
  PROVE  get_bit_be(x, t) = (Number(x) \div Pow(2, Bits - (t + 1))) % 2
<1> DEFINE bb == ByteBits
           lb == LimbBytes
           k == t \div bb
           s == t % bb
           i == 3 - (k \div lb)
           j == k % lb
           w == be32_to_limbs_le(x)
           v == Number(x)
<1>1. bb \in Nat \ {0} /\ lb \in Nat \ {0} /\ Size = 4 * lb /\ Bits = bb * Size
      /\ LimbBits = bb * lb /\ Byte = Pow(2, bb) /\ Base = Pow(2, LimbBits)
  BY WidthFacts DEF Size, Bits, LimbBits, Byte
<1>2. t \in Nat
  <2>1. Bits \in Int
    BY <1>1
  <2> QED
    BY <2>1
<1>3. k \in Nat /\ s \in 0 .. bb - 1 /\ t = bb * k + s
  <2>1. t % bb \in 0 .. bb - 1 /\ t = bb * (t \div bb) + (t % bb) /\ t \div bb \in Nat
    BY <1>1, <1>2, t \in Int, t >= 0, QuotientAndRemainder
  <2> QED
    BY <2>1
<1>4. x[k] \in Int /\ get_bit_be(x, t) = (x[k] \div Pow(2, bb - 1 - s)) % 2 /\ k < 4 * lb
  <2>1. get_bit_be(x, t) = (x[k] \div Pow(2, bb - 1 - s)) % 2
    BY DEF get_bit_be
  <2> HIDE DEF bb, k, s, lb
  <2>2. bb * k < bb * (4 * lb)
    <3>1. bb * k \in Int /\ bb * (4 * lb) \in Int /\ t < bb * (4 * lb)
      BY <1>1, <1>3
    <3> QED
      BY <1>2, <1>3, <3>1
  <2>3. k < 4 * lb
    BY <1>1, <1>3, <2>2, 4 * lb \in Int, Cancel
  <2>4. k \in 0 .. Size - 1
    BY <1>1, <1>3, <2>3
  <2>5. x[k] \in 0 .. Byte - 1
    BY <2>4 DEF Bytes
  <2> QED
    BY <2>1, <2>3, <2>5
<1> HIDE DEF bb, s
<1>5. i \in 0 .. 3 /\ j \in 0 .. lb - 1 /\ k = (3 - i) * lb + j
  <2> DEFINE q == k \div lb
  <2>1. k % lb \in 0 .. lb - 1 /\ k = lb * (k \div lb) + (k % lb) /\ k \div lb \in Nat
    <3> HIDE DEF k, lb
    <3> QED
      BY <1>1, <1>3, k \in Int, k >= 0, QuotientAndRemainder
  <2>2. q \in Nat /\ j \in 0 .. lb - 1 /\ k = lb * q + j /\ i = 3 - q
    BY <2>1
  <2> HIDE DEF q, j, i, k, lb
  <2>3. lb * q < lb * 4
    <3>1. lb * q \in Int
      BY <1>1, <2>2
    <3> QED
      BY <1>1, <1>4, <2>2, <3>1
  <2>4. q < 4
    BY <1>1, <2>2, <2>3, Cancel
  <2>5. 3 - i = q /\ (3 - i) * lb = lb * q
    BY <1>1, <2>2, <2>4
  <2> QED
    BY <2>2, <2>4, <2>5
<1> HIDE DEF i, j, k
<1>6. k = Size - (i + 1) * LimbBytes + j
  <2>1. i = 0 \/ i = 1 \/ i = 2 \/ i = 3
    BY <1>5
  <2> QED
    BY <1>1, <1>5, <2>1
<1>7. /\ w \in Word(4)
      /\ w[i] = (v \div Pow(Base, i)) % Base
      /\ x[k] = (w[i] \div Pow(Byte, lb - 1 - j)) % Byte
  BY <1>5, <1>6, ByteOfNumber
<1>8. w[i] \in Nat /\ v \in Nat /\ Base \in Nat \ {0} /\ Byte \in Nat \ {0}
  <2>1. v = Val(w) /\ Val(w) \in Nat
    BY <1>7, 4 \in Nat, ValBounds DEF Number
  <2>2. w[i] \in 0 .. Base - 1
    BY <1>5, <1>7, 4 - 1 = 3 DEF Word
  <2> HIDE DEF w, v
  <2> QED
    BY <2>1, <2>2, WidthFacts
<1> HIDE DEF w, v, lb
<1> DEFINE e == Pow(2, bb - 1 - s)
           c == Pow(Byte, lb - 1 - j)
           u == Pow(Base, i)
           bj == bb * j
           h == LimbBits - 1 - bj - s
<1>9. /\ bj \in Nat /\ bj + bb <= LimbBits /\ LimbBits \in Nat
      /\ bb * (lb - 1 - j) = LimbBits - bb - bj
      /\ bb - 1 - s \in Nat /\ lb - 1 - j \in Nat /\ h \in Nat
  <2>1. bb * (j + 1) <= bb * lb /\ bb * (j + 1) = bj + bb /\ bb * lb \in Nat /\ bj \in Nat
    BY <1>1, <1>5
  <2>2. bb * (lb - 1 - j) = bb * lb - bb - bj
    BY <1>1, <1>5
  <2> HIDE DEF bj
  <2> QED
    BY <1>1, <1>3, <1>5, <2>1, <2>2
<1>10. e \in Nat \ {0} /\ Pow(2, s) \in Nat \ {0} /\ Byte = (e * 2) * Pow(2, s)
  <2>1. s \in Nat /\ bb - 1 - s \in Nat /\ (bb - 1 - s) + 1 = bb - s /\ (bb - s) + s = bb
        /\ bb - s \in Nat
    BY <1>1, <1>3
  <2>2. e \in Nat \ {0} /\ Pow(2, s) \in Nat \ {0}
    BY <2>1, 2 \in Nat \ {0}, PowPositive
  <2>3. Pow(2, bb - s) = e * 2
    BY <2>1, 2 \in Int, PowEquations
  <2>4. Pow(2, bb) = Pow(2, bb - s) * Pow(2, s)
    BY <2>1, 2 \in Int, PowSum
  <2> QED
    BY <1>1, <2>2, <2>3, <2>4
<1>11. c \in Nat \ {0} /\ c * e = Pow(2, h)
  <2>1. c = Pow(2, bb * (lb - 1 - j))
    BY <1>1, <1>9, 2 \in Int, PowProduct
  <2>2. bb * (lb - 1 - j) \in Nat /\ bb * (lb - 1 - j) + (bb - 1 - s) = h
    <3> HIDE DEF bj
    <3> QED
      BY <1>1, <1>3, <1>9
  <2>3. Pow(2, bb * (lb - 1 - j) + (bb - 1 - s)) = Pow(2, bb * (lb - 1 - j)) * e
    BY <1>9, <2>2, 2 \in Int, PowSum
  <2>4. c \in Nat \ {0}
    BY <1>8, <1>9, PowPositive
  <2> QED
    BY <2>1, <2>2, <2>3, <2>4
<1>12. /\ Pow(2, h) \in Nat \ {0} /\ Pow(2, LimbBits - 1 - h) \in Nat \ {0}
       /\ Base = (Pow(2, h) * 2) * Pow(2, LimbBits - 1 - h)
  <2>1. h \in Nat /\ LimbBits - 1 - h \in Nat /\ (h + 1) + (LimbBits - 1 - h) = LimbBits
    <3> HIDE DEF bj
    <3> QED
      BY <1>3, <1>9
  <2> HIDE DEF h
  <2>2. Pow(2, h + 1) = Pow(2, h) * 2
    BY <2>1, 2 \in Int, PowEquations
  <2>3. Pow(2, (h + 1) + (LimbBits - 1 - h)) = Pow(2, h + 1) * Pow(2, LimbBits - 1 - h)
    BY <2>1, h + 1 \in Nat, 2 \in Int, PowSum
  <2> QED
    BY <1>1, <2>1, <2>2, <2>3, 2 \in Nat \ {0}, PowPositive
<1>13. u \in Nat \ {0} /\ u * Pow(2, h) = Pow(2, Bits - (t + 1))
  <2>1. u = Pow(2, LimbBits * i) /\ u \in Nat \ {0}
    <3>1. i \in Nat
      BY <1>5
    <3>2. u \in Nat \ {0}
      BY <1>8, <3>1, PowPositive
    <3>3. u = Pow(2, LimbBits * i)
      BY <1>1, <1>9, <3>1, 2 \in Int, PowProduct
    <3> QED
      BY <3>2, <3>3
  <2>2. LimbBits * i \in Nat /\ LimbBits * i + h = Bits - (t + 1)
    <3>1. Bits = 4 * LimbBits
      BY <1>1
    <3>2. bb * k = (3 - i) * LimbBits + bj
      <4>1. bb * ((3 - i) * lb + j) = (3 - i) * (bb * lb) + bb * j
        BY <1>1, <1>5
      <4> QED
        BY <1>1, <1>5, <4>1
    <3>3. t = (3 - i) * LimbBits + bj + s
      BY <1>3, <3>2
    <3> HIDE DEF bj
    <3>4. i = 0 \/ i = 1 \/ i = 2 \/ i = 3
      BY <1>5
    <3> QED
      BY <1>3, <1>9, <3>1, <3>3, <3>4
  <2>3. Pow(2, LimbBits * i + h) = Pow(2, LimbBits * i) * Pow(2, h)
    BY <1>9, <2>2, 2 \in Int, PowSum
  <2> QED
    BY <2>1, <2>2, <2>3
<1> HIDE DEF e, c, u, h, bj
<1> DEFINE g == Pow(2, h)
           wc == w[i] \div c
           vu == v \div u
<1>14. wc \in Nat /\ vu \in Nat
  BY <1>8, <1>11, <1>13, DivisionRoundsDown
<1>15. DividedTwice(w[i], c, e) /\ DividedTwice(v, u, g)
  BY <1>8, <1>10, <1>11, <1>12, <1>13, DivisionsCompose
<1>16. DigitOf(wc, Byte, e, 2)
  <2> HIDE DEF wc
  <2> QED
    BY <1>8, <1>10, <1>14, 2 \in Nat \ {0}, DigitOfRemainder
<1>17. DigitOf(vu, Base, g, 2)
  <2> HIDE DEF vu
  <2> QED
    BY <1>8, <1>12, <1>14, 2 \in Nat \ {0}, DigitOfRemainder
<1>18. get_bit_be(x, t) = (wc \div e) % 2
  BY <1>4, <1>7, <1>16 DEF DigitOf, e, c
<1>19. wc \div e = w[i] \div g
  BY <1>11, <1>15 DEF DividedTwice
<1>20. (w[i] \div g) % 2 = (vu \div g) % 2
  BY <1>7, <1>17 DEF DigitOf, u
<1>21. vu \div g = v \div Pow(2, Bits - (t + 1))
  BY <1>13, <1>15 DEF DividedTwice
<1> QED
  BY <1>18, <1>19, <1>20, <1>21 DEF v

\* The byte string of zero, and the one mod_pow returns for the exponent zero.
LEMMA ZeroAndOne ==
  /\ Zero \in Bytes /\ \A t \in 0 .. Size - 1 : Zero[t] = 0
  /\ [Zero EXCEPT ![Size - 1] = 1] \in Bytes
  /\ Number([Zero EXCEPT ![Size - 1] = 1]) = 1
<1> DEFINE one == [Zero EXCEPT ![Size - 1] = 1]
           n == LimbBytes
           b == Byte
<1>1. n \in Nat \ {0} /\ Size = 4 * n /\ b \in Nat \ {0} /\ b \in Int /\ Base \in Nat \ {0}
  BY WidthFacts DEF Size
<1>2. b >= 2
  <2>1. ByteBits - 1 \in Nat /\ (ByteBits - 1) + 1 = ByteBits
    BY WidthFacts
  <2>2. Pow(2, ByteBits) = Pow(2, ByteBits - 1) * 2 /\ Pow(2, ByteBits - 1) \in Nat \ {0}
    BY <2>1, 2 \in Int, 2 \in Nat \ {0}, PowEquations, PowPositive
  <2> QED
    BY <2>2 DEF Byte
<1>3. Zero \in Bytes
  BY 0 \in Int, BytesOfTyped DEF Zero
<1>4. ASSUME NEW t \in 0 .. Size - 1 PROVE Zero[t] = 0
  <2> DEFINE i == t \div n
             s == t % n
             l == LimbsOf(0, 4)
             p == Pow(b, n - 1 - s)
  <2>1. t \in Nat
    BY <1>1
  <2>2. i \in Nat /\ n * i <= t /\ s \in 0 .. n - 1
    <3>1. i \in Nat /\ n * i <= t
      BY <1>1, <2>1, DivisionRoundsDown
    <3>2. s \in 0 .. n - 1
      BY <1>1, <2>1
    <3> QED
      BY <3>1, <3>2
  <2>3. Zero[t] = (l[3 - i] \div p) % b
    BY DEF Zero, BytesOf, limbs_le_to_be32
  <2> HIDE DEF i, s, l, n, b
  <2>4. 3 - i \in 0 .. 3
    <3>1. n * i < n * 4
      BY <1>1, <2>1, <2>2
    <3>2. i < 4
      BY <1>1, <2>2, <3>1, Cancel
    <3> QED
      BY <2>2, <3>2
  <2>5. l[3 - i] = 0
    <3> DEFINE q == Pow(Base, 3 - i)
    <3>1. q \in Nat \ {0}
      BY <1>1, <2>4, 3 - i \in Nat, PowPositive
    <3>2. l[3 - i] = (0 \div q) % Base
      BY <2>4, 4 - 1 = 3 DEF l, LimbsOf
    <3> HIDE DEF q
    <3>3. 0 \div q = 0
      BY <3>1, q * 0 <= 0, 0 < q * 0 + q, QuotientIs
    <3>4. 0 % Base = 0
      BY <1>1
    <3> QED
      BY <3>2, <3>3, <3>4
  <2>6. p \in Nat \ {0}
    BY <1>1, <2>2, n - 1 - s \in Nat, PowPositive
  <2> HIDE DEF p
  <2>7. 0 \div p = 0
    BY <2>6, p * 0 <= 0, 0 < p * 0 + p, QuotientIs
  <2>8. 0 % b = 0
    BY <1>1
  <2> QED
    BY <2>3, <2>5, <2>7, <2>8
<1> HIDE DEF n, b
<1>5. one \in Bytes
  <2>1. 1 \in 0 .. Byte - 1
    BY <1>1, <1>2 DEF b
  <2> QED
    BY <1>3, <2>1 DEF Bytes
<1>6. ASSUME NEW t \in 0 .. Size - 1 PROVE one[t] = IF t = Size - 1 THEN 1 ELSE 0
  BY <1>3, <1>4 DEF Bytes
<1> HIDE DEF one
<1> DEFINE d(i) == [j \in 0 .. n - 1 |-> one[Size - (i + 1) * n + j]]
<1>7. ASSUME NEW i \in 0 .. 3, NEW j \in 0 .. n - 1
      PROVE  d(i)[j] = IF i = 0 /\ j = n - 1 THEN 1 ELSE 0
  <2> DEFINE t == Size - (i + 1) * n + j
  <2>1. t \in 0 .. Size - 1
    BY BytePosition DEF n
  <2>2. t = Size - 1 <=> i = 0 /\ j = n - 1
    <3>1. i = 0 \/ i = 1 \/ i = 2 \/ i = 3
      OBVIOUS
    <3> QED
      BY <1>1, <3>1
  <2>3. d(i)[j] = one[t]
    OBVIOUS
  <2> HIDE DEF t, d
  <2> QED
    BY <1>6, <2>1, <2>2, <2>3
<1>8. ASSUME NEW i \in 0 .. 3 PROVE Numeral(d(i), n, b) = IF i = 0 THEN 1 ELSE 0
  <2> DEFINE e == d(i)
             Good == {j \in 0 .. n - 1 : Numeral(e, j, b) = 0}
  <2>1. \A j \in 0 .. n - 1 : e[j] = (IF i = 0 /\ j = n - 1 THEN 1 ELSE 0) /\ e[j] \in Int
    BY <1>7
  <2> HIDE DEF e, d
  <2>2. /\ Numeral(e, 0, b) = 0
        /\ \A j \in 0 .. n - 1 : Numeral(e, j + 1, b) = Numeral(e, j, b) * b + e[j]
    BY <1>1, <2>1, n \in Nat, NumeralEquations
  <2>3. 0 \in Good
    BY <1>1, <2>2
  <2>4. ASSUME NEW j \in 0 .. (n - 1) - 1, j \in Good PROVE j + 1 \in Good
    <3>1. j \in 0 .. n - 1 /\ j + 1 \in 0 .. n - 1 /\ j # n - 1
      BY <1>1
    <3>2. Numeral(e, j, b) = 0 /\ e[j] = 0 /\ 0 * b + 0 = 0
      BY <1>1, <2>1, <2>4, <3>1
    <3> QED
      BY <2>2, <3>1, <3>2
  <2>5. \A j \in 0 .. n - 1 : j \in Good
    <3> HIDE DEF Good
    <3> QED
      BY <1>1, <2>3, <2>4, n - 1 \in Nat, Ascent
  <2>6. n - 1 \in 0 .. n - 1 /\ (n - 1) + 1 = n
    BY <1>1
  <2>7. Numeral(e, n - 1, b) = 0 /\ 0 * b = 0
    BY <1>1, <2>5, <2>6
  <2>8. Numeral(e, n, b) = 0 + e[n - 1]
    BY <2>2, <2>6, <2>7
  <2> QED
    BY <2>1, <2>6, <2>8 DEF e
<1> DEFINE w == be32_to_limbs_le(one)
<1>9. w = [i \in 0 .. 3 |-> Numeral(d(i), n, b)]
  BY DEF be32_to_limbs_le, n, b
<1>10. w \in Word(4)
  BY <1>5, BytesRead
<1> HIDE DEF d, w
<1>11. \A i \in 0 .. 3 : w[i] = IF i = 0 THEN 1 ELSE 0
  BY <1>8, <1>9
<1>12. Val(w) = 1
  <2> DEFINE u == Upper(w, 4, 1)
  <2>1. u = 0
    <3>1. \A j \in 1 .. 4 - 1 : w[j] = 0
      BY <1>11
    <3> QED
      BY <1>10, <3>1, 4 \in Nat, 1 \in 0 .. 4, UpperZero
  <2>2. Val(w) = Upper(w, 4, 0) /\ Upper(w, 4, 0) = w[0] + Base * Upper(w, 4, 0 + 1)
    BY <1>10, 4 \in Nat, 0 \in 0 .. 4 - 1, UpperEquations
  <2>3. w[0] = 1 /\ 0 + 1 = 1 /\ Base * 0 = 0
    BY <1>1, <1>11, 0 \in 0 .. 3
  <2> QED
    BY <2>1, <2>2, <2>3
<1> QED
  BY <1>3, <1>4, <1>5, <1>12 DEF Number, w, one

-----------------------------------------------------------------------------
(***************************************************************************)
(* Powers modulo the order.                                                *)
(***************************************************************************)
ModProduct(a, b, n) == ((a % n) * b) % n = (a * b) % n

\* A factor may be replaced by its residue.
LEMMA FactorReduced ==
  ASSUME NEW a \in Nat, NEW b \in Nat, NEW n \in Nat \ {0}
  PROVE  ModProduct(a, b, n)
<1> DEFINE q == a \div n
           s == a % n
           p == s * b
           u == p \div n
           v == p % n
<1>1. q \in Nat /\ s \in 0 .. n - 1 /\ a = n * q + s
  <2>1. a % n \in 0 .. n - 1 /\ a = n * (a \div n) + (a % n) /\ a \div n \in Nat
    BY a \in Int, a >= 0, QuotientAndRemainder
  <2> QED
    BY <2>1
<1> HIDE DEF q, s
<1>2. p \in Nat
  BY <1>1
<1>3. a * b = n * (q * b) + p /\ q * b \in Nat /\ a * b \in Nat
  BY <1>1
<1> HIDE DEF p
<1>4. u \in Nat /\ v \in 0 .. n - 1 /\ p = n * u + v
  <2>1. p % n \in 0 .. n - 1 /\ p = n * (p \div n) + (p % n) /\ p \div n \in Nat
    BY <1>2, p \in Int, p >= 0, QuotientAndRemainder
  <2> QED
    BY <2>1
<1> HIDE DEF u, v
<1> DEFINE qb == q * b
           ab == a * b
           z == qb + u
<1>5. z \in Int /\ ab = z * n + v /\ ab \in Nat
  <2>1. qb \in Nat /\ ab = n * qb + p /\ ab \in Nat
    BY <1>3
  <2> HIDE DEF qb, ab
  <2> QED
    BY <1>4, <2>1
<1> HIDE DEF z, ab, qb
<1>6. v = ab % n
  BY <1>4, <1>5, RestIsRemainder
<1> QED
  BY <1>6 DEF ModProduct, v, p, s, ab

\* Powers as the recursion defines them.
LEMMA PowerEquations ==
  ASSUME NEW x \in Nat, NEW n \in Nat
  PROVE  /\ Power(x, 0) = 1
         /\ Power(x, n) \in 0 .. Order - 1
         /\ Power(x, n + 1) = (Power(x, n) * x) % Order
<1> DEFINE S == 0 .. Order - 1
           top == n + 1
           step == [i \in 1 .. top |-> [v \in S |-> (v * x) % Order]]
           Solves(f, m) == f = [i \in 0 .. m |-> IF i = 0 THEN 1 ELSE (f[i - 1] * x) % Order]
           chosen(m) == CHOOSE f : Solves(f, m)
<1>1. Order \in Nat /\ Order > 1
  BY OrderFacts
<1>2. ASSUME NEW v \in S PROVE (v * x) % Order \in S
  <2>1. v * x \in Nat
    OBVIOUS
  <2> DEFINE u == v * x
  <2> HIDE DEF u
  <2>2. u % Order \in S
    BY <1>1, <2>1 DEF u
  <2> QED
    BY <2>2 DEF u
<1>3. top \in Nat /\ step \in [1 .. top -> [S -> S]] /\ 1 \in S
  <2> HIDE DEF S
  <2>1. step \in [1 .. top -> [S -> S]]
    BY <1>2
  <2> QED
    BY <1>1, <2>1 DEF S
<1>4. ASSUME NEW i \in 1 .. top, NEW v \in S PROVE step[i][v] = (v * x) % Order
  <2> HIDE DEF S
  <2> QED
    BY <1>4
<1> HIDE DEF step, S
<1>5. PICK f \in [0 .. top -> S] : Recursion(f, top, 1, step)
  <2> HIDE DEF top
  <2> QED
    BY <1>3, RecursionExists
<1>6. \A i \in 1 .. top : f[i] = (f[i - 1] * x) % Order
  <2> SUFFICES ASSUME NEW i \in 1 .. top PROVE f[i] = (f[i - 1] * x) % Order
    OBVIOUS
  <2>1. f[i - 1] \in S
    BY <1>5
  <2>2. f[i] = step[i][f[i - 1]]
    BY <1>5 DEF Recursion
  <2> QED
    BY <1>4, <2>1, <2>2
<1>7. f[0] = 1
  BY <1>5 DEF Recursion
<1>8. ASSUME NEW m \in 0 .. top PROVE Power(x, m) = f[m]
  <2>1. Solves([i \in 0 .. m |-> f[i]], m)
    BY <1>6, <1>7
  <2>2. Solves(chosen(m), m)
    BY <2>1
  <2> DEFINE g == chosen(m)
  <2>3. Power(x, m) = g[m]
    BY DEF Power
  <2>4. g = [i \in 0 .. m |-> IF i = 0 THEN 1 ELSE (g[i - 1] * x) % Order]
    BY <2>2
  <2> HIDE DEF g
  <2>5. g[0] = f[0]
    BY <1>7, <2>4
  <2>6. ASSUME NEW j \in 0 .. m - 1, g[j] = f[j] PROVE g[j + 1] = f[j + 1]
    <3>1. j + 1 \in 0 .. m /\ j + 1 \in 1 .. top /\ (j + 1) - 1 = j
      BY <1>8
    <3>2. g[j + 1] = (g[j] * x) % Order
      BY <2>4, <3>1
    <3>3. f[j + 1] = (f[j] * x) % Order
      BY <1>6, <3>1
    <3> QED
      BY <2>6, <3>2, <3>3
  <2>7. \A j \in 0 .. m : g[j] = f[j]
    BY <2>5, <2>6, m \in Nat, Agreement
  <2> QED
    BY <2>3, <2>7
<1> QED
  BY <1>5, <1>6, <1>7, <1>8 DEF S

\* Exponents add up modulo the order too.
LEMMA PowerSum ==
  ASSUME NEW x \in Nat, NEW m \in Nat, NEW n \in Nat
  PROVE  Power(x, m + n) = (Power(x, m) * Power(x, n)) % Order
<1> DEFINE a == Power(x, m)
           Good == {i \in 0 .. n : Power(x, m + i) = (a * Power(x, i)) % Order}
<1>1. Order \in Nat \ {0} /\ Order \in Int
  BY OrderFacts
<1>2. a \in 0 .. Order - 1
  BY PowerEquations
<1> HIDE DEF a
<1>3. 0 \in Good
  <2>1. Power(x, 0) = 1 /\ m + 0 = m /\ a * 1 = a
    BY <1>1, <1>2, 0 \in Nat, PowerEquations
  <2>2. a % Order = a
    BY <1>1, <1>2
  <2> QED
    BY <2>1, <2>2 DEF a
<1>4. ASSUME NEW i \in 0 .. n - 1, i \in Good PROVE i + 1 \in Good
  <2> DEFINE b == Power(x, i)
             c == Power(x, i + 1)
  <2>1. c = (b * x) % Order /\ b \in 0 .. Order - 1
    BY PowerEquations
  <2>2. Power(x, (m + i) + 1) = (Power(x, m + i) * x) % Order
    BY m + i \in Nat, PowerEquations
  <2>3. Power(x, m + i) = (a * b) % Order
    BY <1>4
  <2> HIDE DEF b, c
  <2>4. a \in Nat /\ b \in Nat
    BY <1>1, <1>2, <2>1
  <2> DEFINE ab == a * b
             bx == b * x
  <2>5. ab \in Nat /\ bx \in Nat /\ ab * x = bx * a
    BY <2>4
  <2> HIDE DEF ab, bx
  <2>6. ModProduct(ab, x, Order) /\ ModProduct(bx, a, Order)
    BY <1>1, <2>4, <2>5, FactorReduced
  <2>7. ((ab % Order) * x) % Order = ((bx % Order) * a) % Order
    BY <2>5, <2>6 DEF ModProduct
  <2>8. Power(x, (m + i) + 1) = (c * a) % Order
    BY <2>1, <2>2, <2>3, <2>7 DEF ab, bx
  <2>9. c * a = a * c
    <3>1. c \in Int
      BY PowerEquations, i + 1 \in Nat, <1>1 DEF c
    <3> QED
      BY <2>4, <3>1
  <2> QED
    BY <2>8, <2>9, (m + i) + 1 = m + (i + 1) DEF c
<1>5. \A i \in 0 .. n : i \in Good
  <2> HIDE DEF Good
  <2> QED
    BY <1>3, <1>4, Ascent
<1> QED
  BY <1>5 DEF a

\* The base of a power may be reduced.
LEMMA PowerReduced ==
  ASSUME NEW x \in Nat, NEW n \in Nat
  PROVE  x % Order \in Nat /\ Power(x % Order, n) = Power(x, n)
<1> DEFINE y == x % Order
           Good == {i \in 0 .. n : Power(y, i) = Power(x, i)}
<1>1. Order \in Nat \ {0}
  BY OrderFacts
<1>2. y \in Nat
  BY <1>1
<1> HIDE DEF y
<1>3. 0 \in Good
  BY <1>2, 0 \in Nat, PowerEquations
<1>4. ASSUME NEW i \in 0 .. n - 1, i \in Good PROVE i + 1 \in Good
  <2> DEFINE p == Power(x, i)
  <2>1. Power(x, i + 1) = (p * x) % Order /\ Power(y, i + 1) = (p * y) % Order
    BY <1>2, <1>4, PowerEquations
  <2>2. p \in 0 .. Order - 1
    BY PowerEquations
  <2> HIDE DEF p
  <2>3. p \in Nat /\ p * x = x * p /\ p * y = y * p
    BY <1>1, <1>2, <2>2
  <2>4. ModProduct(x, p, Order)
    BY <1>1, <2>3, FactorReduced
  <2>5. (y * p) % Order = (x * p) % Order
    BY <2>4 DEF ModProduct, y
  <2> QED
    BY <2>1, <2>3, <2>5
<1>5. \A i \in 0 .. n : i \in Good
  <2> HIDE DEF Good
  <2> QED
    BY <1>3, <1>4, Ascent
<1> QED
  BY <1>2, <1>5 DEF y

\* The first i bits of a number.
Leading(v, i) == v \div Pow(2, Bits - i)

\* The leading bits of a number, one more at a time.
LEMMA LeadingBits ==
  ASSUME NEW v \in Nat, v < Pow(Base, 4)
  PROVE  /\ Leading(v, 0) = 0 /\ Leading(v, Bits) = v /\ Bits \in Nat
         /\ \A i \in 0 .. Bits : Leading(v, i) \in Nat
         /\ \A i \in 0 .. Bits - 1 :
              Leading(v, i + 1) = 2 * Leading(v, i) + (Leading(v, i + 1) % 2)
<1>1. LimbBits \in Nat /\ Bits = LimbBits * 4 /\ Bits \in Nat /\ Base = Pow(2, LimbBits)
  BY WidthFacts DEF Bits, LimbBits, Size
<1>2. Pow(2, Bits) = Pow(Base, 4)
  BY <1>1, 2 \in Int, 4 \in Nat, PowProduct
<1>3. ASSUME NEW i \in 0 .. Bits
      PROVE  Pow(2, Bits - i) \in Nat \ {0} /\ Leading(v, i) \in Nat
  <2>1. Bits - i \in Nat
    BY <1>1
  <2>2. Pow(2, Bits - i) \in Nat \ {0}
    BY <2>1, 2 \in Nat \ {0}, PowPositive
  <2> QED
    BY <2>2, DivisionRoundsDown DEF Leading
<1>4. Leading(v, 0) = 0
  <2> DEFINE p == Pow(2, Bits - 0)
  <2>1. p \in Nat \ {0} /\ v < p
    BY <1>1, <1>2, <1>3, Bits - 0 = Bits, 0 \in 0 .. Bits
  <2> HIDE DEF p
  <2>2. v \div p = 0
    BY <2>1, p * 0 <= v, v < p * 0 + p, QuotientIs
  <2> QED
    BY <2>2 DEF Leading, p
<1>5. Leading(v, Bits) = v
  <2>1. Pow(2, 0) = 1 /\ Bits - Bits = 0
    BY <1>1, 2 \in Int, 0 \in Nat, PowEquations
  <2>2. v \div 1 = v
    OBVIOUS
  <2> QED
    BY <2>1, <2>2 DEF Leading
<1>6. ASSUME NEW i \in 0 .. Bits - 1
      PROVE  Leading(v, i + 1) = 2 * Leading(v, i) + (Leading(v, i + 1) % 2)
  <2> DEFINE p == Pow(2, Bits - (i + 1))
             u == v \div p
  <2>1. Bits - (i + 1) \in Nat /\ (Bits - (i + 1)) + 1 = Bits - i /\ i + 1 \in 0 .. Bits
    BY <1>1
  <2>2. Pow(2, Bits - i) = p * 2
    BY <2>1, 2 \in Int, PowEquations
  <2>3. p \in Nat \ {0} /\ u \in Nat /\ u = Leading(v, i + 1)
    BY <1>3, <2>1 DEF Leading
  <2> HIDE DEF p
  <2>4. DividedTwice(v, p, 2)
    BY <2>3, 2 \in Nat \ {0}, DivisionsCompose
  <2>5. u \div 2 = Leading(v, i)
    BY <2>2, <2>4 DEF DividedTwice, Leading
  <2> HIDE DEF u
  <2>6. u = 2 * (u \div 2) + (u % 2)
    BY <2>3
  <2> QED
    BY <2>3, <2>5, <2>6
<1> QED
  BY <1>1, <1>3, <1>4, <1>5, <1>6

-----------------------------------------------------------------------------
(***************************************************************************)
(* Barrett reduction on whole numbers.                                     *)
(***************************************************************************)

\* The constants: Mu is the quotient of 4*H*H by the order.
LEMMA ConstantFacts ==
  /\ H \in Nat \ {0} /\ N \in Nat \ {0} /\ Mu \in Nat /\ H < N /\ N < 2 * H
  /\ N * Mu <= 4 * H * H
  /\ 4 * H * H < N * Mu + N
BY HAssumption, NAssumption, MuAssumption, ReciprocalBounds

\* The estimate of the quotient of a product is at most two too small.
LEMMA EstimateBounds ==
  ASSUME NEW v \in Nat, v <= (N - 1) * (N - 1)
  PROVE  /\ v \div H \in Nat
         /\ Estimate(v \div H) \in Nat
         /\ Estimate(v \div H) * N <= v
         /\ v < (Estimate(v \div H) + 3) * N
<1> DEFINE a == v \div H
           q == Estimate(a)
<1>1. H \in Nat \ {0} /\ N \in Nat /\ Mu \in Nat /\ H < N /\ N < 2 * H
      /\ N * Mu <= 4 * H * H /\ 4 * H * H < N * Mu + N
  BY ConstantFacts
<1>2. a \in Nat
  BY <1>1, DivisionRoundsDown
<1>3. q = ((v \div H) * Mu) \div (4 * H)
  BY DEF Estimate
<1>4. q \in Nat
  <2> HIDE DEF a
  <2> DEFINE u == a * Mu
             g == 4 * H
  <2>1. u \in Nat /\ g \in Nat \ {0}
    BY <1>1, <1>2
  <2> HIDE DEF u, g
  <2>2. u \div g \in Nat
    BY <2>1, DivisionRoundsDown
  <2> QED
    BY <2>2 DEF u, g, Estimate
<1> HIDE DEF q
<1>5. q * N <= v /\ v < (q + 3) * N
  BY <1>1, <1>3, <1>4, QuotientEstimated
<1> QED
  BY <1>2, <1>4, <1>5 DEF q

BarrettTypes ==
  /\ phase \in {"idle", "shift", "estimate", "remainder", "subtract"}
  /\ product \in Nat /\ product <= (N - 1) * (N - 1)
  /\ high \in Nat /\ quotient \in Nat /\ rest \in Int
  /\ subtractions \in 0 .. MaxRounds

(***************************************************************************)
(* What the reduction keeps: the estimate while it is computed, and from   *)
(* the first remainder on the quotient and rest of the product, the        *)
(* subtractions made counting as quotient.                                 *)
(***************************************************************************)
Progress ==
  /\ phase \in {"shift", "estimate", "remainder"} => subtractions = 0
  /\ phase = "estimate" => high = product \div H
  /\ phase = "remainder" => quotient = Estimate(product \div H)
  /\ phase \in {"subtract", "idle"} => product = (quotient + subtractions) * N + rest
  /\ phase = "subtract" => 0 <= rest /\ rest < (3 - subtractions) * N
  /\ phase = "idle" => 0 <= rest /\ rest < N

BarrettInv == BarrettTypes /\ Progress

\* The invariant holds initially.
LEMMA InitBarrettInv == BarrettInit => BarrettInv
BY ConstantFacts DEF BarrettInit, BarrettInv, BarrettTypes, Progress, MaxRounds

\* Every step keeps the invariant.
LEMMA NextBarrettInv == BarrettInv /\ [BarrettNext]_barrettVars => BarrettInv'
<1> SUFFICES ASSUME BarrettInv, [BarrettNext]_barrettVars PROVE BarrettInv'
  OBVIOUS
<1> USE DEF BarrettInv, BarrettTypes, Progress, MaxRounds
<1>0. H \in Nat \ {0} /\ N \in Nat \ {0}
  BY ConstantFacts
<1>1. CASE Load
  BY <1>0, <1>1, ProductsAssumption DEF Load
<1>2. CASE Halve
  BY <1>0, <1>2, EstimateBounds DEF Halve
<1>3. CASE Divide
  BY <1>0, <1>3, EstimateBounds DEF Divide
<1>4. CASE TakeRest
  <2>1. quotient * N <= product /\ product < (quotient + 3) * N
    BY <1>4, EstimateBounds DEF TakeRest
  <2>2. rest' = product - quotient * N
    BY <1>4 DEF TakeRest, Rest
  <2>3. rest' \in Int /\ 0 <= rest' /\ rest' < 3 * N
    BY <2>1, <2>2, <1>0
  <2> QED BY <2>2, <2>3, <1>0, <1>4 DEF TakeRest
<1>5. CASE Correction
  <2>1. rest' = rest - N /\ subtractions' = subtractions + 1
        /\ subtractions \in {0, 1} /\ rest >= N
    BY <1>5 DEF Correction
  <2>2. product = (quotient + subtractions') * N + rest'
    BY <2>1, <1>0, <1>5 DEF Correction
  <2>3. 0 <= rest' /\ rest' < (3 - subtractions') * N
    BY <2>1, <1>0, <1>5 DEF Correction
  <2> QED BY <2>1, <2>2, <2>3, <1>0, <1>5 DEF Correction
<1>6. CASE Return
  BY <1>0, <1>6 DEF Return
<1>7. CASE UNCHANGED barrettVars
  BY <1>7 DEF barrettVars
<1> QED
  BY <1>1, <1>2, <1>3, <1>4, <1>5, <1>6, <1>7 DEF BarrettNext

\* The invariant holds throughout.
LEMMA BarrettInductive == BarrettSpec => []BarrettInv
BY InitBarrettInv, NextBarrettInv, PTL DEF BarrettSpec

(***************************************************************************)
(* barrett_reduce_mod_n never wraps in its subtractions, and two of them   *)
(* are enough: the intermediate stays within what is left of 3*N.          *)
(***************************************************************************)
THEOREM RemainderInRange == BarrettSpec => []InRange
<1>1. BarrettInv => InRange
  BY ConstantFacts DEF BarrettInv, BarrettTypes, Progress, InRange, MaxRounds
<1> QED BY <1>1, BarrettInductive, PTL

(***************************************************************************)
(* barrett_reduce_mod_n returns the canonical residue of every product of  *)
(* scalars, for every order in the upper half of any width.                *)
(***************************************************************************)
THEOREM ReductionCorrect == BarrettSpec => []Correct
<1>1. BarrettInv => Correct
  <2> SUFFICES ASSUME BarrettInv, phase = "idle" PROVE rest = product % N
    BY DEF Correct
  <2>1. N \in Nat \ {0} /\ product \in Nat /\ quotient + subtractions \in Int
        /\ rest \in 0 .. N - 1
    BY ConstantFacts DEF BarrettInv, BarrettTypes, Progress, MaxRounds
  <2>2. product = (quotient + subtractions) * N + rest
    BY DEF BarrettInv, Progress
  <2> QED BY <2>1, <2>2, RestIsRemainder
<1> QED BY <1>1, BarrettInductive, PTL

-----------------------------------------------------------------------------
(***************************************************************************)
(* What the steps of Scalar compute.                                       *)
(***************************************************************************)

\* Every operand of a call is the number of a byte string.
LEMMA JobFacts ==
  ASSUME NEW j \in Jobs
  PROVE  /\ j.call \in {"mul", "pow", "inv"}
         /\ j.a \in 0 .. Pow(Base, 4) - 1 /\ j.a \in Nat
         /\ j.b \in 0 .. Pow(Base, 4) - 1 /\ j.b \in Nat
         /\ j.call = "inv" => j.b = Order - 2
<1>1. Order - 2 \in 0 .. Pow(Base, 4) - 1 /\ Pow(Base, 4) \in Int
  BY OrderFacts
<1>2. Factors \subseteq 0 .. Pow(Base, 4) - 1 /\ Exponents \subseteq 0 .. Pow(Base, 4) - 1
  BY OperandsAssumption
<1>3. CASE j \in [call : {"mul"}, a : Factors, b : Factors]
  <2>1. j.call = "mul" /\ j.a \in Factors /\ j.b \in Factors
    BY <1>3
  <2>2. j.a \in 0 .. Pow(Base, 4) - 1
    BY <1>2, <2>1
  <2>3. j.b \in 0 .. Pow(Base, 4) - 1
    BY <1>2, <2>1
  <2>4. j.a \in Nat /\ j.b \in Nat
    BY <1>1, <2>2, <2>3
  <2> QED
    BY <2>1, <2>2, <2>3, <2>4
<1>4. CASE j \in [call : {"pow"}, a : Factors, b : Exponents]
  <2>1. j.call = "pow" /\ j.a \in Factors /\ j.b \in Exponents
    BY <1>4
  <2>2. j.a \in 0 .. Pow(Base, 4) - 1
    BY <1>2, <2>1
  <2>3. j.b \in 0 .. Pow(Base, 4) - 1
    BY <1>2, <2>1
  <2>4. j.a \in Nat /\ j.b \in Nat
    BY <1>1, <2>2, <2>3
  <2> QED
    BY <2>1, <2>2, <2>3, <2>4
<1>5. CASE j \in [call : {"inv"}, a : 0 .. Pow(Base, 4) - 1, b : {Order - 2}]
  <2>1. j.call = "inv" /\ j.a \in 0 .. Pow(Base, 4) - 1 /\ j.b = Order - 2
    BY <1>5
  <2> QED
    BY <1>1, <2>1
<1> QED
  BY <1>3, <1>4, <1>5 DEF Jobs

\* The words of zero.
LEMMA ZeroWords ==
  /\ LimbsOf(0, 5) \in Word(5) /\ Val(LimbsOf(0, 5)) = 0
  /\ LimbsOf(0, 8) \in Word(8) /\ Val(LimbsOf(0, 8)) = 0
<1>1. ASSUME NEW k \in Nat PROVE 0 < Pow(Base, k)
  <2>1. Pow(Base, k) \in Nat \ {0}
    BY WidthFacts, PowPositive
  <2> QED
    BY <2>1
<1> QED
  BY <1>1, 0 \in Nat, 5 \in Nat, 8 \in Nat, LimbsOfValue

\* The product of two byte strings, as mul_mod forms it.
ProductOf(x, y) ==
  mul_limbs(reduce_mod_n_le(be32_to_limbs_le(x)), reduce_mod_n_le(be32_to_limbs_le(y)))

\* The product mul_mod forms is congruent to that of its operands and within bounds.
LEMMA ProductValue ==
  ASSUME NEW x \in Bytes, NEW y \in Bytes
  PROVE  /\ ProductOf(x, y) \in Word(8) /\ Val(ProductOf(x, y)) \in Nat
         /\ Val(ProductOf(x, y)) <= (Order - 1) * (Order - 1)
         /\ Val(ProductOf(x, y)) % Order = (Number(x) * Number(y)) % Order
<1> DEFINE wx == be32_to_limbs_le(x)
           wy == be32_to_limbs_le(y)
           rx == reduce_mod_n_le(wx)
           ry == reduce_mod_n_le(wy)
           p == mul_limbs(rx, ry)
<1>1. wx \in Word(4) /\ wy \in Word(4)
  BY BytesRead
<1>2. Val(wx) \in Nat /\ Val(wy) \in Nat
  BY <1>1, 4 \in Nat, ValBounds
<1>3. Number(x) = Val(wx) /\ Number(y) = Val(wy)
  BY DEF Number
<1> HIDE DEF wx, wy
<1>4. rx \in Word(4) /\ Val(rx) \in 0 .. Order - 1 /\ Val(rx) = Val(wx) % Order
  BY <1>1, ReducedOnce
<1>5. ry \in Word(4) /\ Val(ry) \in 0 .. Order - 1 /\ Val(ry) = Val(wy) % Order
  BY <1>1, ReducedOnce
<1> HIDE DEF rx, ry
<1>6. p \in Word(8) /\ Val(p) = Val(rx) * Val(ry)
  BY <1>4, <1>5, 4 \in Nat, 4 + 4 = 8, MulValue
<1>7. Order \in Nat \ {0}
  BY OrderFacts
<1> HIDE DEF p
<1> DEFINE a == Val(wx)
           b == Val(wy)
           c == Val(rx)
           d == Val(ry)
<1>8. a \in Nat /\ b \in Nat /\ c \in 0 .. Order - 1 /\ d \in 0 .. Order - 1
      /\ c = a % Order /\ d = b % Order
  BY <1>2, <1>4, <1>5
<1> HIDE DEF a, b, c, d
<1>9. c \in Nat /\ d \in Nat
  BY <1>7, <1>8
<1>10. ModProduct(a, d, Order) /\ ModProduct(b, a, Order)
  BY <1>7, <1>8, <1>9, FactorReduced
<1>11. (c * d) % Order = (a * b) % Order
  <2>1. (c * d) % Order = (a * d) % Order
    BY <1>8, <1>10 DEF ModProduct
  <2>2. (d * a) % Order = (b * a) % Order
    BY <1>8, <1>10 DEF ModProduct
  <2>3. d * a = a * d /\ b * a = a * b
    BY <1>8, <1>9
  <2> QED
    BY <2>1, <2>2, <2>3
<1>12. c * d \in Nat /\ c * d <= (Order - 1) * (Order - 1)
  <2> DEFINE m == Order - 1
  <2>1. m \in Nat /\ c <= m /\ d <= m
    BY <1>7, <1>8
  <2> HIDE DEF m
  <2>2. c * d <= m * d /\ m * d <= m * m /\ c * d \in Nat /\ m * d \in Nat /\ m * m \in Nat
    BY <1>9, <2>1
  <2>3. c * d <= m * m
    BY <2>2
  <2> QED
    BY <2>2, <2>3 DEF m
<1>13. ProductOf(x, y) = p
  BY DEF ProductOf, p, rx, ry, wx, wy
<1> QED
  BY <1>3, <1>6, <1>11, <1>12, <1>13 DEF a, b, c, d

\* The comparison and the subtraction of the reduction's loop.
LEMMA LoopArithmetic ==
  ASSUME NEW x \in Word(5)
  PROVE  /\ IsBelowOrder(x) <=> Val(x) < Order
         /\ Val(x) \in Nat
         /\ MinusOrder(x) \in Word(5)
         /\ Order <= Val(x) => Val(MinusOrder(x)) = Val(x) - Order
<1>1. N5 \in Word(5) /\ Val(N5) = Order /\ 5 \in Nat
  BY ConstantWords
<1> QED
  BY <1>1, IsLessValue, MinusValue, MinusExact, ValBounds DEF IsBelowOrder, MinusOrder

\* A remainder below the order fits the four limbs that are returned.
LEMMA ResidueValue ==
  ASSUME NEW x \in Word(5), Val(x) < Order
  PROVE  /\ limbs_le_to_be32(Low(x, 4)) \in Bytes
         /\ Number(limbs_le_to_be32(Low(x, 4))) = Val(x)
<1> DEFINE y == Low(x, 4)
           u == Upper(x, 5, 4)
           p == Pow(Base, 4)
<1>1. y \in Word(4) /\ Val(x) = Val(y) + p * u
  BY 5 \in Nat, 4 \in 0 .. 5, LowValue
<1>2. u \in Nat /\ Val(x) \in Nat
  BY 5 \in Nat, 4 \in 0 .. 5, UpperEquations, ValBounds
<1>3. p \in Nat /\ Order \in Nat /\ Order < p
  BY OrderFacts
<1> HIDE DEF y, u, p
<1>4. Val(y) \in Nat
  BY <1>1, 4 \in Nat, ValBounds
<1>5. u = 0
  <2>1. CASE u >= 1
    <3>1. p * u >= p /\ p * u \in Nat
      BY <1>2, <1>3, <2>1
    <3> QED
      BY <1>1, <1>2, <1>3, <1>4, <3>1
  <2> QED
    BY <1>2, <2>1
<1>6. Val(y) = Val(x)
  BY <1>1, <1>3, <1>4, <1>5, p * 0 = 0
<1> QED
  BY <1>1, <1>6, BytesWritten, ReadBack DEF Number, y

\* The next bit of an exponent.
LEMMA NextBit ==
  ASSUME NEW x \in Bytes, Number(x) \in 0 .. Order - 1, NEW t \in 0 .. Bits - 1
  PROVE  /\ Leading(Number(x), t) \in Nat
         /\ Leading(Number(x), t + 1)
              = 2 * Leading(Number(x), t) + (IF get_bit_be(x, t) = 1 THEN 1 ELSE 0)
<1> DEFINE v == Number(x)
           l == Leading(v, t)
           m == Leading(v, t + 1)
<1>1. v \in Nat /\ v < Pow(Base, 4)
  BY OrderFacts
<1>2. get_bit_be(x, t) = m % 2
  BY BitOfNumber DEF Leading
<1> HIDE DEF v
<1>3. Bits \in Nat
  BY <1>1, LeadingBits
<1>4. t \in 0 .. Bits /\ t + 1 \in 0 .. Bits
  BY <1>3
<1>5. l \in Nat /\ m \in Nat /\ m = 2 * l + (m % 2)
  BY <1>1, <1>4, LeadingBits
<1> HIDE DEF l, m
<1>6. m % 2 \in {0, 1}
  BY <1>5
<1>7. m = 2 * l + (IF get_bit_be(x, t) = 1 THEN 1 ELSE 0)
  BY <1>2, <1>5, <1>6
<1> QED
  BY <1>5, <1>7 DEF l, m, v

-----------------------------------------------------------------------------
(***************************************************************************)
(* The inductive invariant of Scalar: the words of a reduction stand for   *)
(* the numbers of Barrett's, the product under way is congruent to the     *)
(* power that is wanted next, and between two products the result is the   *)
(* power for the bits of the exponent taken so far.                        *)
(***************************************************************************)
InReduction == stage \in {"shift", "estimate", "remainder", "subtract"}
InPower == stage \in {"loop", "multiply"} \/ (InReduction /\ after # "answer")

Exponent == job.b % Order

\* The residue of the product under way.
Wanted ==
  IF after = "answer" THEN (job.a * job.b) % Order
  ELSE IF after = "square" THEN Power(job.a, 2 * Leading(Exponent, bit))
  ELSE Power(job.a, 2 * Leading(Exponent, bit) + 1)

ScalarTypes ==
  /\ stage \in {"start", "none", "loop", "multiply", "done",
                "shift", "estimate", "remainder", "subtract"}
  /\ after \in {"answer", "square", "product"}
  /\ job \in Jobs
  /\ exp \in Bytes /\ base \in Bytes /\ result \in Bytes /\ answer \in Bytes
  /\ prod \in Word(8) /\ q1 \in Word(5) /\ q3 \in Word(5) /\ r \in Word(5)
  /\ rounds \in 0 .. 2

Reducing ==
  InReduction =>
    /\ Val(prod) <= (Order - 1) * (Order - 1)
    /\ Val(prod) % Order = Wanted
    /\ after = "answer" => job.call = "mul"
    /\ stage # "subtract" => rounds = 0
    /\ stage = "estimate" => Val(q1) = Val(prod) \div Half
    /\ stage = "remainder" =>
         Val(q3) = ((Val(prod) \div Half) * Reciprocal) \div (4 * Half)
    /\ stage = "subtract" =>
         Val(prod) = (Val(q3) + rounds) * Order + Val(r) /\ Val(r) < (3 - rounds) * Order

Looping ==
  InPower =>
    /\ job.call # "mul"
    /\ Number(exp) = Exponent /\ Number(base) = job.a % Order
    /\ bit \in 0 .. Bits
    /\ seen <=> Leading(Exponent, bit) # 0
    /\ stage # "loop" => seen /\ bit < Bits
    /\ stage = "multiply" \/ (InReduction /\ after = "product") => Set
    /\ stage = "loop" /\ seen => Number(result) = Power(job.a, Leading(Exponent, bit))
    /\ stage = "multiply" => Number(result) = Power(job.a, 2 * Leading(Exponent, bit))

Answered ==
  stage = "done" =>
    /\ job.call = "mul" => Number(answer) = (job.a * job.b) % Order
    /\ job.call # "mul" => Number(answer) = Power(job.a, Exponent)

ScalarInv == ScalarTypes /\ Reducing /\ Looping /\ Answered

\* The invariant holds initially.
LEMMA InitScalarInv == Init => ScalarInv
<1> SUFFICES ASSUME Init PROVE ScalarInv
  OBVIOUS
<1>1. ScalarTypes
  BY ZeroAndOne, ZeroWords DEF Init, ScalarTypes
<1>2. Reducing /\ Looping /\ Answered
  BY DEF Init, Reducing, Looping, Answered, InReduction, InPower
<1> QED
  BY <1>1, <1>2 DEF ScalarInv

\* What mul_mod leaves when it hands its product to the reduction.
LEMMA MultiplyStep ==
  ASSUME NEW x \in Bytes, NEW y \in Bytes, NEW goal, Multiply(x, y, goal)
  PROVE  /\ prod' \in Word(8) /\ Val(prod') \in Nat
         /\ Val(prod') <= (Order - 1) * (Order - 1)
         /\ Val(prod') % Order = (Number(x) * Number(y)) % Order
         /\ q1' \in Word(5) /\ q3' \in Word(5) /\ r' \in Word(5)
         /\ Val(q1') = 0 /\ Val(q3') = 0 /\ Val(r') = 0
         /\ rounds' = 0 /\ after' = goal /\ stage' = "shift"
<1>1. prod' = ProductOf(x, y)
  BY DEF Multiply, ProductOf
<1> QED
  BY <1>1, ProductValue, ZeroWords DEF Multiply

\* Starting a product keeps the invariant.
LEMMA KeepsStartProduct == ScalarInv /\ StartProduct => ScalarInv'
<1> SUFFICES ASSUME ScalarInv, StartProduct PROVE ScalarInv'
  OBVIOUS
<1> DEFINE x == BytesOf(job.a)
           y == BytesOf(job.b)
<1>1. ScalarTypes /\ job.call = "mul" /\ Multiply(x, y, "answer")
      /\ UNCHANGED <<job, exp, base, result, seen, bit, answer>>
  BY DEF ScalarInv, StartProduct, loopVars
<1>2. x \in Bytes /\ y \in Bytes /\ Number(x) = job.a /\ Number(y) = job.b
  BY <1>1, JobFacts, NumberOfBytes DEF ScalarTypes
<1> HIDE DEF x, y
<1>3. /\ prod' \in Word(8)
      /\ Val(prod') <= (Order - 1) * (Order - 1)
      /\ Val(prod') % Order = (Number(x) * Number(y)) % Order
      /\ q1' \in Word(5) /\ q3' \in Word(5) /\ r' \in Word(5)
      /\ rounds' = 0 /\ after' = "answer" /\ stage' = "shift"
  BY <1>1, <1>2, MultiplyStep
<1>4. ScalarTypes'
  BY <1>1, <1>3 DEF ScalarTypes
<1>5. Reducing'
  BY <1>1, <1>2, <1>3 DEF Reducing, InReduction, Wanted
<1>6. Looping' /\ Answered'
  BY <1>1, <1>3 DEF Looping, Answered, InPower, InReduction
<1> QED
  BY <1>4, <1>5, <1>6 DEF ScalarInv

\* The start of a power keeps the invariant.
LEMMA KeepsStartPower == ScalarInv /\ (NoInverse \/ StartPower) => ScalarInv'
<1>1. ASSUME ScalarInv, NoInverse PROVE ScalarInv'
  BY <1>1 DEF NoInverse, ScalarInv, ScalarTypes, Reducing, Looping, Answered, InReduction,
              InPower, loopVars, reduction
<1>2. ASSUME ScalarInv, StartPower PROVE ScalarInv'
  <2> DEFINE x == BytesOf(job.a)
             y == BytesOf(job.b)
  <2>1. /\ ScalarTypes /\ job.call # "mul" /\ stage' = "loop"
        /\ exp' = mod_reduce_once(y) /\ base' = mod_reduce_once(x)
        /\ result' = Zero /\ seen' = FALSE /\ bit' = 0
        /\ UNCHANGED <<job, after, prod, q1, q3, r, rounds, answer>>
    BY <1>2 DEF ScalarInv, StartPower, reduction
  <2>2. x \in Bytes /\ y \in Bytes /\ Number(x) = job.a /\ Number(y) = job.b /\ job.b \in Nat
    BY <2>1, JobFacts, NumberOfBytes DEF ScalarTypes
  <2> HIDE DEF x, y
  <2>3. /\ exp' \in Bytes /\ Number(exp') = job.b % Order
        /\ base' \in Bytes /\ Number(base') = job.a % Order
    BY <2>1, <2>2, ReducedBytes
  <2>4. ScalarTypes'
    BY <2>1, <2>3, ZeroAndOne DEF ScalarTypes
  <2>5. Reducing' /\ Answered'
    BY <2>1 DEF Reducing, Answered, InReduction
  <2>6. Leading(Exponent, 0) = 0 /\ Bits \in Nat
    <3>1. Exponent \in Nat /\ Exponent < Pow(Base, 4)
      BY <2>2, OrderFacts DEF Exponent
    <3> QED
      BY <3>1, LeadingBits
  <2>7. Looping'
    <3>1. Leading(Exponent', 0) = 0
      BY <2>1, <2>6 DEF Exponent
    <3> QED
      BY <2>1, <2>3, <2>6, <3>1 DEF Looping, InPower, InReduction, Exponent
  <2> QED
    BY <2>4, <2>5, <2>7 DEF ScalarInv
<1> QED
  BY <1>1, <1>2

\* What the invariant says of a power under way.
LEMMA PowerUnderWay ==
  ASSUME ScalarTypes, Looping, InPower
  PROVE  /\ job.call # "mul" /\ job.a \in Nat /\ job.b \in Nat
         /\ Number(exp) = Exponent /\ Number(base) = job.a % Order
         /\ Exponent \in 0 .. Order - 1 /\ Order \in Nat \ {0}
         /\ Bits \in Nat /\ bit \in 0 .. Bits
         /\ Leading(Exponent, bit) \in Nat /\ Leading(Exponent, Bits) = Exponent
         /\ seen <=> Leading(Exponent, bit) # 0
         /\ bit < Bits =>
              Leading(Exponent, bit + 1)
                = 2 * Leading(Exponent, bit) + (IF Set THEN 1 ELSE 0)
<1>1. job.call # "mul" /\ job.a \in Nat /\ job.b \in Nat
  BY JobFacts DEF Looping, ScalarTypes
<1>2. Order \in Nat \ {0} /\ Order < Pow(Base, 4)
  BY OrderFacts
<1>3. Exponent \in 0 .. Order - 1
  BY <1>1, <1>2 DEF Exponent
<1>4. /\ Number(exp) = Exponent /\ Number(base) = job.a % Order /\ bit \in 0 .. Bits
      /\ seen <=> Leading(Exponent, bit) # 0
  BY DEF Looping
<1>5. Exponent \in Nat /\ Exponent < Pow(Base, 4)
  BY <1>2, <1>3, OrderFacts
<1>6. Bits \in Nat /\ Leading(Exponent, bit) \in Nat /\ Leading(Exponent, Bits) = Exponent
  BY <1>4, <1>5, LeadingBits
<1>7. ASSUME bit < Bits
      PROVE  Leading(Exponent, bit + 1)
               = 2 * Leading(Exponent, bit) + (IF Set THEN 1 ELSE 0)
  <2>1. bit \in 0 .. Bits - 1 /\ exp \in Bytes /\ Number(exp) \in 0 .. Order - 1
    BY <1>3, <1>4, <1>6, <1>7 DEF ScalarTypes
  <2>2. Leading(Number(exp), bit + 1)
          = 2 * Leading(Number(exp), bit) + (IF get_bit_be(exp, bit) = 1 THEN 1 ELSE 0)
    BY <2>1, NextBit
  <2> QED
    BY <1>4, <2>2 DEF Set
<1> QED
  BY <1>1, <1>2, <1>3, <1>4, <1>6, <1>7

\* The bits before the first one keep the invariant.
LEMMA KeepsLeading == ScalarInv /\ (LeadingZero \/ LeadingOne) => ScalarInv'
<1> SUFFICES ASSUME ScalarInv, LeadingZero \/ LeadingOne PROVE ScalarInv'
  OBVIOUS
<1> DEFINE l == Leading(Exponent, bit)
           m == Leading(Exponent, bit + 1)
<1>1. /\ ScalarTypes /\ Looping /\ stage = "loop" /\ ~ seen /\ bit < Bits /\ bit' = bit + 1
      /\ UNCHANGED <<job, stage, exp, base, after, prod, q1, q3, r, rounds, answer>>
  BY DEF ScalarInv, LeadingZero, LeadingOne, InLoop, reduction, Bits
<1>2. /\ job.call # "mul" /\ job.a \in Nat /\ Number(exp) = Exponent
      /\ Number(base) = job.a % Order /\ Order \in Nat \ {0}
      /\ Bits \in Nat /\ bit \in 0 .. Bits /\ l \in Nat
      /\ seen <=> l # 0
      /\ m = 2 * l + (IF Set THEN 1 ELSE 0)
  BY <1>1, PowerUnderWay DEF InPower
<1> HIDE DEF l, m
<1>3. bit' \in 0 .. Bits /\ m = (IF Set THEN 1 ELSE 0)
  BY <1>1, <1>2
<1>4. Exponent' = Exponent /\ Leading(Exponent', bit') = m
  BY <1>1 DEF Exponent, m
<1>5. Reducing' /\ Answered'
  BY <1>1 DEF Reducing, Answered, InReduction
<1>6. CASE LeadingZero
  <2>1. ~ Set /\ result' = result /\ seen' = seen
    BY <1>6 DEF LeadingZero
  <2>2. ScalarTypes'
    BY <1>1, <2>1 DEF ScalarTypes
  <2>3. Looping'
    <3>1. m = 0
      BY <1>3, <2>1
    <3> QED
      BY <1>1, <1>2, <1>3, <1>4, <2>1, <3>1 DEF Looping, InPower, InReduction, Exponent
  <2> QED
    BY <1>5, <2>2, <2>3 DEF ScalarInv
<1>7. CASE LeadingOne
  <2>1. Set /\ result' = base /\ seen' = TRUE
    BY <1>7 DEF LeadingOne
  <2>2. ScalarTypes'
    BY <1>1, <2>1 DEF ScalarTypes
  <2>3. m = 1
    BY <1>3, <2>1
  <2>4. Number(result') = Power(job.a, 1)
    <3>1. Power(job.a, 0 + 1) = (Power(job.a, 0) * job.a) % Order /\ Power(job.a, 0) = 1
      BY <1>2, 0 \in Nat, PowerEquations
    <3>2. 1 * job.a = job.a /\ 0 + 1 = 1
      BY <1>2
    <3>3. Number(result') = job.a % Order
      BY <1>2, <2>1
    <3> QED
      BY <3>1, <3>2, <3>3
  <2>5. Looping'
    BY <1>1, <1>2, <1>3, <1>4, <2>1, <2>3, <2>4 DEF Looping, InPower, InReduction, Exponent
  <2> QED
    BY <1>5, <2>2, <2>5 DEF ScalarInv
<1> QED
  BY <1>6, <1>7

\* Squaring starts a product that keeps the invariant.
LEMMA KeepsSquare == ScalarInv /\ Square => ScalarInv'
<1> SUFFICES ASSUME ScalarInv, Square PROVE ScalarInv'
  OBVIOUS
<1> DEFINE l == Leading(Exponent, bit)
           p == Power(job.a, l)
<1>1. /\ ScalarTypes /\ Looping /\ stage = "loop" /\ seen /\ bit < Bits
      /\ Multiply(result, result, "square")
      /\ UNCHANGED <<job, exp, base, result, seen, bit, answer>>
  BY DEF ScalarInv, Square, InLoop, loopVars, Bits
<1>2. /\ job.call # "mul" /\ job.a \in Nat /\ Number(exp) = Exponent
      /\ Number(base) = job.a % Order
      /\ Bits \in Nat /\ bit \in 0 .. Bits /\ l \in Nat
      /\ seen <=> l # 0
  BY <1>1, PowerUnderWay DEF InPower
<1>3. Number(result) = p /\ result \in Bytes
  BY <1>1 DEF Looping, InPower, ScalarTypes
<1>4. /\ prod' \in Word(8)
      /\ Val(prod') <= (Order - 1) * (Order - 1)
      /\ Val(prod') % Order = (Number(result) * Number(result)) % Order
      /\ q1' \in Word(5) /\ q3' \in Word(5) /\ r' \in Word(5)
      /\ rounds' = 0 /\ after' = "square" /\ stage' = "shift"
  BY <1>1, <1>3, MultiplyStep
<1>5. Power(job.a, 2 * l) = (p * p) % Order
  <2> HIDE DEF l
  <2>1. l + l = 2 * l
    BY <1>2
  <2>2. Power(job.a, l + l) = (Power(job.a, l) * Power(job.a, l)) % Order
    BY <1>2, PowerSum
  <2> QED
    BY <2>1, <2>2
<1>6. ScalarTypes'
  BY <1>1, <1>4 DEF ScalarTypes
<1>7. Val(prod') % Order = Power(job.a, 2 * l)
  BY <1>3, <1>4, <1>5
<1> HIDE DEF l, p
<1>8. Exponent' = Exponent /\ Leading(Exponent', bit') = l
  BY <1>1 DEF Exponent, l
<1>9. Reducing'
  <2>1. Wanted' = Power(job.a, 2 * l)
    BY <1>1, <1>4, <1>8 DEF Wanted
  <2> QED
    BY <1>4, <1>7, <2>1 DEF Reducing, InReduction
<1>10. Looping'
  BY <1>1, <1>2, <1>4, <1>8 DEF Looping, InPower, InReduction, Exponent
<1>11. Answered'
  BY <1>4 DEF Answered
<1> QED
  BY <1>6, <1>9, <1>10, <1>11 DEF ScalarInv

\* The product with the base keeps the invariant.
LEMMA KeepsMultiplyByBase == ScalarInv /\ MultiplyByBase => ScalarInv'
<1> SUFFICES ASSUME ScalarInv, MultiplyByBase PROVE ScalarInv'
  OBVIOUS
<1> DEFINE l == Leading(Exponent, bit)
           p == Power(job.a, 2 * l)
           a == job.a
<1>1. /\ ScalarTypes /\ Looping /\ stage = "multiply"
      /\ Multiply(result, base, "product")
      /\ UNCHANGED <<job, exp, base, result, seen, bit, answer>>
  BY DEF ScalarInv, MultiplyByBase, loopVars
<1>2. /\ job.call # "mul" /\ a \in Nat /\ Number(exp) = Exponent
      /\ Number(base) = a % Order /\ Order \in Nat \ {0}
      /\ Bits \in Nat /\ bit \in 0 .. Bits /\ l \in Nat
      /\ seen <=> l # 0
  BY <1>1, PowerUnderWay DEF InPower
<1>3. Number(result) = p /\ result \in Bytes /\ base \in Bytes /\ seen /\ bit < Bits /\ Set
  BY <1>1 DEF Looping, InPower, ScalarTypes
<1>4. /\ prod' \in Word(8)
      /\ Val(prod') <= (Order - 1) * (Order - 1)
      /\ Val(prod') % Order = (Number(result) * Number(base)) % Order
      /\ q1' \in Word(5) /\ q3' \in Word(5) /\ r' \in Word(5)
      /\ rounds' = 0 /\ after' = "product" /\ stage' = "shift"
  BY <1>1, <1>3, MultiplyStep
<1>5. Val(prod') % Order = Power(a, 2 * l + 1)
  <2> HIDE DEF l, a
  <2>1. 2 * l \in Nat
    BY <1>2
  <2>2. Power(a, 2 * l + 1) = (p * a) % Order /\ p \in 0 .. Order - 1
    BY <1>2, <2>1, PowerEquations DEF a
  <2> HIDE DEF p
  <2>3. p \in Nat
    BY <1>2, <2>2
  <2>4. ModProduct(a, p, Order)
    BY <1>2, <2>3, FactorReduced
  <2>5. p * (a % Order) = (a % Order) * p /\ p * a = a * p
    BY <1>2, <2>3
  <2>6. (p * (a % Order)) % Order = (p * a) % Order
    BY <2>4, <2>5 DEF ModProduct
  <2> QED
    BY <1>2, <1>3, <1>4, <2>2, <2>6
<1>6. ScalarTypes'
  BY <1>1, <1>4 DEF ScalarTypes
<1> HIDE DEF l, p
<1>7. Exponent' = Exponent /\ Leading(Exponent', bit') = l
  BY <1>1 DEF Exponent, l
<1>8. Reducing'
  <2>1. Wanted' = Power(a, 2 * l + 1)
    BY <1>1, <1>4, <1>7 DEF Wanted
  <2> QED
    BY <1>4, <1>5, <2>1 DEF Reducing, InReduction
<1>9. Looping'
  BY <1>1, <1>2, <1>3, <1>4, <1>7 DEF Looping, InPower, InReduction, Exponent, Set
<1>10. Answered'
  BY <1>4 DEF Answered
<1> QED
  BY <1>6, <1>8, <1>9, <1>10 DEF ScalarInv

\* The end of a power keeps the invariant.
LEMMA KeepsEndPower == ScalarInv /\ EndPower => ScalarInv'
<1> SUFFICES ASSUME ScalarInv, EndPower PROVE ScalarInv'
  OBVIOUS
<1>1. /\ ScalarTypes /\ Looping /\ stage = "loop" /\ bit = Bits /\ stage' = "done"
      /\ answer' = IF seen THEN result ELSE [Zero EXCEPT ![Size - 1] = 1]
      /\ UNCHANGED <<job, exp, base, result, seen, bit, after, prod, q1, q3, r, rounds>>
  BY DEF ScalarInv, EndPower, loopVars, reduction, Bits
<1>2. /\ job.call # "mul" /\ job.a \in Nat /\ Exponent \in 0 .. Order - 1
      /\ Leading(Exponent, bit) = Exponent
      /\ seen <=> Exponent # 0
  BY <1>1, PowerUnderWay DEF InPower
<1>3. ScalarTypes'
  BY <1>1, ZeroAndOne DEF ScalarTypes
<1>4. Number(answer') = Power(job.a, Exponent)
  <2>1. CASE seen
    BY <1>1, <1>2, <2>1 DEF Looping, InPower
  <2>2. CASE ~ seen
    <3>1. Exponent = 0 /\ Power(job.a, 0) = 1
      BY <1>2, <2>2, 0 \in Nat, PowerEquations
    <3> QED
      BY <1>1, <2>2, <3>1, ZeroAndOne
  <2> QED
    BY <2>1, <2>2
<1>5. Answered'
  <2>1. Exponent' = Exponent /\ job' = job
    BY <1>1 DEF Exponent
  <2> QED
    BY <1>1, <1>2, <1>4, <2>1 DEF Answered
<1>6. Reducing' /\ Looping'
  BY <1>1 DEF Reducing, Looping, InReduction, InPower
<1> QED
  BY <1>3, <1>5, <1>6 DEF ScalarInv

\* The bounds of the estimate for a product of scalars.
LEMMA ScalarEstimate ==
  ASSUME NEW v \in Nat, v <= (Order - 1) * (Order - 1),
         NEW q \in Nat, q = ((v \div Half) * Reciprocal) \div (4 * Half)
  PROVE  /\ v \div Half \in Nat
         /\ (v \div Half) * Reciprocal < 8 * Half * Half
         /\ q * Order <= v /\ v < (q + 3) * Order
<1>1. Half \in Nat \ {0} /\ Order \in Nat /\ Half < Order /\ Order < 2 * Half
  BY OrderFacts
<1>2. /\ Reciprocal \in Nat /\ Order * Reciprocal <= 4 * Half * Half
      /\ 4 * Half * Half < Order * Reciprocal + Order
  BY ConstantWords
<1> QED
  BY <1>1, <1>2, QuotientEstimated

\* The estimate of a product of scalars is a number.
LEMMA EstimateTyped ==
  ASSUME NEW v \in Nat
  PROVE  ((v \div Half) * Reciprocal) \div (4 * Half) \in Nat
<1> DEFINE a == v \div Half
           u == a * Reciprocal
           g == 4 * Half
<1>1. Half \in Nat \ {0} /\ Reciprocal \in Nat
  BY OrderFacts, ConstantWords
<1>2. a \in Nat
  BY <1>1, DivisionRoundsDown
<1> HIDE DEF a
<1>3. u \in Nat /\ g \in Nat \ {0}
  BY <1>1, <1>2
<1> HIDE DEF u, g
<1>4. u \div g \in Nat
  BY <1>3, DivisionRoundsDown
<1> QED
  BY <1>4 DEF u, g, a

\* What the steps of a reduction leave alone.
Kept == UNCHANGED <<job, exp, base, result, seen, bit, after, prod, answer>>

\* A step inside a reduction keeps what the invariant says of the rest.
LEMMA KeptInReduction ==
  ASSUME ScalarInv, Kept, InReduction, InReduction'
  PROVE  Looping' /\ Answered' /\ Val(prod') <= (Order - 1) * (Order - 1)
         /\ Val(prod') % Order = Wanted' /\ (after' = "answer" => job'.call = "mul")
<1>1. Wanted' = Wanted /\ Exponent' = Exponent /\ Set' = Set
  BY DEF Kept, Wanted, Exponent, Set
<1>2. Answered'
  BY DEF Answered, InReduction
<1>3. Looping'
  BY <1>1 DEF ScalarInv, Kept, Looping, InPower, InReduction
<1> QED
  BY <1>1, <1>2, <1>3 DEF ScalarInv, Kept, Reducing

\* The shift keeps the invariant.
LEMMA KeepsShift == ScalarInv /\ Shift => ScalarInv'
<1> SUFFICES ASSUME ScalarInv, Shift PROVE ScalarInv'
  OBVIOUS
<1>1. /\ Kept /\ stage = "shift" /\ stage' = "estimate" /\ q1' = shr_255_from_512(prod)
      /\ UNCHANGED <<q3, r, rounds>>
  BY DEF Shift, Kept, loopVars
<1>2. InReduction /\ InReduction'
  BY <1>1 DEF InReduction
<1>3. q1' \in Word(5) /\ Val(q1') = Val(prod) \div Half
  BY <1>1, HalfValue DEF ScalarInv, ScalarTypes
<1>4. ScalarTypes'
  BY <1>1, <1>3 DEF ScalarInv, ScalarTypes, Kept
<1>5. rounds = 0
  BY <1>1, <1>2 DEF ScalarInv, Reducing
<1>6. Reducing'
  BY <1>1, <1>2, <1>3, <1>5, KeptInReduction DEF Reducing, Kept
<1> QED
  BY <1>1, <1>2, <1>4, <1>6, KeptInReduction DEF ScalarInv

\* The estimate keeps the invariant.
LEMMA KeepsEstimate == ScalarInv /\ EstimateQuotient => ScalarInv'
<1> SUFFICES ASSUME ScalarInv, EstimateQuotient PROVE ScalarInv'
  OBVIOUS
<1> DEFINE v == Val(prod)
           q == ((v \div Half) * Reciprocal) \div (4 * Half)
<1>1. /\ Kept /\ stage = "estimate" /\ stage' = "remainder"
      /\ q3' = ShiftRight(mul_limbs(q1, Mu5), 4, 1)
      /\ UNCHANGED <<q1, r, rounds>>
  BY DEF EstimateQuotient, Kept, loopVars
<1>2. InReduction /\ InReduction'
  BY <1>1 DEF InReduction
<1>3. prod \in Word(8) /\ q1 \in Word(5) /\ v \in Nat
  BY 8 \in Nat, ValBounds DEF ScalarInv, ScalarTypes
<1>4. v <= (Order - 1) * (Order - 1) /\ Val(q1) = v \div Half /\ rounds = 0
  BY <1>1, <1>2 DEF ScalarInv, Reducing
<1>5. q \in Nat
  BY <1>3, EstimateTyped
<1>6. (v \div Half) * Reciprocal < 8 * Half * Half
  <2> HIDE DEF v
  <2>1. q = ((v \div Half) * Reciprocal) \div (4 * Half)
    OBVIOUS
  <2> HIDE DEF q
  <2> QED
    BY <1>3, <1>4, <1>5, <2>1, ScalarEstimate
<1>7. q3' \in Word(5) /\ Val(q3') = q
  <2>1. Val(q1) * Reciprocal < 8 * Half * Half
    BY <1>4, <1>6
  <2>2. /\ ShiftRight(mul_limbs(q1, Mu5), 4, 1) \in Word(5)
        /\ Val(ShiftRight(mul_limbs(q1, Mu5), 4, 1)) = (Val(q1) * Reciprocal) \div (4 * Half)
    BY <1>3, <2>1, EstimateValue
  <2> QED
    BY <1>1, <1>4, <2>2
<1>8. ScalarTypes'
  BY <1>1, <1>7 DEF ScalarInv, ScalarTypes, Kept
<1>9. Reducing'
  BY <1>1, <1>2, <1>4, <1>7, KeptInReduction DEF Reducing, Kept
<1> QED
  BY <1>1, <1>2, <1>8, <1>9, KeptInReduction DEF ScalarInv

\* The remainder keeps the invariant.
LEMMA KeepsRemainder == ScalarInv /\ TakeRemainder => ScalarInv'
<1> SUFFICES ASSUME ScalarInv, TakeRemainder PROVE ScalarInv'
  OBVIOUS
<1> DEFINE v == Val(prod)
           q == Val(q3)
<1>1. /\ Kept /\ stage = "remainder" /\ stage' = "subtract" /\ r' = Remainder(prod, q3)
      /\ UNCHANGED <<q1, q3, rounds>>
  BY DEF TakeRemainder, Kept, loopVars
<1>2. InReduction /\ InReduction'
  BY <1>1 DEF InReduction
<1>3. prod \in Word(8) /\ q3 \in Word(5) /\ v \in Nat /\ q \in Nat
  BY 8 \in Nat, 5 \in Nat, ValBounds DEF ScalarInv, ScalarTypes
<1>4. /\ v <= (Order - 1) * (Order - 1) /\ rounds = 0
      /\ q = ((v \div Half) * Reciprocal) \div (4 * Half)
  BY <1>1, <1>2 DEF ScalarInv, Reducing
<1>5. q * Order <= v /\ v < (q + 3) * Order
  <2> HIDE DEF v, q
  <2> QED
    BY <1>3, <1>4, ScalarEstimate
<1>6. r' \in Word(5) /\ Val(r') = v - q * Order
  BY <1>1, <1>3, <1>5, RemainderValue
<1> HIDE DEF v, q
<1>7. v = (q + 0) * Order + Val(r') /\ Val(r') < (3 - 0) * Order
  <2> DEFINE e == q * Order
  <2>1. e \in Int /\ (q + 3) * Order = e + 3 * Order /\ (q + 0) * Order = e /\ Order \in Nat
    BY <1>3, OrderFacts
  <2> HIDE DEF e
  <2> QED
    BY <1>3, <1>5, <1>6, <2>1 DEF e
<1>8. ScalarTypes'
  BY <1>1, <1>6 DEF ScalarInv, ScalarTypes, Kept
<1>9. Reducing'
  BY <1>1, <1>2, <1>4, <1>7, KeptInReduction DEF Reducing, Kept, v, q
<1> QED
  BY <1>1, <1>2, <1>8, <1>9, KeptInReduction DEF ScalarInv

\* A subtraction keeps the invariant.
LEMMA KeepsSubtract == ScalarInv /\ Subtract => ScalarInv'
<1> SUFFICES ASSUME ScalarInv, Subtract PROVE ScalarInv'
  OBVIOUS
<1> DEFINE v == Val(prod)
           q == Val(q3)
           w == Val(r)
<1>1. /\ Kept /\ stage = "subtract" /\ stage' = stage /\ rounds < 2 /\ rounds' = rounds + 1
      /\ ~ IsBelowOrder(r) /\ r' = MinusOrder(r)
      /\ UNCHANGED <<q1, q3>>
  BY DEF Subtract, Kept, loopVars
<1>2. InReduction /\ InReduction'
  BY <1>1 DEF InReduction
<1>3. r \in Word(5) /\ q3 \in Word(5) /\ rounds \in 0 .. 2 /\ q \in Nat
  BY 5 \in Nat, ValBounds DEF ScalarInv, ScalarTypes
<1>4. v = (q + rounds) * Order + w /\ w < (3 - rounds) * Order
  BY <1>1, <1>2 DEF ScalarInv, Reducing
<1>5. Order \in Nat
  BY OrderFacts
<1>6. w \in Nat /\ Order <= w /\ r' \in Word(5) /\ Val(r') = w - Order
  BY <1>1, <1>3, <1>5, LoopArithmetic
<1> HIDE DEF v, q, w
<1>7. v = (q + rounds') * Order + Val(r') /\ Val(r') < (3 - rounds') * Order
      /\ rounds' \in 0 .. 2
  <2>1. rounds = 0 \/ rounds = 1
    BY <1>1, <1>3
  <2>2. (q + (rounds + 1)) * Order = (q + rounds) * Order + Order
        /\ (q + rounds) * Order \in Int
    BY <1>3, <1>5
  <2>3. v = (q + (rounds + 1)) * Order + (w - Order)
    BY <1>4, <1>5, <1>6, <2>2
  <2>4. w - Order < (3 - (rounds + 1)) * Order
    BY <1>4, <1>5, <1>6, <2>1
  <2> QED
    BY <1>1, <1>6, <2>1, <2>3, <2>4
<1>8. ScalarTypes'
  BY <1>1, <1>6, <1>7 DEF ScalarInv, ScalarTypes, Kept
<1>9. Reducing'
  BY <1>1, <1>2, <1>7, KeptInReduction DEF Reducing, Kept, v, q
<1> QED
  BY <1>1, <1>2, <1>8, <1>9, KeptInReduction DEF ScalarInv

\* What the end of a reduction hands over is the residue that was wanted.
LEMMA SettledResidue ==
  ASSUME ScalarInv, stage = "subtract", rounds = 2 \/ IsBelowOrder(r)
  PROVE  /\ limbs_le_to_be32(Low(r, 4)) \in Bytes
         /\ Number(limbs_le_to_be32(Low(r, 4))) = Wanted
<1> DEFINE v == Val(prod)
           q == Val(q3)
           w == Val(r)
<1>1. r \in Word(5) /\ q3 \in Word(5) /\ prod \in Word(8) /\ rounds \in 0 .. 2
  BY DEF ScalarInv, ScalarTypes
<1>2. v \in Nat /\ q \in Nat /\ w \in Nat
  BY <1>1, 5 \in Nat, 8 \in Nat, ValBounds
<1>3. v = (q + rounds) * Order + w /\ w < (3 - rounds) * Order /\ v % Order = Wanted
  BY DEF ScalarInv, Reducing, InReduction
<1>4. Order \in Nat \ {0}
  BY OrderFacts
<1>5. IsBelowOrder(r) <=> w < Order
  BY <1>1, LoopArithmetic
<1>6. limbs_le_to_be32(Low(r, 4)) \in Bytes
      /\ (w < Order => Number(limbs_le_to_be32(Low(r, 4))) = w)
  <2>1. w < Order
    <3> HIDE DEF w
    <3>1. CASE rounds = 2
      BY <1>2, <1>3, <1>4, <3>1
    <3> QED
      BY <1>5, <3>1
  <2> QED
    BY <1>1, <2>1, ResidueValue
<1> HIDE DEF v, q, w
<1>7. w < Order
  <2>1. CASE rounds = 2
    BY <1>2, <1>3, <1>4, <2>1
  <2> QED
    BY <1>5, <2>1
<1>8. w = v % Order
  <2>1. q + rounds \in Int /\ w \in 0 .. Order - 1
    BY <1>1, <1>2, <1>4, <1>7
  <2> QED
    BY <1>2, <1>3, <1>4, <2>1, RestIsRemainder
<1> QED
  BY <1>3, <1>6, <1>7, <1>8

\* The end of a reduction keeps the invariant.
LEMMA KeepsSettle == ScalarInv /\ Settle => ScalarInv'
<1> SUFFICES ASSUME ScalarInv, Settle PROVE ScalarInv'
  OBVIOUS
<1> DEFINE residue == limbs_le_to_be32(Low(r, 4))
           l == Leading(Exponent, bit)
           m == Leading(Exponent, bit + 1)
<1>1. /\ ScalarTypes /\ Looping /\ Reducing /\ stage = "subtract"
      /\ rounds = 2 \/ IsBelowOrder(r)
      /\ \/ /\ after = "answer"
            /\ answer' = residue /\ stage' = "done"
            /\ UNCHANGED <<result, bit>>
         \/ /\ after = "square" /\ Set
            /\ result' = residue /\ stage' = "multiply"
            /\ UNCHANGED <<bit, answer>>
         \/ /\ after = "product" \/ (after = "square" /\ ~ Set)
            /\ result' = residue /\ stage' = "loop" /\ bit' = bit + 1
            /\ UNCHANGED answer
      /\ UNCHANGED <<job, exp, base, seen, after, prod, q1, q3, r, rounds>>
  BY DEF ScalarInv, Settle, reduction
<1>2. residue \in Bytes /\ Number(residue) = Wanted
  BY <1>1, SettledResidue
<1>3. InReduction /\ ~ InReduction'
  BY <1>1 DEF InReduction
<1> HIDE DEF residue
<1>4. ScalarTypes'
  BY <1>1, <1>2 DEF ScalarTypes
<1>5. Reducing'
  BY <1>3 DEF Reducing
<1>6. Exponent' = Exponent /\ (bit' = bit => Set' = Set)
  BY <1>1 DEF Exponent, Set
<1>7. CASE after = "answer"
  <2>1. answer' = residue /\ stage' = "done" /\ job' = job /\ job.call = "mul"
    BY <1>1, <1>3, <1>7 DEF Reducing
  <2>2. Answered'
    BY <1>2, <1>7, <2>1 DEF Answered, Wanted
  <2>3. Looping'
    BY <1>3, <2>1 DEF Looping, InPower
  <2> QED
    BY <1>4, <1>5, <2>2, <2>3 DEF ScalarInv
<1>8. CASE after # "answer"
  <2>1. InPower
    BY <1>3, <1>8 DEF InPower
  <2>2. /\ job.call # "mul" /\ job.a \in Nat /\ Number(exp) = Exponent
        /\ Number(base) = job.a % Order
        /\ Bits \in Nat /\ bit \in 0 .. Bits /\ l \in Nat
        /\ seen <=> l # 0
        /\ bit < Bits => m = 2 * l + (IF Set THEN 1 ELSE 0)
    BY <1>1, <2>1, PowerUnderWay
  <2>3. seen /\ bit < Bits /\ (after = "product" => Set)
    BY <1>1, <1>3, <2>1 DEF Looping
  <2>4. Answered'
    BY <1>1, <1>8 DEF Answered
  <2> HIDE DEF l, m
  <2>5. CASE after = "square" /\ Set
    <3>1. result' = residue /\ stage' = "multiply" /\ bit' = bit
      BY <1>1, <2>5
    <3>2. Leading(Exponent', bit') = l
      BY <1>6, <3>1 DEF l
    <3>3. Number(result') = Power(job.a, 2 * l)
      BY <1>2, <2>5, <3>1 DEF Wanted, l
    <3>4. Looping'
      BY <1>1, <1>6, <2>2, <2>3, <2>5, <3>1, <3>2, <3>3 DEF Looping, InPower, InReduction, Exponent
    <3> QED
      BY <1>4, <1>5, <2>4, <3>4 DEF ScalarInv
  <2>6. CASE after = "product" \/ (after = "square" /\ ~ Set)
    <3>1. result' = residue /\ stage' = "loop" /\ bit' = bit + 1
      BY <1>1, <2>6
    <3>2. Leading(Exponent', bit') = m
      BY <1>6, <3>1 DEF m
    <3>3. Number(result') = Power(job.a, m)
      <4>1. CASE after = "product"
        <5>1. m = 2 * l + 1
          BY <2>2, <2>3, <4>1
        <5> QED
          BY <1>2, <3>1, <4>1, <5>1 DEF Wanted, l
      <4>2. CASE after = "square" /\ ~ Set
        <5>1. m = 2 * l
          BY <2>2, <2>3, <4>2
        <5> QED
          BY <1>2, <3>1, <4>2, <5>1 DEF Wanted, l
      <4> QED
        BY <2>6, <4>1, <4>2
    <3>4. m # 0 /\ bit' \in 0 .. Bits
      BY <2>2, <2>3, <3>1
    <3>5. Looping'
      BY <1>1, <2>2, <2>3, <3>1, <3>2, <3>3, <3>4 DEF Looping, InPower, InReduction, Exponent
    <3> QED
      BY <1>4, <1>5, <2>4, <3>5 DEF ScalarInv
  <2>7. (after = "square" /\ Set) \/ after = "product" \/ (after = "square" /\ ~ Set)
    BY <1>1, <1>8
  <2> QED
    BY <2>5, <2>6, <2>7
<1> QED
  BY <1>7, <1>8

\* Every step keeps the invariant.
LEMMA NextScalarInv == ScalarInv /\ [Next]_vars => ScalarInv'
<1>1. ASSUME ScalarInv, UNCHANGED vars PROVE ScalarInv'
  <2>1. /\ Exponent' = Exponent /\ Wanted' = Wanted /\ Set' = Set
        /\ UNCHANGED <<job, stage, exp, base, result, seen, bit, after, prod, q1, q3, r,
                       rounds, answer>>
    BY <1>1 DEF vars, loopVars, reduction, Exponent, Wanted, Set
  <2> QED
    BY <1>1, <2>1 DEF ScalarInv, ScalarTypes, Reducing, Looping, Answered, InReduction, InPower
<1>2. ASSUME ScalarInv, Reduce PROVE ScalarInv'
  BY <1>2, KeepsShift, KeepsEstimate, KeepsRemainder, KeepsSubtract, KeepsSettle DEF Reduce
<1>3. ASSUME ScalarInv, Finished PROVE ScalarInv'
  BY <1>1, <1>3 DEF Finished
<1> QED
  BY <1>1, <1>2, <1>3, KeepsStartProduct, KeepsStartPower, KeepsLeading, KeepsSquare,
     KeepsMultiplyByBase, KeepsEndPower DEF Next

\* The words of the code carry the numbers they stand for in every reachable state.
THEOREM ScalarInductive == Spec => []ScalarInv
  BY InitScalarInv, NextScalarInv, PTL DEF Spec

-----------------------------------------------------------------------------
\* The step of multiplying two reduced scalars is the loading of their product.
LEMMA MultiplyLoads ==
  ASSUME NEW x \in Bytes, NEW y \in Bytes, NEW goal, Multiply(x, y, goal), ~ InReduction
  PROVE  Numbers!Load
<1>1. /\ Val(prod') \in Nat /\ Val(prod') <= (Order - 1) * (Order - 1)
      /\ Val(q1') = 0 /\ Val(q3') = 0 /\ Val(r') = 0 /\ rounds' = 0 /\ stage' = "shift"
  BY MultiplyStep
<1>2. Val(prod') \in 0 .. (Order - 1) * (Order - 1)
  <2> DEFINE v == Val(prod')
             m == Order - 1
  <2>1. v \in Nat /\ m \in Int /\ v <= m * m /\ m * m \in Int
    BY <1>1, OrderFacts
  <2> HIDE DEF v, m
  <2>2. v \in 0 .. m * m
    BY <2>1
  <2> QED
    BY <2>2 DEF v, m
<1> QED
  BY <1>1, <1>2 DEF Numbers!Load, InReduction

\* A step of a reduction is a step of Barrett's method, whatever the limbs carry.
LEMMA ReductionRefines == ScalarInv /\ ScalarInv' /\ Reduce => Numbers!BarrettNext
<1> SUFFICES ASSUME ScalarInv, ScalarInv', Reduce PROVE Numbers!BarrettNext
  OBVIOUS
<1>1. CASE Shift
  <2>1. stage = "shift" /\ stage' = "estimate" /\ UNCHANGED <<prod, q3, r, rounds>>
    BY <1>1 DEF Shift
  <2>2. Val(q1') = Val(prod) \div Half
    BY <2>1 DEF ScalarInv, Reducing, InReduction
  <2> QED
    BY <2>1, <2>2 DEF Numbers!BarrettNext, Numbers!Halve
<1>2. CASE EstimateQuotient
  <2>1. stage = "estimate" /\ stage' = "remainder" /\ UNCHANGED <<prod, q1, r, rounds>>
    BY <1>2 DEF EstimateQuotient
  <2>2. Val(q1) = Val(prod) \div Half
        /\ Val(q3') = ((Val(prod) \div Half) * Reciprocal) \div (4 * Half)
    BY <2>1 DEF ScalarInv, Reducing, InReduction
  <2>3. Val(q3') = (Val(q1) * ((4 * Half * Half) \div Order)) \div (4 * Half)
    BY <2>2 DEF Reciprocal
  <2> QED
    BY <2>1, <2>3 DEF Numbers!BarrettNext, Numbers!Divide, Numbers!Estimate
<1>3. CASE TakeRemainder
  <2>1. stage = "remainder" /\ stage' = "subtract" /\ UNCHANGED <<prod, q1, q3, rounds>>
    BY <1>3 DEF TakeRemainder
  <2>2. rounds = 0 /\ Val(prod) = (Val(q3) + rounds) * Order + Val(r')
        /\ q3 \in Word(5) /\ r' \in Word(5)
    BY <2>1 DEF ScalarInv, Reducing, InReduction, ScalarTypes
  <2>3. Val(r') = Val(prod) - Val(q3) * Order
    <3> DEFINE q == Val(q3)
               w == Val(r')
               e == q * Order
    <3>1. q \in Nat /\ w \in Nat /\ Order \in Nat /\ e \in Int /\ (q + 0) * Order = e
      BY <2>2, 5 \in Nat, ValBounds, OrderFacts
    <3>2. Val(prod) = e + w
      BY <2>2, <3>1
    <3> HIDE DEF q, w, e
    <3>3. w = Val(prod) - e
      BY <3>1, <3>2
    <3> QED
      BY <3>3 DEF q, w, e
  <2> QED
    BY <2>1, <2>3 DEF Numbers!BarrettNext, Numbers!TakeRest, Numbers!Rest
<1>4. CASE Subtract
  <2>1. /\ stage = "subtract" /\ stage' = stage /\ rounds < 2 /\ ~ IsBelowOrder(r)
        /\ r' = MinusOrder(r) /\ rounds' = rounds + 1 /\ UNCHANGED <<prod, q1, q3>>
    BY <1>4 DEF Subtract
  <2>2. r \in Word(5) /\ Order \in Nat
    BY OrderFacts DEF ScalarInv, ScalarTypes
  <2>3. Val(r) >= Order /\ Val(r') = Val(r) - Order
    BY <2>1, <2>2, LoopArithmetic
  <2> QED
    BY <2>1, <2>3 DEF Numbers!BarrettNext, Numbers!Correction, Numbers!MaxRounds
<1>5. CASE Settle
  <2>1. /\ stage = "subtract" /\ (rounds = 2 \/ IsBelowOrder(r))
        /\ stage' \in {"done", "multiply", "loop"}
        /\ UNCHANGED <<prod, q1, q3, r, rounds>>
    BY <1>5 DEF Settle, reduction
  <2>2. r \in Word(5)
    BY DEF ScalarInv, ScalarTypes
  <2>3. rounds = 2 \/ Val(r) < Order
    BY <2>1, <2>2, LoopArithmetic
  <2> QED
    BY <2>1, <2>3 DEF Numbers!BarrettNext, Numbers!Return, Numbers!MaxRounds
<1> QED
  BY <1>1, <1>2, <1>3, <1>4, <1>5 DEF Reduce

\* A step of the code is a step of Barrett's method or leaves the reduction alone.
LEMMA StepRefines ==
  ScalarInv /\ ScalarInv' /\ [Next]_vars => [Numbers!BarrettNext]_(Numbers!barrettVars)
<1> SUFFICES ASSUME ScalarInv, ScalarInv', [Next]_vars
             PROVE  Numbers!BarrettNext \/ UNCHANGED Numbers!barrettVars
  OBVIOUS
<1>1. ScalarTypes
  BY DEF ScalarInv
<1>2. CASE StartProduct
  <2>1. BytesOf(job.a) \in Bytes /\ BytesOf(job.b) \in Bytes
    BY <1>1, JobFacts, NumberOfBytes DEF ScalarTypes
  <2> QED
    BY <1>2, <2>1, MultiplyLoads DEF StartProduct, InReduction, Numbers!BarrettNext
<1>3. CASE Square
  BY <1>1, <1>3, MultiplyLoads DEF Square, InLoop, InReduction, ScalarTypes, Numbers!BarrettNext
<1>4. CASE MultiplyByBase
  BY <1>1, <1>4, MultiplyLoads DEF MultiplyByBase, InReduction, ScalarTypes, Numbers!BarrettNext
<1>5. CASE NoInverse \/ StartPower \/ LeadingZero \/ LeadingOne \/ EndPower
  <2>1. ~ InReduction /\ ~ InReduction' /\ UNCHANGED <<prod, q1, q3, r, rounds>>
    BY <1>5 DEF NoInverse, StartPower, LeadingZero, LeadingOne, EndPower, InLoop, InReduction,
                reduction
  <2> QED
    BY <2>1 DEF Numbers!barrettVars, InReduction
<1>6. CASE Finished \/ UNCHANGED vars
  <2>1. UNCHANGED <<stage, prod, q1, q3, r, rounds>>
    BY <1>6 DEF Finished, vars, reduction
  <2> QED
    BY <2>1 DEF Numbers!barrettVars
<1> QED
  BY <1>2, <1>3, <1>4, <1>5, <1>6, ReductionRefines DEF Next

(***************************************************************************)
(* Every reduction of a product, whatever the width of a limb, is one of   *)
(* the whole-number reductions of Barrett: no carry, borrow or shift loses *)
(* what the four- and five-limb words of barrett_reduce_mod_n must hold.   *)
(***************************************************************************)
THEOREM ReductionsRefineBarrett == Spec => ReducesByBarrett
<1>1. Init => Numbers!BarrettInit
  BY ZeroWords DEF Init, Numbers!BarrettInit
<1> QED
  BY <1>1, StepRefines, ScalarInductive, PTL DEF Spec, ReducesByBarrett, Numbers!BarrettSpec

-----------------------------------------------------------------------------
(***************************************************************************)
(* Fermat's theorem, on which inv_mod rests: the multiples of a unit are   *)
(* the units in another order, so that their product is that of the units. *)
(***************************************************************************)
Residues == 0 .. Order - 1
Units == 1 .. Order - 1
Times(x, y) == (x * y) % Order

\* Multiplication modulo the order.
LEMMA TimesLaws ==
  /\ Order \in Nat /\ Order > 1 /\ 1 \in Residues /\ Units \subseteq Residues
  /\ \A x, y \in Residues : Times(x, y) \in Residues /\ Times(x, y) = Times(y, x)
  /\ \A x \in Residues : Times(1, x) = x
  /\ \A x, y, z \in Residues : Times(Times(x, y), z) = Times(x, Times(y, z))
<1>1. Order \in Nat \ {0} /\ Order > 1
  BY OrderFacts
<1>2. 1 \in Residues /\ Units \subseteq Residues /\ Residues \subseteq Nat
  BY <1>1 DEF Residues, Units
<1>3. ASSUME NEW x \in Residues, NEW y \in Residues
      PROVE  Times(x, y) \in Residues /\ Times(x, y) = Times(y, x)
  <2> DEFINE xy == x * y
  <2>1. xy \in Nat /\ y * x = xy
    BY <1>2
  <2> HIDE DEF xy
  <2>2. xy % Order \in 0 .. Order - 1
    BY <1>1, <2>1
  <2> QED
    BY <2>1, <2>2 DEF Times, Residues, xy
<1>4. ASSUME NEW x \in Residues PROVE Times(1, x) = x
  <2>1. 1 * x = x /\ x % Order = x
    BY <1>1 DEF Residues
  <2> QED
    BY <2>1 DEF Times
<1>5. ASSUME NEW x \in Residues, NEW y \in Residues, NEW z \in Residues
      PROVE  Times(Times(x, y), z) = Times(x, Times(y, z))
  <2> DEFINE xy == x * y
             yz == y * z
  <2>1. x \in Nat /\ y \in Nat /\ z \in Nat
    BY <1>2
  <2>2. xy \in Nat /\ yz \in Nat /\ xy * z = yz * x
    BY <2>1
  <2> HIDE DEF xy, yz
  <2>3. ModProduct(xy, z, Order) /\ ModProduct(yz, x, Order)
    BY <1>1, <2>1, <2>2, FactorReduced
  <2>4. ((xy % Order) * z) % Order = ((yz % Order) * x) % Order
    BY <2>2, <2>3 DEF ModProduct
  <2>5. Times(Times(x, y), z) = Times(Times(y, z), x)
    BY <2>4 DEF Times, xy, yz
  <2> QED
    BY <1>3, <2>5
<1> QED
  BY <1>1, <1>2, <1>3, <1>4, <1>5

\* Euclid: a prime does not divide the product of two smaller numbers.
LEMMA NoZeroDivisors ==
  ASSUME NEW a \in Units, NEW b \in Units
  PROVE  Times(a, b) \in Units
<1> DEFINE Killers == {m \in Units : Times(m, b) = 0}
<1> SUFFICES ASSUME Times(a, b) = 0 PROVE FALSE
  BY TimesLaws DEF Residues, Units
<1>1. Order \in Nat \ {0} /\ Order > 1 /\ b \in Nat
  BY TimesLaws DEF Units
<1>2. PICK m \in Killers : \A other \in Killers : m <= other
  <2>1. Killers \in SUBSET Nat /\ a \in Killers
    BY DEF Units
  <2> HIDE DEF Killers
  <2> QED
    BY <2>1, LeastNumber
<1>3. m \in Nat /\ m >= 1 /\ m < Order /\ (m * b) % Order = 0
  BY <1>1, <1>2 DEF Units, Times
<1>4. m # 1
  <2>1. Times(1, b) = b /\ b # 0
    BY TimesLaws DEF Units
  <2> QED
    BY <1>2, <2>1
<1> DEFINE q == Order \div m
           s == Order % m
           u == (m * b) \div Order
           mb == m * b
<1>5. s # 0
  BY <1>1, <1>3, <1>4, m \in 2 .. Order - 1, PrimeAssumption
<1>6. q \in Nat /\ s \in 0 .. m - 1 /\ Order = m * q + s
  <2>1. /\ Order % m \in 0 .. m - 1 /\ Order = m * (Order \div m) + (Order % m)
        /\ Order \div m \in Nat
    BY <1>1, <1>3, Order \in Int, Order >= 0, m \in Nat \ {0}, QuotientAndRemainder
  <2> QED
    BY <2>1
<1>7. mb \in Nat /\ u \in Nat /\ mb = Order * u
  <2>1. mb \in Nat
    BY <1>1, <1>3
  <2> HIDE DEF mb
  <2>2. /\ mb % Order \in 0 .. Order - 1 /\ mb = Order * (mb \div Order) + (mb % Order)
        /\ mb \div Order \in Nat
    BY <1>1, <2>1, mb \in Int, mb >= 0, QuotientAndRemainder
  <2>3. mb % Order = 0 /\ u = mb \div Order
    BY <1>3 DEF mb
  <2>4. Order * u \in Int
    BY <1>1, <2>2, <2>3
  <2> QED
    BY <2>1, <2>2, <2>3, <2>4
<1>8. s \in Units
  BY <1>1, <1>3, <1>5, <1>6 DEF Units
<1> HIDE DEF q, s, u
<1>9. s * b = (b - u * q) * Order + 0
  <2>1. s = Order - m * q
    BY <1>1, <1>3, <1>6
  <2>2. s * b = Order * b - (m * b) * q
    BY <1>1, <1>3, <1>6, <2>1
  <2>3. (m * b) * q = (u * q) * Order
    <3>1. mb * q = (Order * u) * q
      BY <1>7
    <3> HIDE DEF mb
    <3>2. (Order * u) * q = (u * q) * Order
      BY <1>1, <1>6, <1>7
    <3> QED
      BY <3>1, <3>2 DEF mb
  <2> DEFINE t == u * q
  <2>4. t \in Int
    BY <1>6, <1>7
  <2> HIDE DEF t
  <2>5. Order * b - t * Order = (b - t) * Order + 0
    BY <1>1, <2>4
  <2> QED
    BY <2>2, <2>3, <2>5 DEF t
<1>10. Times(s, b) = 0
  <2> DEFINE sb == s * b
             t == b - u * q
  <2>1. sb \in Nat /\ t \in Int /\ sb = t * Order + 0
    BY <1>1, <1>6, <1>7, <1>9
  <2> HIDE DEF sb, t
  <2>2. 0 = sb % Order
    BY <1>1, <2>1, 0 \in 0 .. Order - 1, RestIsRemainder
  <2> QED
    BY <2>2 DEF Times, sb
<1>11. s \in Killers
  BY <1>8, <1>10
<1> QED
  BY <1>2, <1>3, <1>6, <1>11

\* A unit multiplies different residues into different ones.
LEMMA TimesInjective ==
  ASSUME NEW a \in Units, NEW x \in Residues, NEW y \in Residues, Times(a, x) = Times(a, y)
  PROVE  x = y
<1>1. Order \in Nat \ {0} /\ a \in Nat
  BY TimesLaws DEF Units
<1>2. ASSUME NEW v \in Residues, NEW w \in Residues, Times(a, v) = Times(a, w), v < w
      PROVE  FALSE
  <2> DEFINE e == a * v
             f == a * w
             g == a * (w - v)
             i == e \div Order
             j == f \div Order
             s == Times(a, v)
  <2>1. v \in Nat /\ w \in Nat /\ w - v \in Units
    BY <1>1, <1>2 DEF Residues, Units
  <2>2. e \in Nat /\ f \in Nat /\ g \in Nat /\ g = f - e
    BY <1>1, <2>1 DEF Units
  <2> HIDE DEF e, f
  <2>3. i \in Nat /\ e = Order * i + s /\ s \in Nat
    <3>1. e % Order \in 0 .. Order - 1 /\ e = Order * (e \div Order) + (e % Order)
          /\ e \div Order \in Nat
      BY <1>1, <2>2, e \in Int, e >= 0, QuotientAndRemainder
    <3> QED
      BY <3>1 DEF Times, e
  <2>4. j \in Nat /\ f = Order * j + s
    <3>1. f % Order \in 0 .. Order - 1 /\ f = Order * (f \div Order) + (f % Order)
          /\ f \div Order \in Nat
      BY <1>1, <2>2, f \in Int, f >= 0, QuotientAndRemainder
    <3> QED
      BY <1>2, <3>1 DEF Times, f
  <2> HIDE DEF g, i, j, s
  <2>5. j - i \in Int /\ g = (j - i) * Order + 0
    <3> DEFINE oi == Order * i
               oj == Order * j
    <3>1. oi \in Int /\ oj \in Int /\ (j - i) * Order = oj - oi
      BY <1>1, <2>3, <2>4
    <3>2. e = oi + s /\ f = oj + s
      BY <2>3, <2>4
    <3> HIDE DEF oi, oj
    <3>3. g = oj - oi
      BY <2>2, <2>3, <3>1, <3>2
    <3> QED
      BY <2>3, <2>4, <3>1, <3>3
  <2>6. 0 = g % Order
    BY <1>1, <2>2, <2>5, 0 \in 0 .. Order - 1, RestIsRemainder
  <2>7. Times(a, w - v) = 0
    BY <2>6 DEF Times, g
  <2> QED
    BY <2>1, <2>7, NoZeroDivisors DEF Units
<1>3. x < y \/ y < x \/ x = y
  BY <1>1 DEF Residues
<1> QED
  BY <1>2, <1>3

Multiplies(g, f) ==
  g[0] = 1 /\ \A i \in Units : g[i] = Times(g[i - 1], f[i])

\* The products of the first values of a function.
RunningProduct(f) == CHOOSE g \in [Residues -> Residues] : Multiplies(g, f)

\* Running products exist.
LEMMA RunningProductEquations ==
  ASSUME NEW f \in [Units -> Residues]
  PROVE  RunningProduct(f) \in [Residues -> Residues] /\ Multiplies(RunningProduct(f), f)
<1> DEFINE top == Order - 1
           step == [i \in 1 .. top |-> [v \in Residues |-> Times(v, f[i])]]
<1>1. Order \in Nat /\ Order > 1 /\ 1 \in Residues
  BY TimesLaws
<1>2. top \in Nat /\ Units = 1 .. top /\ Residues = 0 .. top
  BY <1>1 DEF Units, Residues
<1>3. \A i \in 1 .. top : f[i] \in Residues
  BY <1>2
<1> HIDE DEF top
<1>4. step \in [1 .. top -> [Residues -> Residues]]
  BY <1>3, TimesLaws
<1>5. \A i \in 1 .. top : \A v \in Residues : step[i][v] = Times(v, f[i])
  OBVIOUS
<1> HIDE DEF step
<1>6. PICK g \in [0 .. top -> Residues] : Recursion(g, top, 1, step)
  BY <1>1, <1>2, <1>4, RecursionExists
<1>7. g \in [Residues -> Residues]
  BY <1>2, <1>6
<1>8. g[0] = 1
  BY <1>2, <1>6 DEF Recursion
<1>9. ASSUME NEW i \in Units PROVE g[i] = Times(g[i - 1], f[i])
  <2>1. i \in 1 .. top /\ i # 0 /\ i \in 0 .. top /\ i - 1 \in 0 .. top
    BY <1>2
  <2>2. g[i] = step[i][g[i - 1]] /\ g[i - 1] \in Residues
    BY <1>6, <2>1 DEF Recursion
  <2> QED
    BY <1>5, <2>1, <2>2
<1>10. \E h \in [Residues -> Residues] : Multiplies(h, f)
  BY <1>7, <1>8, <1>9 DEF Multiplies
<1> QED
  BY <1>10 DEF RunningProduct

\* A set of units, each counted once.
Marked(S) == [i \in Units |-> IF i \in S THEN i ELSE 1]

\* One more unit in the set is one more factor of its product.
LEMMA OneMoreFactor ==
  ASSUME NEW S \in SUBSET Units, NEW u \in Units, u \notin S
  PROVE  RunningProduct(Marked(S \cup {u}))[Order - 1]
           = Times(RunningProduct(Marked(S))[Order - 1], u)
<1> DEFINE f == Marked(S)
           g == Marked(S \cup {u})
           F == RunningProduct(f)
           G == RunningProduct(g)
           Good == {i \in Residues : G[i] = IF i < u THEN F[i] ELSE Times(F[i], u)}
           top == Order - 1
<1>1. Order \in Nat /\ Order > 1 /\ 1 \in Residues /\ Units \subseteq Residues
  BY TimesLaws
<1>2. f \in [Units -> Residues] /\ g \in [Units -> Residues]
  BY <1>1 DEF Marked
<1>3. \A i \in Units : g[i] = IF i = u THEN u ELSE f[i]
  BY DEF Marked
<1>4. f[u] = 1
  BY DEF Marked
<1> HIDE DEF f, g
<1>5. F \in [Residues -> Residues] /\ F[0] = 1
      /\ \A i \in Units : F[i] = Times(F[i - 1], f[i])
  BY <1>2, RunningProductEquations DEF Multiplies
<1>6. G \in [Residues -> Residues] /\ G[0] = 1
      /\ \A i \in Units : G[i] = Times(G[i - 1], g[i])
  BY <1>2, RunningProductEquations DEF Multiplies
<1> HIDE DEF F, G
<1>7. top \in Nat /\ Units = 1 .. top /\ Residues = 0 .. top /\ u \in Nat /\ u >= 1
  BY <1>1 DEF Units, Residues
<1> HIDE DEF top
<1>8. 0 \in Good
  BY <1>5, <1>6, <1>7
<1>9. ASSUME NEW j \in 0 .. top - 1, j \in Good PROVE j + 1 \in Good
  <2> DEFINE i == j + 1
             x == F[j]
             y == f[i]
  <2>1. i \in Units /\ i \in Residues /\ j \in Residues /\ i - 1 = j
    BY <1>7, <1>9
  <2>2. x \in Residues /\ y \in Residues /\ u \in Residues
    BY <1>1, <1>2, <1>5, <2>1
  <2>3. F[i] = Times(x, y) /\ G[i] = Times(G[j], g[i])
    BY <1>5, <1>6, <2>1
  <2>4. CASE i < u
    <3>1. j < u /\ i # u
      BY <1>7, <2>1, <2>4
    <3> QED
      BY <1>3, <1>9, <2>1, <2>3, <2>4, <3>1
  <2>5. CASE i = u
    <3>1. j < u /\ ~(i < u)
      BY <1>7, <2>1, <2>5
    <3>2. G[i] = Times(x, u)
      BY <1>3, <1>9, <2>1, <2>3, <2>5, <3>1
    <3>3. F[i] = x
      <4>1. Times(x, 1) = Times(1, x) /\ Times(1, x) = x
        BY <1>1, <2>2, TimesLaws
      <4> QED
        BY <1>4, <2>3, <2>5, <4>1
    <3> QED
      BY <2>1, <3>1, <3>2, <3>3
  <2>6. CASE i > u
    <3>1. ~(j < u) /\ ~(i < u) /\ i # u
      BY <1>7, <2>1, <2>6
    <3>2. G[i] = Times(Times(x, u), y)
      BY <1>3, <1>9, <2>1, <2>3, <3>1
    <3> HIDE DEF x, y
    <3>3. Times(Times(x, u), y) = Times(Times(x, y), u)
      <4>1. Times(Times(x, u), y) = Times(x, Times(u, y))
        BY <2>2, TimesLaws
      <4>2. Times(u, y) = Times(y, u)
        BY <2>2, TimesLaws
      <4>3. Times(Times(x, y), u) = Times(x, Times(y, u))
        BY <2>2, TimesLaws
      <4> QED
        BY <4>1, <4>2, <4>3
    <3> QED
      BY <2>1, <2>3, <3>1, <3>2, <3>3
  <2> QED
    BY <1>7, <2>1, <2>4, <2>5, <2>6
<1>10. \A i \in 0 .. top : i \in Good
  <2> HIDE DEF Good
  <2> QED
    BY <1>7, <1>8, <1>9, Ascent
<1>11. top \in Good /\ ~(top < u)
  BY <1>7, <1>10
<1> QED
  BY <1>11 DEF F, G, f, g, top

\* The product of no units.
LEMMA NoFactor == RunningProduct(Marked({}))[Order - 1] = 1
<1> DEFINE f == Marked({})
           F == RunningProduct(f)
           top == Order - 1
           Good == {i \in Residues : F[i] = 1}
<1>1. top \in Nat /\ Units = 1 .. top /\ Residues = 0 .. top /\ 1 \in Residues
  BY TimesLaws DEF Units, Residues
<1>2. f \in [Units -> Residues] /\ \A i \in Units : f[i] = 1
  BY <1>1 DEF Marked
<1> HIDE DEF f
<1>3. F[0] = 1 /\ \A i \in Units : F[i] = Times(F[i - 1], f[i])
  BY <1>2, RunningProductEquations DEF Multiplies
<1> HIDE DEF F, top
<1>4. 0 \in Good
  BY <1>1, <1>3
<1>5. ASSUME NEW j \in 0 .. top - 1, j \in Good PROVE j + 1 \in Good
  <2>1. j + 1 \in Units /\ j + 1 \in Residues /\ (j + 1) - 1 = j
    BY <1>1, <1>5
  <2>2. F[j + 1] = Times(1, 1)
    BY <1>2, <1>3, <1>5, <2>1
  <2> QED
    BY <1>1, <2>1, <2>2, TimesLaws
<1>6. \A i \in 0 .. top : i \in Good
  <2> HIDE DEF Good
  <2> QED
    BY <1>1, <1>4, <1>5, Ascent
<1> QED
  BY <1>1, <1>6 DEF F, f, top

\* The multiples of a unit are the units.
LEMMA MultiplesAreUnits ==
  ASSUME NEW a \in Units
  PROVE  {Times(a, i) : i \in Units} = Units
<1> DEFINE f == [i \in Units |-> Times(a, i)]
<1>1. f \in [Units -> Units]
  BY NoZeroDivisors
<1>2. \A x, y \in Units : f[x] = f[y] => x = y
  BY TimesLaws, TimesInjective
<1>3. f \in Injection(Units, Units)
  BY <1>1, <1>2 DEF Injection, IsInjective
<1>4. IsFiniteSet(Units)
  BY TimesLaws, FS_Interval DEF Units
<1>5. f \in Surjection(Units, Units)
  <2> HIDE DEF f
  <2> QED
    BY <1>3, <1>4, FS_Injection
<1>6. \A u \in Units : \E i \in Units : Times(a, i) = u
  BY <1>5 DEF Surjection
<1>7. \A i \in Units : Times(a, i) \in Units
  BY NoZeroDivisors
<1> QED
  BY <1>6, <1>7

\* The product of the first multiples of a unit.
LEMMA ProductOfMultiples ==
  ASSUME NEW a \in Units
  PROVE  \A n \in Residues :
           /\ RunningProduct(Marked(Units))[n] \in Units
           /\ RunningProduct([i \in Units |-> Times(a, i)])[n]
                = Times(Power(a, n), RunningProduct(Marked(Units))[n])
<1> DEFINE f == [i \in Units |-> Times(a, i)]
           g == Marked(Units)
           F == RunningProduct(f)
           G == RunningProduct(g)
           top == Order - 1
           Good == {n \in Residues : G[n] \in Units /\ F[n] = Times(Power(a, n), G[n])}
<1>1. top \in Nat /\ Units = 1 .. top /\ Residues = 0 .. top /\ 1 \in Units /\ a \in Nat
      /\ Units \subseteq Residues /\ 0 \in Residues
  BY TimesLaws DEF Units, Residues
<1>2. f \in [Units -> Residues] /\ \A i \in Units : f[i] = Times(a, i)
  BY <1>1, NoZeroDivisors
<1>3. g \in [Units -> Residues] /\ \A i \in Units : g[i] = i
  BY <1>1 DEF Marked
<1> HIDE DEF f, g
<1>4. F[0] = 1 /\ \A i \in Units : F[i] = Times(F[i - 1], f[i])
  BY <1>2, RunningProductEquations DEF Multiplies
<1>5. G[0] = 1 /\ \A i \in Units : G[i] = Times(G[i - 1], g[i])
  BY <1>3, RunningProductEquations DEF Multiplies
<1>6. ASSUME NEW n \in Residues PROVE Power(a, n) \in Residues
  BY <1>1, PowerEquations DEF Residues
<1> HIDE DEF F, G, top
<1>7. 0 \in Good
  <2>1. Power(a, 0) = 1 /\ Times(1, 1) = 1
    BY <1>1, 0 \in Nat, PowerEquations, TimesLaws
  <2> QED
    BY <1>1, <1>4, <1>5, <2>1
<1>8. ASSUME NEW j \in 0 .. top - 1, j \in Good PROVE j + 1 \in Good
  <2> DEFINE i == j + 1
             x == Power(a, j)
             y == G[j]
  <2>1. i \in Units /\ i \in Residues /\ j \in Residues /\ i - 1 = j /\ j \in Nat
    BY <1>1, <1>8
  <2>2. x \in Residues /\ y \in Units /\ y \in Residues /\ a \in Residues
    BY <1>1, <1>6, <1>8, <2>1
  <2>3. G[i] = Times(y, i) /\ F[i] = Times(Times(x, y), Times(a, i))
    BY <1>2, <1>3, <1>4, <1>5, <1>8, <2>1
  <2>4. Power(a, i) = Times(x, a)
    BY <1>1, <2>1, PowerEquations DEF Times
  <2> HIDE DEF x, y
  <2>5. G[i] \in Units
    BY <2>1, <2>2, <2>3, NoZeroDivisors
  <2>6. Times(Times(x, y), Times(a, i)) = Times(Times(x, a), Times(y, i))
    <3> HIDE DEF i
    <3>1. i \in Residues /\ Times(a, i) \in Residues /\ Times(y, i) \in Residues
          /\ Times(y, a) \in Residues
      BY <1>1, <2>1, <2>2, TimesLaws
    <3>2. Times(Times(x, y), Times(a, i)) = Times(x, Times(y, Times(a, i)))
      BY <2>2, <3>1, TimesLaws
    <3>3. Times(y, Times(a, i)) = Times(Times(y, a), i)
      BY <2>2, <3>1, TimesLaws
    <3>4. Times(y, a) = Times(a, y)
      BY <2>2, TimesLaws
    <3>5. Times(Times(a, y), i) = Times(a, Times(y, i))
      BY <2>2, <3>1, TimesLaws
    <3>6. Times(x, Times(a, Times(y, i))) = Times(Times(x, a), Times(y, i))
      BY <2>2, <3>1, TimesLaws
    <3> QED
      BY <3>2, <3>3, <3>4, <3>5, <3>6
  <2> QED
    BY <2>1, <2>3, <2>4, <2>5, <2>6
<1>9. \A n \in 0 .. top : n \in Good
  <2> HIDE DEF Good
  <2> QED
    BY <1>1, <1>7, <1>8, Ascent
<1> QED
  BY <1>1, <1>9 DEF F, G, f, g

\* The multiples of a unit, marked one after the other, are its running product.
LEMMA MarkedMultiples ==
  ASSUME NEW a \in Units
  PROVE  RunningProduct(Marked(Units))[Order - 1]
           = RunningProduct([i \in Units |-> Times(a, i)])[Order - 1]
<1> DEFINE f == [i \in Units |-> Times(a, i)]
           F == RunningProduct(f)
           top == Order - 1
           Image(k) == {Times(a, i) : i \in 1 .. k}
           Marks(S) == RunningProduct(Marked(S))[Order - 1]
           Good == {k \in Residues : Marks(Image(k)) = F[k]}
<1>1. top \in Nat /\ Units = 1 .. top /\ Residues = 0 .. top /\ Units \subseteq Residues
  BY TimesLaws DEF Units, Residues
<1>2. \A i \in Units : Times(a, i) \in Units
  BY NoZeroDivisors
<1>3. f \in [Units -> Residues] /\ \A i \in Units : f[i] = Times(a, i)
  BY <1>1, <1>2
<1> HIDE DEF f
<1>4. F[0] = 1 /\ \A i \in Units : F[i] = Times(F[i - 1], f[i])
  BY <1>3, RunningProductEquations DEF Multiplies
<1> HIDE DEF F, top
<1>5. 0 \in Good
  <2>1. Image(0) = {}
    OBVIOUS
  <2>2. Marks({}) = 1
    BY NoFactor
  <2> HIDE DEF Image, Marks
  <2> QED
    BY <1>1, <1>4, <2>1, <2>2
<1>6. ASSUME NEW j \in 0 .. top - 1, j \in Good PROVE j + 1 \in Good
  <2> DEFINE k == j + 1
             u == Times(a, k)
  <2>1. k \in Units /\ k \in Residues /\ k - 1 = j /\ j \in Nat /\ 1 .. j \subseteq Units
        /\ 1 .. k = 1 .. j \cup {k} /\ k \notin 1 .. j
    BY <1>1, <1>6
  <2> HIDE DEF k
  <2>2. u \in Units /\ Image(j) \in SUBSET Units
    BY <1>2, <2>1
  <2>3. u \notin Image(j)
    <3> SUFFICES ASSUME NEW i \in 1 .. j, Times(a, i) = Times(a, k) PROVE FALSE
      OBVIOUS
    <3>1. i \in Residues /\ k \in Residues /\ i # k
      BY <1>1, <2>1
    <3> QED
      BY <3>1, TimesInjective
  <2>4. Image(k) = Image(j) \cup {u}
    BY <2>1
  <2> HIDE DEF Image, u
  <2>5. Marks(Image(j) \cup {u}) = Times(Marks(Image(j)), u)
    BY <2>2, <2>3, OneMoreFactor
  <2> HIDE DEF Marks
  <2>6. F[k] = Times(F[j], u)
    BY <1>3, <1>4, <2>1 DEF u
  <2> QED
    BY <1>6, <2>1, <2>4, <2>5, <2>6 DEF k
<1>7. \A k \in 0 .. top : k \in Good
  <2> HIDE DEF Good
  <2> QED
    BY <1>1, <1>5, <1>6, Ascent
<1>8. Image(top) = Units
  BY <1>1, MultiplesAreUnits
<1>9. Marks(Image(top)) = F[top]
  BY <1>1, <1>7
<1> QED
  <2> HIDE DEF Image
  <2> QED
    BY <1>8, <1>9 DEF F, f, top

\* Fermat: the power of a unit to the order less one is one.
LEMMA Fermat ==
  ASSUME NEW a \in Units
  PROVE  Power(a, Order - 1) = 1
<1> DEFINE P == Power(a, Order - 1)
           G == RunningProduct(Marked(Units))[Order - 1]
<1>1. Order - 1 \in Residues /\ Order - 1 \in Nat /\ a \in Nat /\ 1 \in Residues
      /\ Units \subseteq Residues
  BY TimesLaws DEF Residues, Units
<1>2. G \in Units /\ G = Times(P, G)
  BY <1>1, ProductOfMultiples, MarkedMultiples
<1>3. P \in Residues
  BY <1>1, PowerEquations DEF Residues
<1> HIDE DEF P, G
<1>4. Times(G, P) = Times(G, 1)
  <2>1. Times(P, G) = Times(G, P) /\ Times(1, G) = Times(G, 1) /\ Times(1, G) = G
    BY <1>1, <1>2, <1>3, TimesLaws
  <2> QED
    BY <1>2, <2>1
<1>5. P = 1
  BY <1>1, <1>2, <1>3, <1>4, TimesInjective
<1> QED
  BY <1>5 DEF P

\* The power that inv_mod computes is the inverse.
LEMMA PowerIsInverse ==
  ASSUME NEW a \in Nat, a % Order # 0
  PROVE  Power(a, Order - 2) < Order /\ (Power(a, Order - 2) * a) % Order = 1
<1>1. Order \in Nat \ {0} /\ Order > 1
  BY TimesLaws
<1>2. Order - 2 \in Nat /\ Order - 1 \in Nat /\ (Order - 2) + 1 = Order - 1
  BY <1>1
<1>3. a % Order \in Units
  BY <1>1 DEF Units
<1>4. Power(a, Order - 1) = 1
  <2>1. Power(a % Order, Order - 1) = 1
    BY <1>3, Fermat
  <2> QED
    BY <1>2, <2>1, PowerReduced
<1>5. Power(a, Order - 1) = (Power(a, Order - 2) * a) % Order
  BY <1>2, PowerEquations
<1>6. Power(a, Order - 2) \in 0 .. Order - 1
  BY <1>2, PowerEquations
<1> QED
  BY <1>1, <1>4, <1>5, <1>6

\* What the invariant says of the answer is what mul_mod, mod_pow and inv_mod promise.
LEMMA AnswerComputed == ScalarInv => Computes
<1> SUFFICES ASSUME ScalarInv, stage = "done"
             PROVE  ProductComputed /\ PowerComputed /\ InverseComputed
  BY DEF Computes
<1>1. /\ job \in Jobs
      /\ job.call = "mul" => Number(answer) = (job.a * job.b) % Order
      /\ job.call # "mul" => Number(answer) = Power(job.a, Exponent)
  BY DEF ScalarInv, ScalarTypes, Answered
<1>2. ProductComputed
  BY <1>1 DEF ProductComputed
<1>3. PowerComputed
  <2> SUFFICES ASSUME job.call = "pow", job.b < Order
               PROVE  Number(answer) = Power(job.a, job.b)
    BY DEF PowerComputed
  <2>1. job.b \in Nat /\ Order \in Nat \ {0}
    BY <1>1, JobFacts, TimesLaws
  <2>2. Exponent = job.b
    <3>1. job.b % Order = job.b
      BY <2>1
    <3> QED
      BY <3>1 DEF Exponent
  <2> QED
    BY <1>1, <2>2
<1>4. InverseComputed
  <2> SUFFICES ASSUME job.call = "inv", job.a % Order # 0
               PROVE  Number(answer) < Order /\ (Number(answer) * job.a) % Order = 1
    BY DEF InverseComputed
  <2>1. job.a \in Nat /\ job.b = Order - 2
    BY <1>1, JobFacts
  <2>2. Exponent = Order - 2
    <3>1. Order \in Nat /\ Order > 1
      BY TimesLaws
    <3>2. (Order - 2) % Order = Order - 2
      BY <3>1
    <3> QED
      BY <2>1, <3>2 DEF Exponent
  <2>3. Number(answer) = Power(job.a, Order - 2)
    BY <1>1, <2>2
  <2> QED
    BY <2>1, <2>3, PowerIsInverse
<1> QED
  BY <1>2, <1>3, <1>4

(***************************************************************************)
(* mul_mod returns the canonical product of any operands of full width,    *)
(* mod_pow the power of any base to any exponent below the order, and      *)
(* inv_mod the inverse of a scalar that is not zero modulo the order, for  *)
(* every prime order and every width of a limb.                            *)
(***************************************************************************)
THEOREM ScalarsComputed == Spec => []Computes
  BY ScalarInductive, AnswerComputed, PTL

-----------------------------------------------------------------------------
(***************************************************************************)
(* Bitmaps: a word is the set of its positions.                            *)
(***************************************************************************)
BitOf(v, k) == (v \div Pow(2, k)) % 2

Digit(set, i) == IF i \in set THEN 1 ELSE 0

\* The width of a bitmap.
LEMMA BitmapWidth ==
  /\ Width \in Nat \ {0} /\ Width = Bits /\ LimbBits \in Nat \ {0} /\ Width = 4 * LimbBits
  /\ Pow(2, Width) = Pow(Base, 4) /\ Ones \in Nat /\ Ones + 1 = Pow(2, Width)
<1>1. LimbBits \in Nat \ {0} /\ Base = Pow(2, LimbBits)
  BY WidthFacts
<1>2. Width \in Nat \ {0} /\ Width = 4 * LimbBits /\ Width = LimbBits * 4
  BY <1>1 DEF Width
<1>3. Bits = Width
  <2>1. ByteBits \in Nat /\ LimbBytes \in Nat
    BY WidthFacts
  <2>2. ByteBits * (4 * LimbBytes) = 4 * (ByteBits * LimbBytes)
    BY <2>1
  <2> QED
    BY <2>2 DEF Bits, Size, Width, LimbBits
<1>4. Pow(2, Width) = Pow(Base, 4)
  BY <1>1, <1>2, 2 \in Int, 4 \in Nat, PowProduct
<1>5. Pow(2, Width) \in Nat \ {0}
  BY <1>2, 2 \in Nat \ {0}, PowPositive
<1> QED
  BY <1>1, <1>2, <1>3, <1>4, <1>5 DEF Ones

\* The powers of two.
LEMMA PowersOfTwo ==
  ASSUME NEW k \in Nat
  PROVE  /\ Pow(2, k) \in Nat \ {0} /\ Pow(2, 0) = 1 /\ Pow(2, k + 1) = Pow(2, k) * 2
         /\ \A j \in Nat : j >= k => Pow(2, k) <= Pow(2, j)
<1>1. Pow(2, k) \in Nat \ {0} /\ Pow(2, 0) = 1 /\ Pow(2, k + 1) = Pow(2, k) * 2
  BY 2 \in Nat \ {0}, 2 \in Int, PowPositive, PowEquations
<1>2. ASSUME NEW j \in Nat, j >= k PROVE Pow(2, k) <= Pow(2, j)
  <2> DEFINE d == j - k
             p == Pow(2, k)
             q == Pow(2, d)
  <2>1. d \in Nat /\ k + d = j
    BY <1>2
  <2>2. Pow(2, j) = p * q /\ q \in Nat \ {0}
    BY <2>1, 2 \in Int, 2 \in Nat \ {0}, PowSum, PowPositive
  <2> HIDE DEF p, q, d
  <2>3. p <= p * q
    BY <1>1, <2>2 DEF p
  <2> QED
    BY <2>2, <2>3 DEF p
<1> QED
  BY <1>1, <1>2

\* The bits of a number, one quotient after the other.
LEMMA Halvings ==
  ASSUME NEW v \in Nat, NEW k \in Nat
  PROVE  /\ v \div Pow(2, k) \in Nat /\ v \div Pow(2, 0) = v
         /\ BitOf(v, k) \in {0, 1}
         /\ v \div Pow(2, k) = 2 * (v \div Pow(2, k + 1)) + BitOf(v, k)
         /\ v < Pow(2, k) <=> v \div Pow(2, k) = 0
<1> DEFINE p == Pow(2, k)
           u == v \div p
<1>1. p \in Nat \ {0} /\ Pow(2, k + 1) = p * 2 /\ Pow(2, 0) = 1
  BY PowersOfTwo
<1> HIDE DEF p
<1>2. u \in Nat /\ p * u <= v /\ v < p * u + p
  BY <1>1, DivisionRoundsDown
<1>3. u \div 2 = v \div Pow(2, k + 1)
  BY <1>1, 2 \in Nat \ {0}, TwiceDivided
<1>4. v < p <=> u = 0
  <2> HIDE DEF u
  <2>1. CASE u = 0
    BY <1>1, <1>2, <2>1
  <2>2. CASE u >= 1
    <3> DEFINE pu == p * u
    <3>1. pu >= p /\ pu \in Int
      BY <1>1, <1>2, <2>2
    <3>2. pu <= v
      BY <1>2
    <3> HIDE DEF pu
    <3> QED
      BY <1>1, <2>2, <3>1, <3>2
  <2> QED
    BY <1>2, <2>1, <2>2
<1>5. v \div 1 = v
  OBVIOUS
<1> HIDE DEF u
<1>6. u % 2 \in {0, 1} /\ u = 2 * (u \div 2) + (u % 2)
  BY <1>2
<1> QED
  BY <1>1, <1>2, <1>3, <1>4, <1>5, <1>6 DEF BitOf, u, p

\* The word of a set holds the set.
LEMMA WordOfPositions ==
  ASSUME NEW set \in SUBSET (0 .. Width - 1)
  PROVE  WordOf(set) \in 0 .. Ones /\ Positions(WordOf(set)) = set
<1> DEFINE d == [j \in 0 .. Width - 1 |-> IF Width - 1 - j \in set THEN 1 ELSE 0]
           v == WordOf(set)
<1>1. Width \in Nat /\ Ones \in Nat /\ Ones + 1 = Pow(2, Width)
  BY BitmapWidth
<1>2. \A j \in 0 .. Width - 1 : d[j] \in 0 .. 2 - 1
  OBVIOUS
<1>3. v = Numeral(d, Width, 2)
  BY DEF WordOf
<1>4. v \in 0 .. Ones
  <2> HIDE DEF d, v
  <2>1. v \in 0 .. Pow(2, Width) - 1
    BY <1>1, <1>2, <1>3, 2 \in Nat \ {0}, NumeralBound
  <2> QED
    BY <1>1, <2>1
<1>5. ASSUME NEW pos \in 0 .. Width - 1
      PROVE  pos \in set <=> (v \div Pow(2, pos)) % 2 = 1
  <2> DEFINE j == Width - 1 - pos
  <2>1. j \in 0 .. Width - 1 /\ Width - 1 - j = pos
    BY <1>1
  <2>2. d[j] = IF pos \in set THEN 1 ELSE 0
    BY <2>1
  <2> HIDE DEF d, v, j
  <2>3. d[j] = (v \div Pow(2, Width - 1 - j)) % 2
    BY <1>1, <1>2, <1>3, <2>1, 2 \in Nat \ {0}, NumeralDigit
  <2> QED
    BY <2>1, <2>2, <2>3
<1> HIDE DEF v
<1>6. Positions(v) = set
  BY <1>5 DEF Positions
<1> QED
  BY <1>4, <1>6 DEF v

\* A number is the word of a set when its quotients by powers of two have its digits.
LEMMA QuotientsOfWord ==
  ASSUME NEW set \in SUBSET (0 .. Width - 1), NEW q, q[Width] = 0,
         \A i \in 0 .. Width - 1 : q[i] = 2 * q[i + 1] + Digit(set, i)
  PROVE  WordOf(set) = q[0]
<1> DEFINE v == WordOf(set)
           Good == {i \in 0 .. Width : v \div Pow(2, i) = q[i]}
<1>1. Width \in Nat /\ Ones \in Nat /\ Ones + 1 = Pow(2, Width)
  BY BitmapWidth
<1>2. v \in 0 .. Ones /\ Positions(v) = set
  BY WordOfPositions
<1> HIDE DEF v
<1>3. v \in Nat /\ v < Pow(2, Width)
  BY <1>1, <1>2
<1>4. Width \in Good
  <2>1. v \div Pow(2, Width) = 0
    BY <1>1, <1>3, Halvings
  <2> QED
    BY <1>1, <2>1
<1>5. ASSUME NEW i \in 0 .. Width - 1, i + 1 \in Good PROVE i \in Good
  <2>1. v \div Pow(2, i) = 2 * (v \div Pow(2, i + 1)) + BitOf(v, i)
        /\ BitOf(v, i) \in {0, 1}
    BY <1>3, <1>5, i \in Nat, Halvings
  <2>2. BitOf(v, i) = 1 <=> i \in set
    BY <1>2 DEF BitOf, Positions
  <2>3. BitOf(v, i) = Digit(set, i)
    BY <2>1, <2>2 DEF Digit
  <2>4. v \div Pow(2, i + 1) = q[i + 1]
    BY <1>5
  <2>5. i \in 0 .. Width
    BY <1>1
  <2> QED
    BY <2>1, <2>3, <2>4, <2>5
<1>6. \A i \in 0 .. Width : i \in Good
  <2> HIDE DEF Good
  <2> QED
    BY <1>1, <1>4, <1>5, Descent
<1>7. v \div Pow(2, 0) = q[0] /\ v \div Pow(2, 0) = v
  BY <1>1, <1>3, <1>6, 0 \in Nat, Halvings
<1> QED
  BY <1>7 DEF v

\* A bitmap is the word of its positions.
LEMMA WordOfItsPositions ==
  ASSUME NEW v \in 0 .. Ones
  PROVE  WordOf(Positions(v)) = v
<1> DEFINE q == [i \in 0 .. Width |-> v \div Pow(2, i)]
           set == Positions(v)
<1>1. Width \in Nat /\ Ones \in Nat /\ Ones + 1 = Pow(2, Width)
  BY BitmapWidth
<1>2. v \in Nat /\ v < Pow(2, Width)
  BY <1>1
<1>3. set \in SUBSET (0 .. Width - 1)
  BY DEF Positions
<1>4. q[Width] = 0
  BY <1>1, <1>2, Halvings
<1>5. ASSUME NEW i \in 0 .. Width - 1 PROVE q[i] = 2 * q[i + 1] + Digit(set, i)
  <2>1. v \div Pow(2, i) = 2 * (v \div Pow(2, i + 1)) + BitOf(v, i)
        /\ BitOf(v, i) \in {0, 1}
    BY <1>2, i \in Nat, Halvings
  <2>2. BitOf(v, i) = Digit(set, i)
    BY <2>1 DEF BitOf, Positions, Digit
  <2>3. i \in 0 .. Width /\ i + 1 \in 0 .. Width
    BY <1>1
  <2> QED
    BY <2>1, <2>2, <2>3
<1>6. q[0] = v
  BY <1>1, <1>2, 0 \in Nat, Halvings
<1> HIDE DEF q, set
<1>7. WordOf(set) = q[0]
  BY <1>3, <1>4, <1>5, QuotientsOfWord
<1> QED
  BY <1>6, <1>7 DEF set

\* The bitwise operators are those of the sets.
LEMMA BitwiseOperators ==
  ASSUME NEW x, NEW y
  PROVE  /\ Positions(x) \subseteq 0 .. Width - 1
         /\ And(x, y) \in 0 .. Ones /\ Positions(And(x, y)) = Positions(x) \cap Positions(y)
         /\ Or(x, y) \in 0 .. Ones /\ Positions(Or(x, y)) = Positions(x) \cup Positions(y)
         /\ Xor(x, y) \in 0 .. Ones
         /\ Positions(Xor(x, y))
              = (Positions(x) \ Positions(y)) \cup (Positions(y) \ Positions(x))
<1>1. Positions(x) \subseteq 0 .. Width - 1 /\ Positions(y) \subseteq 0 .. Width - 1
  BY DEF Positions
<1> QED
  BY <1>1, WordOfPositions DEF And, Or, Xor

\* The complement of a word.
LEMMA ComplementPositions ==
  ASSUME NEW v \in 0 .. Ones
  PROVE  /\ Complement(v) \in 0 .. Ones
         /\ Positions(Complement(v)) = (0 .. Width - 1) \ Positions(v)
<1> DEFINE set == (0 .. Width - 1) \ Positions(v)
           q == [i \in 0 .. Width |-> Pow(2, Width - i) - 1 - (v \div Pow(2, i))]
<1>1. Width \in Nat /\ Ones \in Nat /\ Ones + 1 = Pow(2, Width)
  BY BitmapWidth
<1>2. v \in Nat /\ v < Pow(2, Width)
  BY <1>1
<1>3. q[Width] = 0
  <2>1. v \div Pow(2, Width) = 0 /\ Pow(2, 0) = 1 /\ Width - Width = 0
    BY <1>1, <1>2, Halvings, PowersOfTwo
  <2> QED
    BY <1>1, <2>1
<1>4. ASSUME NEW i \in 0 .. Width - 1 PROVE q[i] = 2 * q[i + 1] + Digit(set, i)
  <2> DEFINE m == v \div Pow(2, i)
             n == v \div Pow(2, i + 1)
             p == Pow(2, Width - i)
             h == Pow(2, Width - (i + 1))
  <2>1. m = 2 * n + BitOf(v, i) /\ BitOf(v, i) \in {0, 1} /\ n \in Nat
    BY <1>2, i \in Nat, i + 1 \in Nat, Halvings
  <2>2. p = h * 2 /\ h \in Nat
    <3>1. Width - (i + 1) \in Nat /\ (Width - (i + 1)) + 1 = Width - i
      BY <1>1
    <3>2. Pow(2, (Width - (i + 1)) + 1) = h * 2 /\ h \in Nat
      BY <3>1, PowersOfTwo
    <3> QED
      BY <3>1, <3>2
  <2>3. Digit(set, i) = 1 - BitOf(v, i)
    BY <2>1 DEF Digit, Positions, BitOf
  <2>4. q[i] = p - 1 - m /\ q[i + 1] = h - 1 - n
    BY <1>1, i \in 0 .. Width, i + 1 \in 0 .. Width
  <2> HIDE DEF q, m, n, p, h, set
  <2> QED
    BY <2>1, <2>2, <2>3, <2>4
<1>5. q[0] = Complement(v)
  <2>1. v \div Pow(2, 0) = v /\ Width - 0 = Width /\ Pow(2, Width) - 1 = Ones
    BY <1>1, <1>2, 0 \in Nat, Halvings
  <2> QED
    BY <1>1, <2>1 DEF Complement
<1> HIDE DEF q, set
<1>6. set \in SUBSET (0 .. Width - 1)
  BY DEF set
<1>7. WordOf(set) = Complement(v)
  BY <1>3, <1>4, <1>5, <1>6, QuotientsOfWord
<1> QED
  BY <1>6, <1>7, WordOfPositions DEF set

\* The masks of a position and of the positions below a bound.
LEMMA MaskPositions ==
  ASSUME NEW n \in 0 .. Width
  PROVE  /\ n < Width => Pow(2, n) \in 0 .. Ones /\ Positions(Pow(2, n)) = {n}
         /\ Pow(2, n) - 1 \in 0 .. Ones /\ Positions(Pow(2, n) - 1) = 0 .. n - 1
<1>1. Width \in Nat /\ n \in Nat
  BY BitmapWidth
<1>2. ASSUME NEW i \in 0 .. n - 1 PROVE Pow(2, n - i) = Pow(2, n - (i + 1)) * 2
  <2>1. n - (i + 1) \in Nat /\ (n - (i + 1)) + 1 = n - i
    BY <1>1
  <2> QED
    BY <2>1, PowersOfTwo
<1>3. ASSUME NEW i \in 0 .. n PROVE Pow(2, n - i) \in Nat
  BY <1>1, n - i \in Nat, PowersOfTwo
<1>4. Pow(2, 0) = 1 /\ n - n = 0 /\ n - 0 = n
  BY <1>1, PowersOfTwo
<1>5. ASSUME n < Width PROVE WordOf({n}) = Pow(2, n)
  <2> DEFINE q == [i \in 0 .. Width |-> IF i <= n THEN Pow(2, n - i) ELSE 0]
  <2>1. q[Width] = 0
    BY <1>1, <1>5
  <2>2. ASSUME NEW i \in 0 .. Width - 1 PROVE q[i] = 2 * q[i + 1] + Digit({n}, i)
    <3>1. i \in 0 .. Width /\ i + 1 \in 0 .. Width /\ i \in Nat
      BY <1>1
    <3>2. CASE i < n
      <4>1. i + 1 <= n /\ i \in 0 .. n - 1 /\ i + 1 \in 0 .. n /\ Digit({n}, i) = 0
        BY <1>1, <3>1, <3>2 DEF Digit
      <4>2. q[i] = Pow(2, n - i) /\ q[i + 1] = Pow(2, n - (i + 1))
        BY <1>1, <3>1, <3>2, <4>1
      <4>3. Pow(2, n - i) = Pow(2, n - (i + 1)) * 2 /\ Pow(2, n - (i + 1)) \in Nat
        BY <1>2, <1>3, <4>1
      <4> HIDE DEF q
      <4> QED
        BY <4>1, <4>2, <4>3
    <3>3. CASE i = n
      <4>1. q[i] = 1 /\ q[i + 1] = 0 /\ Digit({n}, i) = 1
        BY <1>1, <1>4, <3>1, <3>3 DEF Digit
      <4> HIDE DEF q
      <4> QED
        BY <4>1
    <3>4. CASE i > n
      <4>1. q[i] = 0 /\ q[i + 1] = 0 /\ Digit({n}, i) = 0
        BY <1>1, <3>1, <3>4 DEF Digit
      <4> HIDE DEF q
      <4> QED
        BY <4>1
    <3> QED
      BY <1>1, <3>1, <3>2, <3>3, <3>4
  <2>3. q[0] = Pow(2, n)
    BY <1>1, <1>4
  <2>4. {n} \in SUBSET (0 .. Width - 1)
    BY <1>1, <1>5
  <2> HIDE DEF q
  <2> QED
    BY <2>1, <2>2, <2>3, <2>4, QuotientsOfWord
<1>6. WordOf(0 .. n - 1) = Pow(2, n) - 1
  <2> DEFINE set == 0 .. n - 1
             q == [i \in 0 .. Width |-> IF i <= n THEN Pow(2, n - i) - 1 ELSE 0]
  <2>1. q[Width] = 0
    BY <1>1, <1>4
  <2>2. ASSUME NEW i \in 0 .. Width - 1 PROVE q[i] = 2 * q[i + 1] + Digit(set, i)
    <3>1. i \in 0 .. Width /\ i + 1 \in 0 .. Width /\ i \in Nat
      BY <1>1
    <3>2. CASE i < n
      <4>1. i + 1 <= n /\ i \in 0 .. n - 1 /\ i + 1 \in 0 .. n /\ Digit(set, i) = 1
        BY <1>1, <3>1, <3>2 DEF Digit
      <4>2. q[i] = Pow(2, n - i) - 1 /\ q[i + 1] = Pow(2, n - (i + 1)) - 1
        BY <1>1, <3>1, <3>2, <4>1
      <4>3. Pow(2, n - i) = Pow(2, n - (i + 1)) * 2 /\ Pow(2, n - (i + 1)) \in Nat
        BY <1>2, <1>3, <4>1
      <4> HIDE DEF q
      <4> QED
        BY <4>1, <4>2, <4>3
    <3>3. CASE i >= n
      <4>1. q[i] = 0 /\ q[i + 1] = 0 /\ Digit(set, i) = 0
        BY <1>1, <1>4, <3>1, <3>3 DEF Digit
      <4> HIDE DEF q
      <4> QED
        BY <4>1
    <3> QED
      BY <1>1, <3>1, <3>2, <3>3
  <2>3. q[0] = Pow(2, n) - 1
    BY <1>1, <1>4
  <2>4. set \in SUBSET (0 .. Width - 1)
    BY <1>1
  <2> HIDE DEF q, set
  <2>5. WordOf(set) = Pow(2, n) - 1
    BY <2>1, <2>2, <2>3, <2>4, QuotientsOfWord
  <2> QED
    BY <2>5 DEF set
<1>7. 0 .. n - 1 \in SUBSET (0 .. Width - 1) /\ (n < Width => {n} \in SUBSET (0 .. Width - 1))
  BY <1>1
<1> QED
  BY <1>5, <1>6, <1>7, WordOfPositions

\* A word without a position is zero.
LEMMA EmptyWord ==
  /\ Positions(0) = {} /\ WordOf({}) = 0 /\ 0 \in 0 .. Ones
  /\ \A v \in 0 .. Ones : v = 0 <=> Positions(v) = {}
<1>1. Ones \in Nat /\ 0 \in 0 .. Ones
  BY BitmapWidth
<1>2. Positions(0) = {}
  <2> SUFFICES ASSUME NEW pos \in 0 .. Width - 1 PROVE (0 \div Pow(2, pos)) % 2 # 1
    BY DEF Positions
  <2>1. Pow(2, pos) \in Nat \ {0} /\ 0 < Pow(2, pos)
    BY pos \in Nat, PowersOfTwo
  <2>2. 0 \div Pow(2, pos) = 0
    BY <2>1, pos \in Nat, 0 \in Nat, Halvings
  <2> QED
    BY <2>2
<1> QED
  BY <1>1, <1>2, WordOfItsPositions

\* The word of the positions below a bound is below the power of the bound, and back.
LEMMA SmallWord ==
  ASSUME NEW k \in 0 .. Width
  PROVE  /\ \A set \in SUBSET (0 .. k - 1) : WordOf(set) < Pow(2, k)
         /\ \A v \in Nat : v < Pow(2, k) => v \in 0 .. Ones /\ Positions(v) \subseteq 0 .. k - 1
<1>1. Width \in Nat /\ k \in Nat /\ Ones \in Nat /\ Ones + 1 = Pow(2, Width)
  BY BitmapWidth
<1>2. ASSUME NEW set \in SUBSET (0 .. k - 1) PROVE WordOf(set) < Pow(2, k)
  <2> DEFINE v == WordOf(set)
             Good == {i \in 0 .. Width : i >= k => v \div Pow(2, i) = 0}
  <2>1. set \in SUBSET (0 .. Width - 1)
    BY <1>1
  <2>2. v \in 0 .. Ones /\ Positions(v) = set
    BY <2>1, WordOfPositions
  <2> HIDE DEF v
  <2>3. v \in Nat /\ v < Pow(2, Width)
    BY <1>1, <2>2
  <2>4. Width \in Good
    <3>1. v \div Pow(2, Width) = 0
      BY <1>1, <2>3, Halvings
    <3> QED
      BY <1>1, <3>1
  <2>5. ASSUME NEW i \in 0 .. Width - 1, i + 1 \in Good PROVE i \in Good
    <3> SUFFICES ASSUME i >= k PROVE v \div Pow(2, i) = 0
      BY <1>1
    <3>1. v \div Pow(2, i) = 2 * (v \div Pow(2, i + 1)) + BitOf(v, i)
          /\ BitOf(v, i) \in {0, 1}
      BY <2>3, i \in Nat, Halvings
    <3>2. i \notin set /\ v \div Pow(2, i + 1) = 0
      BY <1>1, <2>5
    <3>3. BitOf(v, i) = 0
      BY <2>2, <3>1, <3>2 DEF BitOf, Positions
    <3> QED
      BY <3>1, <3>2, <3>3
  <2>6. \A i \in 0 .. Width : i \in Good
    <3> HIDE DEF Good
    <3> QED
      BY <1>1, <2>4, <2>5, Descent
  <2>7. v \div Pow(2, k) = 0
    BY <1>1, <2>6
  <2>8. v < Pow(2, k)
    BY <1>1, <2>3, <2>7, Halvings
  <2> QED
    BY <2>8 DEF v
<1>3. ASSUME NEW v \in Nat, v < Pow(2, k)
      PROVE  v \in 0 .. Ones /\ Positions(v) \subseteq 0 .. k - 1
  <2>1. ASSUME NEW pos \in 0 .. Width, pos >= k PROVE v < Pow(2, pos)
    <3>1. Pow(2, k) <= Pow(2, pos) /\ Pow(2, k) \in Nat /\ Pow(2, pos) \in Nat
      BY <1>1, <2>1, pos \in Nat, PowersOfTwo
    <3> QED
      BY <1>3, <3>1
  <2>2. v \in 0 .. Ones
    BY <1>1, <2>1
  <2>3. ASSUME NEW pos \in 0 .. Width - 1, pos >= k PROVE (v \div Pow(2, pos)) % 2 # 1
    <3>1. v < Pow(2, pos) /\ pos \in Nat
      BY <1>1, <2>1, <2>3
    <3>2. v \div Pow(2, pos) = 0
      BY <3>1, Halvings
    <3> QED
      BY <3>2
  <2> QED
    BY <1>1, <2>2, <2>3 DEF Positions
<1> QED
  BY <1>2, <1>3

\* The positions that four limbs hold.
InLimbs(x) == {pos \in 0 .. Width - 1 : (pos % LimbBits) \in Positions(x[pos \div LimbBits])}

\* A position is that of a bit in a limb.
LEMMA PositionSplit ==
  ASSUME NEW pos \in 0 .. Width - 1
  PROVE  /\ pos \div LimbBits \in 0 .. 3 /\ pos % LimbBits \in 0 .. LimbBits - 1
         /\ pos = (pos \div LimbBits) * LimbBits + (pos % LimbBits)
<1> DEFINE m == LimbBits
           q == pos \div m
           b == pos % m
<1>1. m \in Nat \ {0} /\ Width = 4 * m /\ pos \in Nat /\ pos < 4 * m
  BY BitmapWidth
<1> HIDE DEF m
<1>2. q \in Nat /\ b \in 0 .. m - 1 /\ pos = m * q + b
  <2>1. pos % m \in 0 .. m - 1 /\ pos = m * (pos \div m) + (pos % m) /\ pos \div m \in Nat
    BY <1>1, pos \in Int, pos >= 0, QuotientAndRemainder
  <2> QED
    BY <2>1
<1> HIDE DEF q, b
<1>3. q < 4
  <2>1. CASE q >= 4
    <3> DEFINE mq == m * q
    <3>1. mq >= 4 * m /\ mq \in Int
      <4>1. m * q = m * 4 + m * (q - 4) /\ m * (q - 4) \in Nat
        BY <1>1, <1>2, <2>1
      <4> QED
        BY <1>1, <1>2, <4>1
    <3>2. pos = mq + b
      BY <1>2
    <3> HIDE DEF mq
    <3> QED
      BY <1>1, <1>2, <3>1, <3>2
  <2> QED
    BY <1>2, <2>1
<1>4. m * q = q * m
  BY <1>1, <1>2
<1> QED
  BY <1>2, <1>3, <1>4 DEF q, b, m

\* The bit of a word of limbs.
LEMMA LimbBit ==
  ASSUME NEW x \in Word(4), NEW l \in 0 .. 3, NEW b \in 0 .. LimbBits - 1
  PROVE  BitOf(Val(x), l * LimbBits + b) = BitOf(x[l], b)
<1> DEFINE v == Val(x)
           p == Pow(Base, l)
           e == Pow(2, b)
           g == Pow(2, LimbBits - (b + 1))
           u == v \div p
           pos == l * LimbBits + b
<1>1. LimbBits \in Nat \ {0} /\ Base = Pow(2, LimbBits) /\ Base \in Nat \ {0}
  BY WidthFacts
<1>2. b \in Nat /\ l \in Nat /\ l * LimbBits \in Nat /\ l * LimbBits = LimbBits * l
      /\ LimbBits - (b + 1) \in Nat /\ (b + 1) + (LimbBits - (b + 1)) = LimbBits
  BY <1>1
<1>3. v \in Nat
  BY 4 \in Nat, ValBounds
<1>4. p \in Nat \ {0} /\ e \in Nat \ {0} /\ g \in Nat \ {0}
  BY <1>1, <1>2, 2 \in Nat \ {0}, PowPositive
<1>5. Pow(2, pos) = p * e
  <2>1. Pow(2, LimbBits * l) = p
    BY <1>1, <1>2, 2 \in Int, PowProduct
  <2> QED
    BY <1>2, <2>1, 2 \in Int, PowSum
<1>6. Base = (e * 2) * g
  <2>1. Pow(2, (b + 1) + (LimbBits - (b + 1))) = Pow(2, b + 1) * g
    BY <1>2, b + 1 \in Nat, 2 \in Int, PowSum
  <2>2. Pow(2, b + 1) = e * 2
    BY <1>2, PowersOfTwo
  <2> QED
    BY <1>1, <1>2, <2>1, <2>2
<1>7. x[l] = u % Base /\ u \in Nat
  <2> DEFINE w == Upper(x, 4, l + 1)
  <2>1. l \in 0 .. 4 - 1 /\ l \in 0 .. 4 /\ l + 1 \in 0 .. 4 /\ 4 \in Nat
    OBVIOUS
  <2>2. u = Upper(x, 4, l)
    BY <2>1, UpperIsQuotient
  <2>3. Upper(x, 4, l) = x[l] + Base * w /\ Upper(x, 4, l) \in Nat /\ w \in Nat
    BY <2>1, UpperEquations
  <2>4. x[l] \in 0 .. Base - 1
    BY DEF Word
  <2> HIDE DEF u, w
  <2>5. u = w * Base + x[l]
    <3>1. Base * w = w * Base /\ Base * w \in Int
      BY <1>1, <2>3
    <3> DEFINE bw == Base * w
    <3>2. u = x[l] + bw /\ bw = w * Base /\ bw \in Int
      BY <2>2, <2>3, <3>1
    <3> HIDE DEF bw
    <3>3. u = bw + x[l]
      BY <1>1, <2>4, <3>2
    <3> QED
      BY <3>2, <3>3
  <2> QED
    BY <1>1, <2>2, <2>3, <2>4, <2>5, RestIsRemainder
<1>8. v \div Pow(2, pos) = u \div e
  <2> HIDE DEF v, p, e, u, pos
  <2>1. DividedTwice(v, p, e)
    BY <1>3, <1>4, DivisionsCompose
  <2> QED
    BY <1>5, <2>1 DEF DividedTwice, u
<1> HIDE DEF u, e, g
<1>9. DigitOf(u, Base, e, 2)
  BY <1>1, <1>4, <1>6, <1>7, 2 \in Nat \ {0}, DigitOfRemainder
<1>10. ((u % Base) \div e) % 2 = (u \div e) % 2
  BY <1>9 DEF DigitOf
<1> QED
  BY <1>7, <1>8, <1>10 DEF BitOf, e

\* The bitmap of four limbs has the positions they hold.
LEMMA FromLimbs ==
  ASSUME NEW x \in Word(4)
  PROVE  from_limbs(x) \in 0 .. Ones /\ Positions(from_limbs(x)) = InLimbs(x)
<1> DEFINE v == Val(x)
<1>1. from_limbs(x) = v
  BY ReadBack DEF from_limbs
<1>2. v \in 0 .. Ones
  <2>1. v \in Nat /\ v < Pow(Base, 4) /\ Ones \in Nat /\ Ones + 1 = Pow(Base, 4)
    BY 4 \in Nat, ValBounds, BitmapWidth
  <2> QED
    BY <2>1
<1>3. ASSUME NEW pos \in 0 .. Width - 1
      PROVE  (v \div Pow(2, pos)) % 2 = 1
               <=> (pos % LimbBits) \in Positions(x[pos \div LimbBits])
  <2> DEFINE l == pos \div LimbBits
             b == pos % LimbBits
  <2>1. l \in 0 .. 3 /\ b \in 0 .. LimbBits - 1 /\ pos = l * LimbBits + b
    BY PositionSplit
  <2> HIDE DEF l, b
  <2>2. BitOf(v, pos) = BitOf(x[l], b)
    BY <2>1, LimbBit
  <2>3. b \in 0 .. Width - 1
    <3>1. LimbBits \in Nat /\ Width = 4 * LimbBits
      BY BitmapWidth
    <3> QED
      BY <2>1, <3>1
  <2>4. b \in Positions(x[l]) <=> BitOf(x[l], b) = 1
    BY <2>3 DEF Positions, BitOf
  <2> QED
    BY <2>2, <2>4 DEF BitOf, l, b
<1> HIDE DEF v
<1>4. Positions(v) = InLimbs(x)
  BY <1>3 DEF Positions, InLimbs
<1> QED
  BY <1>1, <1>2, <1>4

\* A limb is a word of its own, and the operators keep it one.
LEMMA LimbsAsWords ==
  ASSUME NEW x \in 0 .. Base - 1, NEW y \in 0 .. Base - 1
  PROVE  /\ x \in 0 .. Ones /\ Positions(x) \subseteq 0 .. LimbBits - 1
         /\ Or(x, y) \in 0 .. Base - 1 /\ Xor(x, y) \in 0 .. Base - 1
<1>1. LimbBits \in 0 .. Width /\ Pow(2, LimbBits) = Base /\ Base \in Nat
  <2>1. LimbBits \in Nat /\ Width = 4 * LimbBits
    BY BitmapWidth
  <2> QED
    BY <2>1, WidthFacts
<1>2. x \in Nat /\ x < Pow(2, LimbBits) /\ y \in Nat /\ y < Pow(2, LimbBits)
  BY <1>1
<1>3. /\ x \in 0 .. Ones /\ Positions(x) \subseteq 0 .. LimbBits - 1
      /\ Positions(y) \subseteq 0 .. LimbBits - 1
  BY <1>1, <1>2, SmallWord
<1>4. Or(x, y) < Base /\ Xor(x, y) < Base
  BY <1>1, <1>3, SmallWord DEF Or, Xor
<1>5. Or(x, y) \in Nat /\ Xor(x, y) \in Nat
  BY BitwiseOperators, BitmapWidth
<1> QED
  BY <1>1, <1>3, <1>4, <1>5

\* Drawing a position adds it to those the limbs hold.
LEMMA DrawnInLimbs ==
  ASSUME NEW x \in Word(4), NEW pos \in 0 .. Width - 1
  PROVE  LET at == limb_of(pos)
             y == [x EXCEPT ![at.limb] = Or(@, at.mask)]
         IN  y \in Word(4) /\ InLimbs(y) = InLimbs(x) \cup {pos}
<1> DEFINE l == pos \div LimbBits
           b == pos % LimbBits
           mask == Pow(2, b)
           at == limb_of(pos)
           y == [x EXCEPT ![at.limb] = Or(@, at.mask)]
<1>1. l \in 0 .. 3 /\ b \in 0 .. LimbBits - 1 /\ pos = l * LimbBits + b
  BY PositionSplit
<1>2. at.limb = l /\ at.mask = mask
  BY DEF limb_of
<1>3. LimbBits \in Nat /\ Width = 4 * LimbBits /\ Base = Pow(2, LimbBits) /\ Base \in Nat
  BY BitmapWidth, WidthFacts
<1> HIDE DEF l, b, at
<1>4. Positions(mask) = {b} /\ mask \in 0 .. Base - 1
  <2>1. b \in 0 .. Width /\ b < Width /\ b \in Nat /\ LimbBits \in Nat
    BY <1>1, <1>3
  <2>2. Positions(mask) = {b}
    BY <2>1, MaskPositions
  <2>3. mask \in Nat /\ Pow(2, b + 1) = mask * 2 /\ Pow(2, b + 1) <= Base /\ mask # 0
    <3>1. b + 1 \in Nat /\ LimbBits >= b + 1
      BY <1>1, <1>3
    <3> QED
      BY <1>3, <2>1, <3>1, PowersOfTwo
  <2> HIDE DEF mask
  <2>4. mask \in 0 .. Base - 1
    BY <1>3, <2>3
  <2> QED
    BY <2>2, <2>4 DEF mask
<1> HIDE DEF mask
<1>5. x[l] \in 0 .. Base - 1
  BY <1>1 DEF Word
<1>6. Or(x[l], mask) \in 0 .. Base - 1 /\ Positions(Or(x[l], mask)) = Positions(x[l]) \cup {b}
  <2> DEFINE w == x[l]
  <2> HIDE DEF w
  <2>1. w \in 0 .. Base - 1
    BY <1>5 DEF w
  <2>2. Or(w, mask) \in 0 .. Base - 1
    BY <1>4, <2>1, LimbsAsWords
  <2> QED
    BY <1>4, <2>2, BitwiseOperators DEF w
<1>7. y = [x EXCEPT ![l] = Or(x[l], mask)]
  BY <1>2
<1>8. y \in Word(4)
  BY <1>1, <1>6, <1>7 DEF Word
<1>9. y[l] = Or(x[l], mask) /\ \A i \in 0 .. 3 : i # l => y[i] = x[i]
  BY <1>1, <1>7 DEF Word
<1> HIDE DEF y
<1>10. ASSUME NEW q \in 0 .. Width - 1
       PROVE  (q % LimbBits) \in Positions(y[q \div LimbBits])
                <=> (q % LimbBits) \in Positions(x[q \div LimbBits]) \/ q = pos
  <2> DEFINE k == q \div LimbBits
             c == q % LimbBits
  <2>1. k \in 0 .. 3 /\ c \in 0 .. LimbBits - 1 /\ q = k * LimbBits + c
    BY PositionSplit
  <2>2. q = pos => k = l /\ c = b
    BY DEF l, b
  <2> HIDE DEF k, c
  <2>3. k = l /\ c = b => q = pos
    BY <1>1, <2>1
  <2>4. CASE k = l
    BY <1>6, <1>9, <2>2, <2>3, <2>4 DEF k, c
  <2>5. CASE k # l
    BY <1>9, <2>1, <2>2, <2>5 DEF k, c
  <2> QED
    BY <2>4, <2>5
<1>11. InLimbs(y) = InLimbs(x) \cup {pos}
  BY <1>10 DEF InLimbs
<1> QED
  BY <1>8, <1>11 DEF y, at

\* The limbs of a full mask hold the positions below its count.
LEMMA FullMask ==
  ASSUME NEW n \in 1 .. Width
  PROVE  full_mask_limbs(n) \in Word(4) /\ InLimbs(full_mask_limbs(n)) = 0 .. n - 1
<1> DEFINE f == full_mask_limbs(n)
<1>1. LimbBits \in Nat \ {0} /\ Width = 4 * LimbBits /\ Base = Pow(2, LimbBits) /\ Base \in Nat
      /\ Base > 0
  BY BitmapWidth, WidthFacts
<1>2. ASSUME NEW i \in 0 .. 3
      PROVE  \E k \in 0 .. LimbBits :
               /\ f[i] = Pow(2, k) - 1
               /\ \A b \in 0 .. LimbBits - 1 : b < k <=> i * LimbBits + b < n
  <2> DEFINE low == i * LimbBits
  <2>1. f[i] = IF n >= low + LimbBits THEN Base - 1
               ELSE IF n > low THEN Pow(2, n - low) - 1 ELSE 0
    BY DEF full_mask_limbs
  <2>2. low \in Nat /\ n \in Nat
    BY <1>1
  <2> HIDE DEF low, f
  <2>3. CASE n >= low + LimbBits
    <3>1. f[i] = Pow(2, LimbBits) - 1 /\ LimbBits \in 0 .. LimbBits
      BY <1>1, <2>1, <2>3
    <3>2. \A b \in 0 .. LimbBits - 1 : b < LimbBits <=> low + b < n
      BY <1>1, <2>2, <2>3
    <3> QED
      BY <3>1, <3>2 DEF low
  <2>4. CASE ~(n >= low + LimbBits) /\ n > low
    <3>1. f[i] = Pow(2, n - low) - 1 /\ n - low \in 0 .. LimbBits
      BY <1>1, <2>1, <2>2, <2>4
    <3>2. \A b \in 0 .. LimbBits - 1 : b < n - low <=> low + b < n
      BY <1>1, <2>2, <2>4
    <3> QED
      BY <3>1, <3>2 DEF low
  <2>5. CASE ~(n >= low + LimbBits) /\ ~(n > low)
    <3>1. f[i] = Pow(2, 0) - 1 /\ 0 \in 0 .. LimbBits
      BY <1>1, <2>1, <2>5, 0 \in Nat, PowersOfTwo
    <3>2. \A b \in 0 .. LimbBits - 1 : b < 0 <=> low + b < n
      BY <1>1, <2>2, <2>5
    <3> QED
      BY <3>1, <3>2 DEF low
  <2> QED
    BY <2>3, <2>4, <2>5
<1>3. ASSUME NEW i \in 0 .. 3
      PROVE  /\ f[i] \in 0 .. Base - 1
             /\ \A b \in 0 .. LimbBits - 1 : b \in Positions(f[i]) <=> i * LimbBits + b < n
  <2> HIDE DEF f
  <2>1. PICK k \in 0 .. LimbBits :
          /\ f[i] = Pow(2, k) - 1
          /\ \A b \in 0 .. LimbBits - 1 : b < k <=> i * LimbBits + b < n
    BY <1>2
  <2>2. k \in 0 .. Width /\ k \in Nat /\ LimbBits >= k
    BY <1>1
  <2>3. Positions(f[i]) = 0 .. k - 1
    BY <2>1, <2>2, MaskPositions
  <2>4. f[i] \in 0 .. Base - 1
    <3>1. Pow(2, k) \in Nat \ {0} /\ Pow(2, k) <= Base
      BY <1>1, <2>2, PowersOfTwo
    <3> QED
      BY <1>1, <2>1, <3>1
  <2> QED
    BY <2>1, <2>2, <2>3, <2>4
<1>4. f \in Word(4)
  <2>1. f = [i \in 0 .. 3 |-> f[i]]
    BY DEF full_mask_limbs
  <2> HIDE DEF f
  <2> QED
    BY <1>3, <2>1 DEF Word
<1> HIDE DEF f
<1>5. ASSUME NEW pos \in 0 .. Width - 1
      PROVE  (pos % LimbBits) \in Positions(f[pos \div LimbBits]) <=> pos < n
  BY <1>3, PositionSplit
<1>6. InLimbs(f) = 0 .. n - 1
  <2>1. Width \in Nat /\ n \in Nat /\ n <= Width
    BY BitmapWidth
  <2> QED
    BY <1>5, <2>1 DEF InLimbs
<1> QED
  BY <1>4, <1>6 DEF f

\* The limbs of an exclusive or hold the positions that one operand holds.
LEMMA XorInLimbs ==
  ASSUME NEW x \in Word(4), NEW y \in Word(4)
  PROVE  /\ [i \in 0 .. 3 |-> Xor(x[i], y[i])] \in Word(4)
         /\ InLimbs([i \in 0 .. 3 |-> Xor(x[i], y[i])])
              = (InLimbs(x) \ InLimbs(y)) \cup (InLimbs(y) \ InLimbs(x))
<1> DEFINE z == [i \in 0 .. 3 |-> Xor(x[i], y[i])]
<1>1. ASSUME NEW i \in 0 .. 3
      PROVE  /\ z[i] \in 0 .. Base - 1
             /\ Positions(z[i])
                  = (Positions(x[i]) \ Positions(y[i])) \cup (Positions(y[i]) \ Positions(x[i]))
  <2>1. x[i] \in 0 .. Base - 1 /\ y[i] \in 0 .. Base - 1
    BY DEF Word
  <2> QED
    BY <2>1, LimbsAsWords, BitwiseOperators
<1>2. z \in Word(4)
  BY <1>1 DEF Word
<1> HIDE DEF z
<1>3. InLimbs(z) = (InLimbs(x) \ InLimbs(y)) \cup (InLimbs(y) \ InLimbs(x))
  BY <1>1, PositionSplit DEF InLimbs
<1> QED
  BY <1>2, <1>3 DEF z

\* A word less its lowest bit.
Cleared(v) == IF v = 0 THEN 0 ELSE clear_bit(v, trailing_zeros(v))

\* Clearing the lowest bit takes the least position away.
LEMMA LowestCleared ==
  ASSUME NEW v \in 0 .. Ones
  PROVE  /\ Cleared(v) \in 0 .. Ones
         /\ v # 0 => /\ trailing_zeros(v) \in Positions(v)
                     /\ \A pos \in Positions(v) : trailing_zeros(v) <= pos
                     /\ Positions(Cleared(v)) = Positions(v) \ {trailing_zeros(v)}
<1> DEFINE t == trailing_zeros(v)
<1>1. Width \in Nat /\ Positions(v) \in SUBSET Nat /\ Positions(v) \subseteq 0 .. Width - 1
  BY BitmapWidth DEF Positions
<1>2. CASE v = 0
  BY <1>2, EmptyWord DEF Cleared
<1>3. CASE v # 0
  <2>1. PICK least \in Positions(v) : \A other \in Positions(v) : least <= other
    BY <1>1, <1>3, EmptyWord, LeastNumber
  <2>2. t \in Positions(v) /\ \A pos \in Positions(v) : t <= pos
    BY <2>1 DEF trailing_zeros, Min
  <2> HIDE DEF t
  <2>3. t \in 0 .. Width /\ t < Width
    BY <1>1, <2>2
  <2>4. Pow(2, t) \in 0 .. Ones /\ Positions(Pow(2, t)) = {t}
    BY <2>3, MaskPositions
  <2>5. Positions(Complement(Pow(2, t))) = (0 .. Width - 1) \ {t}
    BY <2>4, ComplementPositions
  <2>6. clear_bit(v, t) \in 0 .. Ones /\ Positions(clear_bit(v, t)) = Positions(v) \ {t}
    BY <1>1, <2>5, BitwiseOperators DEF clear_bit
  <2> QED
    BY <1>3, <2>2, <2>6 DEF Cleared, t
<1> QED
  BY <1>2, <1>3

\* Peeling as its recursion defines it.
LEMMA PeelEquations ==
  ASSUME NEW bm \in 0 .. Ones, NEW n \in Nat
  PROVE  /\ Peel(bm, 0) = bm
         /\ Peel(bm, n) \in 0 .. Ones
         /\ Peel(bm, n + 1) = Cleared(Peel(bm, n))
<1> DEFINE S == 0 .. Ones
           top == n + 1
           step == [i \in 1 .. top |-> [v \in S |-> Cleared(v)]]
           Solves(f, m) ==
             f = [i \in 0 .. m |->
                    IF i = 0 THEN bm
                    ELSE IF f[i - 1] = 0 THEN 0
                    ELSE clear_bit(f[i - 1], trailing_zeros(f[i - 1]))]
           chosen(m) == CHOOSE f : Solves(f, m)
<1>1. ASSUME NEW v \in S PROVE Cleared(v) \in S
  BY LowestCleared
<1>2. bm \in S
  OBVIOUS
<1> HIDE DEF S
<1>3. top \in Nat /\ step \in [1 .. top -> [S -> S]]
  BY <1>1
<1>4. \A i \in 1 .. top : \A v \in S : step[i][v] = Cleared(v)
  OBVIOUS
<1> HIDE DEF step
<1>5. PICK f \in [0 .. top -> S] : Recursion(f, top, bm, step)
  <2> HIDE DEF top
  <2> QED
    BY <1>2, <1>3, RecursionExists
<1>6. \A i \in 1 .. top : f[i] = Cleared(f[i - 1])
  <2> SUFFICES ASSUME NEW i \in 1 .. top PROVE f[i] = Cleared(f[i - 1])
    OBVIOUS
  <2>1. f[i - 1] \in S
    BY <1>5
  <2>2. f[i] = step[i][f[i - 1]]
    BY <1>5 DEF Recursion
  <2> QED
    BY <1>4, <2>1, <2>2
<1>7. f[0] = bm
  BY <1>5 DEF Recursion
<1>8. ASSUME NEW m \in 0 .. top PROVE Peel(bm, m) = f[m]
  <2>1. Solves([i \in 0 .. m |-> f[i]], m)
    BY <1>6, <1>7 DEF Cleared
  <2>2. Solves(chosen(m), m)
    BY <2>1
  <2> DEFINE g == chosen(m)
  <2>3. Peel(bm, m) = g[m]
    BY DEF Peel
  <2>4. g = [i \in 0 .. m |->
               IF i = 0 THEN bm
               ELSE IF g[i - 1] = 0 THEN 0
               ELSE clear_bit(g[i - 1], trailing_zeros(g[i - 1]))]
    BY <2>2
  <2> HIDE DEF g
  <2>5. g[0] = f[0]
    BY <1>7, <2>4
  <2>6. ASSUME NEW j \in 0 .. m - 1, g[j] = f[j] PROVE g[j + 1] = f[j + 1]
    <3>1. j + 1 \in 0 .. m /\ j + 1 \in 1 .. top /\ (j + 1) - 1 = j /\ j + 1 # 0
      BY <1>8
    <3>2. g[j + 1] = Cleared(g[j])
      BY <2>4, <3>1 DEF Cleared
    <3>3. f[j + 1] = Cleared(f[j])
      BY <1>6, <3>1
    <3> QED
      BY <2>6, <3>2, <3>3
  <2>7. \A j \in 0 .. m : g[j] = f[j]
    BY <2>5, <2>6, m \in Nat, Agreement
  <2> QED
    BY <2>3, <2>7
<1> QED
  BY <1>5, <1>6, <1>7, <1>8 DEF S

(***************************************************************************)
(* The inductive invariant of Bitmap: the limbs or the word hold what was  *)
(* meant, and a peeled bitmap is the word less the bits visited, which lie *)
(* in order below what is left.                                            *)
(***************************************************************************)
BitmapTypes ==
  /\ count \in 1 .. Width
  /\ mode \in {"draw", "mark", "peel"}
  /\ limbs \in Word(4) /\ word \in 0 .. Ones /\ left \in 0 .. Ones
  /\ members \subseteq 0 .. count - 1
  /\ visited \in Seq(0 .. Width - 1)

Held ==
  /\ mode = "draw" => InLimbs(limbs) = members
  /\ mode # "draw" => Positions(word) = members
  /\ mode # "peel" => visited = <<>>

Peeling ==
  mode = "peel" =>
    /\ left = Peel(word, Len(visited))
    /\ popcount(word) = Len(visited) + popcount(left)
    /\ \A k \in 1 .. Len(visited) :
         /\ Peel(word, k - 1) # 0 /\ visited[k] = trailing_zeros(Peel(word, k - 1))
         /\ \A pos \in Positions(left) : visited[k] < pos
    /\ \A k \in 2 .. Len(visited) : visited[k - 1] < visited[k]

BitmapInv == BitmapTypes /\ Held /\ Peeling

\* The invariant holds initially.
LEMMA InitBitmapInv == BitmapInit => BitmapInv
<1> SUFFICES ASSUME BitmapInit PROVE BitmapInv
  OBVIOUS
<1>1. limbs \in Word(4) /\ InLimbs(limbs) = {}
  <2>1. Base \in Nat /\ Base >= 2
    BY WidthFacts
  <2>2. limbs \in Word(4)
    BY <2>1 DEF BitmapInit, Word
  <2>3. \A i \in 0 .. 3 : Positions(limbs[i]) = {}
    BY EmptyWord DEF BitmapInit
  <2> QED
    BY <2>2, <2>3, PositionSplit DEF InLimbs
<1>2. visited = <<>> /\ visited \in Seq(0 .. Width - 1)
  BY DEF BitmapInit
<1>3. BitmapTypes
  BY <1>1, <1>2, EmptyWord DEF BitmapInit, BitmapTypes
<1>4. Held
  BY <1>1, <1>2, EmptyWord DEF BitmapInit, Held
<1>5. Peeling
  BY DEF BitmapInit, Peeling
<1> QED
  BY <1>3, <1>4, <1>5 DEF BitmapInv

\* Drawing a position keeps the invariant.
LEMMA KeepsDraw ==
  ASSUME BitmapInv, NEW pos \in 0 .. count - 1, Draw(pos)
  PROVE  BitmapInv'
<1>1. /\ mode = "draw" /\ members' = members \cup {pos}
      /\ UNCHANGED <<count, mode, word, left, visited>>
      /\ limbs' = [limbs EXCEPT ![limb_of(pos).limb] = Or(@, limb_of(pos).mask)]
  BY DEF Draw
<1>2. limbs \in Word(4) /\ pos \in 0 .. Width - 1 /\ InLimbs(limbs) = members
  BY <1>1, BitmapWidth DEF BitmapInv, BitmapTypes, Held
<1>3. limbs' \in Word(4) /\ InLimbs(limbs') = members'
  BY <1>1, <1>2, DrawnInLimbs
<1>4. BitmapTypes'
  BY <1>1, <1>3 DEF BitmapInv, BitmapTypes
<1>5. Held'
  BY <1>1, <1>3 DEF BitmapInv, Held
<1>6. Peeling'
  BY <1>1 DEF Peeling
<1> QED
  BY <1>4, <1>5, <1>6 DEF BitmapInv

\* Setting a bit keeps the invariant.
LEMMA KeepsSetBit ==
  ASSUME BitmapInv, NEW pos \in 0 .. count - 1, SetBit(pos)
  PROVE  BitmapInv'
<1>1. /\ mode = "mark" /\ members' = members \cup {pos} /\ word' = Or(word, Pow(2, pos))
      /\ UNCHANGED <<count, mode, limbs, left, visited>>
  BY DEF SetBit
<1>2. pos \in 0 .. Width /\ pos < Width /\ Positions(word) = members
  BY <1>1, BitmapWidth DEF BitmapInv, BitmapTypes, Held
<1>3. Positions(Pow(2, pos)) = {pos}
  BY <1>2, MaskPositions
<1>4. word' \in 0 .. Ones /\ Positions(word') = members'
  BY <1>1, <1>2, <1>3, BitwiseOperators
<1>5. BitmapTypes'
  BY <1>1, <1>4 DEF BitmapInv, BitmapTypes
<1>6. Held'
  BY <1>1, <1>4 DEF BitmapInv, Held
<1>7. Peeling'
  BY <1>1 DEF Peeling
<1> QED
  BY <1>5, <1>6, <1>7 DEF BitmapInv

\* A bitmap handed to the loop, nothing of it visited, keeps the invariant.
LEMMA KeepsUse ==
  ASSUME BitmapInv, NEW bm \in 0 .. Ones, Use(bm), mode # "peel", Positions(bm) = members',
         members' \subseteq 0 .. count - 1, UNCHANGED <<count, limbs, visited>>
  PROVE  BitmapInv'
<1>1. word' = bm /\ left' = bm /\ mode' = "peel" /\ visited' = <<>> /\ Len(<<>>) = 0
  BY DEF Use, BitmapInv, Held
<1>2. Peel(bm, 0) = bm
  BY 0 \in Nat, PeelEquations
<1>3. popcount(bm) \in Nat
  <2>1. Positions(bm) \subseteq 0 .. Width - 1 /\ Width \in Int
    BY BitmapWidth DEF Positions
  <2>2. IsFiniteSet(Positions(bm))
    <3>1. IsFiniteSet(0 .. Width - 1)
      BY <2>1, 0 \in Int, Width - 1 \in Int, FS_Interval
    <3> QED
      BY <2>1, <3>1, FS_Subset
  <2> QED
    BY <2>2, FS_CardinalityType DEF popcount
<1>4. BitmapTypes'
  BY <1>1 DEF BitmapInv, BitmapTypes
<1>5. Held'
  BY <1>1 DEF Held
<1>6. Peeling'
  BY <1>1, <1>2, <1>3 DEF Peeling
<1> QED
  BY <1>4, <1>5, <1>6 DEF BitmapInv

\* What derive_group_bitmap returns keeps the invariant.
LEMMA KeepsReturn ==
  ASSUME BitmapInv, ReturnDrawn \/ ReturnComplement \/ StartPeel
  PROVE  BitmapInv'
<1>1. /\ BitmapTypes /\ Held
      /\ limbs \in Word(4) /\ members \subseteq 0 .. count - 1 /\ word \in 0 .. Ones
      /\ count \in 1 .. Width
  BY DEF BitmapInv, BitmapTypes
<1>2. CASE ReturnDrawn
  <2>1. mode = "draw" /\ InLimbs(limbs) = members /\ Use(from_limbs(limbs))
        /\ UNCHANGED <<count, limbs, members, visited>>
    BY <1>1, <1>2 DEF ReturnDrawn, Held
  <2>2. from_limbs(limbs) \in 0 .. Ones /\ Positions(from_limbs(limbs)) = members'
    BY <1>1, <2>1, FromLimbs
  <2> QED
    BY <1>1, <2>1, <2>2, KeepsUse
<1>3. CASE ReturnComplement
  <2> DEFINE full == full_mask_limbs(count)
             x == [i \in 0 .. 3 |-> Xor(full[i], limbs[i])]
  <2>1. mode = "draw" /\ InLimbs(limbs) = members /\ Use(from_limbs(x))
        /\ members' = (0 .. count - 1) \ members
        /\ UNCHANGED <<count, limbs, visited>>
    BY <1>1, <1>3 DEF ReturnComplement, Held
  <2>2. full \in Word(4) /\ InLimbs(full) = 0 .. count - 1
    BY <1>1, FullMask
  <2> HIDE DEF full
  <2>3. x \in Word(4) /\ InLimbs(x) = members'
    <3>1. /\ x \in Word(4)
          /\ InLimbs(x) = (InLimbs(full) \ InLimbs(limbs)) \cup (InLimbs(limbs) \ InLimbs(full))
      BY <1>1, <2>2, XorInLimbs
    <3> HIDE DEF x
    <3> QED
      BY <1>1, <2>1, <2>2, <3>1
  <2> HIDE DEF x
  <2>4. from_limbs(x) \in 0 .. Ones /\ Positions(from_limbs(x)) = members'
    BY <2>3, FromLimbs
  <2> QED
    BY <1>1, <2>1, <2>4, KeepsUse
<1>4. CASE StartPeel
  <2>1. mode = "mark" /\ Positions(word) = members /\ Use(word)
        /\ UNCHANGED <<count, limbs, members, visited>>
    BY <1>1, <1>4 DEF StartPeel, Held
  <2> QED
    BY <1>1, <2>1, KeepsUse
<1> QED
  BY <1>2, <1>3, <1>4

\* Visiting the lowest bit keeps the invariant.
LEMMA KeepsVisit ==
  ASSUME BitmapInv, Visit
  PROVE  BitmapInv'
<1> DEFINE t == trailing_zeros(left)
           n == Len(visited)
<1>1. /\ BitmapTypes /\ Held /\ Peeling /\ mode = "peel" /\ left # 0
      /\ left' = clear_bit(left, t) /\ visited' = Append(visited, t)
      /\ UNCHANGED <<count, mode, limbs, word, members>>
  BY DEF BitmapInv, Visit
<1>2. left \in 0 .. Ones /\ word \in 0 .. Ones /\ visited \in Seq(0 .. Width - 1) /\ n \in Nat
  BY <1>1 DEF BitmapTypes
<1>3. left' = Cleared(left)
  BY <1>1 DEF Cleared
<1>4. /\ left' \in 0 .. Ones
      /\ t \in Positions(left) /\ \A pos \in Positions(left) : t <= pos
      /\ Positions(left') = Positions(left) \ {t}
  BY <1>1, <1>2, <1>3, LowestCleared
<1>5. Positions(left) \subseteq 0 .. Width - 1 /\ Width \in Nat
  BY BitmapWidth DEF Positions
<1> HIDE DEF t, n
<1>6. /\ visited' \in Seq(0 .. Width - 1) /\ Len(visited') = n + 1 /\ visited'[n + 1] = t
      /\ \A k \in 1 .. n : visited'[k] = visited[k]
  BY <1>1, <1>2, <1>4, <1>5 DEF n
<1>7. /\ left = Peel(word, n) /\ popcount(word) = n + popcount(left)
      /\ \A k \in 1 .. n :
           /\ Peel(word, k - 1) # 0 /\ visited[k] = trailing_zeros(Peel(word, k - 1))
           /\ \A pos \in Positions(left) : visited[k] < pos
      /\ \A k \in 2 .. n : visited[k - 1] < visited[k]
  BY <1>1 DEF Peeling, n
<1>8. left' = Peel(word, n + 1)
  BY <1>2, <1>3, <1>7, PeelEquations
<1>9. popcount(word) = (n + 1) + popcount(left')
  <2>1. IsFiniteSet(Positions(left))
    <3>1. IsFiniteSet(0 .. Width - 1)
      BY <1>5, 0 \in Int, Width - 1 \in Int, FS_Interval
    <3> QED
      BY <1>5, <3>1, FS_Subset
  <2>2. Cardinality(Positions(left) \ {t}) = Cardinality(Positions(left)) - 1
        /\ Cardinality(Positions(left)) \in Nat
    BY <1>4, <2>1, FS_RemoveElement, FS_CardinalityType
  <2>3. popcount(left') = popcount(left) - 1 /\ popcount(left) \in Nat
    BY <1>4, <2>2 DEF popcount
  <2> QED
    BY <1>2, <1>7, <2>3
<1>10. ASSUME NEW k \in 1 .. n + 1
       PROVE  /\ Peel(word, k - 1) # 0 /\ visited'[k] = trailing_zeros(Peel(word, k - 1))
              /\ \A pos \in Positions(left') : visited'[k] < pos
  <2>1. CASE k \in 1 .. n
    BY <1>4, <1>6, <1>7, <2>1
  <2>2. CASE k = n + 1
    <3>1. k - 1 = n
      BY <1>2, <2>2
    <3>2. Peel(word, k - 1) # 0 /\ visited'[k] = trailing_zeros(Peel(word, k - 1))
      BY <1>1, <1>6, <1>7, <2>2, <3>1 DEF t
    <3>3. ASSUME NEW pos \in Positions(left') PROVE t < pos
      BY <1>4, <1>5
    <3> QED
      BY <1>6, <2>2, <3>2, <3>3
  <2> QED
    BY <1>2, <2>1, <2>2
<1>11. ASSUME NEW k \in 2 .. n + 1 PROVE visited'[k - 1] < visited'[k]
  <2>1. k - 1 \in 1 .. n
    BY <1>2
  <2>2. CASE k \in 2 .. n
    BY <1>2, <1>6, <1>7, <2>1, <2>2
  <2>3. CASE k = n + 1
    BY <1>4, <1>6, <1>7, <2>1, <2>3
  <2> QED
    BY <1>2, <2>2, <2>3
<1>12. BitmapTypes'
  BY <1>1, <1>4, <1>6 DEF BitmapTypes
<1>13. Held'
  BY <1>1 DEF Held
<1>14. Peeling'
  BY <1>1, <1>6, <1>8, <1>9, <1>10, <1>11 DEF Peeling
<1> QED
  BY <1>12, <1>13, <1>14 DEF BitmapInv

\* Every step keeps the invariant.
LEMMA NextBitmapInv == BitmapInv /\ [BitmapNext]_bitmapVars => BitmapInv'
<1>1. ASSUME BitmapInv, UNCHANGED bitmapVars PROVE BitmapInv'
  BY <1>1 DEF BitmapInv, BitmapTypes, Held, Peeling, bitmapVars
<1> QED
  BY <1>1, KeepsDraw, KeepsSetBit, KeepsReturn, KeepsVisit DEF BitmapNext, Peeled

\* The range check accepts a word for exactly the bounds that cover it.
LEMMA RangeChecked ==
  ASSUME NEW bm \in 0 .. Ones, NEW n \in 0 .. Width
  PROVE  validate_upper_bits_clear(bm, n) <=> Positions(bm) \subseteq 0 .. n - 1
<1> DEFINE mask == Pow(2, n) - 1
<1>1. Width \in Nat /\ n <= Width
  BY BitmapWidth
<1>2. validate_upper_bits_clear(bm, n) <=> is_subset(bm, mask)
  BY <1>1 DEF validate_upper_bits_clear, Ones
<1>3. mask \in 0 .. Ones /\ Positions(mask) = 0 .. n - 1
  BY MaskPositions
<1> HIDE DEF mask
<1>4. Positions(Complement(mask)) = (0 .. Width - 1) \ (0 .. n - 1)
  BY <1>3, ComplementPositions
<1>5. And(bm, Complement(mask)) = 0 <=> Positions(bm) \cap Positions(Complement(mask)) = {}
  BY BitwiseOperators, EmptyWord
<1>6. Positions(bm) \subseteq 0 .. Width - 1
  BY DEF Positions
<1> QED
  BY <1>2, <1>4, <1>5, <1>6 DEF is_subset

\* The invariant says that words are the sets they are taken for.
LEMMA InvWordsAreSets == BitmapInv => WordsAreSets
<1> SUFFICES ASSUME BitmapInv, mode = "peel"
             PROVE  /\ Positions(word) = members
                    /\ popcount(word) = Len(visited) + popcount(left)
                    /\ \A n \in 0 .. Width + 1 :
                         validate_upper_bits_clear(word, n) <=>
                           n <= Width /\ members \subseteq 0 .. n - 1
                    /\ \A k \in 1 .. Len(visited) : nth_set_bit(word, k - 1) = visited[k]
                    /\ \A k \in 2 .. Len(visited) : visited[k - 1] < visited[k]
                    /\ left = 0 => nth_set_bit(word, Len(visited)) = Width
  BY DEF WordsAreSets
<1>1. /\ word \in 0 .. Ones /\ Positions(word) = members
      /\ left = Peel(word, Len(visited))
      /\ popcount(word) = Len(visited) + popcount(left)
      /\ \A k \in 1 .. Len(visited) :
           Peel(word, k - 1) # 0 /\ visited[k] = trailing_zeros(Peel(word, k - 1))
      /\ \A k \in 2 .. Len(visited) : visited[k - 1] < visited[k]
  BY DEF BitmapInv, BitmapTypes, Held, Peeling
<1>2. ASSUME NEW n \in 0 .. Width + 1
      PROVE  validate_upper_bits_clear(word, n) <=> n <= Width /\ members \subseteq 0 .. n - 1
  <2>1. CASE n \in 0 .. Width
    BY <1>1, <2>1, RangeChecked, BitmapWidth
  <2>2. CASE n = Width + 1
    <3>1. ~(n <= Width)
      BY <2>2, BitmapWidth
    <3> QED
      BY <3>1 DEF validate_upper_bits_clear
  <2> QED
    BY <2>1, <2>2, BitmapWidth
<1> QED
  BY <1>1, <1>2 DEF nth_set_bit

(***************************************************************************)
(* A bitmap drawn into limbs, complemented or set bit by bit is the set of *)
(* the positions meant, is accepted by the range check for the node counts *)
(* that cover them, and is visited in the order nth_set_bit ranks its bits *)
(* in, at every width of a limb.                                           *)
(***************************************************************************)
THEOREM BitmapsAreSets == BitmapSpec => []WordsAreSets
  BY InitBitmapInv, NextBitmapInv, InvWordsAreSets, PTL DEF BitmapSpec
=============================================================================
