--------------------------- MODULE RecoveryProofs ---------------------------
(***************************************************************************)
(* The three checks made through ECDSA recovery are the equations they     *)
(* stand for, over every curve of prime order that CurveAssumption admits. *)
(* Numbers are compared modulo the order of the group.                     *)
(***************************************************************************)
EXTENDS Recovery, WellFoundedInduction, TLAPS

\* a and b are the same scalar.
Same(a, b) == \E k \in Int : a = b + k * N

-----------------------------------------------------------------------------
\* The order is a number above 1.
LEMMA OrderFacts == N \in Nat /\ N > 1 /\ N \in Nat \ {0, 1}
BY OrdersAssumption, PrimeAssumption

(***************************************************************************)
(* Being the same scalar is a congruence, decided by the remainder.        *)
(***************************************************************************)
LEMMA RemainderSame ==
  ASSUME NEW a \in Int
  PROVE  a % N \in 0 .. N - 1 /\ Same(a % N, a) /\ Same(a, a % N)
<1>1. N \in Nat \ {0}
  BY OrderFacts
<1>2. a = N * (a \div N) + (a % N) /\ a % N \in 0 .. N - 1 /\ a \div N \in Int
  BY <1>1
<1>3. a = (a % N) + (a \div N) * N
  BY <1>1, <1>2
<1>4. (a % N) = a + (-(a \div N)) * N /\ -(a \div N) \in Int
  BY <1>1, <1>2
<1>5. Same(a, a % N)
  BY <1>2, <1>3 DEF Same
<1>6. Same(a % N, a)
  BY <1>4 DEF Same
<1> QED
  BY <1>2, <1>5, <1>6

\* Scalars in their canonical range are the same only if they are equal.
LEMMA SmallSame ==
  ASSUME NEW a \in 0 .. N - 1, NEW b \in 0 .. N - 1, Same(a, b)
  PROVE  a = b
<1>1. N \in Nat \ {0}
  BY OrderFacts
<1>2. PICK k \in Int : a = b + k * N
  BY DEF Same
<1>3. CASE k >= 1
  <2>1. k * N >= N
    BY <1>1, <1>3
  <2> QED
    BY <1>1, <1>2, <2>1
<1>4. CASE k <= -1
  <2>1. k * N <= -N
    BY <1>1, <1>4
  <2> QED
    BY <1>1, <1>2, <2>1
<1> QED
  BY <1>1, <1>2, <1>3, <1>4

\* The relation is an equivalence.
LEMMA SameOrder ==
  ASSUME NEW a \in Int, NEW b \in Int, NEW c \in Int
  PROVE  /\ Same(a, a)
         /\ Same(a, b) => Same(b, a)
         /\ Same(a, b) /\ Same(b, c) => Same(a, c)
<1>1. N \in Nat \ {0}
  BY OrderFacts
<1>2. Same(a, a)
  <2>1. a = a + 0 * N
    BY <1>1
  <2> QED
    BY <2>1 DEF Same
<1>3. ASSUME Same(a, b) PROVE Same(b, a)
  <2>1. PICK k \in Int : a = b + k * N
    BY <1>3 DEF Same
  <2>2. b = a + (-k) * N /\ -k \in Int
    BY <1>1, <2>1
  <2> QED
    BY <2>2 DEF Same
<1>4. ASSUME Same(a, b), Same(b, c) PROVE Same(a, c)
  <2>1. PICK k \in Int, l \in Int : a = b + k * N /\ b = c + l * N
    BY <1>4 DEF Same
  <2>2. a = c + (k + l) * N /\ k + l \in Int
    BY <1>1, <2>1
  <2> QED
    BY <2>2 DEF Same
<1> QED
  BY <1>2, <1>3, <1>4

\* Transitivity on its own, which the provers apply more easily.
LEMMA SameTransitive ==
  ASSUME NEW a \in Int, NEW b \in Int, NEW c \in Int, Same(a, b), Same(b, c)
  PROVE  Same(a, c)
BY SameOrder

\* Sums and differences respect it.
LEMMA SameSum ==
  ASSUME NEW a \in Int, NEW b \in Int, NEW c \in Int, Same(a, b)
  PROVE  Same(a + c, b + c) /\ Same(c + a, c + b) /\ Same(a - c, b - c) /\ Same(c - a, c - b)
<1>1. N \in Nat \ {0}
  BY OrderFacts
<1>2. PICK k \in Int : a = b + k * N
  BY DEF Same
<1>3. a + c = (b + c) + k * N /\ a - c = (b - c) + k * N /\ c + a = (c + b) + k * N
  BY <1>1, <1>2
<1>4. c - a = (c - b) + (-k) * N /\ -k \in Int
  BY <1>1, <1>2
<1> QED
  BY <1>3, <1>4 DEF Same

\* So do products.
LEMMA SameProduct ==
  ASSUME NEW a \in Int, NEW b \in Int, NEW c \in Int, Same(a, b)
  PROVE  Same(c * a, c * b) /\ Same(a * c, b * c)
<1>1. N \in Nat \ {0}
  BY OrderFacts
<1>2. PICK k \in Int : a = b + k * N
  BY DEF Same
<1>3. c * a = c * b + (c * k) * N /\ c * k \in Int
  BY <1>1, <1>2
<1>4. a * c = b * c + (c * k) * N
  BY <1>1, <1>2
<1> QED
  BY <1>3, <1>4 DEF Same

\* Equal remainders mean the same scalar.
LEMMA SameRemainder ==
  ASSUME NEW a \in Int, NEW b \in Int
  PROVE  a % N = b % N <=> Same(a, b)
<1>1. /\ a % N \in 0 .. N - 1 /\ Same(a % N, a) /\ Same(a, a % N)
      /\ b % N \in 0 .. N - 1 /\ Same(b % N, b) /\ Same(b, b % N)
  BY RemainderSame
<1>2. a % N \in Int /\ b % N \in Int
  BY <1>1, OrderFacts
<1>3. ASSUME a % N = b % N PROVE Same(a, b)
  BY <1>1, <1>2, <1>3, SameOrder
<1>4. ASSUME Same(a, b) PROVE a % N = b % N
  <2>1. Same(a % N, b)
    BY <1>1, <1>2, <1>4, SameOrder
  <2>2. Same(a % N, b % N)
    BY <1>1, <1>2, <2>1, SameOrder
  <2> QED
    BY <1>1, <2>2, SmallSame
<1> QED
  BY <1>3, <1>4

-----------------------------------------------------------------------------
\* A non-empty set of numbers has a least one.
LEMMA LeastNumber ==
  ASSUME NEW set \in SUBSET Nat, set # {}
  PROVE  \E least \in set : \A other \in set : least <= other
<1> DEFINE Smaller == {pair \in Nat \X Nat : pair[1] < pair[2]}
<1>1. OpToRel(<, Nat) = Smaller
  BY Zenon DEF OpToRel
<1>2. IsWellFoundedOn(Smaller, Nat)
  BY <1>1, NatLessThanWellFounded
<1>3. PICK least \in set : \A other \in set : <<other, least>> \notin Smaller
  BY <1>2, WFMin
<1>4. ASSUME NEW other \in set PROVE least <= other
  <2>1. ~ (other < least)
    BY <1>3
  <2> QED
    BY <2>1, least \in Nat, other \in Nat
<1> QED
  BY <1>4

(***************************************************************************)
(* Inverses.  The least number that is the same scalar as a multiple of a  *)
(* divides both the order and a; the order is prime, so it is 1.           *)
(***************************************************************************)
LEMMA InverseExists ==
  ASSUME NEW a \in Elements
  PROVE  InverseOf(a) \in Elements /\ Same(InverseOf(a) * a, 1)
<1> DEFINE Multiples == {d \in 1 .. N : \E i \in Int : Same(d, i * a)}
<1>1. N \in Nat /\ N > 1 /\ a \in 1 .. N - 1 /\ a \in Int
  BY OrderFacts DEF Elements
<1>2. N \in Multiples
  <2>1. N = 0 * a + 1 * N /\ 1 \in Int
    BY <1>1
  <2>2. \E k \in Int : N = 0 * a + k * N
    BY <2>1, Zenon
  <2>3. Same(N, 0 * a)
    BY <2>2 DEF Same
  <2> QED
    BY <1>1, <2>3
<1>3. PICK d \in Multiples : \A other \in Multiples : d <= other
  <2>1. Multiples \in SUBSET Nat
    BY <1>1
  <2> QED
    BY <1>2, <2>1, LeastNumber
<1>4. PICK i \in Int : Same(d, i * a)
  BY <1>3
<1>5. d \in 1 .. N
  BY <1>3
<1>6. ASSUME NEW v \in 1 .. N, NEW j \in Int, Same(v, j * a) PROVE v % d = 0
  <2>1. v = d * (v \div d) + (v % d) /\ v % d \in 0 .. d - 1 /\ v \div d \in Int
    BY <1>1, <1>5
  <2> DEFINE q == v \div d
             rest == v % d
  <2>2. q \in Int /\ rest \in 0 .. d - 1 /\ rest = v - d * q /\ v \in Int /\ d \in Int
    <3>1. d * (v \div d) \in Int
      BY <1>5, <2>1
    <3> QED
      BY <1>1, <1>5, <2>1, <3>1
  <2> HIDE DEF q, rest
  <2>3. j * a \in Int /\ i * a \in Int /\ d * q \in Int /\ (i * a) * q \in Int
    BY <1>1, <2>2
  <2>4. Same(v - d * q, j * a - d * q)
    BY <1>6, <2>2, <2>3, SameSum
  <2>5. Same(d * q, (i * a) * q)
    BY <1>4, <2>2, <2>3, d \in Int, SameProduct
  <2>6. Same(j * a - d * q, j * a - (i * a) * q)
    BY <2>5, <2>3, SameSum
  <2>7. Same(rest, j * a - (i * a) * q)
    <3>1. v - d * q \in Int /\ j * a - d * q \in Int /\ j * a - (i * a) * q \in Int
      BY <2>2, <2>3
    <3>2. Same(v - d * q, j * a - (i * a) * q)
      BY <2>4, <2>6, <3>1, SameOrder
    <3> QED
      BY <2>2, <3>2
  <2>8. j * a - (i * a) * q = (j - i * q) * a /\ j - i * q \in Int
    BY <1>1, <2>2
  <2>9. rest = 0
    <3> SUFFICES ASSUME rest # 0 PROVE FALSE
      OBVIOUS
    <3>1. rest \in 1 .. N /\ rest < d
      BY <1>1, <1>5, <2>2
    <3>2. rest \in Multiples
      BY <2>7, <2>8, <3>1
    <3> QED
      BY <1>3, <1>5, <3>1, <3>2
  <2> QED
    BY <2>9 DEF rest
<1>7. N % d = 0
  BY <1>1, <1>2, <1>6
<1>8. a % d = 0
  <2>1. Same(a, 1 * a)
    BY <1>1, SameOrder
  <2> QED
    BY <1>1, <1>6, <2>1
<1>9. d = 1
  <2>1. d # N
    <3>1. a % N = a
      BY <1>1
    <3> QED
      BY <1>1, <1>8, <3>1
  <2>2. d \notin 2 .. N - 1
    BY <1>7, PrimeAssumption
  <2> QED
    BY <1>1, <1>5, <2>1, <2>2
<1>10. i % N \in 0 .. N - 1 /\ Same(i % N, i) /\ i % N \in Int
  BY <1>1, RemainderSame
<1>11. Same((i % N) * a, 1)
  <2>1. Same((i % N) * a, i * a)
    BY <1>1, <1>10, SameProduct
  <2>2. Same(i * a, 1)
    BY <1>1, <1>4, <1>9, SameOrder
  <2> QED
    BY <1>1, <1>10, <2>1, <2>2, SameOrder
<1>12. ((i % N) * a) % N = 1
  <2>1. 1 % N = 1
    BY <1>1
  <2> QED
    BY <1>1, <1>10, <1>11, <2>1, SameRemainder
<1>13. i % N \in Elements
  <2>1. i % N # 0
    <3>1. 0 * a = 0 /\ 0 % N = 0
      BY <1>1
    <3> QED
      BY <1>12, <3>1
  <2> QED
    BY <1>1, <1>10, <2>1 DEF Elements
<1>14. InverseOf(a) \in Elements /\ (InverseOf(a) * a) % N = 1
  BY <1>12, <1>13 DEF InverseOf
<1>15. 1 % N = 1 /\ InverseOf(a) * a \in Int
  BY <1>1, <1>14 DEF Elements
<1> QED
  BY <1>14, <1>15, SameRemainder

(***************************************************************************)
(* There are no zero divisors, so scalars other than zero cancel.          *)
(***************************************************************************)
LEMMA ElementsCancel ==
  ASSUME NEW a \in Elements, NEW b \in Int, NEW c \in Int
  PROVE  Same(a * b, a * c) <=> Same(b, c)
<1> DEFINE i == InverseOf(a)
<1>1. i \in Elements /\ Same(i * a, 1)
  BY InverseExists
<1>2. N \in Nat /\ a \in Int /\ i \in Int
  BY <1>1, OrderFacts DEF Elements
<1> HIDE DEF i
<1>3. ASSUME NEW v \in Int PROVE Same(v, i * (a * v)) /\ i * (a * v) \in Int
  <2>1. Same((i * a) * v, 1 * v)
    BY <1>1, <1>2, i * a \in Int, 1 \in Int, SameProduct
  <2>2. (i * a) * v = i * (a * v) /\ 1 * v = v
    BY <1>2
  <2> QED
    BY <1>2, <2>1, <2>2, SameOrder
<1>4. ASSUME Same(a * b, a * c) PROVE Same(b, c)
  <2>1. Same(i * (a * b), i * (a * c))
    BY <1>2, <1>4, a * b \in Int, a * c \in Int, SameProduct
  <2>2. Same(b, i * (a * c))
    BY <1>3, <2>1, SameOrder
  <2> QED
    BY <1>3, <2>2, SameOrder
<1>5. ASSUME Same(b, c) PROVE Same(a * b, a * c)
  BY <1>2, <1>5, SameProduct
<1> QED
  BY <1>4, <1>5

-----------------------------------------------------------------------------
(***************************************************************************)
(* The curve.  An element and its opposite share x and differ in the       *)
(* parity of y, since the order of the field is odd.                       *)
(***************************************************************************)
LEMMA OppositeFacts ==
  ASSUME NEW key \in Elements
  PROVE  /\ N - key \in Elements
         /\ Xs[key] \in 1 .. P - 1 /\ Xs[N - key] = Xs[key]
         /\ Parity(key) \in {0, 1} /\ Parity(N - key) = 1 - Parity(key)
<1>1. N \in Nat /\ key \in 1 .. N - 1
  BY OrderFacts DEF Elements
<1>2. N - key \in 1 .. N - 1 /\ key + (N - key) = N
  BY <1>1
<1>3. Xs[N - key] = Xs[key]
  BY <1>1, <1>2, CurveAssumption
<1>4. Ys[key] + Ys[N - key] = P /\ Ys[key] \in Nat /\ Ys[N - key] \in Nat /\ P \in Nat
  BY <1>1, <1>2, CurveAssumption, OrdersAssumption
<1>5. P % 2 = 1
  BY OrdersAssumption
<1>6. Parity(key) \in {0, 1} /\ Parity(N - key) = 1 - Parity(key)
  BY <1>4, <1>5 DEF Parity
<1> QED
  BY <1>1, <1>2, <1>3, <1>6, CurveAssumption DEF Elements

\* Lifting the x and parity of an element gives that element.
LEMMA LiftIs ==
  ASSUME NEW key \in Elements
  PROVE  Lift(Xs[key], Parity(key)) = key
<1>1. ASSUME NEW other \in Elements, Xs[other] = Xs[key], Ys[other] % 2 = Parity(key)
      PROVE  other = key
  <2>1. other = key \/ other + key = N
    BY <1>1, CurveAssumption DEF Elements
  <2>2. CASE other + key = N
    <3>1. other = N - key
      BY <2>2, OrderFacts DEF Elements
    <3>2. Parity(other) = 1 - Parity(key) /\ Parity(key) \in {0, 1}
      BY <3>1, OppositeFacts
    <3> QED
      BY <1>1, <3>2 DEF Parity
  <2> QED
    BY <2>1, <2>2
<1>2. Ys[key] % 2 = Parity(key)
  BY DEF Parity
<1> QED
  BY <1>1, <1>2 DEF Lift

\* Lift finds a point with the coordinates asked for, if there is one.
LEMMA LiftFinds ==
  ASSUME NEW x, NEW parity
  PROVE  /\ Lift(x, parity) # 0 =>
              /\ Lift(x, parity) \in Elements
              /\ Xs[Lift(x, parity)] = x /\ Parity(Lift(x, parity)) = parity
         /\ Lift(x, parity) = 0 =>
              \A key \in Elements : ~ (Xs[key] = x /\ Parity(key) = parity)
<1>1. 0 \notin Elements
  BY OrderFacts DEF Elements
<1> QED
  BY <1>1 DEF Lift, Parity

-----------------------------------------------------------------------------
\* A zero stays zero when it is normalized, for recovery to refuse.
LEMMA ZeroStays ==
  ASSUME NEW id
  PROVE  NormalizeLowS(id, 0).s = 0
<1>1. Half \in Nat
  BY OrderFacts DEF Half
<1>2. ~ (0 > Half)
  BY <1>1
<1> QED
  BY <1>2 DEF NormalizeLowS

(***************************************************************************)
(* Recovery.  Normalizing s changes the base to its opposite, so that the  *)
(* product of the two is the same scalar.                                  *)
(***************************************************************************)
LEMMA RecoverNormalized ==
  ASSUME NEW key \in Elements, Xs[key] < N, NEW u \in Elements, NEW z \in Int,
         NEW low, low = NormalizeLowS(Parity(key), u)
  PROVE  /\ low.s # 0
         /\ \E w \in Int : /\ Recover(z, low.id, Xs[key], low.s) = (InverseOf(Xs[key]) * w) % N
                           /\ Same(w, u * key - z)
<1>1. N \in Nat /\ N > 1 /\ key \in 1 .. N - 1 /\ u \in 1 .. N - 1 /\ Xs[key] \in Elements
  BY OrderFacts, OppositeFacts, OrdersAssumption DEF Elements
<1>2. Half \in Nat /\ N = 2 * Half + 1
  BY <1>1, OrdersAssumption DEF Half
<1>3. CASE u > Half
  <2>1. low.id = 1 - Parity(key) /\ low.s = N - u
    BY <1>3 DEF NormalizeLowS
  <2>2. Lift(Xs[key], low.id) = N - key /\ N - key \in Elements
    BY <2>1, OppositeFacts, LiftIs
  <2>3. low.s \in 1 .. Half /\ N - key # 0
    BY <1>1, <1>2, <1>3, <2>1
  <2>4. Recover(z, low.id, Xs[key], low.s)
          = (InverseOf(Xs[key]) * (low.s * (N - key) - z)) % N
    BY <1>1, <2>2, <2>3 DEF Recover
  <2>5. low.s * (N - key) - z = (u * key - z) + (N - u - key) * N
    BY <1>1, <2>1
  <2>6. Same(low.s * (N - key) - z, u * key - z)
    <3>1. N - u - key \in Int
      BY <1>1
    <3> QED
      BY <2>5, <3>1 DEF Same
  <2>7. low.s * (N - key) - z \in Int
    BY <1>1, <2>1
  <2> QED
    BY <2>3, <2>4, <2>6, <2>7
<1>4. CASE ~ (u > Half)
  <2>1. low.id = Parity(key) /\ low.s = u
    BY <1>4 DEF NormalizeLowS
  <2>2. Lift(Xs[key], low.id) = key
    BY <2>1, LiftIs
  <2>3. low.s \in 1 .. Half /\ key # 0
    BY <1>1, <1>2, <1>4, <2>1
  <2>4. Recover(z, low.id, Xs[key], low.s) = (InverseOf(Xs[key]) * (u * key - z)) % N
    BY <1>1, <2>1, <2>2, <2>3 DEF Recover
  <2>5. u * key - z \in Int
    BY <1>1
  <2> QED
    BY <2>3, <2>4, <2>5, SameOrder
<1> QED
  BY <1>3, <1>4

(***************************************************************************)
(* What each recovery computes: for inputs that are multiples of the x     *)
(* coordinate of the base, a combination of the generator and the base.    *)
(***************************************************************************)
LEMMA RecoverCombines ==
  ASSUME NEW key \in Elements, Xs[key] < N, NEW u \in Elements, NEW z \in Int,
         NEW l \in Int, NEW m \in Int,
         Same(u, -(m * Xs[key])), Same(z, -(l * Xs[key])),
         NEW low, low = NormalizeLowS(Parity(key), u)
  PROVE  low.s # 0 /\ Recover(z, low.id, Xs[key], low.s) = (l - m * key) % N
<1> DEFINE x == Xs[key]
           i == InverseOf(x)
<1>1. PICK w \in Int : /\ Recover(z, low.id, Xs[key], low.s) = (InverseOf(Xs[key]) * w) % N
                       /\ Same(w, u * key - z)
  BY RecoverNormalized
<1>2. low.s # 0
  BY RecoverNormalized
<1>3. x \in Elements
  BY OppositeFacts, OrdersAssumption DEF Elements
<1>4. i \in Elements /\ Same(i * x, 1)
  BY <1>3, InverseExists
<1>5. N \in Nat /\ key \in Int /\ u \in Int /\ x \in Int /\ i \in Int
  BY <1>3, <1>4, OrderFacts DEF Elements
<1>6. Same(u, -(m * x)) /\ Same(z, -(l * x))
  OBVIOUS
<1> HIDE DEF i, x
<1>7. /\ u * key \in Int /\ u * key - z \in Int
      /\ m * x \in Int /\ l * x \in Int /\ -(m * x) \in Int /\ -(l * x) \in Int
      /\ (-(m * x)) * key \in Int /\ (-(m * x)) * key - z \in Int
      /\ (-(m * x)) * key - (-(l * x)) \in Int
      /\ l - m * key \in Int /\ x * (l - m * key) \in Int /\ i * x \in Int /\ i * w \in Int
  BY <1>5
<1>8. Same(w, x * (l - m * key))
  <2>1. Same(u * key, (-(m * x)) * key)
    BY <1>5, <1>6, <1>7, SameProduct
  <2>2. Same(u * key - z, (-(m * x)) * key - z)
    BY <1>7, <2>1, SameSum
  <2>3. Same((-(m * x)) * key - z, (-(m * x)) * key - (-(l * x)))
    BY <1>6, <1>7, SameSum
  <2>4. Same(w, (-(m * x)) * key - z)
    BY <1>1, <1>7, <2>2, SameTransitive
  <2>5. Same(w, (-(m * x)) * key - (-(l * x)))
    BY <1>7, <2>3, <2>4, SameTransitive
  <2>6. (-(m * x)) * key - (-(l * x)) = x * (l - m * key)
    BY <1>5
  <2> QED
    BY <2>5, <2>6
<1>9. Same(i * w, l - m * key)
  <2>1. Same(i * w, i * (x * (l - m * key)))
    BY <1>5, <1>7, <1>8, SameProduct
  <2>2. Same((i * x) * (l - m * key), 1 * (l - m * key))
    BY <1>4, <1>7, 1 \in Int, SameProduct
  <2>3. /\ i * (x * (l - m * key)) = (i * x) * (l - m * key)
        /\ 1 * (l - m * key) = l - m * key
    BY <1>5, <1>7
  <2>4. i * (x * (l - m * key)) \in Int
    BY <1>5, <1>7
  <2>5. Same(i * (x * (l - m * key)), l - m * key)
    BY <2>2, <2>3
  <2> QED
    BY <1>7, <2>1, <2>4, <2>5, SameTransitive
<1> QED
  BY <1>1, <1>2, <1>7, <1>9, SameRemainder DEF i, x

-----------------------------------------------------------------------------
(***************************************************************************)
(* The scalar helpers: what they return, and what scalar that is.          *)
(***************************************************************************)
LEMMA ReduceBeIs ==
  ASSUME NEW v \in Bytes
  PROVE  v \in Nat /\ ReduceBe(v) \in 0 .. N - 1 /\ Same(ReduceBe(v), v) /\ ReduceBe(v) = v % N
<1>1. N \in Nat /\ N > 1 /\ v \in Nat /\ v < 2 * N
  BY OrderFacts, OrdersAssumption DEF Bytes
<1>2. ReduceBe(v) \in 0 .. N - 1
  BY <1>1 DEF ReduceBe
<1>3. Same(ReduceBe(v), v)
  <2>1. CASE v < N
    BY <1>1, <2>1, SameOrder DEF ReduceBe
  <2>2. CASE ~ (v < N)
    <3>1. ReduceBe(v) = v + (-1) * N /\ -1 \in Int
      BY <1>1, <2>2 DEF ReduceBe
    <3> QED
      BY <3>1 DEF Same
  <2> QED
    BY <2>1, <2>2
<1>4. ReduceBe(v) = v % N
  <2>1. ReduceBe(v) % N = v % N
    BY <1>1, <1>2, <1>3, SameRemainder
  <2>2. ReduceBe(v) % N = ReduceBe(v)
    BY <1>1, <1>2
  <2> QED
    BY <2>1, <2>2
<1> QED
  BY <1>1, <1>2, <1>3, <1>4

\* Products, and the two ways in which the code negates them.
LEMMA MulModIs ==
  ASSUME NEW a \in Int, NEW b \in Int
  PROVE  /\ MulMod(a, b) \in 0 .. N - 1 /\ Same(MulMod(a, b), a * b)
         /\ N - MulMod(a, b) \in 1 .. N /\ Same(N - MulMod(a, b), -(a * b))
         /\ Negate(MulMod(a, b)) \in 0 .. N - 1 /\ Same(Negate(MulMod(a, b)), -(a * b))
         /\ MulMod(a, b) = 0 <=> Negate(MulMod(a, b)) = 0
<1> DEFINE product == MulMod(a, b)
<1>1. N \in Nat /\ N > 1 /\ a * b \in Int /\ -(a * b) \in Int
  BY OrderFacts
<1>2. product \in 0 .. N - 1 /\ Same(product, a * b)
  BY <1>1, RemainderSame DEF MulMod
<1> HIDE DEF product
<1>3. Same(0 - product, -(a * b))
  <2>1. Same(0 - product, 0 - a * b)
    BY <1>1, <1>2, 0 \in Int, product \in Int, SameSum
  <2> QED
    BY <1>1, <2>1
<1>4. Same(N - product, -(a * b))
  <2>1. N - product = (0 - product) + 1 * N /\ 1 \in Int /\ 0 - product \in Int
    BY <1>1, <1>2
  <2>2. Same(N - product, 0 - product)
    BY <2>1, Zenon DEF Same
  <2> QED
    BY <1>1, <1>2, <1>3, <2>1, <2>2, SameTransitive
<1>5. N - product \in 1 .. N
  BY <1>1, <1>2
<1>6. Negate(product) \in 0 .. N - 1 /\ (product = 0 <=> Negate(product) = 0)
  BY <1>1, <1>2 DEF Negate
<1>7. Same(Negate(product), -(a * b))
  <2>1. CASE product = 0
    <3>1. Negate(product) = 0 - product
      BY <2>1 DEF Negate
    <3> QED
      BY <1>3, <3>1
  <2>2. CASE product # 0
    BY <1>4, <2>2 DEF Negate
  <2> QED
    BY <2>1, <2>2
<1> QED
  BY <1>2, <1>4, <1>5, <1>6, <1>7 DEF product

\* A product with an element vanishes only when the other factor does.
LEMMA ProductVanishes ==
  ASSUME NEW a \in Int, NEW x \in Elements
  PROVE  MulMod(a, x) = 0 <=> a % N = 0
<1>1. N \in Nat /\ N > 1 /\ x \in Int /\ x * a \in Int /\ 0 \in Int
  BY OrderFacts DEF Elements
<1>2. 0 % N = 0 /\ x * 0 = 0 /\ a * x = x * a
  BY <1>1
<1>3. MulMod(a, x) = 0 <=> Same(x * a, x * 0)
  BY <1>1, <1>2, SameRemainder DEF MulMod
<1>4. a % N = 0 <=> Same(a, 0)
  BY <1>1, <1>2, SameRemainder
<1> QED
  BY <1>1, <1>3, <1>4, ElementsCancel

\* Solving for s.
LEMMA Solve ==
  ASSUME NEW s \in 0 .. N - 1, NEW c \in 0 .. N - 1, NEW t \in Int
  PROVE  (s - t) % N = c <=> s = (c + t) % N
<1>1. N \in Nat /\ N > 1 /\ s \in Int /\ c \in Int /\ s - t \in Int /\ c + t \in Int
  BY OrderFacts
<1>2. s % N = s /\ c % N = c
  BY <1>1
<1>3. (s - t) % N = c <=> Same(s - t, c)
  BY <1>1, <1>2, SameRemainder
<1>4. s = (c + t) % N <=> Same(s, c + t)
  BY <1>1, <1>2, SameRemainder
<1>5. ASSUME Same(s - t, c) PROVE Same(s, c + t)
  <2>1. Same((s - t) + t, c + t)
    BY <1>1, <1>5, SameSum
  <2>2. (s - t) + t = s
    BY <1>1
  <2> QED
    BY <2>1, <2>2
<1>6. ASSUME Same(s, c + t) PROVE Same(s - t, c)
  <2>1. Same(s - t, (c + t) - t)
    BY <1>1, <1>6, SameSum
  <2>2. (c + t) - t = c
    BY <1>1
  <2> QED
    BY <2>1, <2>2
<1> QED
  BY <1>3, <1>4, <1>5, <1>6

\* Equal scalars may be used for each other in a signature.
LEMMA SchnorrSame ==
  ASSUME NEW c \in Int, NEW m \in Int, NEW hash \in Int, NEW key \in Int, Same(m, hash)
  PROVE  (c + m * key) % N = Schnorr(c, hash, key)
<1>1. m * key \in Int /\ hash * key \in Int /\ c + m * key \in Int /\ c + hash * key \in Int
  OBVIOUS
<1>2. Same(m * key, hash * key)
  BY SameProduct
<1>3. Same(c + m * key, c + hash * key)
  BY <1>1, <1>2, SameSum
<1> QED
  BY <1>1, <1>3, SameRemainder DEF Schnorr

(***************************************************************************)
(* Recovery from the products that a verifier hands in confirms exactly    *)
(* the signature with this nonce.                                          *)
(***************************************************************************)
LEMMA SchnorrRecovered ==
  ASSUME NEW key \in Elements, Xs[key] < N, NEW nonce \in Elements, NEW s \in Elements,
         NEW hash \in Int, NEW m \in Int, Same(m, hash),
         NEW u \in Elements, Same(u, -(m * Xs[key])),
         NEW z \in Int, Same(z, -(s * Xs[key])),
         NEW low, low = NormalizeLowS(Parity(key), u)
  PROVE  Recover(z, low.id, Xs[key], low.s) = nonce <=> s = Schnorr(nonce, hash, key)
<1>1. /\ key \in Int /\ nonce \in Int /\ nonce \in 0 .. N - 1 /\ s \in Int /\ s \in 0 .. N - 1
      /\ m * key \in Int
  BY OrderFacts DEF Elements
<1>2. Recover(z, low.id, Xs[key], low.s) = (s - m * key) % N
  BY <1>1, RecoverCombines
<1>3. (s - m * key) % N = nonce <=> s = (nonce + m * key) % N
  BY <1>1, Solve
<1> QED
  BY <1>1, <1>2, <1>3, SchnorrSame

-----------------------------------------------------------------------------
(***************************************************************************)
(* The aggregate signature (recover_and_match): an answer is the Schnorr   *)
(* equation, but for a key whose x is no scalar and a zero challenge.      *)
(***************************************************************************)
LEMMA AggregateEquation ==
  ASSUME NEW key \in Elements, NEW hash \in Bytes, NEW s \in Bytes, NEW commitment \in Elements
  PROVE  VerifyAggregate(key, hash, s, commitment) <=>
           /\ s \in Elements
           /\ Xs[key] < N
           /\ hash % N # 0
           /\ s = Schnorr(commitment, hash, key)
<1> DEFINE x == Xs[key]
           m == ReduceBe(hash)
           e == N - MulMod(ReduceBe(s), ReduceBe(x))
           u == N - MulMod(m, ReduceBe(x))
           low == NormalizeLowS(Parity(key), u)
<1>1. N \in Nat /\ N > 1 /\ key \in Int /\ commitment \in 0 .. N - 1 /\ commitment # 0
  BY OrderFacts DEF Elements
<1>2. /\ m \in 0 .. N - 1 /\ Same(m, hash) /\ m = hash % N
      /\ s \in Int /\ hash \in Int /\ s >= 0 /\ m \in Int
  BY <1>1, ReduceBeIs
<1>3. x \in 1 .. P - 1 /\ P - 1 <= Top /\ x \in Nat
  BY OppositeFacts, OrdersAssumption
<1>4. IsValidNonzero(s) <=> s \in Elements
  BY <1>1, <1>2 DEF IsValidNonzero, Elements
<1>5. VerifyAggregate(key, hash, s, commitment) <=>
        /\ s \in Elements /\ ReduceBe(x) # 0 /\ u # 0
        /\ Recover(e, low.id, x, low.s) = commitment
  BY <1>4 DEF VerifyAggregate, RecoverAndMatch
<1>6. CASE ~ (x < N)
  <2>1. x \notin Elements
    BY <1>1, <1>3, <1>6 DEF Elements
  <2>2. Recover(e, low.id, x, low.s) = 0
    BY <2>1 DEF Recover
  <2> QED
    BY <1>1, <1>5, <1>6, <2>2
<1>7. CASE x < N /\ m = 0
  <2>1. ReduceBe(x) = x /\ x \in Elements
    BY <1>1, <1>3, <1>7 DEF ReduceBe, Elements
  <2>2. 0 % N = 0
    BY <1>1
  <2>3. MulMod(m, ReduceBe(x)) = 0
    BY <1>2, <1>7, <2>1, <2>2, ProductVanishes
  <2>4. u = N /\ N > Half
    BY <1>1, <2>3 DEF Half
  <2>5. low.s = 0
    BY <1>1, <2>4 DEF NormalizeLowS
  <2>6. Recover(e, low.id, x, low.s) = 0
    BY <2>5 DEF Recover
  <2> QED
    BY <1>1, <1>2, <1>5, <1>7, <2>6
<1>8. CASE x < N /\ m # 0
  <2>1. ReduceBe(x) = x /\ x \in Elements /\ x # 0 /\ x \in Int
    BY <1>1, <1>3, <1>8 DEF ReduceBe, Elements
  <2>2. m % N # 0
    BY <1>1, <1>2, <1>8
  <2>3. u \in Elements /\ Same(u, -(m * x))
    <3>1. MulMod(m, x) # 0 /\ MulMod(m, x) \in 0 .. N - 1
      BY <1>2, <2>1, <2>2, ProductVanishes, MulModIs
    <3>2. N - MulMod(m, x) \in 1 .. N /\ Same(N - MulMod(m, x), -(m * x))
      BY <1>2, <2>1, MulModIs
    <3>3. u = N - MulMod(m, x)
      BY <2>1
    <3> QED
      BY <1>1, <3>1, <3>2, <3>3 DEF Elements
  <2>4. ASSUME s \in Elements PROVE e \in Int /\ Same(e, -(s * x)) /\ s \in Int /\ s \in 0 .. N - 1
    <3>1. ReduceBe(s) = s /\ s \in 0 .. N - 1
      BY <1>1, <2>4 DEF ReduceBe, Elements
    <3>2. N - MulMod(s, x) \in 1 .. N /\ Same(N - MulMod(s, x), -(s * x))
      BY <1>2, <2>1, MulModIs
    <3>3. e = N - MulMod(s, x)
      BY <2>1, <3>1
    <3>4. e \in Int
      BY <1>1, <3>2, <3>3
    <3>5. Same(e, -(s * x))
      BY <3>2, <3>3
    <3> QED
      BY <1>2, <3>1, <3>4, <3>5
  <2>5. ASSUME s \in Elements
        PROVE  Recover(e, low.id, x, low.s) = commitment <=> s = Schnorr(commitment, hash, key)
    <3>1. e \in Int /\ Same(e, -(s * x))
      BY <2>4, <2>5
    <3> HIDE DEF e, u, m
    <3>2. low = NormalizeLowS(Parity(key), u)
      OBVIOUS
    <3> HIDE DEF low
    <3> QED
      BY <1>2, <1>8, <2>3, <2>5, <3>1, <3>2, SchnorrRecovered
  <2>6. u # 0 /\ hash % N # 0
    BY <1>1, <1>2, <1>8, <2>3 DEF Elements
  <2> QED
    BY <1>5, <1>8, <2>1, <2>5, <2>6
<1> QED
  BY <1>6, <1>7, <1>8

-----------------------------------------------------------------------------
(***************************************************************************)
(* The proof of possession (verify_pop): the same equation, for the nonce  *)
(* with even y that r names.                                               *)
(***************************************************************************)
LEMMA PopEquation ==
  ASSUME NEW key \in Elements, Xs[key] < N, NEW hash \in Bytes, NEW r \in Bytes, NEW s \in Bytes
  PROVE  VerifyPop(key, hash, r, s) <=>
           \E nonce \in Elements :
             /\ Xs[nonce] = r /\ Ys[nonce] % 2 = 0
             /\ s \in Elements
             /\ hash % N # 0
             /\ s = Schnorr(nonce, hash, key)
<1> DEFINE x == Xs[key]
           m == ReduceBe(hash)
           e == Negate(MulMod(s, x))
           u == Negate(MulMod(m, x))
           low == NormalizeLowS(Parity(key), u)
           expected == Lift(r, 0)
<1>1. N \in Nat /\ N > 1 /\ key \in Int
  BY OrderFacts DEF Elements
<1>2. /\ m \in 0 .. N - 1 /\ Same(m, hash) /\ m = hash % N
      /\ s \in Int /\ hash \in Int /\ s >= 0 /\ m \in Int
  BY <1>1, ReduceBeIs
<1>3. x \in Elements /\ x \in Int
  BY <1>1, OppositeFacts, OrdersAssumption DEF Elements
<1>4. IsValidNonzero(s) <=> s \in Elements
  BY <1>1, <1>2 DEF IsValidNonzero, Elements
<1>5. VerifyPop(key, hash, r, s) <=>
        /\ s \in Elements /\ expected # 0 /\ low.s # 0
        /\ Recover(e, low.id, x, low.s) = expected
  BY <1>4 DEF VerifyPop
<1>6. m % N = hash % N
  BY <1>1, <1>2
<1>7. u \in 0 .. N - 1 /\ Same(u, -(m * x)) /\ e \in 0 .. N - 1 /\ Same(e, -(s * x))
  BY <1>2, <1>3, MulModIs
<1>8. u = 0 <=> hash % N = 0
  BY <1>2, <1>3, <1>6, MulModIs, ProductVanishes
<1>9. ASSUME NEW nonce \in Elements, Xs[nonce] = r, Ys[nonce] % 2 = 0 PROVE nonce = expected
  <2>1. Parity(nonce) = 0
    BY <1>9 DEF Parity
  <2> QED
    BY <1>9, <2>1, LiftIs
<1>10. expected # 0 => expected \in Elements /\ Xs[expected] = r /\ Ys[expected] % 2 = 0
  BY LiftFinds DEF Parity
<1>11. 0 \notin Elements
  BY <1>1 DEF Elements
<1>12. CASE hash % N = 0
  <2>1. u = 0
    BY <1>8, <1>12
  <2>2. low.s = 0
    BY <2>1, ZeroStays
  <2> QED
    BY <1>5, <1>12, <2>2
<1>13. CASE hash % N # 0
  <2>1. u \in Elements /\ e \in Int
    BY <1>1, <1>7, <1>8, <1>13 DEF Elements
  <2>2. ASSUME s \in Elements, expected # 0
        PROVE  /\ low.s # 0
               /\ Recover(e, low.id, x, low.s) = expected <=> s = Schnorr(expected, hash, key)
    <3>1. expected \in Elements
      BY <1>10, <2>2
    <3>2. low = NormalizeLowS(Parity(key), u)
      OBVIOUS
    <3> HIDE DEF low, e, u, m, expected
    <3>3. low.s # 0
      BY <2>1, <3>2, RecoverNormalized
    <3>4. Recover(e, low.id, x, low.s) = expected <=> s = Schnorr(expected, hash, key)
      BY <1>2, <1>7, <2>1, <2>2, <3>1, <3>2, SchnorrRecovered
    <3> QED
      BY <3>3, <3>4
  <2>3. ASSUME VerifyPop(key, hash, r, s)
        PROVE  \E nonce \in Elements :
                 /\ Xs[nonce] = r /\ Ys[nonce] % 2 = 0
                 /\ s \in Elements /\ hash % N # 0 /\ s = Schnorr(nonce, hash, key)
    <3>1. s = Schnorr(expected, hash, key)
      BY <1>5, <2>2, <2>3
    <3> QED
      BY <1>5, <1>10, <1>13, <2>3, <3>1
  <2>4. ASSUME NEW nonce \in Elements, Xs[nonce] = r, Ys[nonce] % 2 = 0,
               s \in Elements, s = Schnorr(nonce, hash, key)
        PROVE  VerifyPop(key, hash, r, s)
    <3>1. nonce = expected /\ expected # 0
      BY <1>9, <1>11, <2>4
    <3> QED
      BY <1>5, <2>2, <2>4, <3>1
  <2> QED
    BY <2>3, <2>4
<1> QED
  BY <1>12, <1>13

(***************************************************************************)
(* normalize_public_key returns the one point that the bytes name.         *)
(***************************************************************************)
Named(prefix, x) ==
  {k \in Elements : Xs[k] = x /\ Xs[k] < N /\ prefix = 2 + Parity(k)}

\* It is zero, the error, when there is no such point.
LEMMA KeyIsNamed ==
  ASSUME NEW prefix \in 0 .. 255, NEW x \in Bytes, NEW key, key = NormalizePublicKey(prefix, x)
  PROVE  /\ key = 0 <=> Named(prefix, x) = {}
         /\ key # 0 => Named(prefix, x) = {key} /\ key \in Elements /\ Xs[key] < N
<1>1. N \in Nat /\ x \in Nat /\ 0 \notin Elements
  BY OrderFacts, OrdersAssumption DEF Bytes, Elements
<1>2. ASSUME NEW k \in Named(prefix, x)
      PROVE  k = key /\ key # 0
  <2>1. k \in Elements /\ Xs[k] = x /\ x < N /\ prefix = 2 + Parity(k)
    BY <1>2 DEF Named
  <2>2. Parity(k) \in {0, 1} /\ Xs[k] \in 1 .. P - 1
    BY <2>1, OppositeFacts
  <2>3. prefix \in {2, 3} /\ prefix % 2 = Parity(k) /\ IsValidNonzero(x)
    BY <1>1, <2>1, <2>2 DEF IsValidNonzero
  <2>4. key = Lift(Xs[k], Parity(k))
    BY <2>1, <2>3 DEF NormalizePublicKey
  <2> QED
    BY <1>1, <2>1, <2>4, LiftIs
<1>3. ASSUME key # 0
      PROVE  key \in Named(prefix, x)
  <2>1. prefix \in {2, 3} /\ x < N /\ key = Lift(x, prefix % 2)
    BY <1>3 DEF NormalizePublicKey, IsValidNonzero
  <2>2. key \in Elements /\ Xs[key] = x /\ Parity(key) = prefix % 2
    BY <1>3, <2>1, LiftFinds
  <2>3. prefix = 2 + (prefix % 2)
    BY <2>1
  <2> QED
    BY <2>1, <2>2, <2>3 DEF Named
<1>4. key # 0 => Named(prefix, x) = {key}
  BY <1>2, <1>3
<1> QED
  BY <1>2, <1>3, <1>4 DEF Named

\* The answers of validate_key_and_verify_pop, as PopIsSchnorr states them.
LEMMA PopAnswer ==
  ASSUME NEW prefix \in 0 .. 255, NEW x \in Bytes, NEW hash \in Bytes, NEW r \in Bytes,
         NEW s \in Bytes
  PROVE  /\ ValidateKeyAndVerifyPop(prefix, x, hash, r, s) = "InvalidPublicKey"
              <=> Named(prefix, x) = {}
         /\ ValidateKeyAndVerifyPop(prefix, x, hash, r, s) = "ok" <=>
              \E k \in Named(prefix, x), nonce \in Elements :
                /\ Xs[nonce] = r /\ Ys[nonce] % 2 = 0
                /\ s \in Elements
                /\ hash % N # 0
                /\ s = Schnorr(nonce, hash, k)
<1> DEFINE key == NormalizePublicKey(prefix, x)
           answer == ValidateKeyAndVerifyPop(prefix, x, hash, r, s)
<1>1. /\ key = 0 <=> Named(prefix, x) = {}
      /\ key # 0 => Named(prefix, x) = {key} /\ key \in Elements /\ Xs[key] < N
  BY KeyIsNamed
<1>2. CASE key = 0
  <2>1. answer = "InvalidPublicKey"
    BY <1>2 DEF ValidateKeyAndVerifyPop
  <2> QED
    BY <1>1, <1>2, <2>1
<1>3. CASE key # 0
  <2>1. answer = IF VerifyPop(key, hash, r, s) THEN "ok" ELSE "InvalidProof"
    BY <1>3 DEF ValidateKeyAndVerifyPop
  <2>2. answer = "ok" <=> VerifyPop(key, hash, r, s)
    BY <2>1
  <2>3. answer # "InvalidPublicKey"
    BY <2>1
  <2>4. Named(prefix, x) = {key} /\ key \in Elements /\ Xs[key] < N
    BY <1>1, <1>3
  <2> HIDE DEF key
  <2>5. VerifyPop(key, hash, r, s) <=>
          \E nonce \in Elements :
            /\ Xs[nonce] = r /\ Ys[nonce] % 2 = 0
            /\ s \in Elements
            /\ hash % N # 0
            /\ s = Schnorr(nonce, hash, key)
    BY <2>4, PopEquation
  <2> QED
    BY <2>2, <2>3, <2>4, <2>5
<1> QED
  BY <1>2, <1>3

-----------------------------------------------------------------------------
(***************************************************************************)
(* The partial signature (verify_partial_signature_equation): what its two *)
(* recoveries compute, and the equation.                                   *)
(***************************************************************************)
LEMMA LeftTermIs ==
  ASSUME NEW r2 \in Elements, Xs[r2] < N, NEW b \in Elements, NEW s \in Elements
  PROVE  LeftTerm(r2, b, s) = (s - b * r2) % N
<1> DEFINE x == Xs[r2]
           u == Negate(MulMod(b, x))
           z == Negate(MulMod(s, x))
           low == NormalizeLowS(Parity(r2), u)
<1>1. N \in Nat /\ x \in Elements /\ x \in Int /\ b \in Int /\ s \in Int /\ b % N # 0
  BY OrderFacts, OppositeFacts, OrdersAssumption DEF Elements
<1>2. u \in 0 .. N - 1 /\ Same(u, -(b * x)) /\ z \in 0 .. N - 1 /\ Same(z, -(s * x)) /\ u # 0
  BY <1>1, MulModIs, ProductVanishes
<1>3. u \in Elements /\ z \in Int
  BY <1>1, <1>2 DEF Elements
<1>4. LeftTerm(r2, b, s) = IF low.s = 0 THEN 0 ELSE Recover(z, low.id, x, low.s)
  BY DEF LeftTerm, RecoverPoint
<1>5. low = NormalizeLowS(Parity(r2), u)
  OBVIOUS
<1> HIDE DEF u, z, low
<1>6. low.s # 0 /\ Recover(z, low.id, Xs[r2], low.s) = (s - b * r2) % N
  BY <1>1, <1>2, <1>3, <1>5, RecoverCombines
<1> QED
  BY <1>4, <1>6

\* The other side has no s: it is the multiple c of x, never infinity.
LEMMA RightTermIs ==
  ASSUME NEW x \in Elements, Xs[x] < N, NEW c \in Elements
  PROVE  RightTerm(x, c) = (c * x) % N /\ (c * x) % N # 0
<1> DEFINE u == MulMod(c, Xs[x])
           low == NormalizeLowS(Parity(x), u)
<1>1. N \in Nat /\ N > 1 /\ Xs[x] \in Elements /\ Xs[x] \in Int /\ c \in Int /\ x \in Int
  BY OrderFacts, OppositeFacts, OrdersAssumption DEF Elements
<1>2. c % N # 0
  BY <1>1 DEF Elements
<1>3. u \in 0 .. N - 1 /\ Same(u, c * Xs[x]) /\ u # 0
  BY <1>1, <1>2, MulModIs, ProductVanishes
<1>4. u \in Elements
  BY <1>1, <1>3 DEF Elements
<1>5. c * Xs[x] = -((-c) * Xs[x]) /\ -c \in Int /\ 0 \in Int /\ 0 = -(0 * Xs[x])
  BY <1>1
<1>6. Same(u, -((-c) * Xs[x]))
  BY <1>3, <1>5
<1>7. Same(0, -(0 * Xs[x]))
  BY <1>5, SameOrder
<1>8. RightTerm(x, c) = IF low.s = 0 THEN 0 ELSE Recover(0, low.id, Xs[x], low.s)
  BY DEF RightTerm, RecoverPoint
<1>9. low = NormalizeLowS(Parity(x), u)
  OBVIOUS
<1> HIDE DEF u, low
<1>10. low.s # 0 /\ Recover(0, low.id, Xs[x], low.s) = (0 - (-c) * x) % N
  BY <1>4, <1>5, <1>6, <1>7, <1>9, RecoverCombines
<1>11. 0 - (-c) * x = c * x
  BY <1>1
<1>12. (c * x) % N # 0
  BY <1>1, <1>2, ProductVanishes DEF MulMod
<1> QED
  BY <1>8, <1>10, <1>11, <1>12

\* The two sides agree exactly when s is the transcript.
LEMMA SidesAgree ==
  ASSUME NEW r1 \in Elements, NEW r2 \in Elements, NEW x \in Elements,
         NEW b \in Elements, NEW c \in Elements, NEW s \in Elements
  PROVE  /\ (r1 + ((c * x) % N)) % N = (r1 + c * x) % N
         /\ (r1 + c * x) % N = (s - b * r2) % N <=> s = transcript(r1, r2, x, b, c)
<1>1. /\ N \in Nat /\ N > 1 /\ r1 \in Int /\ r2 \in Int /\ x \in Int
      /\ b \in Int /\ c \in Int /\ s \in Int /\ s \in 0 .. N - 1
  BY OrderFacts DEF Elements
<1>2. /\ c * x \in Int /\ b * r2 \in Int /\ r1 + c * x \in Int /\ s - b * r2 \in Int
      /\ r1 + b * r2 + c * x \in Int /\ (c * x) % N \in Int /\ r1 + ((c * x) % N) \in Int
  BY <1>1
<1>3. (r1 + ((c * x) % N)) % N = (r1 + c * x) % N
  <2>1. Same((c * x) % N, c * x)
    BY <1>2, RemainderSame
  <2>2. Same(r1 + ((c * x) % N), r1 + c * x)
    BY <1>1, <1>2, <2>1, SameSum
  <2> QED
    BY <1>2, <2>2, SameRemainder
<1>4. (r1 + c * x) % N = (s - b * r2) % N <=> Same(s - b * r2, r1 + c * x)
  BY <1>2, SameRemainder
<1>5. s = transcript(r1, r2, x, b, c) <=> Same(s, r1 + b * r2 + c * x)
  <2>1. s % N = s
    BY <1>1
  <2>2. s % N = (r1 + b * r2 + c * x) % N <=> Same(s, r1 + b * r2 + c * x)
    BY <1>1, <1>2, SameRemainder
  <2> QED
    BY <2>1, <2>2 DEF transcript
<1>6. (s - b * r2) + b * r2 = s /\ (r1 + c * x) + b * r2 = r1 + b * r2 + c * x
      /\ (r1 + b * r2 + c * x) - b * r2 = r1 + c * x
  BY <1>1, <1>2
<1>7. ASSUME Same(s - b * r2, r1 + c * x) PROVE Same(s, r1 + b * r2 + c * x)
  <2>1. Same((s - b * r2) + b * r2, (r1 + c * x) + b * r2)
    BY <1>2, <1>7, SameSum
  <2> QED
    BY <1>6, <2>1
<1>8. ASSUME Same(s, r1 + b * r2 + c * x) PROVE Same(s - b * r2, r1 + c * x)
  <2>1. Same(s - b * r2, (r1 + b * r2 + c * x) - b * r2)
    BY <1>1, <1>2, <1>8, SameSum
  <2> QED
    BY <1>6, <2>1
<1> QED
  BY <1>3, <1>4, <1>5, <1>7, <1>8

\* The nonce that the coordinates of a triple name.
Nonce(r) == ElementAt(r[1], r[2])

\* The answers of verify_partial_signature_equation.
LEMMA PartialAnswer ==
  ASSUME NEW x \in Elements, NEW r1, NEW r2, NEW b \in Bytes, NEW c \in Bytes, NEW s \in Bytes
  PROVE  /\ VerifyPartial(x, r1, r2, b, c, s) = "NonCanonicalScalar"
              <=> ~ ({b, c, s} \subseteq Elements)
         /\ VerifyPartial(x, r1, r2, b, c, s) = "InvalidNoncePoint"
              <=> {b, c, s} \subseteq Elements /\ 0 \in {Nonce(r1), Nonce(r2)}
         /\ VerifyPartial(x, r1, r2, b, c, s) = "true" <=>
              /\ {b, c, s} \subseteq Elements /\ 0 \notin {Nonce(r1), Nonce(r2)}
              /\ Xs[Nonce(r2)] < N /\ Xs[x] < N
              /\ s = transcript(Nonce(r1), Nonce(r2), x, b, c)
              /\ (Nonce(r1) + c * x) % N # 0
<1> DEFINE answer == VerifyPartial(x, r1, r2, b, c, s)
           n1 == Nonce(r1)
           n2 == Nonce(r2)
<1>1. /\ N \in Nat /\ N > 1 /\ 0 \notin Elements
      /\ \A v \in Bytes : IsValidNonzero(v) <=> v \in Elements
  BY OrderFacts, OrdersAssumption DEF Bytes, Elements, IsValidNonzero
<1>2. CanonicalScalars(b, c, s) <=> {b, c, s} \subseteq Elements
  BY <1>1 DEF CanonicalScalars
<1>3. n1 \in Elements \cup {0} /\ n2 \in Elements \cup {0}
  BY DEF ElementAt, Nonce
<1>4. CASE ~ CanonicalScalars(b, c, s)
  <2>1. answer = "NonCanonicalScalar"
    BY <1>4 DEF VerifyPartial, Nonce
  <2> QED
    BY <1>2, <1>4, <2>1
<1>5. CASE CanonicalScalars(b, c, s) /\ 0 \in {n1, n2}
  <2>1. answer = "InvalidNoncePoint"
    BY <1>5 DEF VerifyPartial, Nonce
  <2> QED
    BY <1>2, <1>5, <2>1
<1>6. CASE CanonicalScalars(b, c, s) /\ 0 \notin {n1, n2}
  <2> DEFINE left == LeftTerm(n2, b, s)
             right == RightTerm(x, c)
             Confirmed == /\ IsValidNonzero(Xs[n2]) /\ IsValidNonzero(Xs[x])
                          /\ right # 0 /\ left # 0
                          /\ (n1 + right) % N # 0
                          /\ (n1 + right) % N = left
  <2>1. answer = Boolean(Confirmed)
    BY <1>6 DEF VerifyPartial, Nonce
  <2>2. answer \in {"true", "false"} /\ (answer = "true" <=> Confirmed)
    <3> HIDE DEF Confirmed
    <3> QED
      BY <2>1 DEF Boolean
  <2>3. n1 \in Elements /\ n2 \in Elements /\ b \in Elements /\ c \in Elements /\ s \in Elements
    BY <1>2, <1>3, <1>6
  <2>4. /\ IsValidNonzero(Xs[n2]) <=> Xs[n2] < N
        /\ IsValidNonzero(Xs[x]) <=> Xs[x] < N
    <3>1. Xs[n2] \in 1 .. P - 1 /\ Xs[x] \in 1 .. P - 1
      BY <2>3, OppositeFacts
    <3> QED
      BY <3>1, OrdersAssumption DEF IsValidNonzero
  <2>5. ASSUME Xs[n2] < N, Xs[x] < N
        PROVE  Confirmed <=> s = transcript(n1, n2, x, b, c) /\ (n1 + c * x) % N # 0
    <3>1. left = (s - b * n2) % N
      BY <2>3, <2>5, LeftTermIs
    <3>2. right = (c * x) % N /\ right # 0
      BY <2>3, <2>5, RightTermIs
    <3> HIDE DEF left, right
    <3>3. (n1 + right) % N = (n1 + c * x) % N
      BY <2>3, <3>2, SidesAgree
    <3>4. (n1 + c * x) % N = left <=> s = transcript(n1, n2, x, b, c)
      BY <2>3, <3>1, SidesAgree
    <3> QED
      BY <2>4, <2>5, <3>2, <3>3, <3>4
  <2> QED
    BY <1>2, <1>6, <2>2, <2>4, <2>5
<1> QED
  BY <1>4, <1>5, <1>6

\* What is confirmed is canonical and satisfies the equation.
LEMMA ConfirmedIs ==
  ASSUME NEW x \in Elements, NEW r1, NEW r2, NEW b \in Bytes, NEW c \in Bytes, NEW s \in Bytes,
         VerifyPartial(x, r1, r2, b, c, s) = "true"
  PROVE  /\ b \in Elements /\ c \in Elements
         /\ s = transcript(Nonce(r1), Nonce(r2), x, b, c)
<1>1. {b, c, s} \subseteq Elements /\ s = transcript(Nonce(r1), Nonce(r2), x, b, c)
  BY PartialAnswer
<1> QED
  BY <1>1

-----------------------------------------------------------------------------
(***************************************************************************)
(* The inductive invariant: a call is one of those described, and its      *)
(* answer is what the verifier computes for it.                            *)
(***************************************************************************)
Computed ==
  /\ call.kind = "aggregate" =>
       verdict = Boolean(VerifyAggregate(call.key, call.hash, call.s, call.commitment))
  /\ call.kind = "pop" =>
       verdict = ValidateKeyAndVerifyPop(call.prefix, call.x, call.hash, call.r, call.s)
  /\ call.kind = "partial" =>
       verdict = VerifyPartial(call.x, call.r1, call.r2, call.b, call.c, call.s)

Inv == call \in Calls /\ (verdict # "pending" => Computed)

\* What each kind of call carries.
LEMMA CallTypes ==
  ASSUME call \in Calls
  PROVE  /\ call.kind = "aggregate" =>
              /\ call.key \in Elements /\ call.hash \in Bytes /\ call.s \in Bytes
              /\ call.commitment \in Elements
         /\ call.kind = "pop" =>
              /\ call.prefix \in 0 .. 255 /\ call.x \in Bytes /\ call.hash \in Bytes
              /\ call.r \in Bytes /\ call.s \in Bytes
         /\ call.kind = "partial" =>
              /\ call.x \in Elements /\ call.b \in Bytes /\ call.c \in Bytes /\ call.s \in Bytes
BY CallsAssumption

\* Answering a call keeps the invariant.
LEMMA NextInv == Inv /\ [Next]_vars => Inv'
<1> SUFFICES ASSUME Inv, [Next]_vars PROVE Inv'
  OBVIOUS
<1>1. CASE AnswerAggregate
  <2>1. /\ call' = call /\ call.kind = "aggregate"
        /\ verdict' = Boolean(VerifyAggregate(call.key, call.hash, call.s, call.commitment))
    BY <1>1 DEF AnswerAggregate, Answer
  <2> QED
    BY <2>1 DEF Inv, Computed
<1>2. CASE AnswerPop
  <2>1. /\ call' = call /\ call.kind = "pop"
        /\ verdict' = ValidateKeyAndVerifyPop(call.prefix, call.x, call.hash, call.r, call.s)
    BY <1>2 DEF AnswerPop, Answer
  <2> QED
    BY <2>1 DEF Inv, Computed
<1>3. CASE AnswerPartial
  <2>1. /\ call' = call /\ call.kind = "partial"
        /\ verdict' = VerifyPartial(call.x, call.r1, call.r2, call.b, call.c, call.s)
    BY <1>3 DEF AnswerPartial, Answer
  <2> QED
    BY <2>1 DEF Inv, Computed
<1>4. CASE UNCHANGED vars
  <2>1. call' = call /\ verdict' = verdict
    BY <1>4 DEF vars
  <2> QED
    BY <2>1 DEF Inv, Computed
<1> QED
  BY <1>1, <1>2, <1>3, <1>4 DEF Next

(***************************************************************************)
(* The invariant holds throughout.                                         *)
(***************************************************************************)
THEOREM Invariance == Spec => []Inv
<1>1. Init => Inv
  BY DEF Init, Inv
<1> QED
  BY <1>1, NextInv, PTL DEF Spec

(***************************************************************************)
(* Over every curve of prime order the aggregate check is the Schnorr      *)
(* equation, but for the refusals that are stated (recover_and_match).     *)
(***************************************************************************)
THEOREM AggregateIsTheEquation == Spec => []AggregateIsSchnorr
<1>1. ASSUME Inv PROVE AggregateIsSchnorr
  <2> SUFFICES ASSUME Answered("aggregate")
               PROVE  verdict = "true" <=>
                        /\ call.s \in Elements
                        /\ Xs[call.key] < N
                        /\ call.hash % N # 0
                        /\ call.s = Schnorr(call.commitment, call.hash, call.key)
    BY DEF AggregateIsSchnorr
  <2>1. /\ call.key \in Elements /\ call.hash \in Bytes /\ call.s \in Bytes
        /\ call.commitment \in Elements
    BY <1>1, CallTypes DEF Inv, Answered
  <2>2. verdict = "true" <=> VerifyAggregate(call.key, call.hash, call.s, call.commitment)
    BY <1>1 DEF Inv, Computed, Answered, Boolean
  <2> QED
    BY <2>1, <2>2, AggregateEquation
<1> QED
  BY <1>1, Invariance, PTL

(***************************************************************************)
(* Likewise a proof of possession: exactly the canonical proofs of the     *)
(* point that the bytes name are accepted (validate_key_and_verify_pop).   *)
(***************************************************************************)
THEOREM PopIsTheEquation == Spec => []PopIsSchnorr
<1>1. ASSUME Inv PROVE PopIsSchnorr
  <2> SUFFICES ASSUME Answered("pop") PROVE PopIsSchnorr
    BY DEF PopIsSchnorr
  <2>1. /\ call.prefix \in 0 .. 255 /\ call.x \in Bytes /\ call.hash \in Bytes
        /\ call.r \in Bytes /\ call.s \in Bytes
    BY <1>1, CallTypes DEF Inv, Answered
  <2>2. verdict = ValidateKeyAndVerifyPop(call.prefix, call.x, call.hash, call.r, call.s)
    BY <1>1 DEF Inv, Computed, Answered
  <2> DEFINE answer == ValidateKeyAndVerifyPop(call.prefix, call.x, call.hash, call.r, call.s)
             accepted == \E k \in Named(call.prefix, call.x), nonce \in Elements :
                           /\ Xs[nonce] = call.r /\ Ys[nonce] % 2 = 0
                           /\ call.s \in Elements
                           /\ call.hash % N # 0
                           /\ call.s = Schnorr(nonce, call.hash, k)
  <2>3. answer = "InvalidPublicKey" <=> Named(call.prefix, call.x) = {}
    BY <2>1, PopAnswer
  <2>4. answer = "ok" <=> accepted
    BY <2>1, PopAnswer
  <2>5. verdict = answer
    BY <2>2
  <2> HIDE DEF answer, accepted
  <2>6. /\ verdict = "InvalidPublicKey" <=> Named(call.prefix, call.x) = {}
        /\ verdict = "ok" <=> accepted
    BY <2>3, <2>4, <2>5
  <2> QED
    BY <2>6 DEF PopIsSchnorr, Named, accepted
<1> QED
  BY <1>1, Invariance, PTL

(***************************************************************************)
(* A partial signature is confirmed only for the equation it claims, and   *)
(* refused only where that is said (verify_partial_signature_equation).    *)
(***************************************************************************)
THEOREM PartialIsTheEquation == Spec => []PartialIsEquation
<1>1. ASSUME Inv PROVE PartialIsEquation
  <2> SUFFICES ASSUME Answered("partial") PROVE PartialIsEquation
    BY DEF PartialIsEquation
  <2>1. call.x \in Elements /\ call.b \in Bytes /\ call.c \in Bytes /\ call.s \in Bytes
    BY <1>1, CallTypes DEF Inv, Answered
  <2>2. verdict = VerifyPartial(call.x, call.r1, call.r2, call.b, call.c, call.s)
    BY <1>1 DEF Inv, Computed, Answered
  <2> QED
    BY <2>1, <2>2, PartialAnswer DEF PartialIsEquation, Nonce
<1> QED
  BY <1>1, Invariance, PTL

(***************************************************************************)
(* A confirmed triple is the only encoding of its signing evaluation that  *)
(* is confirmed: scalars are canonical and s follows from the others.      *)
(***************************************************************************)
THEOREM EvidenceIsUnique == Spec => []EvidenceCountsOnce
<1>1. ASSUME Inv PROVE EvidenceCountsOnce
  <2> SUFFICES ASSUME Answered("partial"), verdict = "true",
                      NEW b \in Forms(call.b), NEW c \in Forms(call.c), NEW s \in Bytes,
                      VerifyPartial(call.x, call.r1, call.r2, b, c, s) = "true"
               PROVE  <<b, c, s>> = <<call.b, call.c, call.s>>
    BY DEF EvidenceCountsOnce
  <2>1. call.x \in Elements /\ call.b \in Bytes /\ call.c \in Bytes /\ call.s \in Bytes
    BY <1>1, CallTypes DEF Inv, Answered
  <2>2. VerifyPartial(call.x, call.r1, call.r2, call.b, call.c, call.s) = "true"
    BY <1>1 DEF Inv, Computed, Answered
  <2>3. /\ call.b \in Elements /\ call.c \in Elements
        /\ call.s = transcript(Nonce(call.r1), Nonce(call.r2), call.x, call.b, call.c)
    BY <2>1, <2>2, ConfirmedIs
  <2>4. b \in Bytes /\ c \in Bytes /\ b % N = call.b % N /\ c % N = call.c % N
    BY DEF Forms
  <2>5. /\ b \in Elements /\ c \in Elements
        /\ s = transcript(Nonce(call.r1), Nonce(call.r2), call.x, b, c)
    BY <2>1, <2>4, ConfirmedIs
  <2>6. ASSUME NEW v \in Elements PROVE v % N = v
    BY OrderFacts DEF Elements
  <2>7. b = call.b /\ c = call.c
    BY <2>3, <2>4, <2>5, <2>6
  <2> QED
    BY <2>3, <2>5, <2>7
<1> QED
  BY <1>1, Invariance, PTL
=============================================================================
