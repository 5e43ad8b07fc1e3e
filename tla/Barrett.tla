------------------------------ MODULE Barrett -------------------------------
(***************************************************************************)
(* Barrett reduction of a product of two scalars (barrett_reduce_mod_n,    *)
(* scalar.rs) on whole numbers: what the limb arithmetic of Scalar must    *)
(* compute.  H is 2^255, so that a scalar is below 2*H and the order N is  *)
(* its upper half; Mu is floor(2^512 / N).                                 *)
(***************************************************************************)
EXTENDS Integers

CONSTANTS
  H, N, Mu,
  Products  \* of two reduced operands

ASSUME HAssumption == H \in Nat \ {0}
ASSUME NAssumption == N \in Nat /\ H < N /\ N < 2 * H
ASSUME MuAssumption == Mu = (4 * H * H) \div N
ASSUME ProductsAssumption == Products \subseteq 0 .. (N - 1) * (N - 1)

VARIABLES
  phase,        \* the step to take next; "idle" between two products
  product,
  high,         \* the high half of the product,
  quotient,     \*   and the estimate of its quotient
  rest,         \* the remainder so far
  subtractions  \* made from it

barrettVars == <<phase, product, high, quotient, rest, subtractions>>

\* As a bug: the shift by 257 taken for one by 256.
LateEstimate(q) == (q * Mu) \div (2 * H)

Estimate(q) == (q * Mu) \div (4 * H)

\* As a bug: the intermediate cut to 257 bits.
TruncatedRest(q) == (product - q * N) % (4 * H)

Rest(q) == product - q * N

MaxRounds == 2

-----------------------------------------------------------------------------
BarrettInit ==
  /\ phase = "idle"
  /\ product = 0 /\ high = 0 /\ quotient = 0 /\ rest = 0 /\ subtractions = 0

Load ==
  /\ phase = "idle"
  /\ product' \in Products
  /\ high' = 0 /\ quotient' = 0 /\ rest' = 0 /\ subtractions' = 0
  /\ phase' = "shift"

Halve ==
  /\ phase = "shift"
  /\ high' = product \div H
  /\ phase' = "estimate"
  /\ UNCHANGED <<product, quotient, rest, subtractions>>

Divide ==
  /\ phase = "estimate"
  /\ quotient' = Estimate(high)
  /\ phase' = "remainder"
  /\ UNCHANGED <<product, high, rest, subtractions>>

TakeRest ==
  /\ phase = "remainder"
  /\ rest' = Rest(quotient)
  /\ phase' = "subtract"
  /\ UNCHANGED <<product, high, quotient, subtractions>>

Correction ==
  /\ phase = "subtract"
  /\ subtractions < MaxRounds /\ rest >= N
  /\ rest' = rest - N
  /\ subtractions' = subtractions + 1
  /\ UNCHANGED <<phase, product, high, quotient>>

Return ==
  /\ phase = "subtract"
  /\ subtractions = MaxRounds \/ rest < N
  /\ phase' = "idle"
  /\ UNCHANGED <<product, high, quotient, rest, subtractions>>

BarrettNext == Load \/ Halve \/ Divide \/ TakeRest \/ Correction \/ Return

BarrettSpec == BarrettInit /\ [][BarrettNext]_barrettVars

-----------------------------------------------------------------------------
(***************************************************************************)
(* The estimate is never above the quotient and at most two below it: the  *)
(* subtraction cannot wrap, three times the order bounds the intermediate, *)
(* and every subtraction takes one N off that bound.                       *)
(***************************************************************************)
InRange == phase = "subtract" => rest \in 0 .. (3 - subtractions) * N - 1

\* What barrett_reduce_mod_n returns is the canonical residue of the product.
Correct == phase = "idle" => rest = product % N
=============================================================================
