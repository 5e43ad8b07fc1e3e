------------------------------- MODULE Scalar -------------------------------
(***************************************************************************)
(* mul_mod, mod_pow and inv_mod (scalar.rs) limb by limb: a product is     *)
(* reduced by Barrett's method in four- and five-limb words, and a power   *)
(* is a loop of such products over the bits of its exponent.               *)
(***************************************************************************)
EXTENDS Words

CONSTANTS
  Order,       \* SECP256K1_ORDER, a prime in the upper half of its width
  Factors,     \* the byte strings given to mul_mod, as numbers
  Exponents    \* the exponents given to mod_pow, besides Order - 2

\* Up to three times the order does not fit a fifth limb of one bit.
ASSUME LimbAssumption == LimbBits > 1
ASSUME OrderAssumption == Order \in (Pow(Base, 4) \div 2) + 1 .. Pow(Base, 4) - 1
ASSUME PrimeAssumption == \A d \in 2 .. Order - 1 : Order % d # 0
ASSUME OperandsAssumption == Factors \cup Exponents \subseteq 0 .. Pow(Base, 4) - 1

VARIABLES
  job,           \* what was called, with its operands
  stage,         \* the step to take next
  exp, base,     \* mod_pow: exponent and base, reduced,
  result, seen,  \*   the power so far, and whether a one was met,
  bit,           \*   in the bits of the exponent before this one
  after,         \* where a product goes
  prod, q1, q3,  \* barrett_reduce_mod_n: the product, the estimate,
  r, rounds,     \*   the remainder, and the subtractions made
  answer

loopVars == <<exp, base, result, seen, bit>>
reduction == <<prod, q1, q3, r, rounds>>
vars == <<job, stage, loopVars, after, reduction, answer>>

N4 == LimbsOf(Order, 4)
N5 == LimbsOf(Order, 5)
Mu5 == LimbsOf(Pow(Base, 8) \div Order, 5)
Half == Pow(Base, 4) \div 2
Zero == BytesOf(0)
Jobs == [call : {"mul"}, a : Factors, b : Factors]
        \cup [call : {"pow"}, a : Factors, b : Exponents]
        \cup [call : {"inv"}, a : 0 .. Pow(Base, 4) - 1, b : {Order - 2}]

reduce_mod_n_le(x) == IF IsLess(x, N4) THEN x ELSE Minus(x, N4)

mod_reduce_once(x) == limbs_le_to_be32(reduce_mod_n_le(be32_to_limbs_le(x)))

shr_255_from_512(x) == ShiftRight(x, 3, LimbBits - 1)

\* As a bug: the intermediate is cut to 257 bits before it is folded down.
TruncatedRemainder(p, q) ==
  LET d == Minus(Low(p, 5), Low(mul_limbs(q, N4), 5))
  IN  [d EXCEPT ![4] = @ % 2]

Remainder(p, q) == Minus(Low(p, 5), Low(mul_limbs(q, N4), 5))

IsBelowOrder(x) == IsLess(x, N5)

MinusOrder(x) == Minus(x, N5)

-----------------------------------------------------------------------------
Init ==
  /\ job \in Jobs
  /\ stage = "start" /\ after = "answer" /\ answer = Zero
  /\ exp = Zero /\ base = Zero /\ result = Zero /\ seen = FALSE /\ bit = 0
  /\ prod = LimbsOf(0, 8) /\ rounds = 0
  /\ q1 = LimbsOf(0, 5) /\ q3 = LimbsOf(0, 5) /\ r = LimbsOf(0, 5)

\* mul_mod, up to the reduction of the product.
Multiply(x, y, goal) ==
  /\ prod' = mul_limbs(reduce_mod_n_le(be32_to_limbs_le(x)),
                       reduce_mod_n_le(be32_to_limbs_le(y)))
  /\ rounds' = 0
  /\ q1' = LimbsOf(0, 5) /\ q3' = LimbsOf(0, 5) /\ r' = LimbsOf(0, 5)
  /\ after' = goal
  /\ stage' = "shift"

StartProduct ==
  /\ stage = "start" /\ job.call = "mul"
  /\ Multiply(BytesOf(job.a), BytesOf(job.b), "answer")
  /\ UNCHANGED <<job, loopVars, answer>>

\* inv_mod of zero.
NoInverse ==
  /\ stage = "start" /\ job.call = "inv" /\ BytesOf(job.a) = Zero
  /\ stage' = "none"
  /\ UNCHANGED <<job, loopVars, after, reduction, answer>>

StartPower ==
  /\ stage = "start"
  /\ job.call = "pow" \/ (job.call = "inv" /\ BytesOf(job.a) # Zero)
  /\ exp' = mod_reduce_once(BytesOf(job.b))
  /\ base' = mod_reduce_once(BytesOf(job.a))
  /\ result' = Zero /\ seen' = FALSE /\ bit' = 0
  /\ stage' = "loop"
  /\ UNCHANGED <<job, after, reduction, answer>>

InLoop == stage = "loop" /\ bit < ByteBits * Size
Set == get_bit_be(exp, bit) = 1

LeadingZero ==
  /\ InLoop /\ ~ Set /\ ~ seen
  /\ bit' = bit + 1
  /\ UNCHANGED <<job, stage, exp, base, result, seen, after, reduction, answer>>

LeadingOne ==
  /\ InLoop /\ Set /\ ~ seen
  /\ result' = base /\ seen' = TRUE
  /\ bit' = bit + 1
  /\ UNCHANGED <<job, stage, exp, base, after, reduction, answer>>

Square ==
  /\ InLoop /\ seen
  /\ Multiply(result, result, "square")
  /\ UNCHANGED <<job, loopVars, answer>>

MultiplyByBase ==
  /\ stage = "multiply"
  /\ Multiply(result, base, "product")
  /\ UNCHANGED <<job, loopVars, answer>>

EndPower ==
  /\ stage = "loop" /\ bit = ByteBits * Size
  /\ answer' = IF seen THEN result ELSE [Zero EXCEPT ![Size - 1] = 1]
  /\ stage' = "done"
  /\ UNCHANGED <<job, loopVars, after, reduction>>

-----------------------------------------------------------------------------
(* barrett_reduce_mod_n *)

Shift ==
  /\ stage = "shift"
  /\ q1' = shr_255_from_512(prod)
  /\ stage' = "estimate"
  /\ UNCHANGED <<job, loopVars, after, prod, q3, r, rounds, answer>>

EstimateQuotient ==
  /\ stage = "estimate"
  /\ q3' = ShiftRight(mul_limbs(q1, Mu5), 4, 1)
  /\ stage' = "remainder"
  /\ UNCHANGED <<job, loopVars, after, prod, q1, r, rounds, answer>>

TakeRemainder ==
  /\ stage = "remainder"
  /\ r' = Remainder(prod, q3)
  /\ stage' = "subtract"
  /\ UNCHANGED <<job, loopVars, after, prod, q1, q3, rounds, answer>>

Subtract ==
  /\ stage = "subtract" /\ rounds < 2 /\ ~ IsBelowOrder(r)
  /\ r' = MinusOrder(r)
  /\ rounds' = rounds + 1
  /\ UNCHANGED <<job, stage, loopVars, after, prod, q1, q3, answer>>

\* The loop is over: the low four limbs are handed to whoever asked.
Settle ==
  /\ stage = "subtract" /\ (rounds = 2 \/ IsBelowOrder(r))
  /\ LET residue == limbs_le_to_be32(Low(r, 4))
     IN  \/ /\ after = "answer"
            /\ answer' = residue /\ stage' = "done"
            /\ UNCHANGED <<result, bit>>
         \/ /\ after = "square" /\ Set
            /\ result' = residue /\ stage' = "multiply"
            /\ UNCHANGED <<bit, answer>>
         \/ /\ after = "product" \/ (after = "square" /\ ~ Set)
            /\ result' = residue /\ stage' = "loop" /\ bit' = bit + 1
            /\ UNCHANGED answer
  /\ UNCHANGED <<job, exp, base, seen, after, reduction>>

Reduce == Shift \/ EstimateQuotient \/ TakeRemainder \/ Subtract \/ Settle

Finished == stage \in {"done", "none"} /\ UNCHANGED vars

Next ==
  \/ StartProduct \/ NoInverse \/ StartPower
  \/ LeadingZero \/ LeadingOne \/ Square \/ MultiplyByBase \/ EndPower
  \/ Reduce \/ Finished

Spec == Init /\ [][Next]_vars

-----------------------------------------------------------------------------
Power(x, k) ==
  LET p[i \in 0 .. k] == IF i = 0 THEN 1 ELSE (p[i - 1] * x) % Order IN p[k]

Number(bytes) == Val(be32_to_limbs_le(bytes))

ProductComputed == job.call = "mul" => Number(answer) = (job.a * job.b) % Order

PowerComputed ==
  job.call = "pow" /\ job.b < Order => Number(answer) = Power(job.a, job.b)

InverseComputed ==
  job.call = "inv" /\ job.a % Order # 0 =>
    Number(answer) < Order /\ (Number(answer) * job.a) % Order = 1

(***************************************************************************)
(* mul_mod returns the canonical product of any operands, unreduced ones   *)
(* included; mod_pow the power of any base to an exponent below the order; *)
(* and inv_mod of a scalar that is not zero modulo the order its inverse.  *)
(* Of a greater exponent nothing is said: mod_pow takes the order off it,  *)
(* which is another power.  Its one caller, inv_mod, has no such exponent. *)
(***************************************************************************)
Computes ==
  stage = "done" => ProductComputed /\ PowerComputed /\ InverseComputed

(***************************************************************************)
(* Every reduction, whatever the limbs carry and borrow, is one of the     *)
(* whole-number reductions of Barrett: each word holds the value it should *)
(* at full width, nothing that mattered was shifted or truncated away.     *)
(***************************************************************************)
Numbers == INSTANCE Barrett
  WITH H <- Half, N <- Order, Mu <- (4 * Half * Half) \div Order,
       Products <- 0 .. (Order - 1) * (Order - 1),
       phase <- IF stage \in {"shift", "estimate", "remainder", "subtract"}
                THEN stage ELSE "idle",
       product <- Val(prod), high <- Val(q1), quotient <- Val(q3), rest <- Val(r),
       subtractions <- rounds

ReducesByBarrett == Numbers!BarrettSpec
=============================================================================
