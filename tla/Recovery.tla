------------------------------ MODULE Recovery ------------------------------
(***************************************************************************)
(* The three signature equations that are checked through ECDSA recovery:  *)
(* the aggregate signature (verify.rs, scalar.rs), the proof of possession *)
(* (pop.rs) and the partial signature of nonce-reuse evidence (partial.rs).*)
(*                                                                         *)
(* The curve is external: a group of prime order N whose element k*G is    *)
(* written k, infinity 0, with coordinates Xs[k] and Ys[k].  Recovery      *)
(* reads an x coordinate as a scalar although the field is larger than N,  *)
(* takes only low s, and reads the parity of y from the recovery id.       *)
(* Hashes are external too: a challenge hash may be any byte string.       *)
(***************************************************************************)
EXTENDS Integers

CONSTANTS
  N, P,        \* the orders of the group and of the field
  Top,         \* the largest 32-byte integer
  Xs, Ys,      \* coordinates of k*G, for k in 1 .. N - 1
  Calls        \* the calls that are made

ASSUME OrdersAssumption ==
  /\ N \in Nat /\ P \in Nat /\ Top \in Nat
  /\ N % 2 = 1 /\ P % 2 = 1
  /\ N < P /\ P <= Top /\ Top < 2 * N
ASSUME PrimeAssumption == N > 1 /\ \A d \in 2 .. N - 1 : N % d # 0
ASSUME CurveAssumption ==
  /\ Xs \in [1 .. N - 1 -> 1 .. P - 1] /\ Ys \in [1 .. N - 1 -> 1 .. P - 1]
  /\ \A j, k \in 1 .. N - 1 : Xs[j] = Xs[k] <=> j = k \/ j + k = N
  /\ \A k \in 1 .. N - 1 : Ys[k] + Ys[N - k] = P

Bytes == 0 .. Top
Elements == 1 .. N - 1

\* A Boolean answer.
Boolean(b) == IF b THEN "true" ELSE "false"

ASSUME CallsAssumption ==
  Calls \subseteq
    [kind : {"aggregate"}, key : Elements, hash : Bytes, s : Bytes, commitment : Elements]
    \cup [kind : {"pop"}, prefix : 0 .. 255, x : Bytes, hash : Bytes, r : Bytes, s : Bytes]
    \cup [kind : {"partial"}, x : Elements, r1 : Bytes \X Bytes, r2 : Bytes \X Bytes,
          b : Bytes, c : Bytes, s : Bytes]

VARIABLES
  call,
  verdict   \* "pending", or the answer: an error's name, "true" or "false"

vars == <<call, verdict>>

-----------------------------------------------------------------------------
(* The curve library and the recovery syscall *)

\* The element with these coordinates, 0 when they are off the curve.
ElementAt(x, y) ==
  IF \E k \in Elements : Xs[k] = x /\ Ys[k] = y
  THEN CHOOSE k \in Elements : Xs[k] = x /\ Ys[k] = y ELSE 0

\* The element with this x coordinate and parity of y, 0 if there is none.
Lift(x, parity) ==
  IF \E k \in Elements : Xs[k] = x /\ Ys[k] % 2 = parity
  THEN CHOOSE k \in Elements : Xs[k] = x /\ Ys[k] % 2 = parity ELSE 0

InverseOf(a) == CHOOSE i \in Elements : (i * a) % N = 1

Half == N \div 2

\* secp256k1_recover; 0 is its failure.
Recover(hash, id, r, s) ==
  LET base == Lift(r, id)
  IN  IF r \notin Elements \/ s \notin 1 .. Half \/ base = 0 THEN 0
      ELSE (InverseOf(r) * (s * base - hash)) % N

-----------------------------------------------------------------------------
(* Signers: nonces and secrets are those of the points they make. *)

Schnorr(nonce, hash, secret) == (nonce + hash * secret) % N

transcript(r1, r2, x, b, c) == (r1 + b * r2 + c * x) % N

-----------------------------------------------------------------------------
(* scalar.rs *)

\* The parity that compress_affine puts into the prefix.
Parity(key) == Ys[key] % 2

IsValidNonzero(v) == v # 0 /\ v < N

ReduceBe(v) == IF v < N THEN v ELSE v - N

Negate(v) == IF v = 0 THEN 0 ELSE N - v

MulMod(a, b) == (a * b) % N

\* As a bug: the parity of the recovery id is not flipped.
KeepParity(id, s) == [id |-> id, s |-> IF s > Half THEN N - s ELSE s]

\* secp256k1_ecdsa_normalize_low_s; an s of zero is its error.
NormalizeLowS(id, s) ==
  IF s > Half THEN [id |-> 1 - id, s |-> N - s] ELSE [id |-> id, s |-> s]

\* evm_schnorr_ecdsa_inputs, with the recovery that follows it
\* (recover_and_match).  A zero challenge leaves n as s, then 0, which
\* recovery refuses; the code's own test for zero comes before that.
RecoverAndMatch(key, hash, s, commitment) ==
  LET px == ReduceBe(Xs[key])
      e == N - MulMod(ReduceBe(s), px)
      sEcdsa == N - MulMod(ReduceBe(hash), px)
      low == NormalizeLowS(Parity(key), sEcdsa)
  IN  /\ px # 0 /\ sEcdsa # 0
      /\ Recover(e, low.id, Xs[key], low.s) = commitment

\* verify_aggregate_over_hash_inner, for a coalition key at hand.
VerifyAggregate(key, hash, s, commitment) ==
  IsValidNonzero(s) /\ RecoverAndMatch(key, hash, s, commitment)

-----------------------------------------------------------------------------
(* pop.rs *)

\* normalize_public_key; 0 is InvalidPublicKey.
NormalizePublicKey(prefix, x) ==
  IF prefix \in {2, 3} /\ IsValidNonzero(x) THEN Lift(x, prefix % 2) ELSE 0

\* As a bug: a nonce of either parity is taken.
VerifyPopEitherParity(key, hash, r, s) ==
  LET low == NormalizeLowS(Parity(key), Negate(MulMod(ReduceBe(hash), Xs[key])))
      nonce == Recover(Negate(MulMod(s, Xs[key])), low.id, Xs[key], low.s)
  IN  IsValidNonzero(s) /\ low.s # 0 /\ nonce # 0 /\ Xs[nonce] = r

VerifyPop(key, hash, r, s) ==
  LET expected == Lift(r, 0)
      low == NormalizeLowS(Parity(key), Negate(MulMod(ReduceBe(hash), Xs[key])))
  IN  /\ IsValidNonzero(s) /\ expected # 0 /\ low.s # 0
      /\ Recover(Negate(MulMod(s, Xs[key])), low.id, Xs[key], low.s) = expected

ValidateKeyAndVerifyPop(prefix, x, hash, r, s) ==
  LET key == NormalizePublicKey(prefix, x)
  IN  CASE key = 0 -> "InvalidPublicKey"
        [] key # 0 /\ VerifyPop(key, hash, r, s) -> "ok"
        [] OTHER -> "InvalidProof"

-----------------------------------------------------------------------------
(* partial.rs *)

\* recover_point: s*Base - h*G, both divided by the x coordinate of Base.
RecoverPoint(base, s, hash) ==
  LET low == NormalizeLowS(Parity(base), s)
  IN  IF low.s = 0 THEN 0 ELSE Recover(hash, low.id, Xs[base], low.s)

\* As a bug: scalars need only be nonzero.
AnyScalars(b, c, s) == 0 \notin {ReduceBe(b), ReduceBe(c), ReduceBe(s)}

CanonicalScalars(b, c, s) == \A v \in {b, c, s} : IsValidNonzero(v)

\* As a bug: the left side is s*G + b*R2.
LeftTermAdded(r2, b, s) ==
  RecoverPoint(r2, MulMod(b, Xs[r2]), Negate(MulMod(s, Xs[r2])))

\* s*G - b*R2 from base R2.
LeftTerm(r2, b, s) ==
  RecoverPoint(r2, Negate(MulMod(b, Xs[r2])), Negate(MulMod(s, Xs[r2])))

\* c*X from base X.
RightTerm(x, c) == RecoverPoint(x, MulMod(c, Xs[x]), 0)

VerifyPartial(x, r1, r2, b, c, s) ==
  LET nonce1 == ElementAt(r1[1], r1[2])
      nonce2 == ElementAt(r2[1], r2[2])
      left == LeftTerm(nonce2, b, s)
      right == RightTerm(x, c)
  IN  CASE ~ CanonicalScalars(b, c, s) -> "NonCanonicalScalar"
        [] CanonicalScalars(b, c, s) /\ 0 \in {nonce1, nonce2} -> "InvalidNoncePoint"
        [] OTHER ->
             Boolean(/\ IsValidNonzero(Xs[nonce2]) /\ IsValidNonzero(Xs[x])
                     /\ right # 0 /\ left # 0
                     /\ (nonce1 + right) % N # 0
                     /\ (nonce1 + right) % N = left)

-----------------------------------------------------------------------------
Init == call \in Calls /\ verdict = "pending"

Answer(result) == verdict = "pending" /\ verdict' = result /\ UNCHANGED call

AnswerAggregate ==
  /\ call.kind = "aggregate"
  /\ Answer(Boolean(VerifyAggregate(call.key, call.hash, call.s, call.commitment)))

AnswerPop ==
  /\ call.kind = "pop"
  /\ Answer(ValidateKeyAndVerifyPop(call.prefix, call.x, call.hash, call.r, call.s))

AnswerPartial ==
  /\ call.kind = "partial"
  /\ Answer(VerifyPartial(call.x, call.r1, call.r2, call.b, call.c, call.s))

Next == AnswerAggregate \/ AnswerPop \/ AnswerPartial

Spec == Init /\ [][Next]_vars

-----------------------------------------------------------------------------
Answered(kind) == verdict # "pending" /\ call.kind = kind

(***************************************************************************)
(* recover_and_match is the Schnorr check s*G = R + e*P for the R of the   *)
(* commitment, with three exceptions, all refusals: a key whose x is not a *)
(* scalar, a challenge that is zero, and an s outside 1 .. N - 1.          *)
(***************************************************************************)
AggregateIsSchnorr ==
  Answered("aggregate") =>
    (verdict = "true" <=>
                 /\ call.s \in Elements
                 /\ Xs[call.key] < N
                 /\ call.hash % N # 0
                 /\ call.s = Schnorr(call.commitment, call.hash, call.key))

(***************************************************************************)
(* validate_key_and_verify_pop accepts exactly the canonical proofs: the   *)
(* bytes name one point whose x is a scalar, r the nonce with even y, s is *)
(* in 1 .. N - 1 and s*G = R + e*P, for a challenge that is not zero.  Any *)
(* key that is not such a point is reported as a bad key, whatever the     *)
(* proof.                                                                  *)
(***************************************************************************)
PopIsSchnorr ==
  Answered("pop") =>
    LET keys == {k \in Elements : Xs[k] = call.x /\ Xs[k] < N
                                  /\ call.prefix = 2 + Parity(k)}
    IN  /\ verdict = "InvalidPublicKey" <=> keys = {}
        /\ verdict = "ok" <=>
             \E k \in keys, nonce \in Elements :
               /\ Xs[nonce] = call.r /\ Ys[nonce] % 2 = 0
               /\ call.s \in Elements
               /\ call.hash % N # 0
               /\ call.s = Schnorr(nonce, call.hash, k)

(***************************************************************************)
(* verify_partial_signature_equation confirms only s = r1 + b*r2 + c*x,    *)
(* and refuses it only where it says so: an anchor whose x is not a scalar *)
(* and sides at infinity.  Malformed scalars and nonces are told apart     *)
(* from an equation that fails.                                            *)
(***************************************************************************)
PartialIsEquation ==
  Answered("partial") =>
    LET r1 == ElementAt(call.r1[1], call.r1[2])
        r2 == ElementAt(call.r2[1], call.r2[2])
        canonical == {call.b, call.c, call.s} \subseteq Elements
    IN  /\ verdict = "NonCanonicalScalar" <=> ~ canonical
        /\ verdict = "InvalidNoncePoint" <=> canonical /\ 0 \in {r1, r2}
        /\ verdict = "true" <=>
             /\ canonical /\ 0 \notin {r1, r2}
             /\ Xs[r2] < N /\ Xs[call.x] < N
             /\ call.s = transcript(r1, r2, call.x, call.b, call.c)
             /\ (r1 + call.c * call.x) % N # 0

\* The byte strings that stand for the same scalar.
Forms(v) == {u \in Bytes : u % N = v % N}

(***************************************************************************)
(* One signing evaluation is evidence once: other bytes for the scalars of *)
(* a triple that is confirmed are never confirmed too, so that two         *)
(* different confirmed triples are two evaluations over one nonce.         *)
(***************************************************************************)
EvidenceCountsOnce ==
  Answered("partial") /\ verdict = "true" =>
    \A b \in Forms(call.b), c \in Forms(call.c), s \in Bytes :
      VerifyPartial(call.x, call.r1, call.r2, b, c, s) = "true"
      => <<b, c, s>> = <<call.b, call.c, call.s>>
=============================================================================
