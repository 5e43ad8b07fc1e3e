---------------------------- MODULE ClaimsProofs ----------------------------
(***************************************************************************)
(* Facts about bitmaps, key sums and verdicts: bitmaps have a lowest and a *)
(* highest bit, the sum of keys is well defined, adding the key of a bit   *)
(* above all the others extends the sum, which is what the peeling loop    *)
(* does, and the verdict of every call is an answer that is permitted.     *)
(***************************************************************************)
EXTENDS Claims, FiniteSetTheorems, TLAPS

(***************************************************************************)
(* Among any bitmaps there is one that contains no other of them: the form *)
(* in which induction over bitmaps is used below.                          *)
(***************************************************************************)
LEMMA MinimalBitmap ==
  ASSUME NEW Few \in SUBSET SUBSET Bits, Few # {}
  PROVE  \E least \in Few : \A other \in Few : ~ (other \subseteq least /\ other # least)
<1>1. IsFiniteSet(Bits)
  BY FS_Interval, SlotsAssumption DEF Bits
<1>2. IsWellFoundedOn(StrictSubsetOrdering(Bits), SUBSET Bits)
  BY <1>1, FS_StrictSubsetOrderingWellFounded, FS_FiniteSubsetsOfFinite
<1>3. \E least \in Few : \A other \in Few : <<other, least>> \notin StrictSubsetOrdering(Bits)
  BY <1>2, WFMin
<1> QED
  BY <1>3 DEF StrictSubsetOrdering

(***************************************************************************)
(* A non-empty bitmap has a highest and a lowest bit.                      *)
(***************************************************************************)
LEMMA HighestExists ==
  ASSUME NEW bitmap \in SUBSET Bits, bitmap # {}
  PROVE  Highest(bitmap) \in bitmap /\ \A other \in bitmap : other <= Highest(bitmap)
<1> DEFINE HasTop(set) == \E bit \in set : \A other \in set : other <= bit
<1> DEFINE Few == {set \in SUBSET Bits : set # {} /\ ~ HasTop(set)}
<1>1. Few = {}
  <2> SUFFICES ASSUME Few # {} PROVE FALSE
    OBVIOUS
  <2>0. Few \in SUBSET SUBSET Bits
    OBVIOUS
  <2>1. PICK least \in Few : \A other \in Few : ~ (other \subseteq least /\ other # least)
    <3> HIDE DEF Few
    <3> QED
      BY <2>0, MinimalBitmap
  <2>2. PICK bit \in least : TRUE
    OBVIOUS
  <2>3. least \ {bit} # {}
    BY <2>2 DEF Bits
  <2>4. least \ {bit} \notin Few
    BY <2>1, <2>2
  <2>5. PICK top \in least \ {bit} : \A other \in least \ {bit} : other <= top
    BY <2>3, <2>4
  <2>6. HasTop(least)
    <3>1. CASE bit <= top
      BY <3>1, <2>5
    <3>2. CASE top < bit
      BY <3>2, <2>2, <2>5 DEF Bits
    <3> QED
      BY <3>1, <3>2, <2>2, <2>5 DEF Bits
  <2> QED
    BY <2>6
<1>2. HasTop(bitmap)
  BY <1>1
<1> QED
  BY <1>2 DEF Highest

(***************************************************************************)
(* Likewise for the lowest bit, the one the peeling loop takes.            *)
(***************************************************************************)
LEMMA LowestExists ==
  ASSUME NEW bitmap \in SUBSET Bits, bitmap # {}
  PROVE  Lowest(bitmap) \in bitmap /\ \A other \in bitmap : Lowest(bitmap) <= other
<1> DEFINE HasBottom(set) == \E bit \in set : \A other \in set : bit <= other
<1> DEFINE Few == {set \in SUBSET Bits : set # {} /\ ~ HasBottom(set)}
<1>1. Few = {}
  <2> SUFFICES ASSUME Few # {} PROVE FALSE
    OBVIOUS
  <2>0. Few \in SUBSET SUBSET Bits
    OBVIOUS
  <2>1. PICK least \in Few : \A other \in Few : ~ (other \subseteq least /\ other # least)
    <3> HIDE DEF Few
    <3> QED
      BY <2>0, MinimalBitmap
  <2>2. PICK bit \in least : TRUE
    OBVIOUS
  <2>3. least \ {bit} # {}
    BY <2>2 DEF Bits
  <2>4. least \ {bit} \notin Few
    BY <2>1, <2>2
  <2>5. PICK bottom \in least \ {bit} : \A other \in least \ {bit} : bottom <= other
    BY <2>3, <2>4
  <2>6. HasBottom(least)
    <3>1. CASE bottom <= bit
      BY <3>1, <2>5
    <3>2. CASE bit < bottom
      BY <3>2, <2>2, <2>5 DEF Bits
    <3> QED
      BY <3>1, <3>2, <2>2, <2>5 DEF Bits
  <2> QED
    BY <2>6
<1>2. HasBottom(bitmap)
  BY <1>1
<1> QED
  BY <1>2 DEF Lowest

(***************************************************************************)
(* The highest bit is the one that no other exceeds.                       *)
(***************************************************************************)
LEMMA HighestIs ==
  ASSUME NEW bitmap \in SUBSET Bits, NEW bit \in bitmap,
         \A other \in bitmap : other <= bit
  PROVE  Highest(bitmap) = bit
<1>1. Highest(bitmap) \in bitmap /\ \A other \in bitmap : other <= Highest(bitmap)
  BY HighestExists
<1>2. Highest(bitmap) \in Bits /\ bit \in Bits
  BY <1>1
<1>3. Highest(bitmap) <= bit /\ bit <= Highest(bitmap)
  BY <1>1
<1> QED
  BY <1>2, <1>3, SlotsAssumption DEF Bits

-----------------------------------------------------------------------------
(***************************************************************************)
(* The recursive equation of the key sum has a solution.                   *)
(***************************************************************************)
Solves(view, sum, domain) ==
  sum = [set \in domain |->
           IF set = {} THEN Infinity
           ELSE Plus(sum[set \ {Highest(set)}], Signer(view, Highest(set)).key)]

\* A function that solves the recursion exists over all bitmaps.
LEMMA SumExists ==
  ASSUME NEW view
  PROVE  \E sum : Solves(view, sum, SUBSET Bits)
<1> DEFINE Few == {top \in SUBSET Bits : ~ \E sum : Solves(view, sum, SUBSET top)}
<1> SUFFICES ASSUME Few # {} PROVE FALSE
  OBVIOUS
<1>0. Few \in SUBSET SUBSET Bits
  OBVIOUS
<1>1. PICK least \in Few : \A other \in Few : ~ (other \subseteq least /\ other # least)
  <2> HIDE DEF Few
  <2> QED
    BY <1>0, MinimalBitmap
<1>2. CASE least = {}
  <2>1. Solves(view, [set \in SUBSET {} |-> Infinity], SUBSET {})
    BY DEF Solves
  <2> QED
    BY <1>1, <1>2, <2>1
<1>3. CASE least # {}
  <2> DEFINE high == Highest(least)
  <2> DEFINE below == least \ {high}
  <2>1. high \in least /\ \A other \in least : other <= high
    BY <1>3, HighestExists
  <2>2. below \in SUBSET Bits /\ below \notin Few
    BY <1>1, <2>1
  <2>3. PICK part : Solves(view, part, SUBSET below)
    BY <2>2
  <2> DEFINE whole == [set \in SUBSET least |->
                         IF high \notin set THEN part[set]
                         ELSE Plus(part[set \ {high}], Signer(view, high).key)]
  <2>4. ASSUME NEW set \in SUBSET least
        PROVE  whole[set] = IF set = {} THEN Infinity
                            ELSE Plus(whole[set \ {Highest(set)}], Signer(view, Highest(set)).key)
    <3>1. CASE high \in set
      <4>1. Highest(set) = high
        BY <2>1, <3>1, HighestIs
      <4>2. whole[set] = Plus(part[set \ {high}], Signer(view, high).key)
        BY <3>1
      <4>3. whole[set \ {high}] = part[set \ {high}]
        OBVIOUS
      <4> QED
        BY <3>1, <4>1, <4>2, <4>3
    <3>2. CASE high \notin set
      <4>1. set \in SUBSET below /\ whole[set] = part[set]
        BY <3>2
      <4>2. part[set] = IF set = {} THEN Infinity
                        ELSE Plus(part[set \ {Highest(set)}], Signer(view, Highest(set)).key)
        BY <4>1, <2>3 DEF Solves
      <4>3. whole[set \ {Highest(set)}] = part[set \ {Highest(set)}]
        BY <3>2
      <4> QED
        BY <4>1, <4>2, <4>3
    <3> QED
      BY <3>1, <3>2
  <2>5. Solves(view, whole, SUBSET least)
    BY <2>4 DEF Solves
  <2> QED
    BY <1>1, <2>5
<1> QED
  BY <1>2, <1>3

(***************************************************************************)
(* The sum of the keys at the bits of a set satisfies its equation.        *)
(***************************************************************************)
LEMMA KeySumEquation ==
  ASSUME NEW view, NEW bitmap \in SUBSET Bits
  PROVE  KeySum(view, bitmap) =
           IF bitmap = {} THEN Infinity
           ELSE Plus(KeySum(view, bitmap \ {Highest(bitmap)}), Signer(view, Highest(bitmap)).key)
<1> DEFINE chosen == CHOOSE sum : Solves(view, sum, SUBSET Bits)
<1>1. Solves(view, chosen, SUBSET Bits)
  BY SumExists
<1>2. \A set : KeySum(view, set) = chosen[set]
  BY DEF KeySum, Solves
<1>3. chosen[bitmap] =
        IF bitmap = {} THEN Infinity
        ELSE Plus(chosen[bitmap \ {Highest(bitmap)}], Signer(view, Highest(bitmap)).key)
  BY <1>1 DEF Solves
<1> HIDE DEF chosen
<1> QED
  BY <1>2, <1>3

(***************************************************************************)
(* One step of the peeling loop: the key of a bit above all the others is  *)
(* added to their sum.                                                     *)
(***************************************************************************)
LEMMA KeySumExtends ==
  ASSUME NEW view, NEW bitmap \in SUBSET Bits, NEW bit \in Bits,
         \A other \in bitmap : other < bit
  PROVE  KeySum(view, bitmap \cup {bit}) = Plus(KeySum(view, bitmap), Signer(view, bit).key)
<1>1. Highest(bitmap \cup {bit}) = bit
  BY HighestIs DEF Bits
<1>2. (bitmap \cup {bit}) \ {bit} = bitmap
  BY DEF Bits
<1> QED
  BY <1>1, <1>2, KeySumEquation

(***************************************************************************)
(* The sum of keys that are points is a point.                             *)
(***************************************************************************)
LEMMA KeySumTyped ==
  ASSUME NEW view, NEW bitmap \in SUBSET Bits,
         \A bit \in bitmap : Signer(view, bit).key \in Points
  PROVE  KeySum(view, bitmap) \in Points
<1> DEFINE Few == {set \in SUBSET bitmap : KeySum(view, set) \notin Points}
<1> SUFFICES ASSUME Few # {} PROVE FALSE
  OBVIOUS
<1>1. Few \in SUBSET SUBSET Bits
  OBVIOUS
<1>2. PICK least \in Few : \A other \in Few : ~ (other \subseteq least /\ other # least)
  <2> HIDE DEF Few
  <2> QED
    BY <1>1, MinimalBitmap
<1>3. least \in SUBSET bitmap /\ least \in SUBSET Bits
  BY <1>2
<1>4. CASE least = {}
  <2>1. KeySum(view, least) = Infinity
    BY <1>3, <1>4, KeySumEquation
  <2> QED
    BY <1>2, <2>1, OrderAssumption DEF Infinity, Points
<1>5. CASE least # {}
  <2>1. Highest(least) \in least
    BY <1>3, <1>5, HighestExists
  <2>2. least \ {Highest(least)} \in SUBSET bitmap /\ least \ {Highest(least)} \notin Few
    BY <1>2, <2>1
  <2>3. KeySum(view, least \ {Highest(least)}) \in Points /\ Signer(view, Highest(least)).key \in Points
    BY <1>3, <2>1, <2>2
  <2>4. KeySum(view, least) =
          Plus(KeySum(view, least \ {Highest(least)}), Signer(view, Highest(least)).key)
    BY <1>3, <1>5, KeySumEquation
  <2>5. \A p, q \in Points : Plus(p, q) \in Points
    BY OrderAssumption DEF Plus, Points
  <2> QED
    BY <1>2, <2>3, <2>4, <2>5
<1> QED
  BY <1>4, <1>5

-----------------------------------------------------------------------------
(***************************************************************************)
(* What is given: a snapshot and an attestation.                           *)
(***************************************************************************)
Inputs == registry \in View /\ attestation \in Attestation

(***************************************************************************)
(* The record that a bit resolves to has a point, or no usable key.        *)
(***************************************************************************)
LEMMA SignerTyped ==
  ASSUME NEW view \in View, NEW bit \in Bits, Resolves(view, bit)
  PROVE  Signer(view, bit) \in Entry /\ Signer(view, bit).key \in Points
<1>1. view.nodes \in Table /\ view.providers \in Table
  BY DEF View
<1>2. \A table \in Table : \A slot \in DOMAIN table : table[slot] \in Entry
  BY DEF Table
<1>3. Segment(view, bit).table \in Table
  BY <1>1 DEF Segment
<1>4. Segment(view, bit).slot \in DOMAIN Segment(view, bit).table
  BY DEF Resolves
<1>5. Signer(view, bit) \in Entry
  BY <1>2, <1>3, <1>4 DEF Signer
<1> QED
  BY <1>5 DEF Entry

(***************************************************************************)
(* The snapshot and the attestation are what their types say.              *)
(***************************************************************************)
LEMMA InputTypes ==
  ASSUME Inputs
  PROVE  /\ registry \in View /\ attestation \in Attestation
         /\ attestation.signers \in SUBSET Bits
         /\ attestation.payload.required \in Nat
         /\ \A bit \in Bits : Resolves(registry, bit) => Signer(registry, bit).key \in Points
<1>1. registry \in View /\ attestation \in Attestation
  BY DEF Inputs
<1>2. attestation.signers \in SUBSET Bits /\ attestation.payload \in Payloads
  BY <1>1 DEF Attestation
<1>3. attestation.payload.required \in Nat
  BY <1>2, PayloadAssumption
<1> QED
  BY <1>1, <1>2, <1>3, SignerTyped

(***************************************************************************)
(* What depends on the snapshot and the attestation alone does not change. *)
(***************************************************************************)
LEMMA Fixed ==
  ASSUME UNCHANGED <<registry, attestation>>
  PROVE  /\ AllLive' = AllLive /\ AllParse' = AllParse /\ Coalition' = Coalition
         /\ QuorumMet' = QuorumMet /\ CallsAllowed' = CallsAllowed
         /\ \A hint : HintFits(hint)' = HintFits(hint)
         /\ \A point, message : Recovers(point, message)' = Recovers(point, message)
         /\ \A call : Permitted(call)' = Permitted(call) /\ Verdict(call)' = Verdict(call)
<1>1. AllLive' = AllLive
  BY DEF AllLive
<1>2. AllParse' = AllParse
  BY DEF AllParse
<1>3. Coalition' = Coalition
  BY DEF Coalition
<1>4. WellFormed' = WellFormed
  BY <1>1, <1>2, <1>3 DEF WellFormed
<1>5. \A message : Genuine(message)' = Genuine(message)
  BY <1>3, <1>4 DEF Genuine
<1>6. \A hint : HintFits(hint)' = HintFits(hint)
  BY <1>3 DEF HintFits
<1>7. QuorumMet' = QuorumMet
  BY DEF QuorumMet
<1>8. \A account : ProviderSigned(account)' = ProviderSigned(account)
  BY DEF ProviderSigned
<1>9. \A call : Deserved(call)' = Deserved(call)
  BY <1>5, <1>6, <1>7, <1>8 DEF Deserved
<1>10. \A call, answer : Cause(call, answer)' = Cause(call, answer)
  BY <1>1, <1>2, <1>3, <1>4, <1>5, <1>6, <1>7, <1>8 DEF Cause, Disputable
<1>11. CallsAllowed' = CallsAllowed
  BY DEF CallsAllowed, OwnMessage
<1>12. \A point, message : Recovers(point, message)' = Recovers(point, message)
  BY DEF Recovers
<1>13. \A call : Permitted(call)' = Permitted(call)
  BY <1>9, <1>10 DEF Permitted
<1>14. CheckedVersion' = CheckedVersion /\ \A op : CheckedScalar(op)' = CheckedScalar(op)
  BY DEF CheckedVersion, CheckedScalar
<1>15. Resolved' = Resolved /\ Accumulated' = Accumulated
  BY <1>1 DEF Resolved, Accumulated, Unusable
<1>16. \A op, hint, message :
         SignatureAnswer(op, hint, message)' = SignatureAnswer(op, hint, message)
  BY <1>3, <1>12 DEF SignatureAnswer
<1>17. \A call : VerifyVerdict(call)' = VerifyVerdict(call)
  BY <1>14, <1>15, <1>16 DEF VerifyVerdict
<1>18. \A bits, account : FindProvider(bits, account)' = FindProvider(bits, account)
  BY DEF FindProvider
<1>19. \A call : Verdict(call)' = Verdict(call)
  BY <1>14, <1>15, <1>16, <1>17, <1>18 DEF Verdict
<1> QED
  BY <1>1, <1>2, <1>3, <1>6, <1>7, <1>11, <1>12, <1>13, <1>19

-----------------------------------------------------------------------------
(***************************************************************************)
(* The verdict of every call is permitted.                                 *)
(***************************************************************************)

(***************************************************************************)
(* An answer with its cause is permitted when the call deserves no other.  *)
(***************************************************************************)
LEMMA CausedIsPermitted ==
  ASSUME NEW call, NEW answer \in {"false"} \cup Errors,
         ~ Deserved(call), Cause(call, answer)
  PROVE  answer \in Permitted(call)
BY DEF Permitted

(***************************************************************************)
(* The answers of the checks before the sum.                               *)
(***************************************************************************)
LEMMA EarlyAnswers ==
  ASSUME NEW call
  PROVE  /\ (call.op \notin Disputes /\ attestation.payload.version # registry.version)
              => "InvalidRegistryVersion" \in Permitted(call)
         /\ (attestation.signers = {} \/ ~ AllLive) => "InvalidSignersBitmap" \in Permitted(call)
         /\ (Disputable(call) \/ call.op \notin Disputes)
              => /\ ~ Genuine(call.message) => Mismatch(call.op) \in Permitted(call)
                 /\ ~ attestation.scalarValid => Mismatch(call.op) \in Permitted(call)
<1>1. ASSUME call.op \notin Disputes, attestation.payload.version # registry.version
      PROVE  "InvalidRegistryVersion" \in Permitted(call)
  BY <1>1, CausedIsPermitted DEF Deserved, Cause, Errors
<1>2. ASSUME attestation.signers = {} \/ ~ AllLive
      PROVE  "InvalidSignersBitmap" \in Permitted(call)
  BY <1>2, CausedIsPermitted DEF Deserved, Genuine, WellFormed, Cause, Errors
<1>3. ASSUME ~ Genuine(call.message), Disputable(call) \/ call.op \notin Disputes
      PROVE  Mismatch(call.op) \in Permitted(call)
  BY <1>3, CausedIsPermitted DEF Deserved, Cause, Errors, Mismatch
<1>4. ~ attestation.scalarValid => ~ Genuine(call.message)
  BY DEF Genuine
<1> QED
  BY <1>1, <1>2, <1>3, <1>4

(***************************************************************************)
(* An error of the quorum check is permitted to the operations that make   *)
(* it.                                                                     *)
(***************************************************************************)
LEMMA QuorumAnswers ==
  ASSUME Inputs, NEW call, call.op \notin Disputes,
         CheckQuorum(attestation.signers, attestation.payload.required) # "pass"
  PROVE  CheckQuorum(attestation.signers, attestation.payload.required) \in Permitted(call)
<1> DEFINE signers == attestation.signers
<1> DEFINE required == attestation.payload.required
<1>0. required \in Nat /\ IsFiniteSet(signers) /\ IsFiniteSet(ProviderBits(signers))
  <2>1. IsFiniteSet(Bits)
    BY FS_Interval, SlotsAssumption DEF Bits
  <2>2. signers \in SUBSET Bits /\ ProviderBits(signers) \in SUBSET signers
    BY InputTypes DEF ProviderBits
  <2> QED
    BY <2>1, <2>2, FS_Subset, InputTypes
<1>1. Cardinality(signers) \in Nat /\ Cardinality(ProviderBits(signers)) \in Nat
  BY <1>0, FS_CardinalityType
<1>2. CASE signers = {}
  BY <1>2, EarlyAnswers DEF CheckQuorum
<1>3. CASE signers # {} /\ required = 0
  <2>1. ~ Deserved(call)
    BY <1>0, <1>3 DEF Deserved, QuorumMet
  <2> QED
    BY <1>3, <2>1, CausedIsPermitted DEF CheckQuorum, Cause, Errors
<1>4. CASE signers # {} /\ required # 0 /\ Cardinality(ProviderBits(signers)) > 1
  <2>1. ~ Deserved(call)
    BY <1>1, <1>4 DEF Deserved, QuorumMet
  <2> QED
    BY <1>4, <2>1, CausedIsPermitted DEF CheckQuorum, Cause, Errors
<1>5. CASE /\ signers # {} /\ required # 0 /\ ~ Cardinality(ProviderBits(signers)) > 1
           /\ Cardinality(signers) < required
  <2>1. ~ Deserved(call)
    BY <1>0, <1>1, <1>5 DEF Deserved, QuorumMet
  <2> QED
    BY <1>5, <2>1, CausedIsPermitted DEF CheckQuorum, Cause, Errors
<1> QED
  BY <1>2, <1>3, <1>4, <1>5 DEF CheckQuorum

(***************************************************************************)
(* What a passed quorum check establishes.                                 *)
(***************************************************************************)
LEMMA QuorumPass ==
  ASSUME Inputs, CheckQuorum(attestation.signers, attestation.payload.required) = "pass"
  PROVE  QuorumMet /\ attestation.signers # {}
<1> DEFINE signers == attestation.signers
<1>1. attestation.payload.required \in Nat
  BY InputTypes
<1>2. IsFiniteSet(signers) /\ IsFiniteSet(ProviderBits(signers))
  <2>1. IsFiniteSet(Bits)
    BY FS_Interval, SlotsAssumption DEF Bits
  <2>2. signers \in SUBSET Bits /\ ProviderBits(signers) \in SUBSET signers
    BY InputTypes DEF ProviderBits
  <2> QED
    BY <2>1, <2>2, FS_Subset
<1>3. Cardinality(signers) \in Nat /\ Cardinality(ProviderBits(signers)) \in Nat
  BY <1>2, FS_CardinalityType
<1> QED
  BY <1>1, <1>3 DEF CheckQuorum, QuorumMet

(***************************************************************************)
(* The answers of the loop, the key check, the signature and the provider. *)
(***************************************************************************)
LEMMA LoopAnswers ==
  ASSUME NEW call, NEW bit \in attestation.signers
  PROVE  /\ ~ Resolves(registry, bit) => "InvalidSignersBitmap" \in Permitted(call)
         /\ (Resolves(registry, bit) /\ Signer(registry, bit).key = Unparsable)
              => "InvalidAggregateSignature" \in Permitted(call)
<1>1. ~ Resolves(registry, bit) => ~ AllLive
  BY DEF AllLive
<1>2. ASSUME Resolves(registry, bit), Signer(registry, bit).key = Unparsable
      PROVE  "InvalidAggregateSignature" \in Permitted(call)
  <2>1. ~ Deserved(call)
    BY <1>2 DEF Deserved, Genuine, WellFormed, AllParse
  <2>2. Cause(call, "InvalidAggregateSignature")
    BY <1>2 DEF Cause
  <2> QED
    BY <2>1, <2>2, CausedIsPermitted DEF Errors
<1> QED
  BY <1>1, <1>2, EarlyAnswers

(***************************************************************************)
(* An error of the key check is permitted, once every signer is known to   *)
(* be a live member with a usable key.                                     *)
(***************************************************************************)
LEMMA KeyAnswers ==
  ASSUME NEW call, attestation.signers # {}, AllLive, AllParse,
         CheckCoalitionKey(Coalition, TRUE, call.hint) # "pass"
  PROVE  CheckCoalitionKey(Coalition, TRUE, call.hint) \in Permitted(call)
<1>1. CASE Coalition = Infinity
  <2>1. ~ Deserved(call) /\ Cause(call, "InvalidAggregateSignature")
    BY <1>1 DEF Deserved, Genuine, WellFormed, Cause
  <2> QED
    BY <1>1, <2>1, CausedIsPermitted DEF CheckCoalitionKey, Errors
<1>2. CASE Coalition # Infinity
  <2>1. call.hint # NoHint /\ call.hint # Coalition
    BY <1>2 DEF CheckCoalitionKey
  <2>2. ~ Deserved(call) /\ Cause(call, "InvalidCoalitionKey")
    BY <1>2, <2>1 DEF Deserved, HintFits, WellFormed, Cause
  <2> QED
    BY <1>2, <2>1, <2>2, CausedIsPermitted DEF CheckCoalitionKey, Errors
<1> QED
  BY <1>1, <1>2

\* All the checks but the signature have passed.
Checked(call) ==
  /\ WellFormed /\ attestation.scalarValid /\ HintFits(call.hint)
  /\ call.op \notin Disputes =>
       QuorumMet /\ attestation.payload.version = registry.version

(***************************************************************************)
(* When all the other checks have passed, the signature decides: a         *)
(* mismatch is an adverse answer, and a match a positive one unless the    *)
(* provider is still to be found.                                          *)
(***************************************************************************)
LEMMA SignatureAnswers ==
  ASSUME NEW call, Checked(call)
  PROVE  /\ ~ Recovers(Coalition, call.message) => Mismatch(call.op) \in Permitted(call)
         /\ (Recovers(Coalition, call.message) /\ call.op # "provenance")
              => Matched(call.op) \in Permitted(call)
<1>1. /\ Recovers(Coalition, call.message) <=> Genuine(call.message)
      /\ Disputable(call)
  BY DEF Recovers, Genuine, Checked, WellFormed, Disputable
<1>2. (Genuine(call.message) /\ call.op # "provenance") => Deserved(call)
  BY DEF Deserved, Checked
<1>3. Deserved(call) => Matched(call.op) \in Permitted(call)
  BY DEF Matched, Permitted
<1> QED
  BY <1>1, <1>2, <1>3, EarlyAnswers

(***************************************************************************)
(* After a match, the answer of the provider loop is the one deserved.     *)
(***************************************************************************)
LEMMA ProviderAnswers ==
  ASSUME NEW call, call.op = "provenance", Checked(call), Recovers(Coalition, call.message)
  PROVE  FindProvider(ProviderBits(attestation.signers), call.provider) \in Permitted(call)
<1>1. Genuine(call.message) /\ QuorumMet
  BY DEF Recovers, Genuine, Checked, Disputes
<1>2. \A bit \in ProviderBits(attestation.signers) : Resolves(registry, bit)
  BY DEF ProviderBits, Checked, WellFormed, AllLive
<1>3. CASE ProviderSigned(call.provider)
  <2>1. Deserved(call)
    BY <1>1, <1>3 DEF Deserved, Checked
  <2>2. FindProvider(ProviderBits(attestation.signers), call.provider) = "ok"
    BY <1>2, <1>3 DEF FindProvider, ProviderSigned
  <2> QED
    BY <2>1, <2>2 DEF Permitted, Disputes
<1>4. CASE ~ ProviderSigned(call.provider)
  <2>1. ~ Deserved(call) /\ Cause(call, "ProviderAbsent")
    BY <1>1, <1>4 DEF Deserved, Cause
  <2>2. FindProvider(ProviderBits(attestation.signers), call.provider) = "ProviderAbsent"
    BY <1>2, <1>4 DEF FindProvider, ProviderSigned
  <2> QED
    BY <2>1, <2>2, CausedIsPermitted DEF Errors
<1> QED
  BY <1>3, <1>4

(***************************************************************************)
(* Conversely, nothing that the quorum asks for is refused.                *)
(***************************************************************************)
LEMMA QuorumPasses ==
  ASSUME Inputs, QuorumMet, attestation.signers # {}
  PROVE  CheckQuorum(attestation.signers, attestation.payload.required) = "pass"
<1> DEFINE signers == attestation.signers
<1>1. attestation.payload.required \in Nat
  BY InputTypes
<1>2. IsFiniteSet(signers) /\ IsFiniteSet(ProviderBits(signers))
  <2>1. IsFiniteSet(Bits)
    BY FS_Interval, SlotsAssumption DEF Bits
  <2>2. signers \in SUBSET Bits /\ ProviderBits(signers) \in SUBSET signers
    BY InputTypes DEF ProviderBits
  <2> QED
    BY <2>1, <2>2, FS_Subset
<1>3. Cardinality(signers) \in Nat /\ Cardinality(ProviderBits(signers)) \in Nat
  BY <1>2, FS_CardinalityType
<1> QED
  BY <1>1, <1>3 DEF CheckQuorum, QuorumMet

(***************************************************************************)
(* The keys add up without an error exactly when every signer is a live    *)
(* member with a usable key; otherwise the error is the one of the lowest  *)
(* bit that is not.                                                        *)
(***************************************************************************)
LEMMA AccumulatedCases ==
  ASSUME Inputs
  PROVE  /\ Accumulated = "pass" <=> attestation.signers # {} /\ AllLive /\ AllParse
         /\ attestation.signers = {} => Accumulated = "InvalidSignersBitmap"
         /\ \A bit \in attestation.signers :
              (\A other \in attestation.signers :
                 other < bit => /\ Resolves(registry, other)
                               /\ Signer(registry, other).key # Unparsable)
              => /\ ~ Resolves(registry, bit) => Accumulated = "InvalidSignersBitmap"
                 /\ (Resolves(registry, bit) /\ Signer(registry, bit).key = Unparsable)
                      => Accumulated = "InvalidAggregateSignature"
<1>1. Unusable = {} <=> AllLive /\ AllParse
  BY DEF Unusable, AllLive, AllParse
<1>2. Accumulated = "pass" <=> attestation.signers # {} /\ Unusable = {}
  BY DEF Accumulated
<1>3. ASSUME NEW bit \in Unusable,
             \A other \in attestation.signers : other < bit => other \notin Unusable
      PROVE  Lowest(Unusable) = bit
  <2>1. Unusable \in SUBSET Bits /\ Unusable # {} /\ Unusable \subseteq attestation.signers
    BY <1>3, InputTypes DEF Unusable
  <2>2. Lowest(Unusable) \in Unusable /\ Lowest(Unusable) <= bit
    BY <1>3, <2>1, LowestExists
  <2>3. ~ Lowest(Unusable) < bit
    BY <1>3, <2>1, <2>2
  <2>4. bit \in Bits /\ Lowest(Unusable) \in Bits
    BY <2>1, <2>2
  <2>5. \A one, other \in Bits : other <= one /\ ~ other < one => other = one
    BY SlotsAssumption DEF Bits
  <2> QED
    BY <2>2, <2>3, <2>4, <2>5
<1>4. ASSUME NEW bit \in attestation.signers,
             \A other \in attestation.signers :
                other < bit => /\ Resolves(registry, other)
                              /\ Signer(registry, other).key # Unparsable
      PROVE  /\ ~ Resolves(registry, bit) => Accumulated = "InvalidSignersBitmap"
             /\ (Resolves(registry, bit) /\ Signer(registry, bit).key = Unparsable)
                  => Accumulated = "InvalidAggregateSignature"
  <2>1. \A other \in attestation.signers : other < bit => other \notin Unusable
    BY <1>4 DEF Unusable
  <2>2. (~ Resolves(registry, bit) \/ Signer(registry, bit).key = Unparsable) <=> bit \in Unusable
    BY DEF Unusable
  <2>3. bit \in Unusable => Lowest(Unusable) = bit
    BY <1>3, <2>1
  <2> QED
    BY <2>2, <2>3 DEF Accumulated
<1> QED
  BY <1>1, <1>2, <1>4 DEF Accumulated

(***************************************************************************)
(* An error of the accumulation is permitted.                              *)
(***************************************************************************)
LEMMA AccumulationAnswers ==
  ASSUME Inputs, NEW call, Accumulated # "pass"
  PROVE  Accumulated \in Permitted(call)
<1>1. CASE attestation.signers = {}
  BY <1>1, EarlyAnswers DEF Accumulated
<1>2. CASE attestation.signers # {}
  <2>1. Unusable # {} /\ Unusable \in SUBSET Bits
    BY <1>2, InputTypes DEF Accumulated, Unusable
  <2>2. Lowest(Unusable) \in Unusable
    BY <2>1, LowestExists
  <2> QED
    BY <1>2, <2>1, <2>2, LoopAnswers DEF Accumulated, Unusable
<1> QED
  BY <1>1, <1>2

(***************************************************************************)
(* Once the signers are members with usable keys and the scalar is one, the*)
(* key check and the signature decide, and their answers are permitted.    *)
(***************************************************************************)
LEMMA FinalAnswers ==
  ASSUME Inputs, NEW call, Accumulated = "pass", attestation.scalarValid,
         call.op \notin Disputes =>
           QuorumMet /\ attestation.payload.version = registry.version
  PROVE  LET answer == SignatureAnswer(call.op, call.hint, call.message)
         IN  /\ answer # "pass" => answer \in Permitted(call)
             /\ answer = "pass" => Checked(call) /\ Recovers(Coalition, call.message)
<1>1. attestation.signers # {} /\ AllLive /\ AllParse
  BY AccumulatedCases
<1>2. CASE CheckCoalitionKey(Coalition, TRUE, call.hint) # "pass"
  BY <1>1, <1>2, KeyAnswers DEF SignatureAnswer, Then
<1>3. CASE CheckCoalitionKey(Coalition, TRUE, call.hint) = "pass"
  <2>1. Coalition # Infinity /\ HintFits(call.hint)
    BY <1>3 DEF CheckCoalitionKey, HintFits
  <2>2. Checked(call)
    BY <1>1, <2>1 DEF Checked, WellFormed
  <2>3. SignatureAnswer(call.op, call.hint, call.message) =
          IF Recovers(Coalition, call.message) THEN "pass" ELSE Mismatch(call.op)
    BY <1>3 DEF SignatureAnswer, Then
  <2> QED
    BY <2>2, <2>3, SignatureAnswers DEF Mismatch
<1> QED
  BY <1>2, <1>3

(***************************************************************************)
(* Every entry point gives an answer that the attestation justifies: the   *)
(* verdict, which the order of the checks determines, is permitted.        *)
(***************************************************************************)
THEOREM VerdictIsPermitted ==
  ASSUME Inputs, NEW call, call.op \in Ops
  PROVE  Verdict(call) \in Permitted(call)
<1> DEFINE answer == SignatureAnswer(call.op, call.hint, call.message)
<1> DEFINE quorum == CheckQuorum(attestation.signers, attestation.payload.required)
<1>1. /\ ~ AllLive => "InvalidSignersBitmap" \in Permitted(call)
      /\ (Disputable(call) \/ call.op \notin Disputes) /\ ~ attestation.scalarValid
           => Mismatch(call.op) \in Permitted(call)
  BY EarlyAnswers
<1>2. Accumulated # "pass" => Accumulated \in Permitted(call)
  BY AccumulationAnswers
<1>3. Accumulated = "pass" => attestation.signers # {} /\ AllLive /\ AllParse
  BY AccumulatedCases
<1>4. ASSUME Accumulated = "pass", attestation.scalarValid, call.op \in Disputes
      PROVE  Then(answer, Matched(call.op)) \in Permitted(call)
  <2>1. /\ answer # "pass" => answer \in Permitted(call)
        /\ answer = "pass" => Checked(call) /\ Recovers(Coalition, call.message)
    BY <1>4, FinalAnswers
  <2>2. answer = "pass" => Matched(call.op) \in Permitted(call)
    BY <1>4, <2>1, SignatureAnswers DEF Disputes
  <2> QED
    BY <2>1, <2>2 DEF Then
<1>5. CASE call.op = "resolved"
  <2>1. Accumulated = "pass" /\ ~ attestation.scalarValid => Disputable(call)
    BY <1>3, <1>5 DEF Disputable
  <2>2. CASE Accumulated # "pass"
    BY <1>2, <1>5, <2>2 DEF Verdict, Then
  <2>3. CASE Accumulated = "pass" /\ ~ attestation.scalarValid
    BY <1>1, <1>5, <2>1, <2>3 DEF Verdict, Then, CheckedScalar, Mismatch
  <2>4. CASE Accumulated = "pass" /\ attestation.scalarValid
    BY <1>4, <1>5, <2>4 DEF Verdict, Then, CheckedScalar, Disputes
  <2> QED
    BY <2>2, <2>3, <2>4
<1>6. CASE call.op = "keys"
  <2>1. AllLive /\ ~ attestation.scalarValid => Disputable(call)
    BY <1>6 DEF Disputable
  <2>2. CASE ~ AllLive
    BY <1>1, <1>6, <2>2 DEF Verdict, Then, Resolved
  <2>3. CASE AllLive /\ ~ attestation.scalarValid
    BY <1>1, <1>6, <2>1, <2>3 DEF Verdict, Then, Resolved, CheckedScalar, Mismatch
  <2>4. CASE AllLive /\ attestation.scalarValid /\ Accumulated # "pass"
    BY <1>2, <1>6, <2>4 DEF Verdict, Then, Resolved, CheckedScalar
  <2>5. CASE AllLive /\ attestation.scalarValid /\ Accumulated = "pass"
    BY <1>4, <1>6, <2>5 DEF Verdict, Then, Resolved, CheckedScalar, Disputes
  <2> QED
    BY <2>2, <2>3, <2>4, <2>5
<1>7. CASE call.op \in {"verify", "provenance"}
  <2>0. call.op \notin Disputes
    BY <1>7 DEF Disputes
  <2>1. CASE VerifyVerdict(call) # "pass"
    <3>1. Verdict(call) = VerifyVerdict(call)
      BY <1>7, <2>1 DEF Verdict, Then
    <3>2. CASE CheckedVersion # "pass"
      <4>1. attestation.payload.version # registry.version
        BY <3>2 DEF CheckedVersion
      <4>2. VerifyVerdict(call) = "InvalidRegistryVersion"
        BY <3>2, <4>1 DEF VerifyVerdict, Then, CheckedVersion
      <4> QED
        BY <2>0, <3>1, <4>1, <4>2, EarlyAnswers
    <3>3. CASE CheckedVersion = "pass" /\ ~ attestation.scalarValid
      BY <1>1, <2>0, <3>1, <3>3 DEF VerifyVerdict, Then, CheckedScalar, Mismatch
    <3>4. CASE CheckedVersion = "pass" /\ attestation.scalarValid /\ quorum # "pass"
      <4>1. VerifyVerdict(call) = quorum
        BY <3>4 DEF VerifyVerdict, Then, CheckedScalar
      <4> QED
        BY <2>0, <3>1, <3>4, <4>1, QuorumAnswers
    <3>5. CASE /\ CheckedVersion = "pass" /\ attestation.scalarValid /\ quorum = "pass"
               /\ Accumulated # "pass"
      <4>1. VerifyVerdict(call) = Accumulated
        BY <3>5 DEF VerifyVerdict, Then, CheckedScalar
      <4> QED
        BY <1>2, <3>1, <3>5, <4>1
    <3>6. CASE /\ CheckedVersion = "pass" /\ attestation.scalarValid /\ quorum = "pass"
               /\ Accumulated = "pass"
      <4>1. VerifyVerdict(call) = answer
        BY <3>6 DEF VerifyVerdict, Then, CheckedScalar
      <4>2. QuorumMet /\ attestation.payload.version = registry.version
        BY <3>6, QuorumPass DEF CheckedVersion
      <4> QED
        BY <2>1, <3>1, <3>6, <4>1, <4>2, FinalAnswers
    <3> QED
      BY <3>2, <3>3, <3>4, <3>5, <3>6
  <2>2. CASE VerifyVerdict(call) = "pass"
    <3>1. /\ CheckedVersion = "pass" /\ CheckedScalar(call.op) = "pass" /\ quorum = "pass"
          /\ Accumulated = "pass" /\ answer = "pass"
      BY <2>2 DEF VerifyVerdict, Then
    <3>2. /\ attestation.scalarValid
          /\ QuorumMet /\ attestation.payload.version = registry.version
      BY <3>1, QuorumPass DEF CheckedVersion, CheckedScalar, Mismatch
    <3>3. Checked(call) /\ Recovers(Coalition, call.message)
      BY <3>1, <3>2, FinalAnswers
    <3>4. Verdict(call) = IF call.op = "verify" THEN Matched(call.op)
                          ELSE FindProvider(ProviderBits(attestation.signers), call.provider)
      BY <1>7, <2>2 DEF Verdict, Then
    <3> QED
      BY <1>7, <3>3, <3>4, SignatureAnswers, ProviderAnswers
  <2> QED
    BY <2>1, <2>2
<1> QED
  BY <1>5, <1>6, <1>7 DEF Ops, Disputes

(***************************************************************************)
(* A permitted answer is an outcome, and never the absence of one.         *)
(***************************************************************************)
LEMMA PermittedTyped ==
  ASSUME NEW call
  PROVE  Permitted(call) \subseteq Outcomes /\ Pending \notin Permitted(call)
BY DEF Permitted, Outcomes, Positive, Errors, Pending

=============================================================================
