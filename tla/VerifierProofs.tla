--------------------------- MODULE VerifierProofs ---------------------------
(***************************************************************************)
(* Proofs about the verification pipelines, for any registry snapshots and *)
(* attestations, any number of callers and any group order.                *)
(***************************************************************************)
EXTENDS Verifier, ClaimsProofs

(***************************************************************************)
(* The inductive invariant.  A caller is idle, running or done.  While it  *)
(* runs, the sum is that of the keys of the bits peeled so far, which are  *)
(* the lower ones, and every check before the current stage has passed.    *)
(***************************************************************************)
Idle(c) ==
  /\ stage[c] = "idle" /\ asked[c] = NoCall /\ outcome[c] = Pending
  /\ sum[c] = Infinity /\ hasPoint[c] = FALSE

Peeled(c) ==
  /\ rest[c] \subseteq attestation.signers
  /\ \A bit \in attestation.signers \ rest[c] :
       /\ Resolves(registry, bit) /\ Signer(registry, bit).key # Unparsable
       /\ \A other \in rest[c] : bit < other
  /\ sum[c] = KeySum(registry, attestation.signers \ rest[c])
  /\ hasPoint[c] <=> attestation.signers \ rest[c] # {}

OwnStage(op, s) ==
  \/ op \notin Disputes /\ s \in {"version", "quorum"}
  \/ op = "provenance" /\ s = "provider"
  \/ op = "keys" /\ s = "resolve"
  \/ s \in {"scalar", "accumulate", "compress", "recover"}

VersionPassed(op, s) == op \notin Disputes /\ s # "version"
QuorumPassed(op, s) ==
  op \notin Disputes /\ s \in {"accumulate", "compress", "recover", "provider"}
ResolvePassed(op, s) == op = "keys" /\ s # "resolve"
ScalarPassed(op, s) ==
  \/ s \in {"quorum", "compress", "recover", "provider"}
  \/ s = "accumulate" /\ op # "resolved"
SumPassed(op, s) ==
  \/ s \in {"compress", "recover", "provider"}
  \/ s = "scalar" /\ op = "resolved"
KeyPassed(s) == s \in {"recover", "provider"}

Passed(c) ==
  /\ VersionPassed(asked[c].op, stage[c]) => attestation.payload.version = registry.version
  /\ QuorumPassed(asked[c].op, stage[c]) => QuorumMet /\ attestation.signers # {}
  /\ ResolvePassed(asked[c].op, stage[c]) => AllLive
  /\ ScalarPassed(asked[c].op, stage[c]) => attestation.scalarValid
  /\ SumPassed(asked[c].op, stage[c]) => rest[c] = {} /\ hasPoint[c]
  /\ KeyPassed(stage[c]) =>
       key[c] = Coalition /\ Coalition # Infinity /\ HintFits(asked[c].hint)
  /\ stage[c] = "provider" => Recovers(key[c], asked[c].message)

Running(c) ==
  /\ asked[c] \in CallsAllowed /\ outcome[c] = Pending
  /\ OwnStage(asked[c].op, stage[c])
  /\ Peeled(c)
  /\ Passed(c)

Ended(c) ==
  /\ stage[c] = "done"
  /\ asked[c] \in CallsAllowed /\ outcome[c] = Verdict(asked[c])

CallerInv(c) == Idle(c) \/ Running(c) \/ Ended(c)

Inv == TypeOK /\ \A c \in Callers : CallerInv(c)

-----------------------------------------------------------------------------
(***************************************************************************)
(* The snapshot and the attestation are what their types say.              *)
(***************************************************************************)
LEMMA InputsTyped == TypeOK => Inputs
BY InputAssumption DEF TypeOK, Inputs

-----------------------------------------------------------------------------
(***************************************************************************)
(* Preservation of the invariant.                                          *)
(***************************************************************************)

Same(d) ==
  /\ asked'[d] = asked[d] /\ outcome'[d] = outcome[d] /\ stage'[d] = stage[d]
  /\ rest'[d] = rest[d] /\ sum'[d] = sum[d] /\ hasPoint'[d] = hasPoint[d]
  /\ key'[d] = key[d]

(***************************************************************************)
(* A caller whose state does not change keeps its invariant.               *)
(***************************************************************************)
LEMMA Frame ==
  ASSUME NEW d, UNCHANGED <<registry, attestation>>, Same(d), CallerInv(d)
  PROVE  CallerInv(d)'
<1>1. CASE Idle(d)
  BY <1>1 DEF Same, Idle, CallerInv
<1>2. CASE Running(d)
  <2>1. Peeled(d)'
    BY <1>2 DEF Same, Running, Peeled
  <2>2. Passed(d)'
    BY <1>2, Fixed DEF Same, Running, Passed
  <2> QED
    BY <1>2, <2>1, <2>2, Fixed DEF Same, Running, CallerInv
<1>3. CASE Ended(d)
  BY <1>3, Fixed DEF Same, Ended, CallerInv
<1> QED
  BY <1>1, <1>2, <1>3 DEF CallerInv

(***************************************************************************)
(* A step of one caller is no step of another.                             *)
(***************************************************************************)
LEMMA OthersRest ==
  ASSUME TypeOK, NEW c \in Callers, Begin(c) \/ Step(c), NEW d \in Callers, d # c
  PROVE  Same(d)
BY DEF TypeOK, Same, Begin, Step, CheckVersion, ResolveSigners, CheckScalar, QuorumStage,
       RefuseEmpty, AddSigner, AllAdded, Compress, Recover, MatchProvider, At, Pass, Conclude,
       PassUnless, work

(***************************************************************************)
(* No step changes the snapshot or the attestation, and no check changes   *)
(* the call it serves.                                                     *)
(***************************************************************************)
LEMMA InputsRest ==
  ASSUME NEW c, Begin(c) \/ Step(c)
  PROVE  UNCHANGED <<registry, attestation>> /\ (Step(c) => UNCHANGED asked)
BY DEF Begin, Step, CheckVersion, ResolveSigners, CheckScalar, QuorumStage,
       RefuseEmpty, AddSigner, AllAdded, Compress, Recover, MatchProvider, At

(***************************************************************************)
(* The order of the stages, as a table.                                    *)
(***************************************************************************)
LEMMA AfterTable ==
  /\ \A op \in {"verify", "provenance"} :
       /\ After(op, "version") = "scalar" /\ After(op, "scalar") = "quorum"
       /\ After(op, "quorum") = "accumulate" /\ After(op, "accumulate") = "compress"
       /\ After(op, "compress") = "recover" /\ FirstStage(op) = "version"
  /\ After("verify", "recover") = "done" /\ After("provenance", "recover") = "provider"
  /\ After("resolved", "accumulate") = "scalar" /\ After("resolved", "scalar") = "compress"
  /\ After("resolved", "compress") = "recover" /\ After("resolved", "recover") = "done"
  /\ After("keys", "resolve") = "scalar" /\ After("keys", "scalar") = "accumulate"
  /\ After("keys", "accumulate") = "compress" /\ After("keys", "compress") = "recover"
  /\ After("keys", "recover") = "done"
  /\ FirstStage("resolved") = "accumulate" /\ FirstStage("keys") = "resolve"
BY DEF After, FirstStage, Orders, VerifyOrder, ProvenanceOrder, ResolvedOrder, KeysOrder

(***************************************************************************)
(* The calls that can be made are calls, of one of the four operations.    *)
(***************************************************************************)
LEMMA CallsTyped ==
  ASSUME TypeOK
  PROVE  CallsAllowed \subseteq Call /\ \A call \in CallsAllowed : call.op \in Ops
<1>1. attestation \in Attestation
  BY InputsTyped, InputTypes
<1>2. OwnMessage \in Message /\ attestation.signedMessage \in Message
  BY <1>1 DEF OwnMessage, Message, Attestation
<1> QED
  BY <1>2 DEF CallsAllowed, Call, Ops, Disputes

(***************************************************************************)
(* The verdict of a call that can be made is permitted, and an outcome.    *)
(***************************************************************************)
LEMMA VerdictTyped ==
  ASSUME TypeOK, NEW call \in CallsAllowed
  PROVE  Verdict(call) \in Permitted(call) /\ Verdict(call) \in Outcomes
BY InputsTyped, CallsTyped, VerdictIsPermitted, PermittedTyped

(***************************************************************************)
(* A caller that concludes with the verdict of its call is done.           *)
(***************************************************************************)
LEMMA Concludes ==
  ASSUME TypeOK, NEW c \in Callers, Running(c), NEW answer, answer = Verdict(asked[c]),
         UNCHANGED <<registry, attestation, asked>>, Conclude(c, answer)
  PROVE  /\ CallerInv(c)'
         /\ outcome' \in [Callers -> Outcomes \cup {Pending}] /\ stage' \in [Callers -> Stages]
<1>1. outcome'[c] = answer /\ stage'[c] = "done"
  BY DEF Conclude, TypeOK
<1>2. Ended(c)'
  BY <1>1, Fixed DEF Ended, Running
<1>3. answer \in Outcomes
  BY VerdictTyped DEF Running
<1> QED
  BY <1>2, <1>3 DEF CallerInv, Conclude, TypeOK, Stages

(***************************************************************************)
(* A caller that passes a check goes on running, when the new stage is one *)
(* of its operation and what it presupposes holds.                         *)
(***************************************************************************)
LEMMA Passes ==
  ASSUME TypeOK, NEW c \in Callers, Running(c),
         UNCHANGED <<registry, attestation, asked, rest, sum, hasPoint>>, Pass(c),
         OwnStage(asked[c].op, After(asked[c].op, stage[c])),
         Passed(c)'
  PROVE  /\ CallerInv(c)'
         /\ outcome' \in [Callers -> Outcomes \cup {Pending}] /\ stage' \in [Callers -> Stages]
<1>1. stage'[c] = After(asked[c].op, stage[c]) /\ outcome' = outcome
  BY DEF Pass, TypeOK
<1>2. Peeled(c)'
  BY DEF Running, Peeled
<1>3. Running(c)'
  BY <1>1, <1>2, Fixed DEF Running
<1>4. After(asked[c].op, stage[c]) \in Stages
  BY DEF OwnStage, Stages
<1> QED
  BY <1>1, <1>3, <1>4 DEF CallerInv, Pass, TypeOK

(***************************************************************************)
(* Only a running caller takes a step, and the operations have the stages  *)
(* that OwnStage gives them.                                               *)
(***************************************************************************)
LEMMA StepsRun ==
  ASSUME TypeOK, NEW c \in Callers, CallerInv(c), Step(c)
  PROVE  Running(c)
<1>1. stage[c] \notin {"idle", "done"}
  BY DEF Step, CheckVersion, ResolveSigners, CheckScalar, QuorumStage, RefuseEmpty,
         AddSigner, AllAdded, Compress, Recover, MatchProvider, At
<1> QED
  BY <1>1 DEF CallerInv, Idle, Ended

(***************************************************************************)
(* The operation of a running caller is one of the four.                   *)
(***************************************************************************)
LEMMA OpTyped ==
  ASSUME TypeOK, NEW c, Running(c)
  PROVE  asked[c].op \in {"verify", "provenance", "resolved", "keys"}
BY CallsTyped DEF Running, Ops, Disputes

(***************************************************************************)
(* A step that leaves the work of the caller alone keeps the types when it *)
(* gives a stage and an outcome of their types.                            *)
(***************************************************************************)
LEMMA TypesKept ==
  ASSUME TypeOK, UNCHANGED <<registry, attestation, asked, work>>,
         outcome' \in [Callers -> Outcomes \cup {Pending}], stage' \in [Callers -> Stages]
  PROVE  TypeOK'
BY DEF TypeOK, work

(***************************************************************************)
(* What holds once the loop has peeled every bit.                          *)
(***************************************************************************)
LEMMA WhenPeeled ==
  ASSUME TypeOK, NEW c \in Callers, Peeled(c), rest[c] = {}, hasPoint[c]
  PROVE  attestation.signers # {} /\ AllLive /\ AllParse /\ sum[c] = Coalition
<1>1. attestation.signers \ rest[c] = attestation.signers
  OBVIOUS
<1> QED
  BY <1>1 DEF Peeled, AllLive, AllParse, Coalition

(***************************************************************************)
(* The checks that a running caller has behind it have passed, so that the *)
(* verdict of its call is left to the checks before it.                    *)
(***************************************************************************)
LEMMA SoFar ==
  ASSUME TypeOK, NEW c \in Callers, Running(c)
  PROVE  LET op == asked[c].op
         IN  /\ VersionPassed(op, stage[c]) => CheckedVersion = "pass"
             /\ ScalarPassed(op, stage[c]) => CheckedScalar(op) = "pass"
             /\ QuorumPassed(op, stage[c]) =>
                  CheckQuorum(attestation.signers, attestation.payload.required) = "pass"
             /\ ResolvePassed(op, stage[c]) => Resolved = "pass"
             /\ SumPassed(op, stage[c]) => Accumulated = "pass"
             /\ KeyPassed(stage[c]) =>
                  CheckCoalitionKey(Coalition, TRUE, asked[c].hint) = "pass"
<1>0. Passed(c) /\ Peeled(c) /\ Inputs
  BY InputsTyped DEF Running
<1>1. VersionPassed(asked[c].op, stage[c]) => CheckedVersion = "pass"
  BY <1>0 DEF Passed, CheckedVersion
<1>2. ScalarPassed(asked[c].op, stage[c]) => CheckedScalar(asked[c].op) = "pass"
  BY <1>0 DEF Passed, CheckedScalar
<1>3. QuorumPassed(asked[c].op, stage[c]) =>
        CheckQuorum(attestation.signers, attestation.payload.required) = "pass"
  BY <1>0, QuorumPasses DEF Passed
<1>4. ResolvePassed(asked[c].op, stage[c]) => Resolved = "pass"
  BY <1>0 DEF Passed, Resolved
<1>5. SumPassed(asked[c].op, stage[c]) => Accumulated = "pass"
  BY <1>0, WhenPeeled, AccumulatedCases DEF Passed
<1>6. KeyPassed(stage[c]) => CheckCoalitionKey(Coalition, TRUE, asked[c].hint) = "pass"
  BY <1>0 DEF Passed, CheckCoalitionKey, HintFits
<1> QED
  BY <1>1, <1>2, <1>3, <1>4, <1>5, <1>6

(***************************************************************************)
(* One lemma for each stage: its step keeps the invariant of the caller.   *)
(* First the version check.                                                *)
(***************************************************************************)
LEMMA VersionStep ==
  ASSUME TypeOK, NEW c \in Callers, Running(c), CheckVersion(c)
  PROVE  CallerInv(c)' /\ TypeOK'
<1>0. stage[c] = "version" /\ UNCHANGED <<registry, attestation, asked>> /\ UNCHANGED work
  BY DEF CheckVersion, At
<1>1. asked[c].op \in {"verify", "provenance"} /\ asked[c].op \notin Disputes
  BY <1>0, OpTyped DEF Running, OwnStage, Disputes
<1>2. CASE attestation.payload.version # registry.version
  <2>1. Verdict(asked[c]) = "InvalidRegistryVersion"
    BY <1>1, <1>2 DEF Verdict, VerifyVerdict, Then, CheckedVersion
  <2>2. Conclude(c, "InvalidRegistryVersion")
    BY <1>2 DEF CheckVersion, PassUnless, CheckedVersion
  <2> QED
    BY <1>0, <2>1, <2>2, Concludes, TypesKept
<1>3. CASE attestation.payload.version = registry.version
  <2>1. Pass(c)
    BY <1>3 DEF CheckVersion, PassUnless, CheckedVersion
  <2>2. After(asked[c].op, stage[c]) = "scalar"
    BY <1>0, <1>1, AfterTable
  <2>3. stage'[c] = "scalar"
    BY <2>1, <2>2 DEF Pass, TypeOK
  <2>4. Passed(c)'
    BY <1>0, <1>1, <1>3, <2>3 DEF Passed, VersionPassed, QuorumPassed, ResolvePassed,
      ScalarPassed, SumPassed, KeyPassed, Disputes
  <2> QED
    BY <1>0, <2>1, <2>2, <2>4, Passes, TypesKept DEF OwnStage, work
<1> QED
  BY <1>2, <1>3

(***************************************************************************)
(* The signers of a keyed dispute are resolved by its caller.              *)
(***************************************************************************)
LEMMA ResolveStep ==
  ASSUME TypeOK, NEW c \in Callers, Running(c), ResolveSigners(c)
  PROVE  CallerInv(c)' /\ TypeOK'
<1>0. stage[c] = "resolve" /\ UNCHANGED <<registry, attestation, asked>> /\ UNCHANGED work
  BY DEF ResolveSigners, At
<1>1. asked[c].op = "keys"
  BY <1>0 DEF Running, OwnStage
<1>2. CASE ~ AllLive
  <2>1. Verdict(asked[c]) = "InvalidSignersBitmap"
    BY <1>1, <1>2 DEF Verdict, Then, Resolved
  <2>2. Conclude(c, "InvalidSignersBitmap")
    BY <1>2 DEF ResolveSigners, PassUnless, Resolved
  <2> QED
    BY <1>0, <2>1, <2>2, Concludes, TypesKept
<1>3. CASE AllLive
  <2>1. Pass(c)
    BY <1>3 DEF ResolveSigners, PassUnless, Resolved
  <2>2. After(asked[c].op, stage[c]) = "scalar"
    BY <1>0, <1>1, AfterTable
  <2>3. stage'[c] = "scalar"
    BY <2>1, <2>2 DEF Pass, TypeOK
  <2>4. Passed(c)'
    BY <1>0, <1>1, <1>3, <2>3, Fixed DEF Passed, VersionPassed, QuorumPassed, ResolvePassed,
      ScalarPassed, SumPassed, KeyPassed, Disputes
  <2> QED
    BY <1>0, <2>1, <2>2, <2>4, Passes, TypesKept DEF OwnStage, work
<1> QED
  BY <1>2, <1>3

(***************************************************************************)
(* The scalar check: it is the one stage that every operation has, at a    *)
(* place of its own.                                                       *)
(***************************************************************************)
LEMMA ScalarStep ==
  ASSUME TypeOK, NEW c \in Callers, Running(c), CheckScalar(c)
  PROVE  CallerInv(c)' /\ TypeOK'
<1>0. stage[c] = "scalar" /\ UNCHANGED <<registry, attestation, asked>> /\ UNCHANGED work
  BY DEF CheckScalar, At
<1>1. asked[c].op \in {"verify", "provenance", "resolved", "keys"}
  BY OpTyped
<1>2. CASE ~ attestation.scalarValid
  <2>1. CheckedScalar(asked[c].op) = Mismatch(asked[c].op) /\ Mismatch(asked[c].op) # "pass"
    BY <1>2 DEF CheckedScalar, Mismatch
  <2>2. Verdict(asked[c]) = Mismatch(asked[c].op)
    <3>1. CASE asked[c].op = "resolved"
      BY <1>0, <2>1, <3>1, SoFar DEF SumPassed, Verdict, Then
    <3>2. CASE asked[c].op = "keys"
      BY <1>0, <2>1, <3>2, SoFar DEF ResolvePassed, Verdict, Then
    <3>3. CASE asked[c].op \in {"verify", "provenance"}
      BY <1>0, <2>1, <3>3, SoFar DEF VersionPassed, Disputes, Verdict, VerifyVerdict, Then
    <3> QED
      BY <1>1, <3>1, <3>2, <3>3
  <2>3. Conclude(c, Mismatch(asked[c].op))
    BY <2>1 DEF CheckScalar, PassUnless
  <2> QED
    BY <1>0, <2>2, <2>3, Concludes, TypesKept
<1>3. CASE attestation.scalarValid
  <2>1. Pass(c)
    BY <1>3 DEF CheckScalar, PassUnless, CheckedScalar
  <2>2. After(asked[c].op, stage[c]) =
          IF asked[c].op = "resolved" THEN "compress"
          ELSE IF asked[c].op = "keys" THEN "accumulate" ELSE "quorum"
    BY <1>0, <1>1, AfterTable
  <2>3. stage'[c] = After(asked[c].op, stage[c])
    BY <2>1 DEF Pass, TypeOK
  <2>4. OwnStage(asked[c].op, After(asked[c].op, stage[c]))
    BY <1>1, <2>2 DEF OwnStage, Disputes
  <2>5. Passed(c)
    BY DEF Running
  <2>6. Passed(c)'
    BY <1>0, <1>1, <1>3, <2>2, <2>3, <2>5, Fixed DEF Passed, VersionPassed, QuorumPassed,
      ResolvePassed, ScalarPassed, SumPassed, KeyPassed, Disputes, work
  <2> QED
    BY <1>0, <2>1, <2>4, <2>6, Passes, TypesKept DEF work
<1> QED
  BY <1>2, <1>3

(***************************************************************************)
(* The quorum check, which disputes do not make.                           *)
(***************************************************************************)
LEMMA QuorumStep ==
  ASSUME TypeOK, NEW c \in Callers, Running(c), QuorumStage(c)
  PROVE  CallerInv(c)' /\ TypeOK'
<1> DEFINE verdict == CheckQuorum(attestation.signers, attestation.payload.required)
<1>0. stage[c] = "quorum" /\ UNCHANGED <<registry, attestation, asked>> /\ UNCHANGED work
  BY DEF QuorumStage, At
<1>1. asked[c].op \in {"verify", "provenance"} /\ asked[c].op \notin Disputes
  BY <1>0, OpTyped DEF Running, OwnStage, Disputes
<1>2. CASE verdict # "pass"
  <2>1. verdict = Verdict(asked[c])
    BY <1>0, <1>1, <1>2, SoFar DEF VersionPassed, ScalarPassed, Verdict, VerifyVerdict, Then
  <2>2. Conclude(c, verdict)
    BY <1>2 DEF QuorumStage, PassUnless
  <2> QED
    BY <1>0, <2>1, <2>2, Concludes, TypesKept
<1>3. CASE verdict = "pass"
  <2>1. Pass(c)
    BY <1>3 DEF QuorumStage, PassUnless
  <2>2. After(asked[c].op, stage[c]) = "accumulate"
    BY <1>0, <1>1, AfterTable
  <2>3. stage'[c] = "accumulate"
    BY <2>1, <2>2 DEF Pass, TypeOK
  <2>4. QuorumMet /\ attestation.signers # {}
    BY <1>3, InputsTyped, QuorumPass
  <2>5. Passed(c)
    BY DEF Running
  <2>6. Passed(c)'
    BY <1>0, <1>1, <2>3, <2>4, <2>5, Fixed DEF Passed, VersionPassed, QuorumPassed,
      ResolvePassed, ScalarPassed, SumPassed, KeyPassed, Disputes
  <2> QED
    BY <1>0, <2>1, <2>2, <2>6, Passes, TypesKept DEF OwnStage, work
<1> QED
  BY <1>2, <1>3

(***************************************************************************)
(* Whatever error ends the peeling loop, it is the verdict when it is that *)
(* of the accumulation.                                                    *)
(***************************************************************************)
LEMMA AccumulationDecides ==
  ASSUME TypeOK, NEW c \in Callers, Running(c), stage[c] = "accumulate", Accumulated # "pass"
  PROVE  Verdict(asked[c]) = Accumulated
<1>1. CASE asked[c].op = "resolved"
  BY <1>1 DEF Verdict, Then
<1>2. CASE asked[c].op = "keys"
  BY <1>2, SoFar DEF ResolvePassed, ScalarPassed, Verdict, Then
<1>3. CASE asked[c].op \in {"verify", "provenance"}
  BY <1>3, SoFar DEF VersionPassed, ScalarPassed, QuorumPassed, Disputes, Verdict,
    VerifyVerdict, Then
<1> QED
  BY <1>1, <1>2, <1>3, OpTyped

(***************************************************************************)
(* The peeling loop: an empty bitmap is refused.                           *)
(***************************************************************************)
LEMMA RefuseStep ==
  ASSUME TypeOK, NEW c \in Callers, Running(c), RefuseEmpty(c)
  PROVE  CallerInv(c)' /\ TypeOK'
<1>1. UNCHANGED <<registry, attestation, asked>> /\ UNCHANGED work
      /\ Conclude(c, "InvalidSignersBitmap")
  BY DEF RefuseEmpty, At
<1>2. stage[c] = "accumulate" /\ Accumulated = "InvalidSignersBitmap"
  BY InputsTyped, AccumulatedCases DEF RefuseEmpty, At
<1>3. Verdict(asked[c]) = "InvalidSignersBitmap"
  BY <1>2, AccumulationDecides
<1> QED
  BY <1>1, <1>3, Concludes, TypesKept

(***************************************************************************)
(* The peeling loop: the lowest bit left is cleared; when its key is added *)
(* the sum is again that of the bits peeled so far.                        *)
(***************************************************************************)
LEMMA AddStep ==
  ASSUME TypeOK, NEW c \in Callers, Running(c), AddSigner(c)
  PROVE  CallerInv(c)' /\ TypeOK'
<1> DEFINE bit == Lowest(rest[c])
<1>0. /\ stage[c] = "accumulate" /\ UNCHANGED <<registry, attestation, asked>>
      /\ rest[c] # {} /\ rest' = [rest EXCEPT ![c] = @ \ {bit}] /\ UNCHANGED key
  BY DEF AddSigner, At
<1>1. attestation.signers \in SUBSET Bits /\ rest[c] \subseteq attestation.signers
  BY InputsTyped, InputTypes DEF Running, Peeled
<1>2. bit \in rest[c] /\ bit \in Bits /\ bit \in attestation.signers
      /\ \A other \in rest[c] : bit <= other
  BY <1>0, <1>1, LowestExists
<1>3. rest'[c] = rest[c] \ {bit} /\ rest' \in [Callers -> SUBSET Bits]
  BY <1>0, <1>1 DEF TypeOK
<1> HIDE DEF bit
<1>4. ASSUME NEW answer, answer = Accumulated, answer # "pass", Conclude(c, answer),
             UNCHANGED <<sum, hasPoint>>
      PROVE  CallerInv(c)' /\ TypeOK'
  <2>1. answer = Verdict(asked[c])
    BY <1>0, <1>4, AccumulationDecides
  <2> QED
    BY <1>0, <1>3, <1>4, <2>1, Concludes DEF TypeOK
<1>4a. \A other \in attestation.signers :
         other < bit => Resolves(registry, other) /\ Signer(registry, other).key # Unparsable
  <2>1. ASSUME NEW other \in attestation.signers, other < bit
        PROVE  other \notin rest[c]
    BY <1>1, <1>2, <2>1 DEF Bits
  <2> QED
    BY <2>1 DEF Running, Peeled
<1>5. CASE ~ Resolves(registry, bit)
  <2>1. Conclude(c, "InvalidSignersBitmap") /\ UNCHANGED <<sum, hasPoint>>
    BY <1>5 DEF AddSigner, bit
  <2>2. Accumulated = "InvalidSignersBitmap"
    BY <1>2, <1>4a, <1>5, InputsTyped, AccumulatedCases
  <2> QED
    BY <1>4, <2>1, <2>2
<1>6. CASE Resolves(registry, bit) /\ Signer(registry, bit).key = Unparsable
  <2>1. Conclude(c, "InvalidAggregateSignature") /\ UNCHANGED <<sum, hasPoint>>
    BY <1>6 DEF AddSigner, bit
  <2>2. Accumulated = "InvalidAggregateSignature"
    BY <1>2, <1>4a, <1>6, InputsTyped, AccumulatedCases
  <2> QED
    BY <1>4, <2>1, <2>2
<1>7. CASE Resolves(registry, bit) /\ Signer(registry, bit).key # Unparsable
  <2> DEFINE before == attestation.signers \ rest[c]
  <2> DEFINE after == attestation.signers \ (rest[c] \ {bit})
  <2>1. /\ sum' = [sum EXCEPT ![c] = Plus(@, Signer(registry, bit).key)]
        /\ hasPoint' = [hasPoint EXCEPT ![c] = TRUE]
        /\ UNCHANGED <<stage, outcome>>
    BY <1>7 DEF AddSigner, bit
  <2>2. /\ \A old \in before :
             /\ Resolves(registry, old) /\ Signer(registry, old).key # Unparsable
             /\ \A other \in rest[c] : old < other
        /\ sum[c] = KeySum(registry, before)
    BY DEF Running, Peeled
  <2>3. after = before \cup {bit} /\ before \in SUBSET Bits /\ \A old \in before : old < bit
    BY <1>1, <1>2, <2>2
  <2>4. KeySum(registry, after) = Plus(KeySum(registry, before), Signer(registry, bit).key)
    <3> HIDE DEF before, after
    <3> QED
      BY <1>2, <2>3, KeySumExtends
  <2>5. sum'[c] = KeySum(registry, after) /\ hasPoint'[c] = TRUE
    BY <2>1, <2>2, <2>4 DEF TypeOK
  <2>6. sum' \in [Callers -> Points] /\ hasPoint' \in [Callers -> BOOLEAN]
    <3>1. sum[c] \in Points /\ Signer(registry, bit).key \in Points
      BY <1>2, <1>7, InputsTyped, InputTypes DEF TypeOK
    <3>2. Plus(sum[c], Signer(registry, bit).key) \in Points
      BY <3>1, OrderAssumption DEF Plus, Points
    <3> QED
      BY <2>1, <3>2 DEF TypeOK
  <2>7. \A old \in after :
          /\ Resolves(registry, old) /\ Signer(registry, old).key # Unparsable
          /\ \A other \in rest[c] \ {bit} : old < other
    <3>1. \A other \in rest[c] \ {bit} : bit < other
      BY <1>1, <1>2 DEF Bits
    <3> QED
      BY <1>7, <2>2, <2>3, <3>1
  <2>8. Peeled(c)'
    BY <1>0, <1>1, <1>2, <1>3, <2>5, <2>7 DEF Peeled
  <2>9. Passed(c)'
    BY <1>0, <2>1, Fixed DEF Running, Passed, VersionPassed, QuorumPassed, ResolvePassed,
      ScalarPassed, SumPassed, KeyPassed
  <2> QED
    BY <1>0, <1>3, <2>1, <2>6, <2>8, <2>9, Fixed DEF TypeOK, Running, CallerInv
<1> QED
  BY <1>5, <1>6, <1>7

(***************************************************************************)
(* The peeling loop: all the bits are peeled.                              *)
(***************************************************************************)
LEMMA AllAddedStep ==
  ASSUME TypeOK, NEW c \in Callers, Running(c), AllAdded(c)
  PROVE  CallerInv(c)' /\ TypeOK'
<1>0. /\ stage[c] = "accumulate" /\ UNCHANGED <<registry, attestation, asked>>
      /\ UNCHANGED work /\ rest[c] = {} /\ hasPoint[c] /\ Pass(c)
  BY DEF AllAdded, At
<1>1. asked[c].op \in {"verify", "provenance", "resolved", "keys"}
  BY OpTyped
<1>2. After(asked[c].op, stage[c]) = IF asked[c].op = "resolved" THEN "scalar" ELSE "compress"
  BY <1>0, <1>1, AfterTable
<1>3. stage'[c] = After(asked[c].op, stage[c])
  BY <1>0 DEF Pass, TypeOK
<1>4. OwnStage(asked[c].op, After(asked[c].op, stage[c]))
  BY <1>1, <1>2 DEF OwnStage
<1>5. Passed(c)
  BY DEF Running
<1>6. Passed(c)'
  BY <1>0, <1>1, <1>2, <1>3, <1>5, Fixed DEF Passed, VersionPassed, QuorumPassed,
    ResolvePassed, ScalarPassed, SumPassed, KeyPassed, Disputes, work
<1> QED
  BY <1>0, <1>4, <1>6, Passes, TypesKept DEF work

(***************************************************************************)
(* Once the keys are added up, the key check and the signature decide.     *)
(***************************************************************************)
LEMMA SignatureDecides ==
  ASSUME TypeOK, NEW c \in Callers, Running(c), stage[c] \in {"compress", "recover"}
  PROVE  LET call == asked[c]
             answer == SignatureAnswer(call.op, call.hint, call.message)
         IN  /\ answer # "pass" => Verdict(call) = answer
             /\ (answer = "pass" /\ call.op # "provenance") => Verdict(call) = Matched(call.op)
<1>1. CASE asked[c].op = "resolved"
  BY <1>1, SoFar DEF SumPassed, ScalarPassed, Verdict, Then
<1>2. CASE asked[c].op = "keys"
  BY <1>2, SoFar DEF SumPassed, ScalarPassed, ResolvePassed, Verdict, Then
<1>3. CASE asked[c].op \in {"verify", "provenance"}
  BY <1>3, SoFar DEF SumPassed, VersionPassed, ScalarPassed, QuorumPassed, Disputes, Verdict,
    VerifyVerdict, Then
<1> QED
  BY <1>1, <1>2, <1>3, OpTyped

(***************************************************************************)
(* The key check: the compressed key is the key of the whole coalition.    *)
(***************************************************************************)
LEMMA CompressStep ==
  ASSUME TypeOK, NEW c \in Callers, Running(c), Compress(c)
  PROVE  CallerInv(c)' /\ TypeOK'
<1> DEFINE hint == asked[c].hint
<1> DEFINE verdict == CheckCoalitionKey(sum[c], hasPoint[c], hint)
<1>0. /\ stage[c] = "compress" /\ UNCHANGED <<registry, attestation, asked>>
      /\ UNCHANGED <<rest, sum, hasPoint>>
  BY DEF Compress, At
<1>1. asked[c].op \in {"verify", "provenance", "resolved", "keys"}
  BY OpTyped
<1>2. rest[c] = {} /\ hasPoint[c] /\ hasPoint[c] = TRUE /\ Peeled(c) /\ Passed(c)
  BY <1>0 DEF Running, Passed, SumPassed, TypeOK
<1>3. attestation.signers # {} /\ AllLive /\ AllParse /\ sum[c] = Coalition
  BY <1>2, WhenPeeled
<1>4. CASE verdict # "pass"
  <2>1. Conclude(c, verdict) /\ key' = key
    BY <1>4 DEF Compress, PassUnless
  <2>2. verdict = Verdict(asked[c])
    BY <1>0, <1>2, <1>3, <1>4, SignatureDecides DEF SignatureAnswer, Then
  <2> QED
    BY <1>0, <2>1, <2>2, Concludes, TypesKept DEF work
<1>5. CASE verdict = "pass"
  <2>1. Pass(c) /\ key' = [key EXCEPT ![c] = CompressedKey(sum[c], hint)]
    BY <1>5 DEF Compress, PassUnless
  <2>2. Coalition # Infinity /\ HintFits(hint) /\ CompressedKey(sum[c], hint) = Coalition
    BY <1>3, <1>5 DEF CheckCoalitionKey, HintFits, CompressedKey
  <2>3. Coalition \in Points
    BY <1>3 DEF TypeOK
  <2>4. key'[c] = Coalition /\ key' \in [Callers -> Points]
    BY <2>1, <2>2, <2>3 DEF TypeOK
  <2>5. After(asked[c].op, stage[c]) = "recover"
    BY <1>0, <1>1, AfterTable
  <2>6. stage'[c] = "recover"
    BY <2>1, <2>5 DEF Pass, TypeOK
  <2>7. Passed(c)'
    BY <1>0, <1>1, <1>2, <2>2, <2>4, <2>6, Fixed DEF Passed, VersionPassed, QuorumPassed,
      ResolvePassed, ScalarPassed, SumPassed, KeyPassed, Disputes
  <2>8. /\ CallerInv(c)'
        /\ outcome' \in [Callers -> Outcomes \cup {Pending}] /\ stage' \in [Callers -> Stages]
    BY <1>0, <2>1, <2>5, <2>7, Passes DEF OwnStage
  <2> QED
    BY <1>0, <2>4, <2>8 DEF TypeOK
<1> QED
  BY <1>4, <1>5

(***************************************************************************)
(* A caller whose key is accepted has made all the checks but the last.    *)
(***************************************************************************)
LEMMA WhenKeyed ==
  ASSUME TypeOK, NEW c \in Callers, Running(c), stage[c] \in {"recover", "provider"}
  PROVE  Checked(asked[c]) /\ key[c] = Coalition
<1>1. Passed(c) /\ Peeled(c)
  BY DEF Running
<1>2. rest[c] = {} /\ hasPoint[c]
  BY <1>1 DEF Passed, SumPassed
<1>3. attestation.signers # {} /\ AllLive /\ AllParse
  BY <1>1, <1>2, WhenPeeled
<1>4. key[c] = Coalition /\ Coalition # Infinity /\ HintFits(asked[c].hint)
  BY <1>1 DEF Passed, KeyPassed
<1>5. attestation.scalarValid
  BY <1>1 DEF Passed, ScalarPassed
<1>6. asked[c].op \notin Disputes => QuorumMet /\ attestation.payload.version = registry.version
  BY <1>1 DEF Passed, QuorumPassed, VersionPassed
<1> QED
  BY <1>3, <1>4, <1>5, <1>6 DEF Checked, WellFormed

(***************************************************************************)
(* The signature: it decides the call, or provenance goes on.              *)
(***************************************************************************)
LEMMA RecoverStep ==
  ASSUME TypeOK, NEW c \in Callers, Running(c), Recover(c)
  PROVE  CallerInv(c)' /\ TypeOK'
<1>0. stage[c] = "recover" /\ UNCHANGED <<registry, attestation, asked>> /\ UNCHANGED work
  BY DEF Recover, At
<1>1. asked[c].op \in {"verify", "provenance", "resolved", "keys"}
  BY OpTyped
<1>2. Checked(asked[c]) /\ key[c] = Coalition /\ Passed(c)
  BY <1>0, WhenKeyed DEF Running
<1>3. After(asked[c].op, "recover") = IF asked[c].op = "provenance" THEN "provider" ELSE "done"
  BY <1>1, AfterTable
<1>3a. SignatureAnswer(asked[c].op, asked[c].hint, asked[c].message) =
         IF Recovers(key[c], asked[c].message) THEN "pass" ELSE Mismatch(asked[c].op)
  BY <1>0, <1>2, SoFar DEF KeyPassed, SignatureAnswer, Then
<1>4. CASE ~ Recovers(key[c], asked[c].message)
  <2>1. Conclude(c, Mismatch(asked[c].op))
    BY <1>4 DEF Recover
  <2>2. Mismatch(asked[c].op) = Verdict(asked[c])
    BY <1>0, <1>3a, <1>4, SignatureDecides DEF Mismatch
  <2> QED
    BY <1>0, <2>1, <2>2, Concludes, TypesKept
<1>5. CASE Recovers(key[c], asked[c].message) /\ asked[c].op # "provenance"
  <2>1. Conclude(c, Matched(asked[c].op))
    BY <1>3, <1>5 DEF Recover
  <2>2. Matched(asked[c].op) = Verdict(asked[c])
    BY <1>0, <1>3a, <1>5, SignatureDecides
  <2> QED
    BY <1>0, <2>1, <2>2, Concludes, TypesKept
<1>6. CASE Recovers(key[c], asked[c].message) /\ asked[c].op = "provenance"
  <2>1. Pass(c)
    BY <1>3, <1>6 DEF Recover
  <2>2. stage'[c] = "provider" /\ asked[c].op \notin Disputes
    BY <1>0, <1>3, <1>6, <2>1 DEF Pass, TypeOK, Disputes
  <2>3. Recovers(key[c], asked[c].message)'
    BY <1>0, <1>6 DEF Recovers, work
  <2>4. Passed(c)'
    BY <1>0, <1>2, <2>2, <2>3, Fixed DEF Passed, VersionPassed, QuorumPassed,
      ResolvePassed, ScalarPassed, SumPassed, KeyPassed, work
  <2> QED
    BY <1>0, <1>3, <1>6, <2>1, <2>4, Passes, TypesKept DEF OwnStage, work
<1> QED
  BY <1>4, <1>5, <1>6

(***************************************************************************)
(* The provider loop of verify_provenance.                                 *)
(***************************************************************************)
LEMMA ProviderStep ==
  ASSUME TypeOK, NEW c \in Callers, Running(c), MatchProvider(c)
  PROVE  CallerInv(c)' /\ TypeOK'
<1>0. stage[c] = "provider" /\ UNCHANGED <<registry, attestation, asked>> /\ UNCHANGED work
  BY DEF MatchProvider, At
<1>1. asked[c].op = "provenance" /\ Recovers(key[c], asked[c].message)
  BY <1>0 DEF Running, OwnStage, Passed
<1>2. Checked(asked[c]) /\ key[c] = Coalition
  BY <1>0, WhenKeyed
<1>3. FindProvider(ProviderBits(attestation.signers), asked[c].provider) = Verdict(asked[c])
  <2>1. SignatureAnswer(asked[c].op, asked[c].hint, asked[c].message) = "pass"
    BY <1>0, <1>1, <1>2, SoFar DEF KeyPassed, SignatureAnswer, Then
  <2> QED
    BY <1>0, <1>1, <2>1, SoFar DEF SumPassed, VersionPassed, ScalarPassed, QuorumPassed,
      Disputes, Verdict, VerifyVerdict, Then
<1> QED
  BY <1>0, <1>3, Concludes, TypesKept DEF MatchProvider

(***************************************************************************)
(* Entering a pipeline: no bit is peeled yet and the sum is infinity.      *)
(***************************************************************************)
LEMMA BeginStep ==
  ASSUME TypeOK, NEW c \in Callers, CallerInv(c), Begin(c)
  PROVE  CallerInv(c)' /\ TypeOK'
<1>0. /\ stage[c] = "idle" /\ rest' = [rest EXCEPT ![c] = attestation.signers]
      /\ UNCHANGED <<registry, attestation, outcome, sum, hasPoint, key>>
  BY DEF Begin
<1>1. PICK call \in CallsAllowed :
        /\ asked' = [asked EXCEPT ![c] = call]
        /\ stage' = [stage EXCEPT ![c] = FirstStage(call.op)]
  BY DEF Begin
<1>2. call \in Call /\ call.op \in {"verify", "provenance", "resolved", "keys"}
  BY CallsTyped DEF Ops, Disputes
<1>3. asked'[c] = call /\ stage'[c] = FirstStage(call.op)
      /\ rest'[c] = attestation.signers
  BY <1>0, <1>1 DEF TypeOK
<1>4. FirstStage(call.op) = IF call.op = "resolved" THEN "accumulate"
                            ELSE IF call.op = "keys" THEN "resolve" ELSE "version"
  BY <1>2, AfterTable
<1>5. Idle(c)
  BY <1>0 DEF CallerInv, Running, OwnStage, Ended
<1>6. Peeled(c)'
  <2>1. KeySum(registry, {}) = Infinity
    BY KeySumEquation
  <2> QED
    BY <1>0, <1>3, <1>5, <2>1 DEF Peeled, Idle
<1>7. Passed(c)'
  BY <1>0, <1>2, <1>3, <1>4 DEF Passed, VersionPassed, QuorumPassed, ResolvePassed,
    ScalarPassed, SumPassed, KeyPassed, Disputes
<1>8. OwnStage(call.op, FirstStage(call.op))
  BY <1>2, <1>4 DEF OwnStage, Disputes
<1>9. CallerInv(c)'
  BY <1>0, <1>3, <1>5, <1>6, <1>7, <1>8, Fixed DEF CallerInv, Running, Idle
<1>10. TypeOK'
  <2>1. stage' \in [Callers -> Stages]
    BY <1>1, <1>2, <1>4 DEF TypeOK, Stages
  <2>2. attestation.signers \in SUBSET Bits
    BY InputsTyped, InputTypes
  <2> QED
    BY <1>0, <1>1, <1>2, <2>1, <2>2 DEF TypeOK
<1> QED
  BY <1>9, <1>10

(***************************************************************************)
(* The invariant holds initially.                                          *)
(***************************************************************************)
LEMMA InitInv == Init => Inv
BY OrderAssumption DEF Init, Inv, TypeOK, CallerInv, Idle, Stages, Infinity, Points, Pending

(***************************************************************************)
(* Every step preserves the invariant: that of the caller who steps by the *)
(* lemma of its stage, that of the others because nothing of theirs        *)
(* changes.                                                                *)
(***************************************************************************)
LEMMA NextInv == Inv /\ [Next]_vars => Inv'
<1> SUFFICES ASSUME Inv, [Next]_vars PROVE Inv'
  OBVIOUS
<1>1. CASE UNCHANGED vars
  <2>1. TypeOK'
    BY <1>1 DEF Inv, TypeOK, vars
  <2>2. ASSUME NEW c \in Callers PROVE CallerInv(c)'
    BY <1>1, Frame DEF Inv, vars, Same
  <2> QED
    BY <2>1, <2>2 DEF Inv
<1>2. ASSUME NEW c \in Callers, Begin(c) \/ Step(c)
      PROVE  Inv'
  <2>1. CallerInv(c)' /\ TypeOK'
    <3>1. CASE Begin(c)
      BY <3>1, BeginStep DEF Inv
    <3>2. CASE Step(c)
      <4>1. Running(c) /\ TypeOK
        BY <3>2, StepsRun DEF Inv
      <4> QED
        BY <3>2, <4>1, VersionStep, ResolveStep, ScalarStep, QuorumStep, RefuseStep, AddStep,
          AllAddedStep, CompressStep, RecoverStep, ProviderStep DEF Step
    <3> QED
      BY <1>2, <3>1, <3>2
  <2>2. ASSUME NEW d \in Callers, d # c PROVE CallerInv(d)'
    BY <1>2, <2>2, OthersRest, InputsRest, Frame DEF Inv
  <2> QED
    BY <2>1, <2>2 DEF Inv
<1> QED
  BY <1>1, <1>2 DEF Next

(***************************************************************************)
(* The inductive invariant holds in every reachable state: while a         *)
(* pipeline runs, its sum is that of the keys peeled so far and every      *)
(* check before the current stage has passed; when it has ended, its       *)
(* answer is the verdict.                                                  *)
(***************************************************************************)
THEOREM Invariance == Spec => []Inv
BY InitInv, NextInv, PTL DEF Spec

-----------------------------------------------------------------------------
(***************************************************************************)
(* What follows from the invariant.                                        *)
(***************************************************************************)

(***************************************************************************)
(* Every variable keeps its type; in particular the accumulated sum and the*)
(* compressed key are always points of the group.                          *)
(***************************************************************************)
THEOREM TypeCorrect == Spec => []TypeOK
<1>1. Inv => TypeOK
  BY DEF Inv
<1> QED
  BY <1>1, Invariance, PTL

(***************************************************************************)
(* An answer that has been given is the verdict, which is permitted.       *)
(***************************************************************************)
LEMMA AnswersPermitted ==
  ASSUME Inv, NEW c \in Callers, outcome[c] # Pending
  PROVE  /\ asked[c] \in CallsAllowed /\ Ended(c)
         /\ outcome[c] = Verdict(asked[c]) /\ outcome[c] \in Permitted(asked[c])
BY VerdictTyped DEF Inv, CallerInv, Idle, Running, Ended

(***************************************************************************)
(* Nothing but the attestation, the snapshot and the call decides what is  *)
(* answered: each pipeline, taken step by step, gives the verdict that its *)
(* order of checks defines.                                                *)
(***************************************************************************)
THEOREM AnswersAreDetermined ==
  Spec => [](\A c \in Callers : outcome[c] # Pending => outcome[c] = Verdict(asked[c]))
<1>1. Inv => \A c \in Callers : outcome[c] # Pending => outcome[c] = Verdict(asked[c])
  BY AnswersPermitted
<1> QED
  BY <1>1, Invariance, PTL

(***************************************************************************)
(* Calls that differ in the supplied key alone have the same verdict,      *)
(* unless one of them is told that its key is wrong.                       *)
(***************************************************************************)
LEMMA KeysDecideNothing ==
  ASSUME NEW one \in Call, NEW other \in Call,
         one.op = other.op, one.message = other.message, one.provider = other.provider,
         Verdict(one) # "InvalidCoalitionKey", Verdict(other) # "InvalidCoalitionKey"
  PROVE  Verdict(one) = Verdict(other)
<1> DEFINE answer(call) == SignatureAnswer(call.op, call.hint, call.message)
<1>1. \/ answer(one) = answer(other)
      \/ answer(one) = "InvalidCoalitionKey"
      \/ answer(other) = "InvalidCoalitionKey"
  BY DEF SignatureAnswer, Then, CheckCoalitionKey
<1> HIDE DEF answer
<1>2. CASE one.op = "resolved"
  BY <1>1, <1>2 DEF Verdict, Then, answer
<1>3. CASE one.op = "keys"
  BY <1>1, <1>3 DEF Verdict, Then, answer
<1>4. CASE one.op \in {"verify", "provenance"}
  <2>1. VerifyVerdict(one) = VerifyVerdict(other) \/ VerifyVerdict(one) = "InvalidCoalitionKey"
        \/ VerifyVerdict(other) = "InvalidCoalitionKey"
    BY <1>1 DEF VerifyVerdict, Then, answer
  <2> QED
    BY <1>4, <2>1 DEF Verdict, Then
<1> QED
  BY <1>2, <1>3, <1>4 DEF Call, Ops, Disputes

(***************************************************************************)
(* A supplied coalition key changes no verdict: callers who ask the same   *)
(* with different keys, or without one, get the same answer, unless one of *)
(* them is told that its key is wrong.                                     *)
(***************************************************************************)
THEOREM SuppliedKeysDecideNothing == Spec => []HintDecidesNothing
<1>1. ASSUME Inv, NEW c \in Callers, NEW d \in Callers,
             {outcome[c], outcome[d]} \subseteq Outcomes \ {"InvalidCoalitionKey"},
             asked[c].op = asked[d].op, asked[c].message = asked[d].message,
             asked[c].provider = asked[d].provider
      PROVE  outcome[c] = outcome[d]
  <2>1. outcome[c] # Pending /\ outcome[d] # Pending
    BY <1>1 DEF Outcomes, Positive, Errors, Pending
  <2>2. outcome[c] = Verdict(asked[c]) /\ outcome[d] = Verdict(asked[d])
        /\ asked[c] \in CallsAllowed /\ asked[d] \in CallsAllowed
    BY <1>1, <2>1, AnswersPermitted
  <2>3. asked[c] \in Call /\ asked[d] \in Call
    BY <1>1, <2>2, CallsTyped DEF Inv
  <2> QED
    BY <1>1, <2>2, <2>3, KeysDecideNothing
<1>2. Inv => HintDecidesNothing
  BY <1>1 DEF HintDecidesNothing
<1> QED
  BY <1>2, Invariance, PTL

(***************************************************************************)
(* No two callers contradict each other about a message: what verify or    *)
(* verify_provenance accepts, or a dispute upholds, no dispute on any path *)
(* finds slashable.                                                        *)
(***************************************************************************)
THEOREM VerdictsAgree == Spec => []Agreement
<1>1. ASSUME Inv, NEW c \in Callers, NEW d \in Callers,
             outcome[c] \in Positive, outcome[d] = "false"
      PROVE  asked[c].message # asked[d].message
  <2>1. outcome[c] \in Permitted(asked[c]) /\ outcome[d] \in Permitted(asked[d])
    BY <1>1, AnswersPermitted DEF Positive, Pending
  <2>2. Genuine(asked[c].message)
    BY <1>1, <2>1 DEF Permitted, Positive, Errors, Deserved
  <2>3. ~ Genuine(asked[d].message)
    BY <1>1, <2>1 DEF Permitted, Cause
  <2> QED
    BY <2>2, <2>3
<1>2. Inv => Agreement
  BY <1>1 DEF Agreement
<1> QED
  BY <1>2, Invariance, PTL

(***************************************************************************)
(* A dispute over the registry finds an aggregate slashable only when its  *)
(* signers are live members with usable keys, whatever its scalar is.      *)
(***************************************************************************)
THEOREM AdverseVerdictsAreAboutMembers == Spec => []AdverseNeedsMembers
<1>1. Inv => AdverseNeedsMembers
  BY AnswersPermitted DEF AdverseNeedsMembers, Permitted, Cause, Disputable, Pending
<1> QED
  BY <1>1, Invariance, PTL

(***************************************************************************)
(* The sum of the keys of a bitmap with one provider splits into the sum   *)
(* of its nodes and the key of that provider.                              *)
(***************************************************************************)
LEMMA ProviderIsASummand ==
  ASSUME NEW view, NEW bitmap \in SUBSET Bits, NEW bit, ProviderBits(bitmap) = {bit}
  PROVE  /\ KeySum(view, bitmap) = Plus(KeySum(view, NodeBits(bitmap)), Signer(view, bit).key)
         /\ Cardinality(bitmap) = Cardinality(NodeBits(bitmap)) + 1
<1>1. bitmap = NodeBits(bitmap) \cup {bit} /\ bit \in Bits /\ ~ bit < NodeSlots
      /\ NodeBits(bitmap) \in SUBSET Bits
  BY DEF ProviderBits, NodeBits
<1>2. \A other \in NodeBits(bitmap) : other < bit
  BY <1>1, SlotsAssumption DEF NodeBits, Bits
<1>3. KeySum(view, NodeBits(bitmap) \cup {bit})
        = Plus(KeySum(view, NodeBits(bitmap)), Signer(view, bit).key)
  BY <1>1, <1>2, KeySumExtends
<1>4. IsFiniteSet(NodeBits(bitmap)) /\ bit \notin NodeBits(bitmap)
  <2>1. IsFiniteSet(Bits)
    BY FS_Interval, SlotsAssumption DEF Bits
  <2> QED
    BY <1>1, <2>1, FS_Subset DEF NodeBits
<1>5. Cardinality(NodeBits(bitmap) \cup {bit}) = Cardinality(NodeBits(bitmap)) + 1
  BY <1>4, FS_AddElement
<1> QED
  BY <1>1, <1>3, <1>5

(***************************************************************************)
(* Established provenance: the required provider is the only provider among*)
(* the signers, its bit is part of the signed message, its key is a summand*)
(* of the key that signed, and it stands for at most one node.             *)
(***************************************************************************)
THEOREM ProvenanceHolds == Spec => []ProvenanceIsSigned
<1>1. ASSUME Inv, NEW c \in Callers, outcome[c] = "ok", asked[c].op = "provenance"
      PROVE  \E bit \in attestation.signedMessage.signers :
               /\ bit >= NodeSlots
               /\ Signer(registry, bit).account = asked[c].provider
               /\ ProviderBits(attestation.signers) = {bit}
               /\ attestation.signedKey =
                    Plus(KeySum(registry, NodeBits(attestation.signers)),
                         Signer(registry, bit).key)
               /\ Cardinality(NodeBits(attestation.signers))
                    >= attestation.payload.required - 1
  <2> DEFINE signers == attestation.signers
  <2>0. signers \in SUBSET Bits /\ attestation.payload.required \in Nat
    BY <1>1, InputsTyped, InputTypes DEF Inv
  <2>1. outcome[c] \in Permitted(asked[c]) /\ asked[c] \in CallsAllowed
    BY <1>1, AnswersPermitted DEF Pending
  <2>2. Deserved(asked[c])
    BY <1>1, <2>1 DEF Permitted, Errors
  <2>3. attestation.signedMessage.signers = signers
    BY <1>1, <2>1, <2>2 DEF Deserved, Genuine, CallsAllowed, OwnMessage, Disputes
  <2>4. attestation.signedKey = KeySum(registry, signers) /\ QuorumMet
    BY <1>1, <2>2 DEF Deserved, Genuine, Coalition, Disputes
  <2>5. PICK bit \in ProviderBits(signers) : Signer(registry, bit).account = asked[c].provider
    BY <1>1, <2>2 DEF Deserved, ProviderSigned
  <2>6. bit \in signers /\ bit \in Bits /\ bit >= NodeSlots
    BY <2>0, <2>5, SlotsAssumption DEF ProviderBits, NodeBits, Bits
  <2>7. ProviderBits(signers) = {bit}
    <3>1. IsFiniteSet(Bits)
      BY FS_Interval, SlotsAssumption DEF Bits
    <3>2. IsFiniteSet(ProviderBits(signers))
      BY <2>0, <3>1, FS_Subset DEF ProviderBits
    <3>3. Cardinality(ProviderBits(signers)) \in Nat /\ Cardinality(ProviderBits(signers)) <= 1
      BY <2>4, <3>2, FS_CardinalityType DEF QuorumMet
    <3>4. IsFiniteSet(ProviderBits(signers) \ {bit})
          /\ Cardinality(ProviderBits(signers) \ {bit}) = Cardinality(ProviderBits(signers)) - 1
      BY <2>5, <3>2, FS_RemoveElement
    <3>5. Cardinality(ProviderBits(signers) \ {bit}) = 0
      BY <3>3, <3>4, FS_CardinalityType
    <3>6. ProviderBits(signers) \ {bit} = {}
      BY <3>4, <3>5, FS_EmptySet
    <3> QED
      BY <2>5, <3>6
  <2>8. /\ KeySum(registry, signers)
             = Plus(KeySum(registry, NodeBits(signers)), Signer(registry, bit).key)
        /\ Cardinality(signers) = Cardinality(NodeBits(signers)) + 1
    BY <2>0, <2>7, ProviderIsASummand
  <2>9. Cardinality(NodeBits(signers)) \in Nat
    <3>1. IsFiniteSet(Bits)
      BY FS_Interval, SlotsAssumption DEF Bits
    <3> QED
      BY <2>0, <3>1, FS_Subset, FS_CardinalityType DEF NodeBits
  <2>10. Cardinality(NodeBits(signers)) >= attestation.payload.required - 1
    BY <2>0, <2>4, <2>8, <2>9 DEF QuorumMet
  <2> QED
    BY <2>3, <2>4, <2>5, <2>6, <2>7, <2>8, <2>10
<1>2. Inv => ProvenanceIsSigned
  BY <1>1 DEF ProvenanceIsSigned
<1> QED
  BY <1>2, Invariance, PTL

(***************************************************************************)
(* verify and verify_provenance add no key before the version, the scalar  *)
(* and the quorum are checked.                                             *)
(***************************************************************************)
THEOREM CheapChecksPrecedeArithmetic == Spec => CheapChecksFirst
<1>1. ASSUME Inv, [Next]_vars, NEW c \in Callers,
             hasPoint'[c], ~ hasPoint[c], asked[c].op \notin Disputes
      PROVE  /\ attestation.payload.version = registry.version
             /\ attestation.scalarValid
             /\ QuorumMet
  <2>1. PICK d \in Callers : Begin(d) \/ Step(d)
    BY <1>1 DEF Next, vars
  <2>2. d = c
    BY <1>1, <2>1, OthersRest DEF Inv, Same
  <2>3. AddSigner(c)
    BY <1>1, <2>1, <2>2 DEF Step, Begin, CheckVersion, ResolveSigners, CheckScalar, QuorumStage,
      RefuseEmpty, AllAdded, Compress, Recover, MatchProvider, work
  <2>4. Running(c) /\ stage[c] = "accumulate"
    BY <1>1, <2>3, StepsRun DEF Inv, Step, AddSigner, At
  <2>5. asked[c].op # "resolved"
    BY <1>1 DEF Disputes
  <2> QED
    BY <1>1, <2>4, <2>5 DEF Running, Passed, VersionPassed, ScalarPassed, QuorumPassed
<1>2. Inv /\ [Next]_vars =>
        [\A c \in Callers :
           (hasPoint'[c] /\ ~ hasPoint[c] /\ asked[c].op \notin Disputes)
             => /\ attestation.payload.version = registry.version
                /\ attestation.scalarValid
                /\ QuorumMet]_vars
  BY <1>1
<1> QED
  BY <1>2, Invariance, PTL DEF Spec, CheapChecksFirst

-----------------------------------------------------------------------------
(***************************************************************************)
(* The refinement.  The instance of AttestationPolicy carries its own      *)
(* copies of the definitions of Claims; they mean the same here.           *)
(***************************************************************************)
LEMMA SameSums ==
  /\ \A set : Policy!Cardinality(set) = Cardinality(set)
  /\ \A bitmap : Policy!ProviderBits(bitmap) = ProviderBits(bitmap)
  /\ \A view, bit : Policy!Resolves(view, bit) = Resolves(view, bit)
  /\ \A view, bit : Policy!Signer(view, bit) = Signer(view, bit)
  /\ \A view, bitmap : Policy!KeySum(view, bitmap) = KeySum(view, bitmap)
<1>1. \A set : Policy!Cardinality(set) = Cardinality(set)
  BY DEF Policy!Cardinality, Cardinality
<1>2. \A bitmap : Policy!ProviderBits(bitmap) = ProviderBits(bitmap)
  BY DEF Policy!ProviderBits, ProviderBits, Policy!NodeBits, NodeBits
<1>3. \A view, bit : Policy!Segment(view, bit) = Segment(view, bit)
  BY DEF Policy!Segment, Segment
<1>4. \A view, bit : Policy!Signer(view, bit) = Signer(view, bit)
  BY <1>3 DEF Policy!Signer, Signer
<1>5. \A view, bit : Policy!Resolves(view, bit) = Resolves(view, bit)
  BY <1>3 DEF Policy!Resolves, Resolves, Policy!IsVacant, IsVacant
<1>6. \A view, bitmap : Policy!KeySum(view, bitmap) = KeySum(view, bitmap)
  BY DEF Policy!KeySum, KeySum, Policy!Highest, Highest, Policy!Plus, Plus, Policy!Signer,
    Signer, Policy!Segment, Segment, Policy!Infinity, Infinity, Policy!Bits, Bits
<1> QED
  BY <1>1, <1>2, <1>4, <1>5, <1>6

(***************************************************************************)
(* Hence the abstract verifier allows the same calls and answers.          *)
(***************************************************************************)
LEMMA SamePromise ==
  /\ Policy!CallsAllowed = CallsAllowed
  /\ \A call : Policy!Permitted(call) = Permitted(call)
<1>1. Policy!CallsAllowed = CallsAllowed
  BY DEF Policy!CallsAllowed, CallsAllowed, Policy!OwnMessage, OwnMessage, Policy!Hints, Hints,
    Policy!Disputes, Disputes, Policy!Points, Points, Policy!Infinity, Infinity
<1>2. /\ Policy!AllLive = AllLive
      /\ Policy!Coalition = Coalition
      /\ Policy!AllParse = AllParse
  BY SameSums DEF Policy!AllLive, AllLive, Policy!Coalition, Coalition, Policy!AllParse, AllParse,
    Policy!Unparsable, Unparsable
<1>3. Policy!WellFormed = WellFormed
  BY <1>2 DEF Policy!WellFormed, WellFormed, Policy!Infinity, Infinity
<1>4. \A message : Policy!Genuine(message) = Genuine(message)
  BY <1>2, <1>3 DEF Policy!Genuine, Genuine
<1>5. \A hint : Policy!HintFits(hint) = HintFits(hint)
  BY <1>2 DEF Policy!HintFits, HintFits
<1>6. Policy!QuorumMet = QuorumMet
  BY SameSums DEF Policy!QuorumMet, QuorumMet
<1>7. \A account : Policy!ProviderSigned(account) = ProviderSigned(account)
  BY SameSums DEF Policy!ProviderSigned, ProviderSigned
<1>8. \A call : Policy!Deserved(call) = Deserved(call)
  BY <1>4, <1>5, <1>6, <1>7 DEF Policy!Deserved, Deserved, Policy!Disputes, Disputes
<1>9. \A call, answer : Policy!Cause(call, answer) = Cause(call, answer)
  BY <1>2, <1>3, <1>4, <1>5, <1>6, <1>7, SameSums DEF Policy!Cause, Cause,
    Policy!Disputable, Disputable, Policy!Disputes,
    Disputes, Policy!Unparsable, Unparsable, Policy!Infinity, Infinity
<1>10. \A call : Policy!Permitted(call) = Permitted(call)
  BY <1>8, <1>9 DEF Policy!Permitted, Permitted, Policy!Disputes, Disputes, Policy!Errors, Errors
<1> QED
  BY <1>1, <1>10

(***************************************************************************)
(* The pipelines implement AttestationPolicy: entering one is asking, its  *)
(* last stage is the answer, and every other stage stutters.               *)
(***************************************************************************)
THEOREM ImplementsPolicy == Spec => PolicySpec
<1>1. Init => Policy!Init
  BY DEF Init, Policy!Init, Policy!Pending, Pending
<1>2. ASSUME Inv, Inv', [Next]_vars
      PROVE  [Policy!Next]_(Policy!policyVars)
  <2>1. CASE UNCHANGED vars
    BY <2>1 DEF vars, Policy!policyVars
  <2>2. ASSUME NEW c \in Callers, Begin(c)
        PROVE  [Policy!Next]_(Policy!policyVars)
    <3>1. asked[c] = NoCall
      BY <1>2, <2>2 DEF Inv, CallerInv, Idle, Running, OwnStage, Ended, Begin
    <3>2. \E call \in Policy!CallsAllowed : asked' = [asked EXCEPT ![c] = call]
      BY <2>2, SamePromise DEF Begin
    <3>3. Policy!Ask(c)
      BY <2>2, <3>1, <3>2 DEF Begin, Policy!Ask
    <3> QED
      BY <3>3 DEF Policy!Next
  <2>3. ASSUME NEW c \in Callers, Step(c)
        PROVE  [Policy!Next]_(Policy!policyVars)
    <3>1. Running(c) /\ UNCHANGED <<registry, attestation, asked>>
      BY <1>2, <2>3, StepsRun, InputsRest DEF Inv
    <3>2. asked[c] # NoCall /\ outcome[c] = Pending
      BY <1>2, <3>1, CallsTyped, CallAssumption DEF Running, Inv
    <3>3. outcome' = outcome \/ \E answer : Conclude(c, answer)
      BY <2>3 DEF Step, CheckVersion, ResolveSigners, CheckScalar, QuorumStage, RefuseEmpty,
        AddSigner, AllAdded, Compress, Recover, MatchProvider, Pass, PassUnless
    <3>4. ASSUME NEW answer, Conclude(c, answer)
          PROVE  Policy!Answer(c)
      <4>1. stage'[c] = "done" /\ outcome' = [outcome EXCEPT ![c] = answer]
            /\ outcome'[c] = answer
        BY <1>2, <3>4 DEF Conclude, Inv, TypeOK
      <4>2. CallerInv(c)'
        BY <1>2 DEF Inv
      <4>3. outcome'[c] = Verdict(asked[c])'
        BY <4>1, <4>2 DEF CallerInv, Idle, Running, OwnStage, Ended
      <4>4. answer \in Permitted(asked[c])
        BY <1>2, <3>1, <4>1, <4>3, Fixed, VerdictTyped DEF Running, Inv
      <4>5. answer \in Policy!Permitted(asked[c])
        BY <4>4, SamePromise
      <4> QED
        BY <3>1, <3>2, <4>1, <4>5 DEF Policy!Answer, Policy!Pending, Pending
    <3>5. CASE outcome' = outcome
      BY <3>1, <3>5 DEF Policy!policyVars
    <3> QED
      BY <3>3, <3>4, <3>5 DEF Policy!Next
  <2> QED
    BY <1>2, <2>1, <2>2, <2>3 DEF Next
<1>3. Inv /\ Inv' /\ [Next]_vars => [Policy!Next]_(Policy!policyVars)
  BY <1>2
<1> QED
  BY <1>1, <1>3, Invariance, PTL DEF Spec, PolicySpec, Policy!Spec

=============================================================================
