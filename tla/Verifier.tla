------------------------------ MODULE Verifier ------------------------------
(***************************************************************************)
(* The verification pipelines of verify.rs and onchain.rs, check by check. *)
(* Each caller runs one pipeline over the shared attestation and snapshot; *)
(* a stage either passes the call on to the next stage or ends it with an  *)
(* answer.  Which stage follows which is the only difference between the   *)
(* entry points, so it is data (After); what a stage does is an action.    *)
(*                                                                         *)
(* Callers are independent: on-chain programs on several chains, relayers  *)
(* and dispute handlers that evaluate the same attestation.                *)
(***************************************************************************)
EXTENDS Claims

VARIABLES
  asked,         \* asked[c]: the call of c, or NoCall
  outcome,       \* outcome[c]: the answer c got, or Pending
  stage,         \* stage[c]: the check caller c is about to make
  rest,          \* rest[c]: the signer bits not peeled yet (for_each_set_bit)
  sum,           \* sum[c]: the accumulated point (CoalitionAccumulator.jacobian)
  hasPoint,      \* hasPoint[c]: whether a key has been added (has_point)
  key            \* key[c]: the coalition key compress_coalition returned

work == <<rest, sum, hasPoint, key>>
vars == <<registry, attestation, asked, outcome, stage, rest, sum, hasPoint, key>>

Stages == {"idle", "version", "resolve", "scalar", "quorum", "accumulate", "compress",
           "recover", "provider", "done"}

-----------------------------------------------------------------------------
(***************************************************************************)
(* The order of the checks.                                                *)
(***************************************************************************)
\* As a bug: the keys are summed before the quorum is checked.
VerifyOrderQuorumLate ==
  [version |-> "scalar", scalar |-> "accumulate", accumulate |-> "quorum",
   quorum |-> "compress", compress |-> "recover", recover |-> "done"]

VerifyOrder ==
  [version |-> "scalar", scalar |-> "quorum", quorum |-> "accumulate",
   accumulate |-> "compress", compress |-> "recover", recover |-> "done"]

ProvenanceOrder == [VerifyOrder EXCEPT !.recover = "provider"]

ResolvedOrder ==
  [accumulate |-> "scalar", scalar |-> "compress", compress |-> "recover",
   recover |-> "done"]

KeysOrder ==
  [resolve |-> "scalar", scalar |-> "accumulate", accumulate |-> "compress",
   compress |-> "recover", recover |-> "done"]

Orders ==
  [verify |-> VerifyOrder, provenance |-> ProvenanceOrder, resolved |-> ResolvedOrder,
   keys |-> KeysOrder]

After(op, from) == Orders[op][from]

\* As a bug: a dispute over the registry checks the scalar first.
FirstStageScalar(op) ==
  [verify |-> "version", provenance |-> "version", resolved |-> "scalar",
   keys |-> "resolve"][op]

FirstStage(op) ==
  [verify |-> "version", provenance |-> "version", resolved |-> "accumulate",
   keys |-> "resolve"][op]

-----------------------------------------------------------------------------
\* The key that is compressed: the supplied one, once it is accepted, else the sum.
CompressedKey(point, hint) == IF hint = NoHint THEN point ELSE hint

Pass(c) ==
  /\ stage' = [stage EXCEPT ![c] = After(asked[c].op, stage[c])]
  /\ UNCHANGED outcome

Conclude(c, answer) ==
  /\ stage' = [stage EXCEPT ![c] = "done"]
  /\ outcome' = [outcome EXCEPT ![c] = answer]

\* End with `verdict` when it names an error, else go on.
PassUnless(c, verdict) ==
  \/ verdict = "pass" /\ Pass(c)
  \/ verdict # "pass" /\ Conclude(c, verdict)

At(c, name) == stage[c] = name /\ UNCHANGED <<registry, attestation, asked>>

Init ==
  /\ registry \in Registries
  /\ attestation \in Attestations
  /\ asked = [c \in Callers |-> NoCall]
  /\ outcome = [c \in Callers |-> Pending]
  /\ stage = [c \in Callers |-> "idle"]
  /\ rest = [c \in Callers |-> {}]
  /\ sum = [c \in Callers |-> Infinity]
  /\ hasPoint = [c \in Callers |-> FALSE]
  /\ key = [c \in Callers |-> Infinity]

\* As a bug: a dispute sums the keys of the nodes only.
BeginNodesOnly(c) ==
  /\ stage[c] = "idle"
  /\ \E call \in CallsAllowed :
       /\ asked' = [asked EXCEPT ![c] = call]
       /\ stage' = [stage EXCEPT ![c] = FirstStage(call.op)]
       /\ rest' = [rest EXCEPT ![c] = IF call.op = "resolved"
                                      THEN NodeBits(attestation.signers)
                                      ELSE attestation.signers]
  /\ UNCHANGED <<registry, attestation, outcome, sum, hasPoint, key>>

Begin(c) ==
  /\ stage[c] = "idle"
  /\ \E call \in CallsAllowed :
       /\ asked' = [asked EXCEPT ![c] = call]
       /\ stage' = [stage EXCEPT ![c] = FirstStage(call.op)]
  /\ rest' = [rest EXCEPT ![c] = attestation.signers]
  /\ UNCHANGED <<registry, attestation, outcome, sum, hasPoint, key>>

CheckVersion(c) ==
  /\ At(c, "version")
  /\ PassUnless(c, CheckedVersion)
  /\ UNCHANGED work

\* resolve_signers: the caller turns the bitmap into the list of keys.
ResolveSigners(c) ==
  /\ At(c, "resolve")
  /\ PassUnless(c, Resolved)
  /\ UNCHANGED work

CheckScalar(c) ==
  /\ At(c, "scalar")
  /\ PassUnless(c, CheckedScalar(asked[c].op))
  /\ UNCHANGED work

QuorumStage(c) ==
  /\ At(c, "quorum")
  /\ PassUnless(c, CheckQuorum(attestation.signers, attestation.payload.required))
  /\ UNCHANGED work

RefuseEmpty(c) ==
  /\ At(c, "accumulate")
  /\ attestation.signers = {}
  /\ Conclude(c, "InvalidSignersBitmap")
  /\ UNCHANGED work

\* As a bug: a bit whose key is added is not cleared.
AddSignerAgain(c) ==
  LET bit == Lowest(rest[c])
  IN  /\ At(c, "accumulate")
      /\ rest[c] # {}
      /\ UNCHANGED <<rest, key>>
      /\ \/ /\ ~ Resolves(registry, bit)
            /\ Conclude(c, "InvalidSignersBitmap")
            /\ UNCHANGED <<sum, hasPoint>>
         \/ /\ Resolves(registry, bit)
            /\ sum' = [sum EXCEPT ![c] = Plus(@, Signer(registry, bit).key)]
            /\ hasPoint' = [hasPoint EXCEPT ![c] = TRUE]
            /\ UNCHANGED <<stage, outcome>>

(***************************************************************************)
(* One step of for_each_set_bit: the bit is cleared before it is used, its *)
(* record is looked up and parsed, and its key is added.                   *)
(***************************************************************************)
AddSigner(c) ==
  LET bit == Lowest(rest[c])
  IN  /\ At(c, "accumulate")
      /\ rest[c] # {}
      /\ rest' = [rest EXCEPT ![c] = @ \ {bit}]
      /\ UNCHANGED key
      /\ \/ /\ ~ Resolves(registry, bit)
            /\ Conclude(c, "InvalidSignersBitmap")
            /\ UNCHANGED <<sum, hasPoint>>
         \/ /\ Resolves(registry, bit)
            /\ Signer(registry, bit).key = Unparsable
            /\ Conclude(c, "InvalidAggregateSignature")
            /\ UNCHANGED <<sum, hasPoint>>
         \/ /\ Resolves(registry, bit)
            /\ Signer(registry, bit).key # Unparsable
            /\ sum' = [sum EXCEPT ![c] = Plus(@, Signer(registry, bit).key)]
            /\ hasPoint' = [hasPoint EXCEPT ![c] = TRUE]
            /\ UNCHANGED <<stage, outcome>>

AllAdded(c) ==
  /\ At(c, "accumulate")
  /\ rest[c] = {} /\ hasPoint[c]
  /\ Pass(c)
  /\ UNCHANGED work

Compress(c) ==
  /\ At(c, "compress")
  /\ LET verdict == CheckCoalitionKey(sum[c], hasPoint[c], asked[c].hint)
     IN  /\ PassUnless(c, verdict)
         /\ key' = IF verdict # "pass" THEN key
                   ELSE [key EXCEPT ![c] = CompressedKey(sum[c], asked[c].hint)]
  /\ UNCHANGED <<rest, sum, hasPoint>>

\* A match ends the call, except that provenance still has to find the provider.
Recover(c) ==
  /\ At(c, "recover")
  /\ \/ /\ ~ Recovers(key[c], asked[c].message)
        /\ Conclude(c, Mismatch(asked[c].op))
     \/ /\ Recovers(key[c], asked[c].message)
        /\ IF After(asked[c].op, "recover") = "done"
           THEN Conclude(c, Matched(asked[c].op))
           ELSE Pass(c)
  /\ UNCHANGED work

(***************************************************************************)
(* The loop of verify_provenance over the provider bits of the verified    *)
(* bitmap; a bit that does not resolve would be an error.                  *)
(***************************************************************************)
MatchProvider(c) ==
  /\ At(c, "provider")
  /\ Conclude(c, FindProvider(ProviderBits(attestation.signers), asked[c].provider))
  /\ UNCHANGED work

Step(c) ==
  \/ CheckVersion(c) \/ ResolveSigners(c) \/ CheckScalar(c) \/ QuorumStage(c)
  \/ RefuseEmpty(c) \/ AddSigner(c) \/ AllAdded(c) \/ Compress(c) \/ Recover(c)
  \/ MatchProvider(c)

Next == \E c \in Callers : Begin(c) \/ Step(c)

Spec == Init /\ [][Next]_vars

\* A pipeline that has been entered runs to its end: it is plain sequential code.
FairSpec == Spec /\ \A c \in Callers : WF_vars(Step(c))

-----------------------------------------------------------------------------
TypeOK ==
  /\ registry \in Registries /\ attestation \in Attestations
  /\ asked \in [Callers -> Call \cup {NoCall}]
  /\ outcome \in [Callers -> Outcomes \cup {Pending}]
  /\ stage \in [Callers -> Stages]
  /\ rest \in [Callers -> SUBSET Bits]
  /\ sum \in [Callers -> Points]
  /\ hasPoint \in [Callers -> BOOLEAN]
  /\ key \in [Callers -> Points]

Policy == INSTANCE AttestationPolicy

(***************************************************************************)
(* The pipelines keep the promise of AttestationPolicy: whatever the order *)
(* of the checks, the answer is one that the attestation justifies.        *)
(***************************************************************************)
PolicySpec == Policy!Spec

(***************************************************************************)
(* Two callers never contradict each other about the same message: what    *)
(* one entry point accepts, no dispute on any path finds slashable         *)
(* (verify.rs, verify_provenance and both verify_aggregate_over_hash).     *)
(***************************************************************************)
Agreement ==
  \A c, d \in Callers :
    (outcome[c] \in Positive /\ outcome[d] = "false")
      => asked[c].message # asked[d].message

(***************************************************************************)
(* A supplied coalition key changes the cost of a call, never its verdict: *)
(* calls that differ in the key alone get the same answer, unless one of   *)
(* them is told that its key is wrong (compressed_pubkey_with_key).        *)
(***************************************************************************)
HintDecidesNothing ==
  \A c, d \in Callers :
    (/\ {outcome[c], outcome[d]} \subseteq Outcomes \ {"InvalidCoalitionKey"}
     /\ asked[c].op = asked[d].op
     /\ asked[c].message = asked[d].message
     /\ asked[c].provider = asked[d].provider)
      => outcome[c] = outcome[d]

(***************************************************************************)
(* When provenance is established, the required provider is the only       *)
(* provider among the signers, its key is a summand of the key that signed,*)
(* its bit is part of the signed message, and it replaces at most one node *)
(* of the quorum (verify_provenance, check_quorum).                        *)
(***************************************************************************)
ProvenanceIsSigned ==
  \A c \in Callers :
    (outcome[c] = "ok" /\ asked[c].op = "provenance")
      => \E bit \in attestation.signedMessage.signers :
           /\ bit >= NodeSlots
           /\ Signer(registry, bit).account = asked[c].provider
           /\ ProviderBits(attestation.signers) = {bit}
           /\ attestation.signedKey =
                Plus(KeySum(registry, NodeBits(attestation.signers)),
                     Signer(registry, bit).key)
           /\ Cardinality(NodeBits(attestation.signers))
                >= attestation.payload.required - 1

(***************************************************************************)
(* A dispute over the registry never finds an aggregate slashable unless   *)
(* all its signers are live members with usable keys (onchain.rs: signers  *)
(* are resolved before the scalar check).                                  *)
(***************************************************************************)
AdverseNeedsMembers ==
  \A c \in Callers :
    (outcome[c] = "false" /\ asked[c].op = "resolved")
      => attestation.signers # {} /\ AllLive /\ AllParse

(***************************************************************************)
(* verify does no curve arithmetic for an attestation that the cheap checks*)
(* refuse: the first key is added only after version, scalar and quorum.   *)
(***************************************************************************)
CheapChecksFirst ==
  [][\A c \in Callers :
       (hasPoint'[c] /\ ~ hasPoint[c] /\ asked[c].op \notin Disputes)
         => /\ attestation.payload.version = registry.version
            /\ attestation.scalarValid
            /\ QuorumMet]_vars

(***************************************************************************)
(* Every call is answered: each pipeline, the peeling loop included, ends. *)
(***************************************************************************)
EveryCallAnswered ==
  \A c \in Callers : (asked[c] # NoCall) ~> (outcome[c] # Pending)

(***************************************************************************)
(* What onchain.rs lines 34 to 36 and verify.rs lines 186 and 187 say of a *)
(* wrong coalition key: it is an error, never a verdict.                   *)
(***************************************************************************)
WrongKeyIsNeverAVerdict ==
  \A c \in Callers :
    (outcome[c] \in {"true", "false"} /\ WellFormed) => HintFits(asked[c].hint)

=============================================================================
