------------------------------- MODULE Claims -------------------------------
(***************************************************************************)
(* An attestation, the snapshot it is checked against, the calls that ask  *)
(* about it, and which answer each call deserves.  Definitions only: the   *)
(* abstract and the detailed verifier are both stated in these terms.      *)
(***************************************************************************)
EXTENDS Registry

CONSTANTS
  Callers,       \* independent users of the verifier
  Payloads,      \* attestation payloads
  Registries,    \* the snapshots to consider
  Attestations,  \* the attestations to consider
  NoHint,        \* coalition_key: None
  Garbled,       \* a coalition key that is no canonical point of the curve
  NoCall         \* a caller that has not asked yet

(***************************************************************************)
(* What is signed: the payload together with the signers bitmap            *)
(* (compute_message_hash, whose hash is taken to be injective).            *)
(***************************************************************************)
Message == [payload : Payloads, signers : SUBSET Bits]

(***************************************************************************)
(* An attestation carries its signature: the bitmap of the signers, whether*)
(* s is a canonical non-zero scalar, and the key and message under which   *)
(* the pair (s, commitment) satisfies the Schnorr equation.                *)
(***************************************************************************)
Attestation == [payload : Payloads, signers : SUBSET Bits, scalarValid : BOOLEAN,
                signedKey : Points, signedMessage : Message]

ASSUME PayloadAssumption ==
  \A payload \in Payloads : payload.version \in Nat /\ payload.required \in Nat
ASSUME InputAssumption == Registries \subseteq View /\ Attestations \subseteq Attestation
ASSUME HintAssumption ==
  /\ NoHint \notin Points /\ Garbled \notin Points /\ NoHint # Garbled

Hints == (Points \ {Infinity}) \cup {NoHint, Garbled}

(***************************************************************************)
(* The entry points: verify, verify_provenance and the two dispute checks, *)
(* over the registry (verify_aggregate_over_hash_resolved) and over a list *)
(* of resolved keys (verify_aggregate_over_hash and its keyed variant).    *)
(***************************************************************************)
Disputes == {"resolved", "keys"}
Ops == {"verify", "provenance"} \cup Disputes

Call == [op : Ops, hint : Hints, provider : Accounts \cup {NoAccount}, message : Message]

ASSUME CallAssumption == NoCall \notin Call

Positive == {"ok", "true"}
Errors == {"InvalidRegistryVersion", "InvalidAggregateSignature", "InsufficientSigners",
           "InvalidSignersBitmap", "InvalidCoalitionKey", "ProviderAbsent"}
Pending == "pending"
Outcomes == Positive \cup {"false"} \cup Errors

VARIABLES
  registry,      \* the snapshot all callers use
  attestation    \* the attestation they ask about

OwnMessage == [payload |-> attestation.payload, signers |-> attestation.signers]

(***************************************************************************)
(* verify and verify_provenance hash the attestation themselves; a dispute *)
(* hands in a message hash: the attestation's, or the one really signed.   *)
(* Any other message is one that was not signed, like the first when the   *)
(* second differs from it.                                                 *)
(***************************************************************************)
CallsAllowed ==
  [op : {"verify"}, hint : Hints, provider : {NoAccount}, message : {OwnMessage}]
  \cup [op : {"provenance"}, hint : Hints, provider : Accounts, message : {OwnMessage}]
  \cup [op : Disputes, hint : Hints, provider : {NoAccount},
        message : {OwnMessage, attestation.signedMessage}]

-----------------------------------------------------------------------------
AllLive == \A bit \in attestation.signers : Resolves(registry, bit)

AllParse == \A bit \in attestation.signers : Signer(registry, bit).key # Unparsable

Coalition == KeySum(registry, attestation.signers)

\* The signers are members of the snapshot and their keys have a usable sum.
WellFormed ==
  /\ attestation.signers # {}
  /\ AllLive
  /\ AllParse
  /\ Coalition # Infinity

\* The whole coalition signed exactly this message.
Genuine(message) ==
  /\ WellFormed
  /\ attestation.scalarValid
  /\ attestation.signedKey = Coalition
  /\ attestation.signedMessage = message

HintFits(hint) == hint = NoHint \/ hint = Coalition

QuorumMet ==
  /\ attestation.payload.required > 0
  /\ Cardinality(attestation.signers) >= attestation.payload.required
  /\ Cardinality(ProviderBits(attestation.signers)) <= 1

ProviderSigned(account) ==
  \E bit \in ProviderBits(attestation.signers) : Signer(registry, bit).account = account

Deserved(call) ==
  /\ Genuine(call.message)
  /\ HintFits(call.hint)
  /\ call.op \notin Disputes => QuorumMet /\ attestation.payload.version = registry.version
  /\ call.op = "provenance" => ProviderSigned(call.provider)

(***************************************************************************)
(* What a dispute may call slashable: an aggregate of members, of usable   *)
(* keys when it is over the registry, and one whose scalar no signature has*)
(* or whose evidence is usable throughout.                                 *)
(***************************************************************************)
Disputable(call) ==
  /\ AllLive
  /\ call.op = "resolved" => attestation.signers # {} /\ AllParse
  /\ attestation.scalarValid => WellFormed /\ HintFits(call.hint)

(***************************************************************************)
(* When each other answer is justified.                                    *)
(***************************************************************************)
Cause(call, answer) ==
  \/ /\ answer = "false"
     /\ call.op \in Disputes /\ Disputable(call) /\ ~ Genuine(call.message)
  \/ /\ answer = "InvalidRegistryVersion"
     /\ call.op \notin Disputes /\ attestation.payload.version # registry.version
  \/ /\ answer = "InsufficientSigners"
     /\ call.op \notin Disputes
     /\ \/ Cardinality(attestation.signers) < attestation.payload.required
        \/ attestation.payload.required = 0
  \/ /\ answer = "InvalidSignersBitmap"
     /\ \/ attestation.signers = {} \/ ~ AllLive
        \/ call.op \notin Disputes /\ Cardinality(ProviderBits(attestation.signers)) > 1
  \/ /\ answer = "InvalidCoalitionKey"
     /\ WellFormed /\ ~ HintFits(call.hint)
  \/ /\ answer = "InvalidAggregateSignature"
     /\ \/ call.op \notin Disputes /\ ~ Genuine(call.message)
        \/ \E bit \in attestation.signers :
             Resolves(registry, bit) /\ Signer(registry, bit).key = Unparsable
        \/ attestation.signers # {} /\ AllLive /\ AllParse /\ Coalition = Infinity
  \/ /\ answer = "ProviderAbsent"
     /\ call.op = "provenance"
     /\ Genuine(call.message) /\ QuorumMet
     /\ ~ ProviderSigned(call.provider)

Permitted(call) ==
  IF Deserved(call)
  THEN {IF call.op \in Disputes THEN "true" ELSE "ok"}
  ELSE {answer \in {"false"} \cup Errors : Cause(call, answer)}

-----------------------------------------------------------------------------
(***************************************************************************)
(* The answers of the single checks.                                       *)
(***************************************************************************)

\* As a bug: two providers are let through.
CheckQuorumManyProviders(signers, required) ==
  IF signers = {} THEN "InvalidSignersBitmap"
  ELSE IF required = 0 THEN "InsufficientSigners"
  ELSE IF Cardinality(signers) < required THEN "InsufficientSigners"
  ELSE "pass"

\* check_quorum, in its order; "pass" when it returns Ok.
CheckQuorum(signers, required) ==
  IF signers = {} THEN "InvalidSignersBitmap"
  ELSE IF required = 0 THEN "InsufficientSigners"
  ELSE IF Cardinality(ProviderBits(signers)) > 1 THEN "InvalidSignersBitmap"
  ELSE IF Cardinality(signers) < required THEN "InsufficientSigners"
  ELSE "pass"

\* As bugs: the supplied key is compared before the sum is known to be usable, and
\* only its x coordinate is compared (a point and its negation share it).
CheckCoalitionKeyFirst(point, added, hint) ==
  IF hint # NoHint /\ hint # point THEN "InvalidCoalitionKey"
  ELSE IF ~ added \/ point = Infinity THEN "InvalidAggregateSignature"
  ELSE "pass"

CheckCoalitionKeyX(point, added, hint) ==
  IF ~ added \/ point = Infinity THEN "InvalidAggregateSignature"
  ELSE IF hint \notin {NoHint, point, Order - point} THEN "InvalidCoalitionKey"
  ELSE "pass"

\* CoalitionAccumulator::finished_sum refuses an empty sum and infinity, then the
\* supplied key is compared with the sum (compressed_pubkey_with_key).
CheckCoalitionKey(point, added, hint) ==
  IF ~ added \/ point = Infinity THEN "InvalidAggregateSignature"
  ELSE IF hint # NoHint /\ hint # point THEN "InvalidCoalitionKey"
  ELSE "pass"

\* recover_and_match: the signature is good under `point` for `message`.
Recovers(point, message) ==
  attestation.signedKey = point /\ attestation.signedMessage = message

FindProvider(bits, account) ==
  IF \E bit \in bits : ~ Resolves(registry, bit) THEN "InvalidSignersBitmap"
  ELSE IF \E bit \in bits : Signer(registry, bit).account = account THEN "ok"
  ELSE "ProviderAbsent"

\* What a signature that does not match yields.
Mismatch(op) == IF op \in Disputes THEN "false" ELSE "InvalidAggregateSignature"

Matched(op) == IF op \in Disputes THEN "true" ELSE "ok"

-----------------------------------------------------------------------------
(***************************************************************************)
(* The answer that each entry point gives: that of the first of its checks *)
(* that does not pass.  The sum is over all the signers here; Verifier has *)
(* the loop that adds them up, and the checks as steps.                    *)
(***************************************************************************)
Then(first, second) == IF first = "pass" THEN second ELSE first

CheckedVersion ==
  IF attestation.payload.version # registry.version THEN "InvalidRegistryVersion" ELSE "pass"

CheckedScalar(op) == IF ~ attestation.scalarValid THEN Mismatch(op) ELSE "pass"

\* Resolving all the signers before any key is parsed.
Resolved == IF ~ AllLive THEN "InvalidSignersBitmap" ELSE "pass"

\* The loop stops at the lowest bit without a usable record.
Unusable ==
  {bit \in attestation.signers :
     ~ Resolves(registry, bit) \/ Signer(registry, bit).key = Unparsable}

Accumulated ==
  IF attestation.signers = {} THEN "InvalidSignersBitmap"
  ELSE IF Unusable = {} THEN "pass"
  ELSE IF Resolves(registry, Lowest(Unusable)) THEN "InvalidAggregateSignature"
  ELSE "InvalidSignersBitmap"

SignatureAnswer(op, hint, message) ==
  Then(CheckCoalitionKey(Coalition, TRUE, hint),
       IF Recovers(Coalition, message) THEN "pass" ELSE Mismatch(op))

VerifyVerdict(call) ==
  Then(CheckedVersion,
  Then(CheckedScalar(call.op),
  Then(CheckQuorum(attestation.signers, attestation.payload.required),
  Then(Accumulated,
       SignatureAnswer(call.op, call.hint, call.message)))))

Verdict(call) ==
  IF call.op = "resolved"
  THEN Then(Accumulated,
       Then(CheckedScalar(call.op),
       Then(SignatureAnswer(call.op, call.hint, call.message),
            Matched(call.op))))
  ELSE IF call.op = "keys"
  THEN Then(Resolved,
       Then(CheckedScalar(call.op),
       Then(Accumulated,
       Then(SignatureAnswer(call.op, call.hint, call.message),
            Matched(call.op)))))
  ELSE Then(VerifyVerdict(call),
            IF call.op = "verify" THEN Matched(call.op)
            ELSE FindProvider(ProviderBits(attestation.signers), call.provider))

=============================================================================
