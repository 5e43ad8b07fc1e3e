------------------------- MODULE AttestationPolicy --------------------------
(***************************************************************************)
(* What the verifier promises, without how it computes it.  One attestation*)
(* and one registry snapshot are given; callers ask about them, and each   *)
(* is answered in one step.                                                *)
(*                                                                         *)
(* The promise: a positive answer is given exactly when the attestation    *)
(* deserves it, an adverse answer ("false", which a dispute takes as       *)
(* slashable) only for an aggregate of members that is not genuine, and an *)
(* error only when its cause is present.  The order of the checks is left  *)
(* open: when several causes are present any of them may be reported.      *)
(***************************************************************************)
EXTENDS Claims

VARIABLES
  asked,         \* asked[c] is the call of c, or NoCall
  outcome        \* outcome[c] is the answer c got, or Pending

policyVars == <<registry, attestation, asked, outcome>>

-----------------------------------------------------------------------------
Init ==
  /\ registry \in Registries
  /\ attestation \in Attestations
  /\ asked = [c \in Callers |-> NoCall]
  /\ outcome = [c \in Callers |-> Pending]

Ask(c) ==
  /\ asked[c] = NoCall
  /\ \E call \in CallsAllowed : asked' = [asked EXCEPT ![c] = call]
  /\ UNCHANGED <<registry, attestation, outcome>>

Answer(c) ==
  /\ asked[c] # NoCall
  /\ outcome[c] = Pending
  /\ \E answer \in Permitted(asked[c]) : outcome' = [outcome EXCEPT ![c] = answer]
  /\ UNCHANGED <<registry, attestation, asked>>

Next == \E c \in Callers : Ask(c) \/ Answer(c)

Spec == Init /\ [][Next]_policyVars

=============================================================================
