----------------------------- MODULE Selection ------------------------------
(***************************************************************************)
(* Committee selection (selection.rs) as its users run it: a gateway draws *)
(* the committee and collects answers, anyone may submit an attestation,   *)
(* and a program polices it with verify_selection.  The two sides derive   *)
(* the committee independently, from different inputs: the gateway before  *)
(* the round, from t and whether a provider takes part, perhaps without    *)
(* the member tables; the police after it, from the signers bitmap.        *)
(*                                                                         *)
(* derive_group_bitmap is deterministic in its seed and the two numbers,   *)
(* and nothing more is known of it: `draws` records what it returned for   *)
(* each input so far.  The draw is not nested across sizes.  Source and    *)
(* registry version are fixed, so the seed is the window.  Gateway, nodes  *)
(* and providers are external: their actions are what the documentation    *)
(* asks of an honest round.                                                *)
(***************************************************************************)
EXTENDS Registry, Groups

CONSTANTS
  Snapshots,     \* registry snapshots to consider
  Times,         \* timestamps, in milliseconds
  WindowMs,      \* SELECTION_WINDOW_MS
  Required       \* values of signatures_required

ASSUME SnapshotsAssumption == Snapshots \subseteq View
ASSUME TimesAssumption == Times \subseteq Nat /\ WindowMs \in Nat \ {0}
ASSUME RequiredAssumption == Required \subseteq Nat
ASSUME SegmentAssumption == NodeSlots <= MaxNodes

VARIABLES
  snapshot,      \* the registry snapshot of the round
  draws,         \* what the sampler returned, by input
  phase,         \* "idle", "running", "submitted" or "policed"
  round,         \* the dispatched round
  committee,     \* its committee
  answered,      \* bits of those that answered the gateway
  claim,         \* the submitted attestation
  honest,        \* whether the gateway published it
  verdict        \* what verify_selection said of it

vars == <<snapshot, draws, phase, round, committee, answered, claim, honest, verdict>>

-----------------------------------------------------------------------------
Window(time) == time \div WindowMs

LiveCount(view) == Cardinality(LiveSlots(view))

SelectionSize(required, view) ==
  LET wanted == required + view.redundancyBuffer
  IN  IF wanted <= LiveCount(view) THEN wanted ELSE LiveCount(view)

\* As a bug: the provider is not taken off the committee.
NodeQuorumPlain(required, signers) == required

NodeQuorum(required, signers) ==
  IF ProviderBits(signers) # {} /\ required > 0 THEN required - 1 ELSE required

\* As a bug: any number of providers counts.
QuorumPassesManyProviders(signers, required) ==
  signers # {} /\ required # 0 /\ Cardinality(signers) >= required

\* check_quorum passes.
QuorumPasses(signers, required) ==
  /\ signers # {} /\ required # 0
  /\ Cardinality(ProviderBits(signers)) <= 1
  /\ Cardinality(signers) >= required

(***************************************************************************)
(* derive_selection_bitmap: the input of the sampler, the results it may   *)
(* give, and the committee that a drawn group of ranks stands for.         *)
(***************************************************************************)

\* As a bug: every millisecond has a draw of its own.
SeedPerMillisecond(time, nodes, view) ==
  <<time, LiveCount(view), SelectionSize(nodes, view)>>

Seed(time, nodes, view) ==
  <<Window(time), LiveCount(view), SelectionSize(nodes, view)>>

Refusal == [drawn |-> FALSE, ranks |-> {}]

Drawn(seed) ==
  IF seed \in DOMAIN draws THEN {draws[seed]}
  ELSE {[drawn |-> TRUE, ranks |-> group] :
          group \in IF Drawable(seed[2], seed[3]) THEN GroupsOf(seed[2], seed[3]) ELSE {}}
       \cup {refusal \in {Refusal} :
               Drawable(seed[2], seed[3]) => ~ IsTrivial(seed[2], seed[3])}

Remember(seed, draw) ==
  draws' = [s \in DOMAIN draws \cup {seed} |-> IF s = seed THEN draw ELSE draws[s]]

\* As a bug: the ranks are taken for slots.
CommitteeOfRanks(view, ranks) == ranks

\* The fast path is taken when no examined slot is a hole.
Committee(view, ranks) ==
  IF LiveCount(view) = Cardinality(ExaminedSlots(view)) THEN ranks
  ELSE {SlotOfRank(view, rank) : rank \in ranks}

\* A selection-only caller has the counts but not the tables.
Tableless(view) == [view EXCEPT !.nodes = <<>>, !.providers = <<>>]

\* The views a gateway may draw with: tables are needed when there are holes.
GatewayViews ==
  {snapshot} \cup
  {Tableless(s) : s \in {s \in {snapshot} : LiveSlots(s) = ExaminedSlots(s)}}

-----------------------------------------------------------------------------
NoRound == [time |-> 0, required |-> 0, provider |-> FALSE]
Rounds == [time : Times, required : Required \ {0}, provider : BOOLEAN]

NoClaim == [time |-> 0, required |-> 0, signers |-> {}]
ClaimSet == [time : Times, required : Required, signers : SUBSET Bits]

Init ==
  /\ snapshot \in Snapshots
  /\ draws = <<>>
  /\ phase = "idle"
  /\ round = NoRound /\ claim = NoClaim
  /\ committee = {} /\ answered = {}
  /\ honest = FALSE /\ verdict = "none"

(***************************************************************************)
(* The gateway starts a round; a provider round is for t - 1 nodes.        *)
(***************************************************************************)
Dispatch ==
  /\ phase = "idle"
  /\ \E r \in Rounds, view \in GatewayViews :
       LET nodes == IF r.provider THEN r.required - 1 ELSE r.required
           seed == Seed(r.time, nodes, view)
       IN  \E draw \in Drawn(seed) :
             /\ Remember(seed, draw)
             /\ draw.drawn
             /\ committee' = Committee(view, draw.ranks)
             /\ round' = r
  /\ phase' = "running"
  /\ UNCHANGED <<snapshot, answered, claim, honest, verdict>>

NodeSigns(slot) ==
  /\ phase = "running"
  /\ slot \in committee \ answered
  /\ answered' = answered \cup {slot}
  /\ UNCHANGED <<snapshot, draws, phase, round, committee, claim, honest, verdict>>

ProviderSigns(bit) ==
  /\ phase = "running"
  /\ round.provider /\ ProviderBits(answered) = {}
  /\ bit >= NodeSlots /\ Resolves(snapshot, bit)
  /\ answered' = answered \cup {bit}
  /\ UNCHANGED <<snapshot, draws, phase, round, committee, claim, honest, verdict>>

\* Nobody waits for the redundant members; a provider round carries its provider.
Publish ==
  /\ phase = "running"
  /\ Cardinality(answered) >= round.required
  /\ round.provider => ProviderBits(answered) # {}
  /\ \E time \in Times :
       /\ Window(time) = Window(round.time)
       /\ claim' = [time |-> time, required |-> round.required, signers |-> answered]
  /\ honest' = TRUE
  /\ phase' = "submitted"
  /\ UNCHANGED <<snapshot, draws, round, committee, answered, verdict>>

\* Whoever signed it, and whether or not it answers the running round.
SubmitAny ==
  /\ phase \in {"idle", "running"}
  /\ claim' \in ClaimSet
  /\ phase' = "submitted"
  /\ UNCHANGED <<snapshot, draws, round, committee, answered, honest, verdict>>

\* verify_selection, over the snapshot with its tables.
Police ==
  /\ phase = "submitted"
  /\ \/ /\ ~ QuorumPasses(claim.signers, claim.required)
        /\ verdict' = "error"
        /\ UNCHANGED draws
     \/ /\ QuorumPasses(claim.signers, claim.required)
        /\ LET seed == Seed(claim.time, NodeQuorum(claim.required, claim.signers), snapshot)
           IN  \E draw \in Drawn(seed) :
                 /\ Remember(seed, draw)
                 /\ verdict' =
                      IF ~ draw.drawn THEN "error"
                      ELSE IF NodeBits(claim.signers) \subseteq Committee(snapshot, draw.ranks)
                      THEN "true" ELSE "false"
  /\ phase' = "policed"
  /\ UNCHANGED <<snapshot, round, committee, answered, claim, honest>>

Next ==
  \/ Dispatch \/ Publish \/ SubmitAny \/ Police
  \/ \E bit \in Bits : NodeSigns(bit) \/ ProviderSigns(bit)

Spec == Init /\ [][Next]_vars

-----------------------------------------------------------------------------
\* No committee at all: nothing was dispatched.
Dispatched == round # NoRound

TypeOK ==
  /\ snapshot \in Snapshots
  /\ \A seed \in DOMAIN draws :
       /\ draws[seed].drawn \in BOOLEAN
       /\ draws[seed].ranks \subseteq Slots(seed[2])
       /\ Cardinality(draws[seed].ranks) = IF draws[seed].drawn THEN seed[3] ELSE 0
  /\ phase \in {"idle", "running", "submitted", "policed"}
  /\ round \in Rounds \cup {NoRound}
  /\ committee \subseteq Bits /\ answered \subseteq Bits
  /\ claim \in ClaimSet \cup {NoClaim}
  /\ honest \in BOOLEAN
  /\ verdict \in {"none", "true", "false", "error"}

(***************************************************************************)
(* No honest signer is flagged: an attestation the gateway published is    *)
(* never found to carry unsolicited signers, nor refused, whichever view   *)
(* the gateway drew with, whether or not a provider took part, and whatever*)
(* millisecond of the window it is stamped with (node_quorum's comment).   *)
(***************************************************************************)
HonestNeverFlagged == honest => verdict \in {"none", "true"}

(***************************************************************************)
(* The committee holds live node slots only, never a hole or a provider,   *)
(* and as many as the round needs and its buffer allows: a full committee  *)
(* together with the provider of a provider round always reaches t, when   *)
(* that many members are live (derive_selection_bitmap).                   *)
(***************************************************************************)
CommitteeIsLive ==
  Dispatched =>
    /\ committee \subseteq LiveSlots(snapshot)
    /\ LET seats == Cardinality(committee) + (IF round.provider THEN 1 ELSE 0)
       IN  /\ seats <= round.required + snapshot.redundancyBuffer
           /\ seats < round.required => committee = LiveSlots(snapshot)

(***************************************************************************)
(* Policing an attestation for the dispatched round, of the dispatched     *)
(* kind, singles out exactly the node signers that were not dispatched:    *)
(* both sides derived the same committee (verify_selection).               *)
(***************************************************************************)
PolicedByTheDispatch ==
  (/\ Dispatched /\ verdict \in {"true", "false"}
   /\ Window(claim.time) = Window(round.time) /\ claim.required = round.required
   /\ (ProviderBits(claim.signers) # {}) = round.provider)
    => (verdict = "true" <=> NodeBits(claim.signers) \subseteq committee)

(***************************************************************************)
(* An attestation that passes has enough live node members behind it: all  *)
(* but at most one of the t signers are live nodes, although               *)
(* verify_selection looks no signer up (check_quorum, is_subset).          *)
(***************************************************************************)
PassedAreLive ==
  verdict = "true" =>
    /\ NodeBits(claim.signers) \subseteq LiveSlots(snapshot)
    /\ Cardinality(NodeBits(claim.signers)) + 1 >= claim.required
    /\ Cardinality(NodeBits(claim.signers))
         <= claim.required + snapshot.redundancyBuffer

(***************************************************************************)
(* What selection.rs lines 130 and 131 say of Ok(false): the node signers  *)
(* are a strict superset of the selection.                                 *)
(***************************************************************************)
FlaggedIsStrictSuperset ==
  verdict = "false" =>
    \A seed \in DOMAIN draws :
      (/\ seed = Seed(claim.time, NodeQuorum(claim.required, claim.signers), snapshot)
       /\ draws[seed].drawn)
        => Committee(snapshot, draws[seed].ranks) \subseteq NodeBits(claim.signers)

=============================================================================
