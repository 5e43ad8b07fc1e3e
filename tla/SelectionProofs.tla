-------------------------- MODULE SelectionProofs ---------------------------
(***************************************************************************)
(* Proofs about committee selection and its policing: for any snapshots,   *)
(* any timestamps and window, and any values of signatures_required.       *)
(***************************************************************************)
EXTENDS Selection, FiniteSetTheorems, TLAPS

(***************************************************************************)
(* The inductive invariant.  The committee is the one that the draw for    *)
(* the round stands for, and that draw is never replaced.                  *)
(***************************************************************************)
RoundNodes(r) == IF r.provider THEN r.required - 1 ELSE r.required
RoundSeed == Seed(round.time, RoundNodes(round), snapshot)
ClaimSeed == Seed(claim.time, NodeQuorum(claim.required, claim.signers), snapshot)

DispatchInv ==
  Dispatched =>
    /\ round \in Rounds
    /\ RoundSeed \in DOMAIN draws /\ draws[RoundSeed].drawn
    /\ committee = Committee(snapshot, draws[RoundSeed].ranks)

\* Only the committee and at most one provider answer a round.
AnsweredInv ==
  /\ NodeBits(answered) \subseteq committee
  /\ Cardinality(ProviderBits(answered)) <= 1
  /\ ProviderBits(answered) # {} => round.provider

\* What an honest round publishes.
Faithful ==
  /\ Dispatched
  /\ claim \in ClaimSet
  /\ Window(claim.time) = Window(round.time) /\ claim.required = round.required
  /\ NodeBits(claim.signers) \subseteq committee
  /\ Cardinality(ProviderBits(claim.signers)) <= 1
  /\ (ProviderBits(claim.signers) # {}) = round.provider
  /\ Cardinality(claim.signers) >= claim.required

PhaseInv ==
  /\ phase = "running" => Dispatched
  /\ phase = "idle" => ~ Dispatched /\ answered = {}
  /\ phase \in {"submitted", "policed"} => claim \in ClaimSet
  /\ honest => phase \in {"submitted", "policed"} /\ Faithful
  /\ verdict # "none" => phase = "policed"

VerdictInv ==
  verdict \in {"true", "false"} =>
    /\ QuorumPasses(claim.signers, claim.required)
    /\ ClaimSeed \in DOMAIN draws /\ draws[ClaimSeed].drawn
    /\ verdict = "true" <=>
         NodeBits(claim.signers) \subseteq Committee(snapshot, draws[ClaimSeed].ranks)

Inv ==
  /\ TypeOK /\ DispatchInv /\ AnsweredInv /\ PhaseInv /\ VerdictInv
  /\ HonestNeverFlagged

-----------------------------------------------------------------------------
(***************************************************************************)
(* Ranks.  The rank of a member of a finite set of naturals is the number  *)
(* of members below it.                                                    *)
(***************************************************************************)
Below(set, slot) == {below \in set : below < slot}

\* Of two members the higher has the higher rank.
LEMMA RanksDiffer ==
  ASSUME NEW set \in SUBSET Nat, IsFiniteSet(set), NEW low \in set, NEW high \in set, low < high
  PROVE  Cardinality(Below(set, low)) < Cardinality(Below(set, high))
<1>1. Below(set, low) \in SUBSET Below(set, high)
  <2>1. \A below \in set : below < low => below < high
    BY \A below \in set : below \in Int
  <2> QED
    BY <2>1 DEF Below
<1>2. Below(set, low) # Below(set, high)
  <2>1. low \in Below(set, high) /\ low \notin Below(set, low)
    BY DEF Below
  <2> QED
    BY <2>1
<1>3. IsFiniteSet(Below(set, high)) /\ IsFiniteSet(Below(set, low))
  BY FS_Subset DEF Below
<1>4. /\ Cardinality(Below(set, low)) <= Cardinality(Below(set, high))
      /\ Cardinality(Below(set, high)) # Cardinality(Below(set, low))
  BY <1>1, <1>2, <1>3, FS_Subset
<1> QED
  BY <1>3, <1>4, FS_CardinalityType

(***************************************************************************)
(* Every rank below the number of members is the rank of a member: ranks   *)
(* are different and small, so they are all of them.                       *)
(***************************************************************************)
LEMMA RanksAreTaken ==
  ASSUME NEW set \in SUBSET Nat, IsFiniteSet(set), NEW rank \in 0 .. Cardinality(set) - 1
  PROVE  \E slot \in set : Cardinality(Below(set, slot)) = rank
<1> DEFINE n == Cardinality(set)
<1> DEFINE rankOf == [slot \in set |-> Cardinality(Below(set, slot))]
<1>1. n \in Nat
  BY FS_CardinalityType
<1>2. ASSUME NEW slot \in set PROVE Cardinality(Below(set, slot)) \in 0 .. n - 1
  <2>1. Below(set, slot) \in SUBSET set /\ slot \in set \ Below(set, slot)
    BY DEF Below
  <2>2. IsFiniteSet(Below(set, slot)) /\ Cardinality(Below(set, slot)) <= n
        /\ n # Cardinality(Below(set, slot))
    BY <2>1, FS_Subset
  <2> QED
    BY <1>1, <2>2, FS_CardinalityType
<1>3. rankOf \in [set -> 0 .. n - 1]
  BY <1>2
<1>4. \A low, high \in set : rankOf[low] = rankOf[high] => low = high
  <2> SUFFICES ASSUME NEW low \in set, NEW high \in set,
                      Cardinality(Below(set, low)) = Cardinality(Below(set, high))
               PROVE  low = high
    OBVIOUS
  <2>1. Cardinality(Below(set, low)) \in Int
    BY <1>1, <1>2
  <2>2. ~ low < high /\ ~ high < low
    BY <2>1, RanksDiffer
  <2> QED
    BY <2>2
<1>5. IsFiniteSet(0 .. n - 1) /\ Cardinality(0 .. n - 1) = n
  BY <1>1, 0 \in Int, n - 1 \in Int, FS_Interval
<1> HIDE DEF rankOf
<1>6. rankOf \in Injection(set, 0 .. n - 1)
  BY <1>3, <1>4 DEF Injection, IsInjective
<1>7. rankOf \in Surjection(set, 0 .. n - 1)
  BY <1>5, <1>6, FS_Injection
<1>8. \E slot \in set : rankOf[slot] = rank
  BY <1>7 DEF Surjection
<1> QED
  BY <1>8 DEF rankOf

-----------------------------------------------------------------------------
(***************************************************************************)
(* Live slots.                                                             *)
(***************************************************************************)
LEMMA LiveFacts ==
  ASSUME NEW view \in View
  PROVE  /\ LiveSlots(view) \subseteq ExaminedSlots(view)
         /\ ExaminedSlots(view) \subseteq 0 .. NodeSlots - 1
         /\ IsFiniteSet(ExaminedSlots(view)) /\ IsFiniteSet(LiveSlots(view))
         /\ Cardinality(ExaminedSlots(view)) \in Nat /\ LiveCount(view) \in Nat
         /\ ExaminedSlots(view) = Slots(Cardinality(ExaminedSlots(view)))
         /\ LiveCount(view) <= NodeSlots
<1>1. NodeSlots \in Nat /\ view.nodeCount \in Nat
  BY SlotsAssumption DEF View
<1> DEFINE size == IF view.nodeCount < NodeSlots THEN view.nodeCount ELSE NodeSlots
<1>2. size \in Nat /\ size <= NodeSlots
  BY <1>1
<1>3. ExaminedSlots(view) = 0 .. size - 1
  BY <1>1 DEF ExaminedSlots
<1> HIDE DEF size
<1>4. IsFiniteSet(0 .. size - 1) /\ Cardinality(0 .. size - 1) = size
  BY <1>2, 0 \in Int, size - 1 \in Int, FS_Interval
<1>5. LiveSlots(view) \in SUBSET ExaminedSlots(view)
  BY DEF LiveSlots
<1>6. IsFiniteSet(LiveSlots(view)) /\ LiveCount(view) <= size
  BY <1>3, <1>4, <1>5, FS_Subset DEF LiveCount
<1>7. LiveCount(view) \in Nat
  BY <1>6, FS_CardinalityType DEF LiveCount
<1>8. ExaminedSlots(view) \subseteq 0 .. NodeSlots - 1
  BY DEF ExaminedSlots
<1> QED
  BY <1>1, <1>2, <1>3, <1>4, <1>5, <1>6, <1>7, <1>8 DEF Slots

(***************************************************************************)
(* The slot of a rank is a live slot of that rank (LiveSlots::slot).       *)
(***************************************************************************)
LEMMA SlotOfRankFacts ==
  ASSUME NEW view \in View, NEW rank \in Slots(LiveCount(view))
  PROVE  /\ SlotOfRank(view, rank) \in LiveSlots(view)
         /\ Cardinality(Below(LiveSlots(view), SlotOfRank(view, rank))) = rank
<1>1. LiveSlots(view) \in SUBSET Nat /\ IsFiniteSet(LiveSlots(view))
  BY LiveFacts, SlotsAssumption
<1>2. \E slot \in LiveSlots(view) : Cardinality(Below(LiveSlots(view), slot)) = rank
  BY <1>1, RanksAreTaken DEF Slots, LiveCount
<1> QED
  BY <1>2 DEF SlotOfRank, Below

(***************************************************************************)
(* A drawn group of ranks stands for as many live slots, on either path    *)
(* (derive_selection_bitmap).                                              *)
(***************************************************************************)
LEMMA CommitteeFacts ==
  ASSUME NEW view \in View, NEW ranks \in SUBSET Slots(LiveCount(view))
  PROVE  /\ Committee(view, ranks) \subseteq LiveSlots(view)
         /\ IsFiniteSet(Committee(view, ranks))
         /\ Cardinality(Committee(view, ranks)) = Cardinality(ranks)
<1>1. /\ LiveSlots(view) \in SUBSET ExaminedSlots(view)
      /\ IsFiniteSet(ExaminedSlots(view)) /\ IsFiniteSet(LiveSlots(view))
      /\ LiveCount(view) \in Nat
      /\ ExaminedSlots(view) = Slots(Cardinality(ExaminedSlots(view)))
  BY LiveFacts
<1>2. IsFiniteSet(ranks)
  <2>1. IsFiniteSet(Slots(LiveCount(view)))
    BY <1>1, 0 \in Int, LiveCount(view) - 1 \in Int, FS_Interval DEF Slots
  <2> QED
    BY <2>1, FS_Subset
<1>3. CASE LiveCount(view) = Cardinality(ExaminedSlots(view))
  <2>1. LiveSlots(view) = ExaminedSlots(view)
    BY <1>1, <1>3, FS_Subset DEF LiveCount
  <2> QED
    BY <1>1, <1>2, <1>3, <2>1 DEF Committee
<1>4. CASE LiveCount(view) # Cardinality(ExaminedSlots(view))
  <2> DEFINE seats == {SlotOfRank(view, rank) : rank \in ranks}
  <2> DEFINE seatOf == [rank \in ranks |-> SlotOfRank(view, rank)]
  <2>1. Committee(view, ranks) = seats
    BY <1>4 DEF Committee
  <2>2. seats \subseteq LiveSlots(view)
    BY SlotOfRankFacts
  <2>3. seatOf \in Surjection(ranks, seats)
    BY DEF Surjection
  <2>4. seatOf \in Injection(ranks, seats)
    <3>1. \A one, other \in ranks : SlotOfRank(view, one) = SlotOfRank(view, other) => one = other
      BY SlotOfRankFacts
    <3> QED
      BY <3>1 DEF Injection, IsInjective
  <2> HIDE DEF seatOf
  <2>5. IsFiniteSet(seats) /\ Cardinality(seats) = Cardinality(ranks)
    BY <1>2, <2>3, <2>4, FS_Surjection
  <2> QED
    BY <2>1, <2>2, <2>5
<1> QED
  BY <1>3, <1>4

(***************************************************************************)
(* The committee is as large as asked for, except that it never exceeds    *)
(* the live members.                                                       *)
(***************************************************************************)
LEMMA SizeFacts ==
  ASSUME NEW view \in View, NEW nodes \in Nat
  PROVE  LET size == SelectionSize(nodes, view)
         IN  /\ size \in Nat /\ size <= LiveCount(view)
             /\ size <= nodes + view.redundancyBuffer
             /\ size < nodes => size = LiveCount(view)
<1>1. LiveCount(view) \in Nat /\ view.redundancyBuffer \in Nat
  BY LiveFacts DEF View
<1> QED
  BY <1>1 DEF SelectionSize

(***************************************************************************)
(* Without the tables a gateway derives the same committee, as long as it  *)
(* does so only for a registry without holes.                              *)
(***************************************************************************)
LEMMA ViewsAgree ==
  ASSUME snapshot \in View, NEW view \in GatewayViews, NEW time, NEW nodes, NEW ranks
  PROVE  /\ Seed(time, nodes, view) = Seed(time, nodes, snapshot)
         /\ Committee(view, ranks) = Committee(snapshot, ranks)
<1>1. CASE view = snapshot
  BY <1>1
<1>2. CASE view # snapshot
  <2>1. view = Tableless(snapshot) /\ LiveSlots(snapshot) = ExaminedSlots(snapshot)
    BY <1>2 DEF GatewayViews
  <2>2. /\ view.nodeCount = snapshot.nodeCount
        /\ view.redundancyBuffer = snapshot.redundancyBuffer
        /\ view.nodes = <<>>
    BY <2>1 DEF Tableless, View
  <2>3. ExaminedSlots(view) = ExaminedSlots(snapshot)
    BY <2>2 DEF ExaminedSlots
  <2>4. LiveSlots(view) = ExaminedSlots(view)
    <3>1. DOMAIN view.nodes = {}
      BY <2>2
    <3>2. CASE ExaminedSlots(view) = {}
      BY <3>2 DEF LiveSlots
    <3>3. CASE ExaminedSlots(view) # {}
      BY <3>1, <3>3 DEF LiveSlots
    <3> QED
      BY <3>2, <3>3
  <2>5. LiveSlots(view) = LiveSlots(snapshot)
    BY <2>1, <2>3, <2>4
  <2>6. Seed(time, nodes, view) = Seed(time, nodes, snapshot)
    BY <2>2, <2>5 DEF Seed, SelectionSize, LiveCount
  <2>7. Committee(view, ranks) = ranks /\ Committee(snapshot, ranks) = ranks
    BY <2>1, <2>3, <2>5 DEF Committee, LiveCount
  <2> QED
    BY <2>6, <2>7
<1> QED
  BY <1>1, <1>2

-----------------------------------------------------------------------------
(***************************************************************************)
(* The memory of the sampler: what it returned for an input is of the kind *)
(* asked for, is returned again, and is never replaced.                    *)
(***************************************************************************)
DrawOf(seed, draw) ==
  /\ draw.drawn \in BOOLEAN
  /\ draw.ranks \subseteq Slots(seed[2])
  /\ Cardinality(draw.ranks) = IF draw.drawn THEN seed[3] ELSE 0

DrawsTyped == \A seed \in DOMAIN draws : DrawOf(seed, draws[seed])

\* A draw is one the sampler may return for its input.
LEMMA DrawnIsTyped ==
  ASSUME DrawsTyped, NEW seed, NEW draw \in Drawn(seed)
  PROVE  DrawOf(seed, draw)
<1>1. CASE seed \in DOMAIN draws
  BY <1>1 DEF DrawsTyped, Drawn
<1>2. CASE seed \notin DOMAIN draws
  <2>1. Cardinality({}) = 0
    BY FS_EmptySet
  <2>2. CASE draw = Refusal
    BY <2>1, <2>2 DEF Refusal, DrawOf
  <2>3. CASE draw # Refusal
    <3>1. PICK group \in GroupsOf(seed[2], seed[3]) : draw = [drawn |-> TRUE, ranks |-> group]
      BY <1>2, <2>3 DEF Drawn
    <3> QED
      BY <3>1 DEF GroupsOf, DrawOf
  <2> QED
    BY <2>2, <2>3
<1> QED
  BY <1>1, <1>2

\* Remembering a draw forgets and changes none.
LEMMA DrawsRemembered ==
  ASSUME DrawsTyped, NEW seed, NEW draw \in Drawn(seed), Remember(seed, draw)
  PROVE  /\ DrawsTyped'
         /\ DOMAIN draws \subseteq DOMAIN draws' /\ seed \in DOMAIN draws'
         /\ \A known \in DOMAIN draws : draws'[known] = draws[known]
         /\ draws'[seed] = draw
         /\ seed \in DOMAIN draws => draw = draws[seed]
<1>1. draws' = [s \in DOMAIN draws \cup {seed} |-> IF s = seed THEN draw ELSE draws[s]]
  BY DEF Remember
<1>2. seed \in DOMAIN draws => draw = draws[seed]
  BY DEF Drawn
<1>3. DOMAIN draws' = DOMAIN draws \cup {seed} /\ draws'[seed] = draw
      /\ \A known \in DOMAIN draws : draws'[known] = draws[known]
  BY <1>1, <1>2
<1>4. \A known \in DOMAIN draws' : DrawOf(known, draws'[known])
  BY <1>3, DrawnIsTyped DEF DrawsTyped
<1> QED
  BY <1>2, <1>3, <1>4 DEF DrawsTyped, DrawOf

(***************************************************************************)
(* A draw for a seed of the snapshot gives a committee of live slots, as   *)
(* large as the selection is to be.                                        *)
(***************************************************************************)
LEMMA CommitteeOfDraw ==
  ASSUME snapshot \in View, NEW time, NEW nodes, NEW draw,
         DrawOf(Seed(time, nodes, snapshot), draw), draw.drawn
  PROVE  /\ Committee(snapshot, draw.ranks) \subseteq LiveSlots(snapshot)
         /\ IsFiniteSet(Committee(snapshot, draw.ranks))
         /\ Cardinality(Committee(snapshot, draw.ranks)) = SelectionSize(nodes, snapshot)
<1> DEFINE seed == Seed(time, nodes, snapshot)
<1>1. seed[2] = LiveCount(snapshot) /\ seed[3] = SelectionSize(nodes, snapshot)
  BY DEF Seed
<1>2. draw.ranks \in SUBSET Slots(LiveCount(snapshot))
      /\ Cardinality(draw.ranks) = SelectionSize(nodes, snapshot)
  BY <1>1 DEF DrawOf
<1> QED
  BY <1>2, CommitteeFacts

(***************************************************************************)
(* What the invariant says of the current state, in the terms used below.  *)
(***************************************************************************)
LEMMA StateFacts ==
  ASSUME Inv
  PROVE  /\ snapshot \in View /\ DrawsTyped
         /\ LiveSlots(snapshot) \subseteq Bits /\ NodeSlots \in Nat
         /\ \A slot \in LiveSlots(snapshot) : slot < NodeSlots
<1>1. snapshot \in View
  BY SnapshotsAssumption DEF Inv, TypeOK
<1>2. DrawsTyped
  BY DEF Inv, TypeOK, DrawsTyped, DrawOf
<1>3. LiveSlots(snapshot) \subseteq 0 .. NodeSlots - 1
  BY <1>1, LiveFacts
<1> QED
  BY <1>1, <1>2, <1>3, SlotsAssumption DEF Bits

(***************************************************************************)
(* The invariant holds at first, when nothing has been dispatched.         *)
(***************************************************************************)
LEMMA InitInv == Init => Inv
<1> SUFFICES ASSUME Init PROVE Inv
  OBVIOUS
<1> USE DEF Init
<1>1. DOMAIN draws = {}
  OBVIOUS
<1>2. TypeOK
  BY <1>1 DEF TypeOK
<1>3. NodeBits({}) = {} /\ ProviderBits({}) = {}
  BY DEF NodeBits, ProviderBits
<1>4. AnsweredInv
  BY <1>3, FS_EmptySet DEF AnsweredInv
<1>5. DispatchInv /\ PhaseInv /\ VerdictInv /\ HonestNeverFlagged
  BY DEF DispatchInv, Dispatched, PhaseInv, VerdictInv, HonestNeverFlagged
<1> QED
  BY <1>2, <1>4, <1>5 DEF Inv

(***************************************************************************)
(* A claim for the round, of its kind, is policed with the seed that the   *)
(* committee was drawn with.                                               *)
(***************************************************************************)
LEMMA SameSeed ==
  ASSUME Inv, Dispatched,
         Window(claim.time) = Window(round.time), claim.required = round.required,
         (ProviderBits(claim.signers) # {}) = round.provider
  PROVE  ClaimSeed = RoundSeed
<1>1. round \in Rounds
  BY DEF Inv, DispatchInv
<1>2. claim.required \in Nat \ {0}
  BY <1>1, RequiredAssumption DEF Rounds
<1>3. ProviderBits(claim.signers) # {} <=> round.provider
  OBVIOUS
<1>4. NodeQuorum(claim.required, claim.signers) =
        IF ProviderBits(claim.signers) # {} THEN claim.required - 1 ELSE claim.required
  BY <1>2 DEF NodeQuorum
<1>5. NodeQuorum(claim.required, claim.signers) = RoundNodes(round)
  BY <1>3, <1>4 DEF RoundNodes
<1> QED
  BY <1>5 DEF ClaimSeed, RoundSeed, Seed

(***************************************************************************)
(* A new draw leaves the committee the one that was drawn.                 *)
(***************************************************************************)
LEMMA DispatchKept ==
  ASSUME DispatchInv, UNCHANGED <<snapshot, round, committee>>,
         DOMAIN draws \subseteq DOMAIN draws',
         \A known \in DOMAIN draws : draws'[known] = draws[known]
  PROVE  DispatchInv'
BY DEF DispatchInv, Dispatched, RoundSeed

(***************************************************************************)
(* The gateway starts a round.                                             *)
(***************************************************************************)
LEMMA DispatchStep ==
  ASSUME Inv, Dispatch
  PROVE  Inv'
<1>0. /\ phase = "idle" /\ phase' = "running"
      /\ UNCHANGED <<snapshot, answered, claim, honest, verdict>>
  BY DEF Dispatch
<1>1. PICK r \in Rounds, view \in GatewayViews :
        LET nodes == IF r.provider THEN r.required - 1 ELSE r.required
            seed == Seed(r.time, nodes, view)
        IN  \E draw \in Drawn(seed) :
              /\ Remember(seed, draw)
              /\ draw.drawn
              /\ committee' = Committee(view, draw.ranks)
              /\ round' = r
  BY DEF Dispatch
<1> DEFINE seed == Seed(r.time, RoundNodes(r), snapshot)
<1>2. seed = Seed(r.time, RoundNodes(r), view)
  BY StateFacts, ViewsAgree
<1>3. PICK draw \in Drawn(seed) :
        /\ Remember(seed, draw) /\ draw.drawn
        /\ committee' = Committee(view, draw.ranks)
        /\ round' = r
  BY <1>1, <1>2 DEF RoundNodes
<1>4. committee' = Committee(snapshot, draw.ranks)
  BY <1>3, StateFacts, ViewsAgree
<1>5. /\ DrawsTyped' /\ seed \in DOMAIN draws' /\ draws'[seed] = draw
      /\ DrawOf(seed, draw)
  BY <1>3, StateFacts, DrawsRemembered, DrawnIsTyped
<1>6. committee' \subseteq Bits
  BY <1>3, <1>4, <1>5, StateFacts, CommitteeOfDraw
<1>7. TypeOK'
  <2>1. \A known \in DOMAIN draws' : DrawOf(known, draws'[known])
    BY <1>5 DEF DrawsTyped, DrawOf
  <2> QED
    BY <1>0, <1>3, <1>6, <2>1 DEF Inv, TypeOK, DrawOf
<1>8. Dispatched'
  BY <1>3, RequiredAssumption DEF Dispatched, Rounds, NoRound
<1>9. DispatchInv'
  <2>1. RoundSeed' = seed
    BY <1>0, <1>3 DEF RoundSeed
  <2> QED
    BY <1>0, <1>3, <1>4, <1>5, <2>1 DEF DispatchInv
<1>10. answered = {} /\ ~ honest /\ verdict = "none"
  BY <1>0 DEF Inv, PhaseInv
<1>11. AnsweredInv'
  <2>1. NodeBits({}) = {} /\ ProviderBits({}) = {} /\ Cardinality({}) = 0
    BY FS_EmptySet DEF NodeBits, ProviderBits
  <2> QED
    BY <1>0, <1>10, <2>1 DEF AnsweredInv
<1>12. PhaseInv' /\ VerdictInv' /\ HonestNeverFlagged'
  BY <1>0, <1>8, <1>10 DEF PhaseInv, VerdictInv, HonestNeverFlagged
<1> QED
  BY <1>7, <1>9, <1>11, <1>12 DEF Inv

(***************************************************************************)
(* Someone answers: a member of the committee, or the first provider.      *)
(***************************************************************************)
LEMMA AnswerStep ==
  ASSUME Inv, NEW bit \in Bits, NodeSigns(bit) \/ ProviderSigns(bit)
  PROVE  Inv'
<1>1. /\ phase = "running" /\ answered' = answered \cup {bit}
      /\ UNCHANGED <<snapshot, draws, phase, round, committee, claim, honest, verdict>>
  BY DEF NodeSigns, ProviderSigns
<1>2. Dispatched /\ ~ honest /\ verdict = "none"
  BY <1>1 DEF Inv, PhaseInv
<1>3. TypeOK'
  BY <1>1 DEF Inv, TypeOK
<1>4. DispatchInv'
  BY <1>1, DispatchKept DEF Inv
<1>5. AnsweredInv'
  <2>1. CASE NodeSigns(bit)
    <3>1. bit \in committee /\ bit < NodeSlots
      <4>1. committee \subseteq LiveSlots(snapshot)
        BY <1>2, StateFacts, CommitteeOfDraw DEF Inv, DispatchInv, DrawsTyped, RoundSeed
      <4> QED
        BY <2>1, <4>1, StateFacts DEF NodeSigns
    <3>2. /\ NodeBits(answered') = NodeBits(answered) \cup {bit}
          /\ ProviderBits(answered') = ProviderBits(answered)
      BY <1>1, <3>1 DEF NodeBits, ProviderBits
    <3> QED
      BY <1>1, <3>1, <3>2 DEF Inv, AnsweredInv
  <2>2. CASE ProviderSigns(bit)
    <3>1. ~ bit < NodeSlots /\ round.provider /\ ProviderBits(answered) = {}
      BY <2>2, SlotsAssumption DEF ProviderSigns, Bits
    <3>2. /\ NodeBits(answered') = NodeBits(answered)
          /\ ProviderBits(answered') = {bit}
      BY <1>1, <3>1 DEF NodeBits, ProviderBits
    <3>3. Cardinality({bit}) = 1
      BY FS_Singleton
    <3> QED
      BY <1>1, <3>1, <3>2, <3>3 DEF Inv, AnsweredInv
  <2> QED
    BY <2>1, <2>2
<1>6. PhaseInv' /\ VerdictInv' /\ HonestNeverFlagged'
  BY <1>1, <1>2 DEF PhaseInv, VerdictInv, HonestNeverFlagged, Dispatched
<1> QED
  BY <1>3, <1>4, <1>5, <1>6 DEF Inv

(***************************************************************************)
(* The gateway publishes what it has.                                      *)
(***************************************************************************)
LEMMA PublishStep ==
  ASSUME Inv, Publish
  PROVE  Inv'
<1>1. /\ phase = "running" /\ phase' = "submitted" /\ honest' = TRUE
      /\ Cardinality(answered) >= round.required
      /\ round.provider => ProviderBits(answered) # {}
      /\ UNCHANGED <<snapshot, draws, round, committee, answered, verdict>>
  BY DEF Publish
<1>2. PICK time \in Times :
        /\ Window(time) = Window(round.time)
        /\ claim' = [time |-> time, required |-> round.required, signers |-> answered]
  BY DEF Publish
<1>3. Dispatched /\ verdict = "none" /\ round \in Rounds /\ round.provider \in BOOLEAN
  BY <1>1 DEF Inv, PhaseInv, DispatchInv, Rounds
<1>4. claim' \in ClaimSet
  BY <1>2, <1>3 DEF ClaimSet, Rounds, Inv, TypeOK
<1>5. TypeOK'
  BY <1>1, <1>4 DEF Inv, TypeOK
<1>6. DispatchInv'
  BY <1>1, DispatchKept DEF Inv
<1>7. AnsweredInv'
  BY <1>1 DEF Inv, AnsweredInv
<1>8. Faithful'
  <2>1. claim'.time = time /\ claim'.required = round.required /\ claim'.signers = answered
    BY <1>2
  <2>2. (ProviderBits(answered) # {}) = round.provider
    BY <1>1, <1>3 DEF Inv, AnsweredInv
  <2> QED
    BY <1>1, <1>2, <1>3, <1>4, <2>1, <2>2 DEF Faithful, Dispatched, Inv, AnsweredInv
<1>9. PhaseInv' /\ VerdictInv' /\ HonestNeverFlagged'
  BY <1>1, <1>3, <1>4, <1>8 DEF PhaseInv, VerdictInv, HonestNeverFlagged
<1> QED
  BY <1>5, <1>6, <1>7, <1>9 DEF Inv

(***************************************************************************)
(* Anyone submits anything.                                                *)
(***************************************************************************)
LEMMA SubmitStep ==
  ASSUME Inv, SubmitAny
  PROVE  Inv'
<1>1. /\ phase \in {"idle", "running"} /\ phase' = "submitted" /\ claim' \in ClaimSet
      /\ UNCHANGED <<snapshot, draws, round, committee, answered, honest, verdict>>
  BY DEF SubmitAny
<1>2. ~ honest /\ verdict = "none"
  BY <1>1 DEF Inv, PhaseInv
<1>3. TypeOK'
  BY <1>1 DEF Inv, TypeOK
<1>4. DispatchInv'
  BY <1>1, DispatchKept DEF Inv
<1>5. AnsweredInv'
  BY <1>1 DEF Inv, AnsweredInv
<1>6. PhaseInv' /\ VerdictInv' /\ HonestNeverFlagged'
  BY <1>1, <1>2 DEF PhaseInv, VerdictInv, HonestNeverFlagged
<1> QED
  BY <1>3, <1>4, <1>5, <1>6 DEF Inv

(***************************************************************************)
(* The program polices what was submitted.  An honest claim passes the     *)
(* quorum check, and is compared with the committee it was drawn for.      *)
(***************************************************************************)
LEMMA HonestPasses ==
  ASSUME Inv, honest
  PROVE  /\ QuorumPasses(claim.signers, claim.required)
         /\ ClaimSeed \in DOMAIN draws /\ draws[ClaimSeed].drawn
         /\ NodeBits(claim.signers) \subseteq Committee(snapshot, draws[ClaimSeed].ranks)
<1>1. Faithful
  BY DEF Inv, PhaseInv
<1>2. ClaimSeed = RoundSeed
  BY <1>1, SameSeed DEF Faithful
<1>3. round \in Rounds /\ claim.required \in Nat \ {0}
  BY <1>1, RequiredAssumption DEF Inv, DispatchInv, Faithful, Rounds
<1>4. claim.signers # {}
  BY <1>1, <1>3, FS_EmptySet DEF Faithful
<1>5. QuorumPasses(claim.signers, claim.required)
  BY <1>1, <1>3, <1>4 DEF QuorumPasses, Faithful
<1> QED
  BY <1>1, <1>2, <1>5 DEF Faithful, Inv, DispatchInv

\* Policing: a faithful claim is policed with the seed of its dispatch.
LEMMA PoliceStep ==
  ASSUME Inv, Police
  PROVE  Inv'
<1>1. /\ phase = "submitted" /\ phase' = "policed"
      /\ UNCHANGED <<snapshot, round, committee, answered, claim, honest>>
  BY DEF Police
<1>2. claim \in ClaimSet /\ (honest => Faithful)
  BY <1>1 DEF Inv, PhaseInv
<1>3. AnsweredInv'
  BY <1>1 DEF Inv, AnsweredInv
<1>4. PhaseInv'
  BY <1>1, <1>2 DEF Inv, PhaseInv, Faithful, Dispatched
<1>5. CASE ~ QuorumPasses(claim.signers, claim.required) /\ verdict' = "error" /\ UNCHANGED draws
  <2>1. ~ honest
    BY <1>5, HonestPasses
  <2>2. TypeOK'
    BY <1>1, <1>5 DEF Inv, TypeOK
  <2>3. DispatchInv'
    BY <1>1, <1>5, DispatchKept DEF Inv
  <2>4. VerdictInv' /\ HonestNeverFlagged'
    BY <1>1, <1>5, <2>1 DEF VerdictInv, HonestNeverFlagged
  <2> QED
    BY <1>3, <1>4, <2>2, <2>3, <2>4 DEF Inv
<1>6. CASE QuorumPasses(claim.signers, claim.required)
  <2> DEFINE seed == ClaimSeed
  <2>1. PICK draw \in Drawn(seed) :
          /\ Remember(seed, draw)
          /\ verdict' =
               IF ~ draw.drawn THEN "error"
               ELSE IF NodeBits(claim.signers) \subseteq Committee(snapshot, draw.ranks)
               THEN "true" ELSE "false"
    BY <1>6 DEF Police, ClaimSeed
  <2>2. /\ DrawsTyped' /\ seed \in DOMAIN draws' /\ draws'[seed] = draw
        /\ DOMAIN draws \subseteq DOMAIN draws'
        /\ \A known \in DOMAIN draws : draws'[known] = draws[known]
        /\ seed \in DOMAIN draws => draw = draws[seed]
    BY <2>1, StateFacts, DrawsRemembered
  <2>3. TypeOK'
    <3>1. \A known \in DOMAIN draws' : DrawOf(known, draws'[known])
      BY <2>2 DEF DrawsTyped, DrawOf
    <3>2. verdict' \in {"true", "false", "error"}
      BY <2>1
    <3> QED
      BY <1>1, <3>1, <3>2 DEF Inv, TypeOK, DrawOf
  <2>4. DispatchInv'
    BY <1>1, <2>2, DispatchKept DEF Inv
  <2>5. VerdictInv'
    <3>1. ClaimSeed' = seed
      BY <1>1 DEF ClaimSeed
    <3> QED
      BY <1>1, <1>6, <2>1, <2>2, <3>1 DEF VerdictInv
  <2>6. HonestNeverFlagged'
    BY <1>1, <2>1, <2>2, HonestPasses DEF HonestNeverFlagged
  <2> QED
    BY <1>3, <1>4, <2>3, <2>4, <2>5, <2>6 DEF Inv
<1> QED
  BY <1>5, <1>6 DEF Police

(***************************************************************************)
(* Every step keeps the invariant.                                         *)
(***************************************************************************)
LEMMA NextInv == Inv /\ [Next]_vars => Inv'
<1> SUFFICES ASSUME Inv, [Next]_vars PROVE Inv'
  OBVIOUS
<1>1. CASE Dispatch
  BY <1>1, DispatchStep
<1>2. CASE Publish
  BY <1>2, PublishStep
<1>3. CASE SubmitAny
  BY <1>3, SubmitStep
<1>4. CASE Police
  BY <1>4, PoliceStep
<1>5. CASE \E bit \in Bits : NodeSigns(bit) \/ ProviderSigns(bit)
  BY <1>5, AnswerStep
<1>6. CASE UNCHANGED vars
  <2>1. UNCHANGED <<snapshot, draws, phase, round, committee, answered, claim, honest, verdict>>
    BY <1>6 DEF vars
  <2>2. DispatchInv'
    BY <2>1, DispatchKept DEF Inv
  <2>3. TypeOK' /\ AnsweredInv' /\ HonestNeverFlagged'
    BY <2>1 DEF Inv, TypeOK, AnsweredInv, HonestNeverFlagged
  <2>4. PhaseInv' /\ VerdictInv'
    BY <2>1 DEF Inv, PhaseInv, VerdictInv, Faithful, Dispatched, ClaimSeed
  <2> QED
    BY <2>2, <2>3, <2>4 DEF Inv
<1> QED
  BY <1>1, <1>2, <1>3, <1>4, <1>5, <1>6 DEF Next

(***************************************************************************)
(* The invariant holds throughout.                                         *)
(***************************************************************************)
THEOREM Invariance == Spec => []Inv
<1> QED
  BY InitInv, NextInv, PTL DEF Spec

-----------------------------------------------------------------------------
(***************************************************************************)
(* The invariants of Selection.  The variables keep their types; what the  *)
(* sampler returned for an input is a group of the size asked for.         *)
(***************************************************************************)
THEOREM TypeCorrect == Spec => []TypeOK
<1>1. Inv => TypeOK
  BY DEF Inv
<1> QED
  BY <1>1, Invariance, PTL

(***************************************************************************)
(* No honest signer is flagged: the two sides, which derive the committee  *)
(* from different inputs, come to the same one (verify_selection).         *)
(***************************************************************************)
THEOREM HonestStaysUnflagged == Spec => []HonestNeverFlagged
<1>1. Inv => HonestNeverFlagged
  BY DEF Inv
<1> QED
  BY <1>1, Invariance, PTL

(***************************************************************************)
(* The committee has live node slots only, as many as the round needs and  *)
(* its buffer allows (derive_selection_bitmap, LiveSlots).                 *)
(***************************************************************************)
THEOREM CommitteeStaysLive == Spec => []CommitteeIsLive
<1>1. Inv => CommitteeIsLive
  <2> SUFFICES ASSUME Inv, Dispatched PROVE CommitteeIsLive
    BY DEF CommitteeIsLive
  <2> DEFINE nodes == RoundNodes(round)
  <2> DEFINE seats == Cardinality(committee) + (IF round.provider THEN 1 ELSE 0)
  <2>1. /\ round \in Rounds /\ RoundSeed \in DOMAIN draws /\ draws[RoundSeed].drawn
        /\ committee = Committee(snapshot, draws[RoundSeed].ranks)
        /\ DrawOf(RoundSeed, draws[RoundSeed])
    BY StateFacts DEF Inv, DispatchInv, DrawsTyped
  <2>2. /\ committee \subseteq LiveSlots(snapshot)
        /\ Cardinality(committee) = SelectionSize(nodes, snapshot)
    BY <2>1, StateFacts, CommitteeOfDraw DEF RoundSeed
  <2>3. round.required \in Nat \ {0} /\ round.provider \in BOOLEAN
    BY <2>1, RequiredAssumption DEF Rounds
  <2>4. nodes \in Nat /\ nodes + (IF round.provider THEN 1 ELSE 0) = round.required
    BY <2>3 DEF RoundNodes
  <2>5. /\ snapshot \in View /\ snapshot.redundancyBuffer \in Nat
        /\ IsFiniteSet(LiveSlots(snapshot))
    BY StateFacts, LiveFacts DEF View
  <2> HIDE DEF nodes
  <2>6. LET size == SelectionSize(nodes, snapshot)
        IN  /\ size \in Nat /\ size <= nodes + snapshot.redundancyBuffer
            /\ size < nodes => size = LiveCount(snapshot)
    BY <2>4, <2>5, SizeFacts
  <2>7. seats <= round.required + snapshot.redundancyBuffer
    BY <2>2, <2>3, <2>4, <2>5, <2>6
  <2>8. ASSUME seats < round.required PROVE committee = LiveSlots(snapshot)
    <3>1. Cardinality(committee) = LiveCount(snapshot)
      BY <2>2, <2>3, <2>4, <2>6, <2>8
    <3> QED
      BY <2>2, <2>5, <3>1, FS_Subset DEF LiveCount
  <2> QED
    BY <2>2, <2>7, <2>8 DEF CommitteeIsLive
<1> QED
  BY <1>1, Invariance, PTL

(***************************************************************************)
(* Policing singles out exactly the node signers that were not dispatched  *)
(* (verify_selection, node_quorum).                                        *)
(***************************************************************************)
THEOREM PolicingIsByTheDispatch == Spec => []PolicedByTheDispatch
<1>1. Inv => PolicedByTheDispatch
  <2> SUFFICES ASSUME Inv, Dispatched, verdict \in {"true", "false"},
                      Window(claim.time) = Window(round.time),
                      claim.required = round.required,
                      (ProviderBits(claim.signers) # {}) = round.provider
               PROVE  verdict = "true" <=> NodeBits(claim.signers) \subseteq committee
    BY DEF PolicedByTheDispatch
  <2>1. ClaimSeed = RoundSeed
    BY SameSeed
  <2> QED
    BY <2>1 DEF Inv, DispatchInv, VerdictInv
<1> QED
  BY <1>1, Invariance, PTL

(***************************************************************************)
(* The node signers of what passes the policing are live, and all of the   *)
(* quorum but at most one provider, whose bit verify_selection never looks *)
(* up (check_quorum, is_subset).                                           *)
(***************************************************************************)
THEOREM PassedStayLive == Spec => []PassedAreLive
<1>1. Inv => PassedAreLive
  <2> SUFFICES ASSUME Inv, verdict = "true" PROVE PassedAreLive
    BY DEF PassedAreLive
  <2> DEFINE signers == claim.signers
  <2> DEFINE nodes == NodeQuorum(claim.required, signers)
  <2> DEFINE members == Committee(snapshot, draws[ClaimSeed].ranks)
  <2>1. /\ QuorumPasses(signers, claim.required)
        /\ ClaimSeed \in DOMAIN draws /\ draws[ClaimSeed].drawn
        /\ NodeBits(signers) \subseteq members
        /\ DrawOf(ClaimSeed, draws[ClaimSeed])
    BY StateFacts DEF Inv, VerdictInv, DrawsTyped
  <2>2. /\ members \subseteq LiveSlots(snapshot) /\ IsFiniteSet(members)
        /\ Cardinality(members) = SelectionSize(nodes, snapshot)
    BY <2>1, StateFacts, CommitteeOfDraw DEF ClaimSeed
  <2>3. claim.required \in Nat /\ signers \in SUBSET Bits
    BY RequiredAssumption DEF Inv, TypeOK, PhaseInv, ClaimSet
  <2>4. nodes \in Nat /\ nodes <= claim.required
    BY <2>3 DEF NodeQuorum
  <2>5. snapshot \in View /\ snapshot.redundancyBuffer \in Nat
    BY StateFacts DEF View
  <2>6. IsFiniteSet(signers)
    <3>1. IsFiniteSet(Bits)
      BY FS_Interval, SlotsAssumption DEF Bits
    <3> QED
      BY <2>3, <3>1, FS_Subset
  <2>7. /\ IsFiniteSet(NodeBits(signers)) /\ IsFiniteSet(ProviderBits(signers))
        /\ Cardinality(signers) = Cardinality(NodeBits(signers)) + Cardinality(ProviderBits(signers))
    <3>1. NodeBits(signers) \in SUBSET signers /\ signers \cap NodeBits(signers) = NodeBits(signers)
      BY DEF NodeBits
    <3>2. IsFiniteSet(NodeBits(signers))
      BY <2>6, <3>1, FS_Subset
    <3>3. /\ IsFiniteSet(ProviderBits(signers))
          /\ Cardinality(ProviderBits(signers)) = Cardinality(signers) - Cardinality(NodeBits(signers))
      BY <2>6, <3>1, FS_Difference DEF ProviderBits
    <3> QED
      BY <2>6, <3>2, <3>3, FS_CardinalityType
  <2> HIDE DEF nodes, members, signers
  <2>8. /\ Cardinality(NodeBits(signers)) \in Nat /\ Cardinality(ProviderBits(signers)) \in Nat
        /\ Cardinality(NodeBits(signers)) <= Cardinality(members)
    BY <2>1, <2>2, <2>7, FS_CardinalityType, FS_Subset
  <2>9. Cardinality(NodeBits(signers)) + 1 >= claim.required
    BY <2>1, <2>3, <2>7, <2>8 DEF QuorumPasses
  <2>10. Cardinality(members) \in Nat /\ Cardinality(members) <= nodes + snapshot.redundancyBuffer
    BY <2>2, <2>4, <2>5, SizeFacts
  <2>11. Cardinality(NodeBits(signers)) <= claim.required + snapshot.redundancyBuffer
    BY <2>3, <2>4, <2>5, <2>8, <2>10
  <2> QED
    BY <2>1, <2>2, <2>9, <2>11 DEF PassedAreLive, signers
<1> QED
  BY <1>1, Invariance, PTL

=============================================================================
