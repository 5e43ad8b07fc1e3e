----------------------------- MODULE ChainProofs -----------------------------
(***************************************************************************)
(* Proofs about attestations on a chain whose registry moves on: for any   *)
(* memberships, any grace window longer than the skew of the clocks, any   *)
(* number of versions and any rounds.                                      *)
(***************************************************************************)
EXTENDS Chain, ClaimsProofs

(***************************************************************************)
(* The inductive invariant.  The history determines what each account says:*)
(* its tables, when it became active and when its grace window ends.       *)
(***************************************************************************)
AccountRecord ==
  [owner : {Program}, isRegistry : {TRUE}, borrowed : {FALSE}, graceActiveUntil : Nat,
   activeFrom : Nat, version : Nat, nodeCount : Nat, providerCount : Nat,
   redundancyBuffer : {0}, records : Table]

GraceEnd(v) == IF v < Current THEN history[v + 1].from + Grace ELSE 0

Faithful(v) ==
  LET m == history[v].members
  IN  /\ accounts[v] \in AccountRecord
      /\ accounts[v].version = v
      /\ accounts[v].activeFrom = history[v].from
      /\ accounts[v].graceActiveUntil = GraceEnd(v)
      /\ accounts[v].nodeCount = Size(m.nodes)
      /\ accounts[v].providerCount = Size(m.providers)
      /\ \A i \in DOMAIN Flatten(m) :
           i \in DOMAIN accounts[v].records /\ accounts[v].records[i] = Flatten(m)[i]

Named == attestation.payload.version

(***************************************************************************)
(* An honest round is signed by its version, and its stamp is no later than*)
(* the clock and the skew allow, nor than the end of the grace window once *)
(* its version is superseded.                                              *)
(***************************************************************************)
HonestRound ==
  LET snapshot == Snapshot(Named)
      signers == attestation.signers
  IN  /\ \A bit \in signers : Resolves(snapshot, bit) /\ Signer(snapshot, bit).key # Unparsable
      /\ KeySum(snapshot, signers) # Infinity
      /\ attestation.scalarValid
      /\ attestation.signedKey = KeySum(snapshot, signers)
      /\ attestation.signedMessage = OwnMessage
      /\ attestation.payload.required \in 1 .. Cardinality(signers)
      /\ Cardinality(ProviderBits(signers)) <= 1

Timely ==
  Seconds(attestation.payload.timestamp) <
    IF Named < Current THEN GraceEnd(Named) ELSE now + Skew + 1

RoundInv ==
  /\ attestation # NoAttestation => Named \in Versions
  /\ honest => attestation # NoAttestation /\ HonestRound /\ Timely

(***************************************************************************)
(* Whatever has been answered, it was about the snapshot of the version    *)
(* that the attestation names, and disputes were answered with its verdict.*)
(***************************************************************************)
DisputeCall ==
  [op |-> "resolved", hint |-> NoHint, provider |-> NoAccount, message |-> OwnMessage]

AnswersInv ==
  answers # {} =>
    /\ attestation # NoAttestation
    /\ registry = Snapshot(Named)
    /\ answers \subseteq {"ok", Verdict(DisputeCall)}
    /\ "ok" \in answers => Verdict(DisputeCall) = "true"

RepliesInv == AcceptedByMembers /\ SupersededKeysStop /\ HonestRoundsVerify

Inv ==
  /\ TypeOK
  /\ \A v \in Versions : Faithful(v)
  /\ RoundInv
  /\ AnswersInv
  /\ RepliesInv

-----------------------------------------------------------------------------
(***************************************************************************)
(* Tables and accounts.  The size of a table says which slots it has.      *)
(***************************************************************************)
LEMMA TableFacts ==
  ASSUME NEW table \in Table
  PROVE  /\ Size(table) \in 0 .. MaxBits
         /\ DOMAIN table = 0 .. Size(table) - 1
         /\ \A slot \in DOMAIN table : table[slot] \in Entry
         /\ table = [slot \in 0 .. Size(table) - 1 |-> table[slot]]
<1>1. PICK size \in 0 .. MaxBits : table \in [0 .. size - 1 -> Entry]
  BY DEF Table
<1>2. size \in Int /\ 0 \in Int /\ size - 1 \in Int /\ size >= 0
  BY SlotsAssumption
<1>3. Cardinality(0 .. size - 1) = size
  BY <1>2, FS_Interval
<1> QED
  BY <1>1, <1>3 DEF Size

(***************************************************************************)
(* Conversely, a function on the first slots is a table.                   *)
(***************************************************************************)
LEMMA IsTable ==
  ASSUME NEW size \in 0 .. MaxBits, NEW table \in [0 .. size - 1 -> Entry]
  PROVE  table \in Table /\ Size(table) = size
<1>1. size \in Int /\ 0 \in Int /\ size - 1 \in Int /\ size >= 0
  BY SlotsAssumption
<1>2. Cardinality(0 .. size - 1) = size
  BY <1>1, FS_Interval
<1> QED
  BY <1>2 DEF Table, Size

(***************************************************************************)
(* The two tables of a membership lie behind each other and fit.           *)
(***************************************************************************)
LEMMA Layout ==
  ASSUME NEW m \in Memberships
  PROVE  /\ m.nodes \in Table /\ m.providers \in Table
         /\ Size(m.nodes) \in 0 .. NodeSlots
         /\ Size(m.providers) \in 0 .. MaxBits - NodeSlots
         /\ Flatten(m) \in Table
         /\ Size(Flatten(m)) = Size(m.nodes) + Size(m.providers)
         /\ DOMAIN Flatten(m) = 0 .. Size(m.nodes) + Size(m.providers) - 1
         /\ \A slot \in DOMAIN m.nodes : Flatten(m)[slot] = m.nodes[slot]
         /\ \A slot \in DOMAIN m.providers :
              Flatten(m)[Size(m.nodes) + slot] = m.providers[slot]
<1> DEFINE nodes == Size(m.nodes)
<1> DEFINE providers == Size(m.providers)
<1>1. m.nodes \in Table /\ m.providers \in Table
      /\ nodes <= NodeSlots /\ providers <= MaxBits - NodeSlots
  BY MembershipAssumption DEF Size
<1>2. /\ nodes \in 0 .. MaxBits /\ DOMAIN m.nodes = 0 .. nodes - 1
      /\ \A slot \in DOMAIN m.nodes : m.nodes[slot] \in Entry
  BY <1>1, TableFacts
<1>3. /\ providers \in 0 .. MaxBits /\ DOMAIN m.providers = 0 .. providers - 1
      /\ \A slot \in DOMAIN m.providers : m.providers[slot] \in Entry
  BY <1>1, TableFacts
<1>4. nodes \in Int /\ providers \in Int /\ nodes >= 0 /\ providers >= 0
      /\ nodes + providers \in 0 .. MaxBits
  BY <1>1, <1>2, <1>3, SlotsAssumption
<1>5. Flatten(m) = [i \in 0 .. nodes + providers - 1 |->
                      IF i < nodes THEN m.nodes[i] ELSE m.providers[i - nodes]]
  BY DEF Flatten
<1> HIDE DEF nodes, providers
<1>6. Flatten(m) \in [0 .. nodes + providers - 1 -> Entry]
  <2> SUFFICES ASSUME NEW i \in 0 .. nodes + providers - 1
               PROVE  (IF i < nodes THEN m.nodes[i] ELSE m.providers[i - nodes]) \in Entry
    BY <1>5
  <2>1. i < nodes => i \in DOMAIN m.nodes
    BY <1>2, <1>4
  <2>2. ~ i < nodes => i - nodes \in DOMAIN m.providers
    BY <1>3, <1>4
  <2> QED
    BY <2>1, <2>2, <1>2, <1>3
<1>7. Flatten(m) \in Table /\ Size(Flatten(m)) = nodes + providers
  BY <1>4, <1>6, IsTable
<1>8. \A slot \in DOMAIN m.nodes : Flatten(m)[slot] = m.nodes[slot]
  BY <1>2, <1>4, <1>5
<1>9. ASSUME NEW slot \in DOMAIN m.providers
      PROVE  Flatten(m)[nodes + slot] = m.providers[slot]
  <2> DEFINE i == nodes + slot
  <2>1. i \in 0 .. nodes + providers - 1 /\ ~ i < nodes /\ i - nodes = slot
    BY <1>3, <1>4
  <2> HIDE DEF i
  <2>2. Flatten(m)[i] = m.providers[slot]
    BY <1>5, <2>1
  <2> QED
    BY <2>2 DEF i
<1>10. nodes \in 0 .. NodeSlots /\ providers \in 0 .. MaxBits - NodeSlots
  BY <1>1, <1>4, SlotsAssumption
<1>11. DOMAIN Flatten(m) = 0 .. nodes + providers - 1
  BY <1>6
<1> QED
  BY <1>1, <1>7, <1>8, <1>9, <1>10, <1>11 DEF nodes, providers

(***************************************************************************)
(* The versions are numbered from 1 to the current one.                    *)
(***************************************************************************)
LEMMA VersionFacts ==
  ASSUME TypeOK
  PROVE  /\ Current \in Nat \ {0} /\ Versions = 1 .. Current /\ Current \in Versions
         /\ DOMAIN history = 1 .. Current /\ DOMAIN accounts = 1 .. Current
         /\ now \in Nat
         /\ \A v \in Versions : history[v].members \in Memberships /\ history[v].from \in Nat
<1>1. Current \in 1 .. MaxVersions /\ MaxVersions \in Nat /\ MaxTime \in Nat
  BY WindowAssumption DEF TypeOK
<1>2. Versions = 1 .. Current
  BY DEF Versions, Current
<1>3. now \in 0 .. MaxTime /\ \A v \in Versions : history[v].from \in 0 .. now
  BY DEF TypeOK
<1> QED
  BY <1>1, <1>2, <1>3 DEF TypeOK

(***************************************************************************)
(* A faithful account is loaded, and read as the snapshot that was meant.  *)
(***************************************************************************)
LEMMA AccountView ==
  ASSUME NEW v \in Nat, history[v].members \in Memberships, Faithful(v)
  PROVE  /\ NodeTable(accounts[v]) = history[v].members.nodes
         /\ ViewOf(accounts[v]) = Snapshot(v)
         /\ Load(accounts[v]) = Loaded
         /\ Snapshot(v) \in View /\ Snapshot(v).version = v
<1> DEFINE m == history[v].members
<1> DEFINE account == accounts[v]
<1>1. m \in Memberships /\ v \in Nat
  OBVIOUS
<1>2. /\ account \in AccountRecord /\ account.version = v
      /\ account.nodeCount = Size(m.nodes) /\ account.providerCount = Size(m.providers)
      /\ \A i \in DOMAIN Flatten(m) :
           i \in DOMAIN account.records /\ account.records[i] = Flatten(m)[i]
  BY DEF Faithful
<1>3. /\ m.nodes \in Table /\ m.providers \in Table
      /\ Size(m.nodes) \in 0 .. NodeSlots /\ Size(m.providers) \in 0 .. MaxBits - NodeSlots
      /\ DOMAIN Flatten(m) = 0 .. Size(m.nodes) + Size(m.providers) - 1
      /\ \A slot \in DOMAIN m.nodes : Flatten(m)[slot] = m.nodes[slot]
      /\ \A slot \in DOMAIN m.providers : Flatten(m)[Size(m.nodes) + slot] = m.providers[slot]
  BY <1>1, Layout
<1>4. /\ DOMAIN m.nodes = 0 .. Size(m.nodes) - 1
      /\ m.nodes = [slot \in 0 .. Size(m.nodes) - 1 |-> m.nodes[slot]]
      /\ DOMAIN m.providers = 0 .. Size(m.providers) - 1
      /\ m.providers = [slot \in 0 .. Size(m.providers) - 1 |-> m.providers[slot]]
  BY <1>3, TableFacts
<1>5. Size(m.nodes) \in Nat /\ Size(m.providers) \in Nat
  BY <1>3, SlotsAssumption
<1> HIDE DEF m, account
<1>6. NodeTable(account) = m.nodes
  <2>1. \A slot \in 0 .. Size(m.nodes) - 1 : account.records[slot] = m.nodes[slot]
    BY <1>2, <1>3, <1>4, <1>5
  <2>2. NodeTable(account) = [slot \in 0 .. Size(m.nodes) - 1 |-> account.records[slot]]
    BY <1>2 DEF NodeTable
  <2> QED
    BY <1>4, <2>1, <2>2
<1>7. ProviderTable(account) = m.providers
  <2>1. \A slot \in 0 .. Size(m.providers) - 1 :
          account.records[Size(m.nodes) + slot] = m.providers[slot]
    <3> SUFFICES ASSUME NEW slot \in 0 .. Size(m.providers) - 1
                 PROVE  account.records[Size(m.nodes) + slot] = m.providers[slot]
      OBVIOUS
    <3>1. Size(m.nodes) + slot \in DOMAIN Flatten(m)
      BY <1>3, <1>5
    <3> QED
      BY <1>2, <1>3, <1>4, <3>1
  <2>2. ProviderTable(account) =
          [slot \in 0 .. Size(m.providers) - 1 |-> account.records[Size(m.nodes) + slot]]
    BY <1>2 DEF ProviderTable
  <2> QED
    BY <1>4, <2>1, <2>2
<1>8. ViewOf(account) = Snapshot(v)
  BY <1>2, <1>6, <1>7 DEF ViewOf, Snapshot, AccountRecord, m
<1>9. Load(account) = Loaded
  <2> DEFINE capacity == Cardinality(DOMAIN account.records)
  <2>1. account.records \in Table /\ account.owner = Program /\ account.isRegistry = TRUE
        /\ account.borrowed = FALSE
    BY <1>2 DEF AccountRecord
  <2>2. capacity \in 0 .. MaxBits /\ DOMAIN account.records = 0 .. capacity - 1
    BY <2>1, TableFacts DEF Size
  <2>3. Size(m.nodes) + Size(m.providers) <= capacity
    <3>1. CASE Size(m.nodes) + Size(m.providers) = 0
      BY <3>1, <2>2
    <3>2. CASE Size(m.nodes) + Size(m.providers) # 0
      <4>1. Size(m.nodes) + Size(m.providers) - 1 \in DOMAIN Flatten(m)
        BY <3>2, <1>3, <1>5
      <4>2. Size(m.nodes) + Size(m.providers) - 1 \in 0 .. capacity - 1
        BY <4>1, <1>2, <2>2
      <4> QED
        BY <4>2, <2>2, <1>5
    <3> QED
      BY <3>1, <3>2
  <2>4. Size(m.nodes) <= NodeSlots /\ Size(m.providers) <= MaxBits - NodeSlots /\ capacity <= MaxBits
    BY <1>3, <2>2
  <2> HIDE DEF capacity
  <2>5. WellShaped(account)
    BY <1>2, <2>1, <2>3, <2>4 DEF WellShaped, capacity
  <2> QED
    BY <2>1, <2>5 DEF Load
<1>10. Snapshot(v) \in View /\ Snapshot(v).version = v
  BY <1>1, <1>3, <1>5 DEF Snapshot, View, m
<1> QED
  BY <1>6, <1>8, <1>9, <1>10 DEF m, account

\* The view of a version's account is the snapshot that was published, and it loads.
LEMMA ViewFacts ==
  ASSUME TypeOK, NEW v \in Versions, Faithful(v)
  PROVE  /\ NodeTable(accounts[v]) = history[v].members.nodes
         /\ ViewOf(accounts[v]) = Snapshot(v)
         /\ Load(accounts[v]) = Loaded
         /\ Snapshot(v) \in View /\ Snapshot(v).version = v
<1>1. v \in Nat /\ history[v].members \in Memberships
  BY VersionFacts
<1> QED
  BY <1>1, AccountView

-----------------------------------------------------------------------------
(***************************************************************************)
(* What a step keeps when it neither signs nor answers.  The answers given *)
(* so far stay answers about the snapshot of the named version.            *)
(***************************************************************************)
LEMMA AnswersKept ==
  ASSUME UNCHANGED <<registry, attestation, answers>>, AnswersInv,
         attestation # NoAttestation => Snapshot(Named)' = Snapshot(Named)
  PROVE  AnswersInv'
<1>1. DisputeCall' = DisputeCall /\ Verdict(DisputeCall)' = Verdict(DisputeCall)
  <2>1. DisputeCall' = DisputeCall
    BY DEF DisputeCall, OwnMessage
  <2>2. \A call : Verdict(call)' = Verdict(call)
    BY Fixed
  <2> QED
    BY <2>1, <2>2
<1> QED
  BY <1>1 DEF AnswersInv, Named

(***************************************************************************)
(* An honest round stays one as long as its stamp is in time.              *)
(***************************************************************************)
LEMMA RoundKept ==
  ASSUME UNCHANGED <<attestation, honest>>, RoundInv, Versions \subseteq Versions',
         attestation # NoAttestation => Snapshot(Named)' = Snapshot(Named),
         honest => Timely'
  PROVE  RoundInv'
<1>1. HonestRound /\ Snapshot(Named)' = Snapshot(Named) => HonestRound'
  BY DEF HonestRound, Named, OwnMessage
<1> QED
  BY <1>1 DEF RoundInv, Named

(***************************************************************************)
(* Nothing is claimed of a reply when the last step was no answer.         *)
(***************************************************************************)
LEMMA NoClaim == reply = NoReply => RepliesInv
BY DEF RepliesInv, AcceptedByMembers, SupersededKeysStop, HonestRoundsVerify

\* The same of the next state.
LEMMA NoClaimNext == reply' = NoReply => RepliesInv'
BY DEF RepliesInv, AcceptedByMembers, SupersededKeysStop, HonestRoundsVerify

(***************************************************************************)
(* A step that changes nothing.                                            *)
(***************************************************************************)
LEMMA StutterStep ==
  ASSUME Inv, UNCHANGED vars
  PROVE  Inv'
<1>0. UNCHANGED <<now, history, accounts, registry, attestation, honest, reply, answers>>
  BY DEF vars, chain
<1>1. /\ Versions' = Versions /\ Current' = Current
      /\ \A v : Snapshot(v)' = Snapshot(v) /\ GraceEnd(v)' = GraceEnd(v)
  BY <1>0 DEF Versions, Current, Snapshot, GraceEnd
<1>2. TypeOK'
  BY <1>0, <1>1 DEF Inv, TypeOK
<1>3. \A v \in Versions' : Faithful(v)'
  BY <1>0, <1>1 DEF Inv, Faithful
<1>4. RoundInv'
  BY <1>0, <1>1, RoundKept DEF Inv, RoundInv, Named, Timely
<1>5. AnswersInv'
  BY <1>0, <1>1, AnswersKept DEF Inv, Named
<1>6. RepliesInv'
  BY <1>0, <1>1 DEF Inv, RepliesInv, AcceptedByMembers, SupersededKeysStop, HonestRoundsVerify
<1> QED
  BY <1>2, <1>3, <1>4, <1>5, <1>6 DEF Inv

(***************************************************************************)
(* Time passes.                                                            *)
(***************************************************************************)
LEMMA TickStep ==
  ASSUME Inv, Tick
  PROVE  Inv'
<1>0. /\ now < MaxTime /\ now' = now + 1 /\ reply' = NoReply
      /\ UNCHANGED <<history, accounts, registry, attestation, honest, answers>>
  BY DEF Tick
<1>1. /\ Versions' = Versions /\ Current' = Current
      /\ \A v : Snapshot(v)' = Snapshot(v) /\ GraceEnd(v)' = GraceEnd(v)
  BY <1>0 DEF Versions, Current, Snapshot, GraceEnd
<1>2. TypeOK'
  BY <1>0, <1>1, WindowAssumption DEF Inv, TypeOK
<1>3. \A v \in Versions' : Faithful(v)'
  BY <1>0, <1>1 DEF Inv, Faithful
<1>4. honest => Timely'
  <2>1. ASSUME honest PROVE Timely'
    <3>1. Timely /\ attestation # NoAttestation
      BY <2>1 DEF Inv, RoundInv
    <3>2. attestation.payload.timestamp \in Nat
      BY <3>1, StampAssumption DEF Inv, TypeOK, Attestation
    <3>3. Seconds(attestation.payload.timestamp) \in Int /\ now \in Int /\ Skew \in Int
      BY <3>2, ClockAssumption, WindowAssumption DEF Seconds, Inv, TypeOK
    <3>4. Seconds(attestation.payload.timestamp)' = Seconds(attestation.payload.timestamp)
      BY <1>0 DEF Seconds
    <3> QED
      BY <1>0, <1>1, <3>1, <3>3, <3>4 DEF Timely, Named
  <2> QED
    BY <2>1
<1>5. RoundInv'
  BY <1>0, <1>1, <1>4, RoundKept DEF Inv, Named
<1>6. AnswersInv'
  BY <1>0, <1>1, AnswersKept DEF Inv, Named
<1> QED
  BY <1>0, <1>2, <1>3, <1>5, <1>6, NoClaimNext DEF Inv

(***************************************************************************)
(* A fresh account says what its membership says.                          *)
(***************************************************************************)
LEMMA FreshAccount ==
  ASSUME NEW m \in Memberships, NEW v \in Nat, now \in Nat
  PROVE  LET account == NewAccount(v, m)
         IN  /\ account \in AccountRecord
             /\ account.version = v /\ account.activeFrom = now /\ account.graceActiveUntil = 0
             /\ account.nodeCount = Size(m.nodes) /\ account.providerCount = Size(m.providers)
             /\ account.records = Flatten(m)
<1>1. Size(m.nodes) \in Nat /\ Size(m.providers) \in Nat /\ Flatten(m) \in Table
  BY Layout, SlotsAssumption
<1> QED
  BY <1>1 DEF NewAccount, AccountRecord

(***************************************************************************)
(* What an update of one field leaves as it was.                           *)
(***************************************************************************)
Ended(account, end) == [account EXCEPT !.graceActiveUntil = end]
Grown(account, table) == [account EXCEPT !.records = table]

\* Setting the end of the grace window leaves the rest of the account alone.
LEMMA EndedAccount ==
  ASSUME NEW account \in AccountRecord, NEW end \in Nat
  PROVE  /\ Ended(account, end) \in AccountRecord
         /\ Ended(account, end).graceActiveUntil = end
         /\ Ended(account, end).version = account.version
         /\ Ended(account, end).activeFrom = account.activeFrom
         /\ Ended(account, end).nodeCount = account.nodeCount
         /\ Ended(account, end).providerCount = account.providerCount
         /\ Ended(account, end).records = account.records
BY DEF AccountRecord, Ended

\* So does growing its records.
LEMMA GrownAccount ==
  ASSUME NEW account \in AccountRecord, NEW table \in Table
  PROVE  /\ Grown(account, table) \in AccountRecord
         /\ Grown(account, table).records = table
         /\ Grown(account, table).version = account.version
         /\ Grown(account, table).activeFrom = account.activeFrom
         /\ Grown(account, table).nodeCount = account.nodeCount
         /\ Grown(account, table).providerCount = account.providerCount
         /\ Grown(account, table).graceActiveUntil = account.graceActiveUntil
BY DEF AccountRecord, Grown

(***************************************************************************)
(* A version is published: the account of its predecessor learns when its  *)
(* grace window ends, the older ones stay as they are.                     *)
(***************************************************************************)
LEMMA PublishStep ==
  ASSUME Inv, Publish
  PROVE  Inv'
<1>0. /\ Current < MaxVersions /\ reply' = NoReply
      /\ UNCHANGED <<now, registry, attestation, honest, answers>>
  BY DEF Publish
<1>1. PICK m \in Memberships :
        /\ history' = [v \in Versions \cup {Current + 1} |->
                         IF v \in Versions THEN history[v] ELSE [members |-> m, from |-> now]]
        /\ accounts' = [v \in Versions \cup {Current + 1} |->
                          IF v = Current + 1 THEN NewAccount(v, m)
                          ELSE IF v = Current
                          THEN [accounts[v] EXCEPT !.graceActiveUntil = now + Grace]
                          ELSE accounts[v]]
  BY DEF Publish
<1>2. /\ Current \in Nat \ {0} /\ Versions = 1 .. Current
      /\ DOMAIN history = 1 .. Current /\ DOMAIN accounts = 1 .. Current
      /\ now \in Nat /\ Grace \in Nat /\ Skew \in Nat /\ Skew < Grace
      /\ \A v \in Versions : history[v].members \in Memberships /\ history[v].from \in Nat
  BY VersionFacts, WindowAssumption DEF Inv
<1>3. Versions \cup {Current + 1} = 1 .. Current + 1
  BY <1>2
<1>4. Current' = Current + 1
  <2>1. DOMAIN history' = 1 .. Current + 1
    BY <1>1, <1>3
  <2>2. Cardinality(1 .. Current + 1) = Current + 1
    BY <1>2, FS_Interval
  <2> QED
    BY <2>1, <2>2 DEF Current
<1>5. Versions' = 1 .. Current + 1
  BY <1>4 DEF Versions, Current
<1>6. /\ DOMAIN history' = 1 .. Current + 1 /\ DOMAIN accounts' = 1 .. Current + 1
      /\ \A v \in Versions : history'[v] = history[v]
      /\ history'[Current + 1] = [members |-> m, from |-> now]
      /\ \A v \in 1 .. Current - 1 : accounts'[v] = accounts[v]
      /\ accounts'[Current] = [accounts[Current] EXCEPT !.graceActiveUntil = now + Grace]
      /\ accounts'[Current + 1] = NewAccount(Current + 1, m)
  BY <1>1, <1>2, <1>3
<1>7. \A v \in Versions : Snapshot(v)' = Snapshot(v)
  BY <1>6 DEF Snapshot
<1>8. ASSUME NEW v \in Versions'
      PROVE  GraceEnd(v)' = IF v < Current THEN GraceEnd(v)
                            ELSE IF v = Current THEN now + Grace ELSE 0
  <2>1. v \in 1 .. Current + 1
    BY <1>5
  <2>2. GraceEnd(v)' = IF v < Current + 1 THEN history'[v + 1].from + Grace ELSE 0
    BY <1>4 DEF GraceEnd
  <2>3. CASE v < Current
    <3>1. v + 1 \in Versions /\ v < Current + 1
      BY <1>2, <2>1, <2>3
    <3> QED
      BY <1>6, <2>2, <2>3, <3>1 DEF GraceEnd
  <2>4. CASE v = Current
    <3>1. v < Current + 1 /\ ~ v < Current /\ history'[v + 1].from = now
      BY <1>2, <1>6, <2>4
    <3> QED
      BY <2>2, <2>4, <3>1
  <2>5. CASE v = Current + 1
    <3>1. ~ v < Current + 1 /\ ~ v < Current /\ v # Current
      BY <1>2, <2>5
    <3> QED
      BY <2>2, <3>1
  <2> QED
    BY <1>2, <2>1, <2>3, <2>4, <2>5
<1>9. TypeOK'
  <2>1. Current' \in 1 .. MaxVersions
    BY <1>0, <1>2, <1>4, WindowAssumption
  <2>2. \A v \in Versions' : history'[v].members \in Memberships /\ history'[v].from \in 0 .. now
    <3>1. \A v \in Versions : history[v].members \in Memberships /\ history[v].from \in 0 .. now
      BY DEF Inv, TypeOK
    <3>2. \A v \in Versions' : v \in Versions \/ v = Current + 1
      BY <1>2, <1>5
    <3> QED
      BY <1>2, <1>6, <3>1, <3>2
  <2> QED
    BY <1>0, <1>5, <1>6, <2>1, <2>2 DEF Inv, TypeOK
<1>10. ASSUME NEW v \in Versions'
       PROVE  Faithful(v)'
  <2>1. CASE v \in 1 .. Current - 1
    <3>1. Faithful(v) /\ v \in Versions
      BY <1>2, <2>1 DEF Inv
    <3>2. GraceEnd(v)' = GraceEnd(v)
      BY <1>2, <1>8, <2>1
    <3> QED
      BY <1>6, <2>1, <3>1, <3>2 DEF Faithful
  <2>2. CASE v = Current
    <3>1. Faithful(v) /\ v \in Versions
      BY <1>2, <2>2 DEF Inv
    <3>2. accounts[v] \in AccountRecord
      BY <3>1 DEF Faithful
    <3>3. /\ accounts'[v] \in AccountRecord
          /\ accounts'[v].graceActiveUntil = now + Grace
          /\ accounts'[v].version = accounts[v].version
          /\ accounts'[v].activeFrom = accounts[v].activeFrom
          /\ accounts'[v].nodeCount = accounts[v].nodeCount
          /\ accounts'[v].providerCount = accounts[v].providerCount
          /\ accounts'[v].records = accounts[v].records
      <4>1. now + Grace \in Nat
        BY <1>2
      <4>2. accounts'[v] = Ended(accounts[v], now + Grace)
        BY <1>6, <2>2 DEF Ended
      <4> QED
        BY <3>2, <4>1, <4>2, EndedAccount
    <3>4. GraceEnd(v)' = now + Grace /\ history'[v] = history[v]
      BY <1>2, <1>6, <1>8, <2>2
    <3> QED
      BY <1>6, <2>2, <3>1, <3>3, <3>4 DEF Faithful
  <2>3. CASE v = Current + 1
    <3>1. /\ accounts'[v] \in AccountRecord
          /\ accounts'[v].version = v /\ accounts'[v].activeFrom = now
          /\ accounts'[v].graceActiveUntil = 0
          /\ accounts'[v].nodeCount = Size(m.nodes)
          /\ accounts'[v].providerCount = Size(m.providers)
          /\ accounts'[v].records = Flatten(m)
      BY <1>2, <1>6, <2>3, FreshAccount
    <3>2. history'[v].members = m /\ history'[v].from = now
      BY <1>6, <2>3
    <3>3. GraceEnd(v)' = 0
      BY <1>2, <1>8, <2>3
    <3> QED
      BY <2>3, <3>1, <3>2, <3>3 DEF Faithful
  <2> QED
    BY <1>2, <1>5, <2>1, <2>2, <2>3
<1>11. RoundInv'
  <2>1. ASSUME honest PROVE Timely'
    <3> DEFINE stamp == Seconds(attestation.payload.timestamp)
    <3>1. Timely /\ attestation # NoAttestation /\ Named \in Versions
      BY <2>1 DEF Inv, RoundInv
    <3>2. stamp \in Int
      BY <3>1, StampAssumption, ClockAssumption DEF Seconds, Inv, TypeOK, Attestation
    <3>3. stamp < IF Named < Current THEN GraceEnd(Named) ELSE now + Skew + 1
      BY <3>1 DEF Timely
    <3>4. Named' = Named /\ Seconds(attestation.payload.timestamp)' = stamp
      BY <1>0 DEF Named, Seconds
    <3> HIDE DEF stamp
    <3>5. Timely' <=> stamp < IF Named < Current + 1
                              THEN history'[Named + 1].from + Grace ELSE now + Skew + 1
      BY <1>0, <1>4, <3>4 DEF Timely, GraceEnd
    <3>6. CASE Named < Current
      <4>1. history'[Named + 1] = history[Named + 1] /\ Named < Current + 1
        BY <1>2, <1>6, <3>1, <3>6
      <4> QED
        BY <3>3, <3>5, <3>6, <4>1 DEF GraceEnd
    <3>7. CASE ~ Named < Current
      <4>1. Named = Current /\ Named < Current + 1
        BY <1>2, <3>1, <3>7
      <4>2. history'[Named + 1].from = now
        BY <1>6, <4>1
      <4>3. stamp < now + Grace
        BY <1>2, <3>2, <3>3, <3>7
      <4> QED
        BY <3>5, <4>1, <4>2, <4>3
    <3> QED
      BY <3>6, <3>7
  <2>2. Versions \subseteq Versions'
    BY <1>2, <1>5
  <2>3. attestation # NoAttestation => Snapshot(Named)' = Snapshot(Named)
    BY <1>0, <1>7 DEF Inv, RoundInv, Named
  <2> QED
    BY <1>0, <2>1, <2>2, <2>3, RoundKept DEF Inv
<1>12. AnswersInv'
  <2>1. attestation # NoAttestation => Snapshot(Named)' = Snapshot(Named)
    BY <1>0, <1>7 DEF Inv, RoundInv, Named
  <2> QED
    BY <1>0, <2>1, AnswersKept DEF Inv
<1> QED
  BY <1>0, <1>9, <1>10, <1>11, <1>12, NoClaimNext DEF Inv

(***************************************************************************)
(* A table gets spare capacity: no record of a member moves.               *)
(***************************************************************************)
LEMMA ResizeStep ==
  ASSUME Inv, NEW version, Resize(version)
  PROVE  Inv'
<1> DEFINE used == accounts[version].nodeCount + accounts[version].providerCount
<1>0. /\ version \in Versions /\ reply' = NoReply
      /\ Cardinality(DOMAIN accounts[version].records) = used /\ used < MaxBits
      /\ UNCHANGED <<now, history, registry, attestation, honest, answers>>
  BY DEF Resize
<1>1. PICK spare \in Spares :
        accounts' = [accounts EXCEPT ![version].records =
                       [i \in 0 .. used |-> IF i < used THEN @[i] ELSE spare]]
  BY DEF Resize
<1> DEFINE old == accounts[version].records
<1> DEFINE table == [i \in 0 .. used |-> IF i < used THEN old[i] ELSE spare]
<1>2. DOMAIN accounts = Versions
  BY DEF Inv, TypeOK
<1>3. /\ DOMAIN accounts' = Versions
      /\ \A v \in Versions \ {version} : accounts'[v] = accounts[v]
      /\ accounts'[version] = Grown(accounts[version], table)
  BY <1>0, <1>1, <1>2 DEF Grown
<1>4. /\ Versions' = Versions /\ Current' = Current
      /\ \A v : Snapshot(v)' = Snapshot(v) /\ GraceEnd(v)' = GraceEnd(v)
  BY <1>0 DEF Versions, Current, Snapshot, GraceEnd
<1>5. Faithful(version) /\ history[version].members \in Memberships
  BY <1>0, VersionFacts DEF Inv
<1>6. /\ accounts[version] \in AccountRecord /\ old \in Table
      /\ accounts[version].version = version
      /\ used = Size(history[version].members.nodes) + Size(history[version].members.providers)
  BY <1>5 DEF Faithful, AccountRecord
<1>7. /\ used \in Nat /\ DOMAIN old = 0 .. used - 1
      /\ \A i \in DOMAIN old : old[i] \in Entry
  BY <1>0, <1>6, TableFacts DEF AccountRecord, Size
<1>8. table \in Table
  <2> HIDE DEF used, old
  <2>1. spare \in Entry
    BY SpareAssumption
  <2>2. table \in [0 .. used -> Entry]
    BY <1>7, <2>1
  <2>3. used + 1 \in 0 .. MaxBits /\ (used + 1) - 1 = used
    BY <1>0, <1>7, SlotsAssumption
  <2> HIDE DEF table
  <2> QED
    BY <2>2, <2>3, IsTable
<1>9. \A i \in DOMAIN old : i \in DOMAIN table /\ table[i] = old[i]
  <2> HIDE DEF used, old
  <2> QED
    BY <1>7
<1> HIDE DEF table, old, used
<1>10. Faithful(version)'
  <2>1. /\ accounts'[version] \in AccountRecord /\ accounts'[version].records = table
        /\ accounts'[version].version = accounts[version].version
        /\ accounts'[version].activeFrom = accounts[version].activeFrom
        /\ accounts'[version].nodeCount = accounts[version].nodeCount
        /\ accounts'[version].providerCount = accounts[version].providerCount
        /\ accounts'[version].graceActiveUntil = accounts[version].graceActiveUntil
    BY <1>3, <1>6, <1>8, GrownAccount
  <2>2. Flatten(history[version].members)' = Flatten(history[version].members)
    BY <1>0 DEF Flatten, Size
  <2>3. \A i \in DOMAIN Flatten(history[version].members) :
          i \in DOMAIN table /\ table[i] = Flatten(history[version].members)[i]
    BY <1>5, <1>9 DEF Faithful, old
  <2> QED
    BY <1>0, <1>4, <1>5, <2>1, <2>3 DEF Faithful
<1>11. \A v \in Versions' : Faithful(v)'
  <2>1. \A v \in Versions : Faithful(v)
    BY DEF Inv
  <2>2. \A v \in Versions \ {version} : Faithful(v)'
    BY <1>0, <1>3, <1>4, <2>1 DEF Faithful
  <2> QED
    BY <1>4, <1>10, <2>2
<1>12. TypeOK'
  BY <1>0, <1>3, <1>4 DEF Inv, TypeOK
<1>13. RoundInv'
  <2>1. Timely' <=> Timely
    BY <1>0, <1>4 DEF Timely, Named, GraceEnd, Seconds
  <2> QED
    BY <1>0, <1>4, <2>1, RoundKept DEF Inv, RoundInv, Named
<1>14. AnswersInv'
  BY <1>0, <1>4, AnswersKept DEF Inv, Named
<1> QED
  BY <1>0, <1>11, <1>12, <1>13, <1>14, NoClaimNext DEF Inv

(***************************************************************************)
(* Milliseconds and seconds.                                               *)
(***************************************************************************)
LEMMA SecondsBelow ==
  ASSUME NEW time \in Nat, NEW end \in Nat
  PROVE  /\ Seconds(time) \in Nat
         /\ Seconds(time) < end <=> time < end * MsPerSecond
<1> DEFINE q == time \div MsPerSecond
<1> DEFINE r == time % MsPerSecond
<1>1. /\ q \in Nat /\ r \in 0 .. MsPerSecond - 1 /\ time = MsPerSecond * q + r
      /\ MsPerSecond \in Nat \ {0}
  BY ClockAssumption
<1> HIDE DEF q, r
<1>2. CASE q < end
  <2>1. end - 1 - q \in Nat
    BY <1>1, <1>2
  <2>2. MsPerSecond * (end - 1 - q) \in Nat
    BY <1>1, <2>1
  <2>3. MsPerSecond * (end - 1 - q) = MsPerSecond * end - MsPerSecond - MsPerSecond * q
    BY <1>1
  <2>4. MsPerSecond * end = end * MsPerSecond /\ MsPerSecond * end \in Nat /\ MsPerSecond * q \in Nat
    BY <1>1
  <2>5. time < end * MsPerSecond
    BY <1>1, <2>2, <2>3, <2>4
  <2> QED
    BY <1>1, <1>2, <2>5 DEF Seconds, q
<1>3. CASE ~ q < end
  <2>1. q - end \in Nat
    BY <1>1, <1>3
  <2>2. MsPerSecond * (q - end) \in Nat
    BY <1>1, <2>1
  <2>3. MsPerSecond * (q - end) = MsPerSecond * q - MsPerSecond * end
    BY <1>1
  <2>4. MsPerSecond * end = end * MsPerSecond /\ MsPerSecond * end \in Nat /\ MsPerSecond * q \in Nat
    BY <1>1
  <2>5. ~ time < end * MsPerSecond
    BY <1>1, <2>2, <2>3, <2>4
  <2> QED
    BY <1>1, <1>3, <2>5 DEF Seconds, q
<1> QED
  BY <1>2, <1>3

(***************************************************************************)
(* A round is signed: nothing has been answered about it yet.              *)
(***************************************************************************)
LEMMA SigningStep ==
  ASSUME Inv, attestation = NoAttestation,
         NEW payload \in Payloads, NEW bitmap \in Bitmaps, NEW keyed \in Versions,
         payload.version \in Versions, Signable(keyed, bitmap),
         attestation' = SignedBy(payload, bitmap, keyed),
         honest' \in BOOLEAN, honest' => HonestRound' /\ Timely',
         reply' = NoReply, UNCHANGED <<now, history, accounts, registry, answers>>
  PROVE  Inv'
<1>1. /\ Versions' = Versions /\ Current' = Current
      /\ \A v : GraceEnd(v)' = GraceEnd(v)
  BY DEF Versions, Current, GraceEnd
<1>2. Snapshot(keyed) \in View
  BY ViewFacts DEF Inv
<1>3. bitmap \in SUBSET Bits
  BY SpareAssumption
<1>4. KeySum(Snapshot(keyed), bitmap) \in Points
  BY <1>2, <1>3, SignerTyped, KeySumTyped DEF Signable
<1>5. attestation' \in Attestation
  BY <1>3, <1>4 DEF SignedBy, Attestation, Message
<1>6. TypeOK'
  BY <1>1, <1>5 DEF Inv, TypeOK
<1>7. \A v \in Versions' : Faithful(v)'
  BY <1>1 DEF Inv, Faithful
<1>8. Named' \in Versions'
  BY <1>1 DEF Named, SignedBy
<1>9. attestation' # NoAttestation
  BY <1>5, ChainAssumption
<1>10. AnswersInv'
  BY DEF Inv, AnswersInv
<1> QED
  BY <1>6, <1>7, <1>8, <1>9, <1>10, NoClaimNext DEF Inv, RoundInv

(***************************************************************************)
(* A round of any kind.                                                    *)
(***************************************************************************)
LEMMA SignAnyStep ==
  ASSUME Inv, SignAny
  PROVE  Inv'
<1>1. /\ attestation = NoAttestation /\ reply' = NoReply
      /\ UNCHANGED <<now, history, accounts, registry, honest, answers>>
  BY DEF SignAny, chain
<1>2. ~ honest /\ ~ honest' /\ honest' \in BOOLEAN
  BY <1>1 DEF Inv, RoundInv, TypeOK
<1>3. PICK payload \in Payloads, bitmap \in Bitmaps, keyed \in Versions :
        /\ payload.version \in Versions
        /\ Signable(keyed, bitmap)
        /\ attestation' = SignedBy(payload, bitmap, keyed)
  BY DEF SignAny
<1> QED
  BY <1>1, <1>2, <1>3, SigningStep

(***************************************************************************)
(* An honest round: its stamp is off by the skew at most.                  *)
(***************************************************************************)
LEMMA SignHonestlyStep ==
  ASSUME Inv, SignHonestly
  PROVE  Inv'
<1>1. /\ attestation = NoAttestation /\ reply' = NoReply /\ honest' = TRUE
      /\ UNCHANGED <<now, history, accounts, registry, answers>>
  BY DEF SignHonestly, chain
<1>2. PICK payload \in Payloads, bitmap \in Bitmaps :
        /\ payload.version = Current
        /\ payload.timestamp < (now + Skew + 1) * MsPerSecond
        /\ Signable(Current, bitmap)
        /\ \A bit \in bitmap : Signer(Snapshot(Current), bit).key # Unparsable
        /\ payload.required \in 1 .. Cardinality(bitmap)
        /\ Cardinality(ProviderBits(bitmap)) <= 1
        /\ KeySum(Snapshot(Current), bitmap) # Infinity
        /\ attestation' = SignedBy(payload, bitmap, Current)
  BY DEF SignHonestly
<1>3. Current \in Versions /\ now \in Nat /\ Skew \in Nat
  BY VersionFacts, WindowAssumption DEF Inv
<1>4. /\ attestation'.payload = payload /\ attestation'.signers = bitmap
      /\ attestation'.scalarValid
      /\ attestation'.signedKey = KeySum(Snapshot(Current), bitmap)
      /\ attestation'.signedMessage = [payload |-> payload, signers |-> bitmap]
  BY <1>2 DEF SignedBy
<1>5. Snapshot(Named)' = Snapshot(Current) /\ Named' = Current /\ Current' = Current
  BY <1>1, <1>2, <1>4 DEF Snapshot, Named, Current
<1>6. HonestRound'
  BY <1>2, <1>4, <1>5 DEF HonestRound, OwnMessage, Signable
<1>7. Timely'
  <2>1. payload.timestamp \in Nat /\ now + Skew + 1 \in Nat
    BY <1>3, StampAssumption
  <2>2. Seconds(payload.timestamp) < now + Skew + 1
    BY <1>2, <2>1, SecondsBelow
  <2>3. Seconds(attestation.payload.timestamp)' = Seconds(payload.timestamp)
    BY <1>4 DEF Seconds
  <2>4. ~ Current < Current
    BY VersionFacts DEF Inv
  <2> QED
    BY <1>1, <1>5, <2>2, <2>3, <2>4 DEF Timely
<1> QED
  BY <1>1, <1>2, <1>3, <1>6, <1>7, SigningStep

-----------------------------------------------------------------------------
(***************************************************************************)
(* Calls.  What is known of a verdict, whatever the snapshot.              *)
(***************************************************************************)
Judged ==
  Inputs => \A call : call.op \in Ops =>
    /\ Verdict(call) \in Outcomes
    /\ Deserved(call) => Verdict(call) = Matched(call.op)
    /\ Verdict(call) \in Positive => Deserved(call)
    /\ call.op \in Disputes => Verdict(call) # "ok"

\* The proofs about verdicts, in the form the steps need.
LEMMA VerdictsJudged == Judged
<1> SUFFICES ASSUME Inputs, NEW call, call.op \in Ops
             PROVE  /\ Verdict(call) \in Outcomes
                    /\ Deserved(call) => Verdict(call) = Matched(call.op)
                    /\ Verdict(call) \in Positive => Deserved(call)
                    /\ call.op \in Disputes => Verdict(call) # "ok"
  BY DEF Judged
<1>1. Verdict(call) \in Permitted(call)
  BY VerdictIsPermitted
<1>2. Deserved(call) => Verdict(call) = Matched(call.op)
  BY <1>1 DEF Permitted, Matched
<1>3. ~ Deserved(call) => Verdict(call) \in {"false"} \cup Errors
  BY <1>1 DEF Permitted
<1>4. \A answer \in {"false"} \cup Errors : answer \notin Positive /\ answer # "ok"
  BY DEF Errors, Positive
<1>5. Verdict(call) \in Outcomes
  BY <1>2, <1>3 DEF Matched, Outcomes, Positive
<1>6. call.op \in Disputes => Matched(call.op) # "ok"
  BY DEF Matched
<1> QED
  BY <1>2, <1>3, <1>4, <1>5, <1>6

\* The same of the next state.
LEMMA VerdictsJudgedNext == Judged'
BY VerdictsJudged, PTL

(***************************************************************************)
(* An honest round is never dated after the end of its version.            *)
(***************************************************************************)
LEMMA HonestIsNotRetired ==
  ASSUME Inv, honest
  PROVE  ~ RetiredBy(accounts[Named], Seconds(attestation.payload.timestamp))
<1>1. Timely /\ attestation # NoAttestation /\ Named \in Versions
  BY DEF Inv, RoundInv
<1>2. accounts[Named].graceActiveUntil = GraceEnd(Named)
  BY <1>1 DEF Inv, Faithful
<1>3. attestation.payload.timestamp \in Nat
  BY <1>1, StampAssumption DEF Inv, TypeOK, Attestation
<1>4. Seconds(attestation.payload.timestamp) \in Nat
  BY <1>3, SecondsBelow, VersionFacts DEF Inv
<1>5. CASE Named < Current
  <2>1. Named + 1 \in Versions
    BY <1>1, <1>5, VersionFacts DEF Inv
  <2>2. GraceEnd(Named) \in Nat
    BY <1>5, <2>1, VersionFacts, WindowAssumption DEF Inv, GraceEnd
  <2> QED
    BY <1>1, <1>2, <1>4, <1>5, <2>2 DEF Timely, RetiredBy
<1>6. CASE ~ Named < Current
  BY <1>2, <1>6 DEF GraceEnd, RetiredBy
<1> QED
  BY <1>5, <1>6

(***************************************************************************)
(* The only accounts that are loaded are those of the program, as they are.*)
(***************************************************************************)
LEMMA OnlyOwnAccounts ==
  ASSUME Inv, NEW account \in {accounts[v] : v \in Versions} \cup Others,
         Load(account) = Loaded
  PROVE  \E v \in Versions : account = accounts[v]
<1>1. account.owner = Program /\ account.borrowed # TRUE /\ account.isRegistry # FALSE
  BY DEF Load, WellShaped, Loaded
<1>2. \A v \in Versions : accounts[v] \in AccountRecord
  BY DEF Inv, Faithful
<1>3. ASSUME NEW v \in Versions PROVE account # [accounts[v] EXCEPT !.borrowed = TRUE]
  <2> DEFINE old == accounts[v]
  <2>1. old \in AccountRecord
    BY <1>2
  <2> HIDE DEF old
  <2>2. [old EXCEPT !.borrowed = TRUE].borrowed = TRUE
    BY <2>1 DEF AccountRecord
  <2> QED
    BY <1>1, <2>2 DEF old
<1>4. ASSUME NEW v \in Versions PROVE account # [accounts[v] EXCEPT !.isRegistry = FALSE]
  <2> DEFINE old == accounts[v]
  <2>1. old \in AccountRecord
    BY <1>2
  <2> HIDE DEF old
  <2>2. [old EXCEPT !.isRegistry = FALSE].isRegistry = FALSE
    BY <2>1 DEF AccountRecord
  <2> QED
    BY <1>1, <2>2 DEF old
<1>5. ASSUME NEW v \in Versions, NEW m \in Memberships
      PROVE  account # [NewAccount(v, m) EXCEPT !.owner = Elsewhere]
  <2>1. [NewAccount(v, m) EXCEPT !.owner = Elsewhere].owner = Elsewhere
    BY DEF NewAccount
  <2> QED
    BY <1>1, <2>1, ChainAssumption
<1> QED
  BY <1>3, <1>4, <1>5 DEF Others

(***************************************************************************)
(* What a call may come to: nothing at all, the refusal of a version that  *)
(* is retired, or the verdict over the snapshot of the named version.      *)
(***************************************************************************)
CallOf(op, provider) ==
  [op |-> op, hint |-> NoHint, provider |-> provider, message |-> OwnMessage]

\* A call ends with no reply, with the refusal of a retired round, or with a verdict.
LEMMA AskCases ==
  ASSUME Inv, NEW op \in Ops, NEW provider, Ask(op, provider)
  PROVE  /\ attestation # NoAttestation
         /\ UNCHANGED <<now, history, accounts, attestation, honest>>
         /\ \/ UNCHANGED <<registry, reply, answers>>
            \/ /\ op \notin Disputes /\ ~ honest
               /\ Respond(op, "RegistryRetired") /\ UNCHANGED registry
            \/ /\ registry' = Snapshot(Named)
               /\ op \notin Disputes =>
                    ~ RetiredBy(accounts[Named], Seconds(attestation.payload.timestamp))
               /\ Respond(op, Verdict(CallOf(op, provider))')
<1>1. attestation # NoAttestation /\ UNCHANGED <<now, history, accounts, attestation, honest>>
  BY DEF Ask, chain
<1>2. PICK account \in {accounts[v] : v \in Versions} \cup Others :
        \/ /\ Refusal(op, account) # Loaded
           /\ IF account = accounts[Named]
              THEN Respond(op, Refusal(op, account)) ELSE UNCHANGED <<reply, answers>>
           /\ UNCHANGED registry
        \/ /\ Refusal(op, account) = Loaded
           /\ registry' = ViewOf(account)
           /\ Respond(op, Verdict(CallOf(op, provider))')
  BY DEF Ask, Named, CallOf
<1>3. /\ Named \in Versions /\ Faithful(Named) /\ accounts[Named].version = Named
      /\ Load(accounts[Named]) = Loaded
  BY <1>1, ViewFacts DEF Inv, RoundInv, Faithful
<1>4. CASE Refusal(op, account) # Loaded
  <2>1. CASE account = accounts[Named]
    <3>1. /\ Refusal(op, account) = "RegistryRetired" /\ op \notin Disputes
          /\ RetiredBy(account, Seconds(attestation.payload.timestamp))
      BY <1>3, <1>4, <2>1 DEF Refusal, Named
    <3>2. ~ honest
      BY <2>1, <3>1, HonestIsNotRetired
    <3>3. Respond(op, Refusal(op, account)) /\ UNCHANGED registry
      BY <1>2, <1>4, <2>1
    <3> QED
      BY <1>1, <3>1, <3>2, <3>3
  <2>2. CASE account # accounts[Named]
    BY <1>1, <1>2, <1>4, <2>2
  <2> QED
    BY <2>1, <2>2
<1>5. CASE Refusal(op, account) = Loaded
  <2>1. /\ Load(account) = Loaded /\ account.version = Named
        /\ op \notin Disputes => ~ RetiredBy(account, Seconds(attestation.payload.timestamp))
    BY <1>5 DEF Refusal, Loaded, Named
  <2>2. PICK v \in Versions : account = accounts[v]
    BY <2>1, OnlyOwnAccounts
  <2>3. v = Named /\ ViewOf(account) = Snapshot(Named)
    BY <2>1, <2>2, ViewFacts DEF Inv, Faithful
  <2> QED
    BY <1>1, <1>2, <1>5, <2>1, <2>2, <2>3
<1> QED
  BY <1>4, <1>5

(***************************************************************************)
(* A retired version is refused.                                           *)
(***************************************************************************)
LEMMA RefusalStep ==
  ASSUME Inv, NEW op \in Ops, op \notin Disputes, ~ honest, Respond(op, "RegistryRetired"),
         attestation # NoAttestation,
         UNCHANGED <<now, history, accounts, registry, attestation, honest>>
  PROVE  Inv'
<1>1. /\ reply' = [op |-> op, answer |-> "RegistryRetired"] /\ answers' = answers
  BY DEF Respond
<1>2. /\ Versions' = Versions /\ Current' = Current
      /\ \A v : Snapshot(v)' = Snapshot(v) /\ GraceEnd(v)' = GraceEnd(v)
  BY DEF Versions, Current, Snapshot, GraceEnd
<1>3. TypeOK'
  <2>1. reply' \in [op : Ops, answer : Answers]
    BY <1>1 DEF Answers
  <2> QED
    BY <1>1, <1>2, <2>1 DEF Inv, TypeOK
<1>4. \A v \in Versions' : Faithful(v)'
  BY <1>2 DEF Inv, Faithful
<1>5. RoundInv'
  BY <1>2, RoundKept DEF Inv, RoundInv, Named
<1>6. AnswersInv'
  BY <1>1, <1>2, AnswersKept DEF Inv, Named
<1>7. RepliesInv'
  BY <1>1 DEF RepliesInv, AcceptedByMembers, SupersededKeysStop, HonestRoundsVerify
<1> QED
  BY <1>3, <1>4, <1>5, <1>6, <1>7 DEF Inv

(***************************************************************************)
(* The verdict over the snapshot of the named version.                     *)
(***************************************************************************)
LEMMA VerdictStep ==
  ASSUME Inv, NEW op \in Ops, op # "keys", NEW provider,
         op # "provenance" => provider = NoAccount,
         attestation # NoAttestation,
         UNCHANGED <<now, history, accounts, attestation, honest>>,
         registry' = Snapshot(Named),
         op \notin Disputes =>
           ~ RetiredBy(accounts[Named], Seconds(attestation.payload.timestamp)),
         Respond(op, Verdict(CallOf(op, provider))')
  PROVE  Inv'
<1>1. /\ Versions' = Versions /\ Current' = Current /\ Named' = Named /\ OwnMessage' = OwnMessage
      /\ \A v : Snapshot(v)' = Snapshot(v) /\ GraceEnd(v)' = GraceEnd(v)
  BY DEF Versions, Current, Snapshot, GraceEnd, Named, OwnMessage
<1>2. Named \in Versions /\ Snapshot(Named) \in View /\ Snapshot(Named).version = Named
  BY ViewFacts DEF Inv, RoundInv
<1>3. Inputs'
  BY <1>2 DEF Inputs, Inv, TypeOK
<1>4. PICK call : call = CallOf(op, provider)
  OBVIOUS
<1>5. PICK answer : answer = Verdict(call)'
  OBVIOUS
<1>6. /\ reply' = [op |-> op, answer |-> answer]
      /\ answers' = IF op \in Disputes \/ answer = "ok" THEN answers \cup {answer} ELSE answers
  <2>1. CallOf(op, provider)' = call
    BY <1>1, <1>4 DEF CallOf
  <2> QED
    BY <1>5, <2>1 DEF Respond
<1>7. /\ call.op = op /\ call.hint = NoHint /\ call.provider = provider
      /\ call.message = OwnMessage
  BY <1>4 DEF CallOf
<1>8. PICK dispute : dispute = DisputeCall
  OBVIOUS
<1>9. /\ dispute.op = "resolved" /\ dispute.hint = NoHint /\ dispute.message = OwnMessage
      /\ op \in Disputes => dispute = call
  BY <1>4, <1>8 DEF DisputeCall, CallOf, Ops, Disputes
<1>10. PICK upheld : upheld = Verdict(dispute)'
  OBVIOUS
<1>11. /\ answer \in Outcomes
       /\ Deserved(call)' => answer = Matched(op)
       /\ answer \in Positive => Deserved(call)'
       /\ op \in Disputes => answer # "ok" /\ answer = upheld
       /\ Deserved(dispute)' => upheld = "true"
  <2>1. dispute.op \in Ops /\ Matched(dispute.op) = "true"
    BY <1>9 DEF Ops, Disputes, Matched
  <2> QED
    BY <1>3, <1>5, <1>7, <1>9, <1>10, <2>1, VerdictsJudgedNext DEF Judged
<1>12. Deserved(call)' => Deserved(dispute)'
  BY <1>7, <1>9 DEF Deserved, HintFits, Disputes
<1>13. answer = "ok" => Deserved(call)' /\ upheld = "true" /\ op \notin Disputes
  BY <1>11, <1>12 DEF Positive
<1>14. TypeOK'
  <2>1. reply' \in [op : Ops, answer : Answers] /\ answers' \subseteq Answers
    BY <1>6, <1>11 DEF Answers, Inv, TypeOK
  <2> QED
    BY <1>1, <1>2, <2>1 DEF Inv, TypeOK
<1>15. \A v \in Versions' : Faithful(v)'
  BY <1>1 DEF Inv, Faithful
<1>16. RoundInv'
  <2>1. Timely' <=> Timely
    BY <1>1 DEF Timely, Named, GraceEnd, Seconds
  <2> QED
    BY <1>1, <2>1, RoundKept DEF Inv, RoundInv, Named
<1>17. AnswersInv'
  <2>1. DisputeCall' = dispute /\ Verdict(DisputeCall)' = upheld
    BY <1>1, <1>8, <1>10 DEF DisputeCall
  <2>2. answers # {} =>
          answers \subseteq {"ok", upheld} /\ ("ok" \in answers => upheld = "true")
    <3>1. ASSUME answers # {} PROVE upheld = Verdict(DisputeCall)
      <4>1. registry' = registry
        BY <3>1 DEF Inv, AnswersInv
      <4>2. \A any : Verdict(any)' = Verdict(any)
        BY <4>1, Fixed
      <4> QED
        BY <1>8, <1>10, <4>2
    <3> QED
      BY <3>1 DEF Inv, AnswersInv
  <2>3. answers' \subseteq {"ok", upheld} /\ ("ok" \in answers' => upheld = "true")
    BY <1>6, <1>11, <1>13, <2>2
  <2> QED
    BY <1>1, <2>1, <2>3 DEF AnswersInv, Named
<1>18. RepliesInv'
  <2>1. AcceptedByMembers'
    <3>1. ASSUME answer = "ok"
          PROVE  /\ \A bit \in attestation.signers : Resolves(Snapshot(Named), bit)
                 /\ attestation.signedKey = KeySum(Snapshot(Named), attestation.signers)
      BY <1>13, <3>1 DEF Deserved, Genuine, WellFormed, AllLive, Coalition
    <3>2. attestation.payload.version = Named /\ attestation'.payload.version = Named
      BY DEF Named
    <3>3. Snapshot(Named)' = Snapshot(Named)
      BY <1>1
    <3> QED
      BY <1>1, <1>6, <3>1, <3>2, <3>3 DEF AcceptedByMembers, Named
  <2>2. SupersededKeysStop'
    <3> DEFINE end == history[Named + 1].from + Grace
    <3>1. ASSUME answer = "ok", Named < Current
          PROVE  attestation.payload.timestamp < end * MsPerSecond
      <4>1. ~ RetiredBy(accounts[Named], Seconds(attestation.payload.timestamp))
        BY <1>13, <3>1
      <4>2. accounts[Named].graceActiveUntil = end
        BY <1>2, <3>1 DEF Inv, Faithful, GraceEnd
      <4>3. Named + 1 \in Versions
        BY <1>2, <3>1, VersionFacts DEF Inv
      <4>4. end \in Nat /\ end # 0
        BY <4>3, VersionFacts, WindowAssumption DEF Inv
      <4>5. attestation.payload.timestamp \in Nat
        BY StampAssumption DEF Inv, TypeOK, Attestation
      <4>6. Seconds(attestation.payload.timestamp) \in Nat
        BY <4>4, <4>5, SecondsBelow
      <4>7. Seconds(attestation.payload.timestamp) < end
        BY <4>1, <4>2, <4>4, <4>6 DEF RetiredBy
      <4> HIDE DEF end
      <4> QED
        BY <4>4, <4>5, <4>7, SecondsBelow
    <3> QED
      BY <1>1, <1>6, <3>1 DEF SupersededKeysStop, Named
  <2>3. HonestRoundsVerify'
    <3>1. ASSUME honest, op = "verify" PROVE answer = "ok"
      <4>1. HonestRound
        BY <3>1 DEF Inv, RoundInv
      <4>2. attestation.signers # {}
        BY <4>1, FS_EmptySet DEF HonestRound
      <4>3. WellFormed'
        BY <4>1, <4>2 DEF HonestRound, WellFormed, AllLive, AllParse, Coalition
      <4>4. Genuine(call.message)'
        BY <1>7, <4>1, <4>3 DEF HonestRound, Genuine, Coalition
      <4>5. QuorumMet'
        <5>1. attestation.payload.required > 0
              /\ Cardinality(attestation.signers) >= attestation.payload.required
              /\ Cardinality(ProviderBits(attestation.signers)) <= 1
          <6>1. IsFiniteSet(attestation.signers)
            <7>1. IsFiniteSet(Bits)
              BY FS_Interval, SlotsAssumption DEF Bits
            <7>2. attestation.signers \subseteq Bits
              BY DEF Inv, TypeOK, Attestation
            <7> QED
              BY <7>1, <7>2, FS_Subset
          <6>2. Cardinality(attestation.signers) \in Nat
            BY <6>1, FS_CardinalityType
          <6> QED
            BY <4>1, <6>2 DEF HonestRound
        <5> QED
          BY <5>1 DEF QuorumMet
      <4>6. attestation'.payload.version = registry'.version
        BY <1>2 DEF Named
      <4>7. Deserved(call)'
        BY <1>7, <3>1, <4>4, <4>5, <4>6 DEF Deserved, HintFits
      <4> QED
        BY <1>11, <3>1, <4>7 DEF Matched, Disputes
    <3> QED
      BY <1>6, <3>1 DEF HonestRoundsVerify
  <2> QED
    BY <2>1, <2>2, <2>3 DEF RepliesInv
<1> QED
  BY <1>14, <1>15, <1>16, <1>17, <1>18 DEF Inv

(***************************************************************************)
(* A call of any kind.                                                     *)
(***************************************************************************)
LEMMA AskStep ==
  ASSUME Inv, NEW op \in Ops, op # "keys", NEW provider,
         op # "provenance" => provider = NoAccount, Ask(op, provider)
  PROVE  Inv'
<1>1. /\ attestation # NoAttestation
      /\ UNCHANGED <<now, history, accounts, attestation, honest>>
  BY AskCases
<1>2. CASE UNCHANGED <<registry, reply, answers>>
  BY <1>1, <1>2, StutterStep DEF vars, chain
<1>3. CASE op \notin Disputes /\ ~ honest /\ Respond(op, "RegistryRetired") /\ UNCHANGED registry
  BY <1>1, <1>3, RefusalStep
<1>4. CASE /\ registry' = Snapshot(Named)
           /\ op \notin Disputes =>
                ~ RetiredBy(accounts[Named], Seconds(attestation.payload.timestamp))
           /\ Respond(op, Verdict(CallOf(op, provider))')
  BY <1>1, <1>4, VerdictStep
<1> QED
  BY <1>2, <1>3, <1>4, AskCases

(***************************************************************************)
(* The invariant holds at first, with one version and nothing signed.      *)
(***************************************************************************)
LEMMA InitInv == Init => Inv
<1> SUFFICES ASSUME Init PROVE Inv
  OBVIOUS
<1>1. PICK m \in Memberships :
        /\ history = [v \in {1} |-> [members |-> m, from |-> now]]
        /\ accounts = [v \in {1} |-> NewAccount(1, m)]
  BY DEF Init
<1>2. /\ now = 0 /\ registry = ViewOf(accounts[1]) /\ attestation = NoAttestation
      /\ honest = FALSE /\ reply = NoReply /\ answers = {}
  BY DEF Init
<1>3. DOMAIN history = {1} /\ DOMAIN accounts = {1} /\ Cardinality({1}) = 1
  BY <1>1, FS_Singleton
<1>4. Current = 1 /\ Versions = {1}
  BY <1>3 DEF Current, Versions
<1>5. /\ history[1].members = m /\ history[1].from = 0
      /\ accounts[1] = NewAccount(1, m) /\ GraceEnd(1) = 0
  BY <1>1, <1>2, <1>4 DEF GraceEnd
<1>6. Faithful(1)
  <2>1. /\ accounts[1] \in AccountRecord
        /\ accounts[1].version = 1 /\ accounts[1].activeFrom = 0
        /\ accounts[1].graceActiveUntil = 0
        /\ accounts[1].nodeCount = Size(m.nodes) /\ accounts[1].providerCount = Size(m.providers)
        /\ accounts[1].records = Flatten(m)
    BY <1>2, <1>5, FreshAccount
  <2> QED
    BY <1>5, <2>1 DEF Faithful
<1>7. registry \in View
  BY <1>2, <1>5, <1>6, AccountView
<1>8. TypeOK
  <2>1. 0 \in 0 .. MaxTime /\ 1 \in 1 .. MaxVersions
    BY WindowAssumption
  <2>2. now \in 0 .. MaxTime /\ Current \in 1 .. MaxVersions
    BY <1>2, <1>4, <2>1
  <2>3. \A v \in Versions : history[v].members \in Memberships /\ history[v].from \in 0 .. now
    BY <1>2, <1>4, <1>5
  <2> QED
    BY <1>2, <1>3, <1>4, <1>7, <2>2, <2>3 DEF TypeOK
<1>9. RoundInv /\ AnswersInv
  BY <1>2 DEF RoundInv, AnswersInv
<1> QED
  BY <1>2, <1>4, <1>6, <1>8, <1>9, NoClaim DEF Inv

(***************************************************************************)
(* Every step keeps the invariant.                                         *)
(***************************************************************************)
LEMMA NextInv == Inv /\ [Next]_vars => Inv'
<1> SUFFICES ASSUME Inv, [Next]_vars PROVE Inv'
  OBVIOUS
<1>1. CASE Tick
  BY <1>1, TickStep
<1>2. CASE Publish
  BY <1>2, PublishStep
<1>3. CASE SignHonestly
  BY <1>3, SignHonestlyStep
<1>4. CASE SignAny
  BY <1>4, SignAnyStep
<1>5. CASE \E version \in Versions : Resize(version)
  BY <1>5, ResizeStep
<1>6. CASE VerifyAttestation
  BY <1>6, AskStep DEF VerifyAttestation, Ops
<1>7. CASE VerifyProvenance
  BY <1>7, AskStep DEF VerifyProvenance, Ops
<1>8. CASE VerifyAggregateOverHash
  BY <1>8, AskStep DEF VerifyAggregateOverHash, Ops, Disputes
<1>9. CASE UNCHANGED vars
  BY <1>9, StutterStep
<1> QED
  BY <1>1, <1>2, <1>3, <1>4, <1>5, <1>6, <1>7, <1>8, <1>9 DEF Next

(***************************************************************************)
(* The invariant holds throughout.                                         *)
(***************************************************************************)
THEOREM Invariance == Spec => []Inv
<1>1. Init => Inv
  BY InitInv
<1>2. Inv /\ [Next]_vars => Inv'
  BY NextInv
<1> QED
  BY <1>1, <1>2, PTL DEF Spec

-----------------------------------------------------------------------------
(***************************************************************************)
(* The invariants of Chain.  Whatever account is handed in, an accepted    *)
(* attestation is signed by members of the version it names, with their    *)
(* keys in it (load_live_registry, verify_attestation).                    *)
(***************************************************************************)
THEOREM OnlyMembersAreAccepted == Spec => []AcceptedByMembers
<1>1. Inv => AcceptedByMembers
  BY DEF Inv, RepliesInv
<1> QED
  BY <1>1, Invariance, PTL

(***************************************************************************)
(* The variables keep their types.                                         *)
(***************************************************************************)
THEOREM TypeCorrect == Spec => []TypeOK
<1>1. Inv => TypeOK
  BY DEF Inv
<1> QED
  BY <1>1, Invariance, PTL

(***************************************************************************)
(* No round dated after the grace window of its version is accepted        *)
(* (retired_by).                                                           *)
(***************************************************************************)
THEOREM RetiredKeysAreRefused == Spec => []SupersededKeysStop
<1>1. Inv => SupersededKeysStop
  BY DEF Inv, RepliesInv
<1> QED
  BY <1>1, Invariance, PTL

(***************************************************************************)
(* An honest round verifies, however late and whatever was published since *)
(* (verify_attestation, retired_by).                                       *)
(***************************************************************************)
THEOREM HonestRoundsAreAccepted == Spec => []HonestRoundsVerify
<1>1. Inv => HonestRoundsVerify
  BY DEF Inv, RepliesInv
<1> QED
  BY <1>1, Invariance, PTL

(***************************************************************************)
(* Evidence does not age: the disputes over an attestation all get the     *)
(* verdict over the snapshot it names, and what was accepted is upheld     *)
(* (verify_aggregate_over_hash_accounts).                                  *)
(***************************************************************************)
THEOREM EvidenceKeeps == Spec => []EvidenceDoesNotAge
<1>1. Inv => EvidenceDoesNotAge
  <2> SUFFICES ASSUME Inv PROVE EvidenceDoesNotAge
    OBVIOUS
  <2> DEFINE disputed == answers \ {"ok"}
  <2>1. disputed \subseteq {Verdict(DisputeCall)}
    BY DEF Inv, AnswersInv
  <2>2. disputed = {} \/ disputed = {Verdict(DisputeCall)}
    BY <2>1
  <2>3. Cardinality(disputed) <= 1
    <3>1. Cardinality({}) = 0 /\ Cardinality({Verdict(DisputeCall)}) = 1
      BY FS_EmptySet, FS_Singleton
    <3> QED
      BY <2>2, <3>1
  <2>4. "ok" \in answers => disputed \subseteq {"true"}
    BY <2>1 DEF Inv, AnswersInv
  <2> QED
    BY <2>3, <2>4 DEF EvidenceDoesNotAge
<1> QED
  BY <1>1, Invariance, PTL

(***************************************************************************)
(* The accounts keep saying what was published: same tables whatever the   *)
(* capacity, and the member to blame for each bit (node_key).              *)
(***************************************************************************)
THEOREM TablesStayPublished == Spec => []TablesAreAsPublished
<1>1. Inv => TablesAreAsPublished
  <2> SUFFICES ASSUME Inv, NEW v \in Versions
               PROVE  /\ ViewOf(accounts[v]) = Snapshot(v) /\ Load(accounts[v]) = Loaded
                      /\ \A bit \in Bits :
                           NodeKey(accounts[v], bit) =
                             IF bit \in NodeBits(Bits) /\ Resolves(Snapshot(v), bit)
                             THEN {Signer(Snapshot(v), bit).account} ELSE {}
    BY DEF TablesAreAsPublished
  <2> DEFINE nodes == history[v].members.nodes
  <2>1. /\ NodeTable(accounts[v]) = nodes
        /\ ViewOf(accounts[v]) = Snapshot(v) /\ Load(accounts[v]) = Loaded
    BY ViewFacts DEF Inv
  <2>2. /\ Size(nodes) \in 0 .. NodeSlots
        /\ DOMAIN nodes = 0 .. Size(nodes) - 1
    BY VersionFacts, Layout, TableFacts DEF Inv
  <2>3. Snapshot(v).nodes = nodes /\ Snapshot(v).nodeCount = Size(nodes)
    BY DEF Snapshot
  <2> HIDE DEF nodes
  <2>4. ASSUME NEW bit \in Bits
        PROVE  NodeKey(accounts[v], bit) =
                 IF bit \in NodeBits(Bits) /\ Resolves(Snapshot(v), bit)
                 THEN {Signer(Snapshot(v), bit).account} ELSE {}
    <3>1. NodeKey(accounts[v], bit) =
            IF bit \in DOMAIN nodes /\ ~ IsVacant(nodes[bit]) THEN {nodes[bit].account} ELSE {}
      BY <2>1 DEF NodeKey
    <3>2. bit \in DOMAIN nodes => bit < NodeSlots
      BY <2>2, SlotsAssumption DEF Bits
    <3>3. bit \in NodeBits(Bits) <=> bit < NodeSlots
      BY DEF NodeBits
    <3>4. ASSUME bit < NodeSlots
          PROVE  /\ Signer(Snapshot(v), bit) = nodes[bit]
                 /\ Resolves(Snapshot(v), bit) <=> bit \in DOMAIN nodes /\ ~ IsVacant(nodes[bit])
      <4>1. bit \in DOMAIN nodes => bit < Size(nodes)
        BY <2>2
      <4> QED
        BY <2>3, <3>4, <4>1 DEF Signer, Resolves, Segment
    <3> QED
      BY <3>1, <3>2, <3>3, <3>4
  <2> QED
    BY <2>1, <2>4
<1> QED
  BY <1>1, Invariance, PTL

(***************************************************************************)
(* At each second the newest version of that second is active, and each    *)
(* superseded one until the end of its grace window (is_active_at).        *)
(***************************************************************************)
THEOREM VersionsOverlap == Spec => []NoGap
<1>1. Inv => NoGap
  <2> SUFFICES ASSUME Inv, NEW time \in history[1].from .. now, NEW v \in Versions
               PROVE  IsActiveAt(accounts[v], time) <=>
                        /\ history[v].from <= time
                        /\ v < Current => time < history[v + 1].from + Grace
    BY DEF NoGap
  <2>1. accounts[v].activeFrom = history[v].from /\ accounts[v].graceActiveUntil = GraceEnd(v)
    BY DEF Inv, Faithful
  <2>2. time \in Int
    BY VersionFacts DEF Inv
  <2>3. CASE v < Current
    <3> DEFINE end == history[v + 1].from + Grace
    <3>1. v + 1 \in Versions
      BY <2>3, VersionFacts DEF Inv
    <3>2. end \in Nat /\ end # 0
      BY <3>1, VersionFacts, WindowAssumption DEF Inv
    <3>3. accounts[v].graceActiveUntil = end
      BY <2>1, <2>3 DEF GraceEnd
    <3> HIDE DEF end
    <3>4. RetiredBy(accounts[v], time) <=> end <= time
      BY <3>2, <3>3 DEF RetiredBy
    <3>5. RetiredBy(accounts[v], time) <=> ~ (time < end)
      BY <2>2, <3>2, <3>4
    <3> QED
      BY <2>1, <2>3, <3>5 DEF IsActiveAt, end
  <2>4. CASE ~ v < Current
    BY <2>1, <2>4 DEF GraceEnd, RetiredBy, IsActiveAt
  <2> QED
    BY <2>3, <2>4
<1> QED
  BY <1>1, Invariance, PTL

=============================================================================
