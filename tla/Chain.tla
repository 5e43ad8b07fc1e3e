-------------------------------- MODULE Chain --------------------------------
(***************************************************************************)
(* Attestations verified on a chain while the registry moves on.           *)
(*                                                                         *)
(* The registry program (external; modelled from what solana.rs and        *)
(* state.rs say of it) publishes one account per version and starts the    *)
(* grace window of the version it supersedes; time passes; a coalition     *)
(* signs one round; and anyone submits the attestation, with whichever     *)
(* account, to verify_attestation, verify_provenance or the dispute check, *)
(* any number of times.  The verifier behind the account checks answers    *)
(* with its verdict (Claims), to which VerifierProofs shows that every     *)
(* pipeline comes step by step.                                            *)
(*                                                                         *)
(* A transaction is atomic: the account is borrowed while it is verified.  *)
(***************************************************************************)
EXTENDS RegistryAccount

CONSTANTS
  Memberships,     \* [nodes, providers] tables a version may have
  Spares,          \* records that spare capacity may hold
  Bitmaps,         \* signer sets of a round
  Grace,           \* length of the grace window, in seconds
  Skew,            \* how far the gateway's clock may be off, in seconds
  MaxTime,         \* bound on the chain clock
  MaxVersions,     \* bound on the number of versions
  Thresholds,      \* values of signatures_required
  Elsewhere,       \* another program
  NoAttestation,   \* nothing has been signed yet
  NoReply          \* nothing has been answered since the last other step

ASSUME MembershipAssumption ==
  \A m \in Memberships :
    /\ m.nodes \in Table /\ m.providers \in Table
    /\ Cardinality(DOMAIN m.nodes) <= NodeSlots
    /\ Cardinality(DOMAIN m.providers) <= MaxBits - NodeSlots
ASSUME SpareAssumption == Spares \subseteq Entry /\ Bitmaps \subseteq SUBSET Bits
ASSUME WindowAssumption ==
  /\ Grace \in Nat /\ Skew \in Nat /\ Skew < Grace
  /\ MaxTime \in Nat /\ MaxVersions \in Nat \ {0}
ASSUME ChainAssumption == NoAttestation \notin Attestation /\ Elsewhere # Program

VARIABLES
  now,           \* the chain clock
  history,       \* history[v]: membership of version v, and when it was published
  accounts,      \* accounts[v]: the account of version v
  honest,        \* whether the attestation stems from an honest round
  reply,         \* the last answer, when nothing else has happened since
  answers        \* what disputes were answered, and "ok" once the attestation was accepted

chain == <<now, history, accounts>>
vars == <<chain, registry, attestation, honest, reply, answers>>

Versions == 1 .. Cardinality(DOMAIN history)
Current == Cardinality(DOMAIN history)

-----------------------------------------------------------------------------
(***************************************************************************)
(* The registry program.                                                   *)
(***************************************************************************)
Size(table) == Cardinality(DOMAIN table)

\* The records of the two tables, one after the other.
Flatten(m) ==
  [i \in 0 .. Size(m.nodes) + Size(m.providers) - 1 |->
     IF i < Size(m.nodes) THEN m.nodes[i] ELSE m.providers[i - Size(m.nodes)]]

NewAccount(version, m) ==
  [owner |-> Program, isRegistry |-> TRUE, borrowed |-> FALSE,
   graceActiveUntil |-> 0, activeFrom |-> now, version |-> version,
   nodeCount |-> Size(m.nodes), providerCount |-> Size(m.providers),
   redundancyBuffer |-> 0, records |-> Flatten(m)]

\* The snapshot of a version, as the program means it.
Snapshot(version) ==
  LET m == history[version].members
  IN  [version |-> version, nodeCount |-> Size(m.nodes), providerCount |-> Size(m.providers),
       redundancyBuffer |-> 0, nodes |-> m.nodes, providers |-> m.providers]

Init ==
  /\ now = 0
  /\ \E m \in Memberships :
       /\ history = [v \in {1} |-> [members |-> m, from |-> now]]
       /\ accounts = [v \in {1} |-> NewAccount(1, m)]
  /\ registry = ViewOf(accounts[1])
  /\ attestation = NoAttestation /\ honest = FALSE
  /\ reply = NoReply /\ answers = {}

Tick ==
  /\ now < MaxTime
  /\ now' = now + 1
  /\ reply' = NoReply
  /\ UNCHANGED <<history, accounts, registry, attestation, honest, answers>>

\* A new version takes over; the one before it enters its grace window.
Publish ==
  /\ Current < MaxVersions
  /\ \E m \in Memberships :
       /\ history' = [v \in Versions \cup {Current + 1} |->
                        IF v \in Versions THEN history[v] ELSE [members |-> m, from |-> now]]
       /\ accounts' = [v \in Versions \cup {Current + 1} |->
                         IF v = Current + 1 THEN NewAccount(v, m)
                         ELSE IF v = Current
                         THEN [accounts[v] EXCEPT !.graceActiveUntil = now + Grace]
                         ELSE accounts[v]]
  /\ reply' = NoReply
  /\ UNCHANGED <<now, registry, attestation, honest, answers>>

\* The program may give a table spare capacity.
Resize(version) ==
  /\ version \in Versions
  /\ LET used == accounts[version].nodeCount + accounts[version].providerCount
     IN  /\ Cardinality(DOMAIN accounts[version].records) = used
         /\ used < MaxBits
         /\ \E spare \in Spares :
              accounts' = [accounts EXCEPT ![version].records =
                             [i \in 0 .. used |-> IF i < used THEN @[i] ELSE spare]]
  /\ reply' = NoReply
  /\ UNCHANGED <<now, history, registry, attestation, honest, answers>>

-----------------------------------------------------------------------------
(***************************************************************************)
(* Rounds.                                                                 *)
(***************************************************************************)
Signable(version, bitmap) == \A bit \in bitmap : Resolves(Snapshot(version), bit)

\* An attestation naming `named`, signed with the keys its signers have in `keyed`.
SignedBy(payload, bitmap, keyed) ==
  [payload |-> payload, signers |-> bitmap, scalarValid |-> TRUE,
   signedKey |-> KeySum(Snapshot(keyed), bitmap),
   signedMessage |-> [payload |-> payload, signers |-> bitmap]]

(***************************************************************************)
(* An honest round: the current version, its keys, and a stamp that is off *)
(* the chain clock by at most Skew.                                        *)
(***************************************************************************)
SignHonestly ==
  /\ attestation = NoAttestation
  /\ \E payload \in Payloads, bitmap \in Bitmaps :
       /\ payload.version = Current
       /\ (now - Skew) * MsPerSecond <= payload.timestamp
       /\ payload.timestamp < (now + Skew + 1) * MsPerSecond
       /\ Signable(Current, bitmap)
       /\ \A bit \in bitmap : Signer(Snapshot(Current), bit).key # Unparsable
       /\ payload.required \in 1 .. Cardinality(bitmap)
       /\ Cardinality(ProviderBits(bitmap)) <= 1
       /\ KeySum(Snapshot(Current), bitmap) # Infinity
       /\ attestation' = SignedBy(payload, bitmap, Current)
  /\ honest' = TRUE
  /\ reply' = NoReply
  /\ UNCHANGED <<chain, registry, answers>>

(***************************************************************************)
(* Any other: whatever version, stamp and signers, with the keys that the  *)
(* signers have or had in some version.                                    *)
(***************************************************************************)
SignAny ==
  /\ attestation = NoAttestation
  /\ \E payload \in Payloads, bitmap \in Bitmaps, keyed \in Versions :
       /\ payload.version \in Versions
       /\ Signable(keyed, bitmap)
       /\ attestation' = SignedBy(payload, bitmap, keyed)
  /\ reply' = NoReply
  /\ UNCHANGED <<chain, registry, honest, answers>>

-----------------------------------------------------------------------------
(***************************************************************************)
(* The accounts a caller may hand in: those of the program, also while they*)
(* are borrowed elsewhere, another account of the program, and accounts of *)
(* another program, whatever they hold.                                    *)
(***************************************************************************)
Others ==
  {[accounts[v] EXCEPT !.borrowed = TRUE] : v \in Versions}
  \cup {[accounts[v] EXCEPT !.isRegistry = FALSE] : v \in Versions}
  \cup {[NewAccount(v, m) EXCEPT !.owner = Elsewhere] : v \in Versions, m \in Memberships}

Respond(op, answer) ==
  /\ reply' = [op |-> op, answer |-> answer]
  /\ answers' = IF op \in Disputes \/ answer = "ok" THEN answers \cup {answer} ELSE answers

(***************************************************************************)
(* One call: the account checks, and then the verdict over the view of the *)
(* account.  A refusal is kept when it is over the account of the version  *)
(* that the attestation names.  No key is supplied, since a supplied key   *)
(* changes no answer, and a dispute is about the message that the          *)
(* attestation makes.                                                      *)
(***************************************************************************)
Ask(op, provider) ==
  /\ attestation # NoAttestation
  /\ UNCHANGED <<chain, attestation, honest>>
  /\ \E account \in {accounts[v] : v \in Versions} \cup Others :
       LET refusal == Refusal(op, account)
           call == [op |-> op, hint |-> NoHint, provider |-> provider, message |-> OwnMessage]
       IN  \/ /\ refusal # Loaded
              /\ IF account = accounts[attestation.payload.version]
                 THEN Respond(op, refusal) ELSE UNCHANGED <<reply, answers>>
              /\ UNCHANGED registry
           \/ /\ refusal = Loaded
              /\ registry' = ViewOf(account)
              /\ Respond(op, Verdict(call)')

VerifyAttestation == Ask("verify", NoAccount)

VerifyProvenance == \E provider \in Accounts : Ask("provenance", provider)

VerifyAggregateOverHash == Ask("resolved", NoAccount)

Next ==
  \/ Tick \/ Publish \/ SignHonestly \/ SignAny
  \/ \E version \in Versions : Resize(version)
  \/ VerifyAttestation \/ VerifyProvenance \/ VerifyAggregateOverHash

Spec == Init /\ [][Next]_vars

-----------------------------------------------------------------------------
Answers == Outcomes \cup AccountErrors \cup {"RegistryRetired"}

TypeOK ==
  /\ now \in 0 .. MaxTime
  /\ Current \in 1 .. MaxVersions /\ DOMAIN history = Versions /\ DOMAIN accounts = Versions
  /\ \A v \in Versions : history[v].members \in Memberships /\ history[v].from \in 0 .. now
  /\ registry \in View
  /\ attestation \in Attestation \cup {NoAttestation}
  /\ honest \in BOOLEAN
  /\ reply \in [op : Ops, answer : Answers] \cup {NoReply}
  /\ answers \subseteq Answers

(***************************************************************************)
(* Whatever account is handed in, an accepted attestation is signed by     *)
(* members of the version it names, with the keys they have in it.         *)
(***************************************************************************)
AcceptedByMembers ==
  (reply # NoReply /\ reply.answer = "ok") =>
    LET snapshot == Snapshot(attestation.payload.version)
    IN  /\ \A bit \in attestation.signers : Resolves(snapshot, bit)
        /\ attestation.signedKey = KeySum(snapshot, attestation.signers)

(***************************************************************************)
(* A rotated key stops verifying new rounds: a round dated when its version*)
(* has been superseded for the grace window is not accepted, not even for  *)
(* the last second of the window.                                          *)
(***************************************************************************)
SupersededKeysStop ==
  (reply # NoReply /\ reply.answer = "ok" /\ attestation.payload.version < Current) =>
    attestation.payload.timestamp
      < (history[attestation.payload.version + 1].from + Grace) * MsPerSecond

(***************************************************************************)
(* An honest round verifies whenever it is submitted with the account of   *)
(* its version, however late, although versions are published between its  *)
(* dispatch and its submission and its stamp is off by the skew.           *)
(***************************************************************************)
HonestRoundsVerify ==
  (honest /\ reply # NoReply /\ reply.op = "verify") => reply.answer = "ok"

(***************************************************************************)
(* Evidence does not age: all disputes over the account of its version end *)
(* alike, before and after the version is superseded, retired or resized,  *)
(* and what was ever accepted is upheld by each of them.                   *)
(***************************************************************************)
EvidenceDoesNotAge ==
  LET disputed == answers \ {"ok"}
  IN  Cardinality(disputed) <= 1 /\ ("ok" \in answers => disputed \subseteq {"true"})

(***************************************************************************)
(* The account of a version says what the program meant: its tables, read  *)
(* behind each other whatever the capacity, are those that were published, *)
(* so no bit binds to the record of another member; and node_key names the *)
(* member to blame for a bit of every node whose key is part of a sum, and *)
(* of no other bit.                                                        *)
(***************************************************************************)
TablesAreAsPublished ==
  \A v \in Versions :
    /\ ViewOf(accounts[v]) = Snapshot(v) /\ Load(accounts[v]) = Loaded
    /\ \A bit \in Bits :
         NodeKey(accounts[v], bit) =
           IF bit \in NodeBits(Bits) /\ Resolves(Snapshot(v), bit)
           THEN {Signer(Snapshot(v), bit).account} ELSE {}

(***************************************************************************)
(* There is no gap between versions: at each second since the first was    *)
(* published, the newest version of that second is active, and so is every *)
(* version whose successor is younger than the grace window.               *)
(***************************************************************************)
NoGap ==
  \A time \in history[1].from .. now, v \in Versions :
    IsActiveAt(accounts[v], time) <=>
      /\ history[v].from <= time
      /\ v < Current => time < history[v + 1].from + Grace

=============================================================================
