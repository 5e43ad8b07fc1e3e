# A verification development for molpha-verifier

molpha-verifier checks *attestations*: values that a committee of operator nodes, and possibly
one data provider, signed with an aggregate Schnorr signature over secp256k1. The library is
used by a gateway (to draw the committee of a round), by on-chain programs and relayers (to
verify an attestation), and by dispute handlers (to decide whether an aggregate is slashable).
It is stateless and sequential, so what can go wrong is not a race inside it. It is that two of
its users, on two paths, at two times, over two views of the registry, come to different
conclusions: a dispute slashing what `verify` accepts, the policing program flagging a node the
gateway asked to sign, a supplied key changing a verdict, a sampler returning a group of the
wrong size, a proof accepted for something its signer did not mean, a carry that is lost for one
operand in ten thousand. The modules here state those agreements and check them.

The inputs that the library does not compute (curve points, hashes, digests, the registry
program) are abstracted to what the properties tell apart. What is modelled in full is control:
every check, in the order the code makes it, with every early return; and, at small width, the
arithmetic that the library does itself.

## 1. Inventory

| Component | Source | State | Operations | Correct when |
|---|---|---|---|---|
| Registry snapshot | `state.rs` | an immutable view: version, counts, buffer, node and provider tables (possibly absent) | `signer`, `live_slots`, `LiveSlots::slot` | a bit binds to one member or to none; holes are never members |
| Signer bitmap | `bitmap.rs` | a 256-bit word, four limbs while it is drawn | split at bit 64, popcount, subset, range check, `nth_set_bit`, `for_each_set_bit` | the word is the set of its positions, visited once each in ascending order |
| Group sampler | `bitmap.rs` | digest counter, words left, slots selected, bitmap | `derive_group_bitmap`, `sample_without_replacement` | exactly the requested number of slots, uniformly, or a failure for cause |
| Committee selection | `selection.rs` | none; its users' round and claim | `derive_selection_bitmap`, `attestation_selection`, `node_quorum`, `check_quorum`, `verify_selection` | the gateway and the police derive the same committee |
| Coalition accumulator | `coalition.rs` | the running point, whether a key was added | add, finish, compress, compare with a supplied key | the sum is that of all the signers' keys; a supplied key decides nothing |
| Verification pipelines | `verify.rs`, `onchain.rs` | the position in the pipeline and the accumulator | `verify`, `verify_provenance`, `verify_aggregate_over_hash` (plain and keyed), `..._resolved` | each answer is justified; no two answers contradict each other |
| Message and payload | `message.rs`, `payload.rs` | none | `compute_message_hash`, `timestamp_secs` | the hash binds payload and bitmap |
| Solana accounts | `solana.rs` | account bytes owned by the registry program | `load`, `retired_by`, the three entry points | superseded keys stop verifying new rounds, evidence keeps its verdict, a bit binds to the record that was published |
| Proofs of possession, rotation | `pop.rs` | none (the program keeps the keys) | `validate_key_and_verify_pop`, the provider variant, `verify_key_rotation` | a proof takes effect only where its signer meant it, and once |
| Partial signatures | `partial.rs` | none | `verify_partial_signature_equation` | only the equation is confirmed, and one evaluation once |
| Scalars | `scalar.rs` | none | canonical test, `mul_mod`, `mod_pow`, `inv_mod`, low s, `evm_schnorr_ecdsa_inputs` | each limb algorithm equals arithmetic modulo the order; recovery checks the Schnorr equation |

Interactions: the pipelines read the snapshot through `signer` and feed the accumulator from
inside the peeling loop (`for_each_set_bit` with a callback that may fail); selection calls the
sampler and maps the ranks it drew to live slots; the dispute paths and the verifying paths share
the accumulator and the recovery but order their checks differently. The only shared state between
users is the published snapshot and the attestation itself. The account entry points wrap the
pipelines in checks on an account that the caller chose and that the registry program writes. A
rotation calls the keyed dispute check on a coalition of one. All three signature checks
(aggregate, possession, partial) are made by one ECDSA recovery or two, over scalars that the
library's own arithmetic computes.

Hard behaviours: the order of checks that yield different kinds of answer (error, adverse
verdict, positive verdict); the untrusted coalition key; sums that cancel; holes in the tables;
the boundary between nodes and providers; committee sizes derived on two sides from different
inputs; the draw through the complement; exhaustion of the digests; versions that are superseded
between the dispatch of a round, its submission and a dispute about it; proofs that are delivered
twice, late or elsewhere to a verifier that remembers nothing; the corner cases of recovery (an x
coordinate above the order, a high s, a zero challenge, a side at infinity); borrows, carries and
the width of an intermediate. `PROJECT.json` lists each
hazard with its line and the properties that cover it.

## 2. Modules

| Module | What it is | Code |
|---|---|---|
| `Registry` | snapshots, bit resolution, live slots, sums of keys; definitions only | `state.rs`, `bitmap.rs`, `coalition.rs` |
| `Claims` | attestations, calls, the answers each call deserves, the single checks and the verdict of each entry point; definitions only | `payload.rs`, `message.rs`, `error.rs`, `verify.rs`, `onchain.rs`, `check_quorum`, `coalition.rs` |
| `AttestationPolicy` | the abstract verifier: callers ask, one step answers with a permitted answer | what the entry points promise |
| `Verifier` | the pipelines, stage by stage, for any number of callers | `verify.rs`, `onchain.rs`, `coalition.rs`, `check_quorum` |
| `Groups` | what a group of slots is; words that are accepted and the slot they name | `bitmap.rs` |
| `GroupChoice` | the abstract sampler: some group of the right size, or failure | the contract of `derive_group_bitmap` |
| `Sampler` | the sampler, digest by digest and word by word | `bitmap.rs` 157-257 |
| `Selection` | a gateway, its committee, submitters and the police | `selection.rs` |
| `RegistryAccount` | what an account holds, when it is accepted, the view read out of it, retirement; definitions only | `solana.rs`, `payload.rs` |
| `Chain` | versions published over time; one attestation submitted with any account, any number of times | the entry points of `solana.rs`; the registry program as they read it |
| `Rotation` | registrations and rotations of keys; who signs, who submits, what the program stores | `pop.rs`; the registry program as its comments ask |
| `Recovery` | the three signature checks through ECDSA recovery, over a given curve | `scalar.rs`, `verify.rs`, `pop.rs`, `partial.rs`, `coalition.rs` |
| `Words` | numbers from digits, bytes and limbs: conversion, comparison, subtraction, product, shift; definitions only | `scalar.rs` |
| `Barrett` | the reduction on whole numbers: what the limbs must compute | `barrett_reduce_mod_n` |
| `Scalar` | `mul_mod`, `mod_pow` and `inv_mod`, limb by limb | `scalar.rs` 95-331 |
| `Bitmap` | a bitmap as a word: drawn, complemented, set, ranked, peeled | `bitmap.rs` 16-185, 244-256 |
| `ClaimsProofs`, `VerifierProofs`, `SamplerProofs`, `SelectionProofs`, `ChainProofs`, `RotationProofs`, `RecoveryProofs`, `WordProofs` | theorems and proofs; `WordProofs` is about `Scalar`, `Barrett` and `Bitmap` | |
| `MCVerifier`, `MCSampler`, `MCSelection`, `MCChain`, `MCRotation`, `MCRecovery`, `MCBarrett`, `MCScalar`, `MCBitmap` | small instances for TLC | |

**Points.** The group of secp256k1 has prime order, so it is the integers modulo `Order`: a public
key `k*G` is written `k`, addition is `Plus`, infinity is 0. A record whose stored coordinates do
not parse has key `Unparsable`, which the code rejects inside the loop. With a small order sums
do cancel, as they must for the error paths to be reached.

**Signatures.** An attestation carries the facts recovery would find: whether `s` is a canonical
non-zero scalar, and the one key and message under which the signature satisfies the Schnorr
equation. `Recovers(point, message)` compares them. The message hash is taken to be injective in
the payload and the bitmap.

**Pipelines.** `stage[c]` is the check caller `c` is about to make. Which stage follows which is
the only difference between the entry points, so it is a table (`VerifyOrder`,
`ProvenanceOrder`, `ResolvedOrder`, `KeysOrder`); what a stage does is an action. `CheckVersion`,
`CheckScalar`, `QuorumStage`, `Compress`, `Recover` and `MatchProvider` are the blocks of the
functions with their early returns; `AddSigner` is one turn of the peeling loop, with the three
ways its callback ends; `RefuseEmpty` and `AllAdded` are its ends. `ResolveSigners` is
`resolve_signers`, by which the caller of a dispute over a key list obtains the list. `Verdict` in
`Claims` is the same pipelines as a function: the answer of the first check that does not pass, over
the sum of all the signers.

**Sampler.** `TakeDigest` hashes the next counter value and yields `DrawsPerDigest` words,
`Draw` looks at one word (rejected, repeated or selected), `GiveUp` is the round limit and
`Finish` the return, through the complement or not. Keccak is external: a word may have any value.

**Selection.** `draws` records what the sampler returned for each input so far, because it is
deterministic in its input and nothing else is known of it; in particular a draw of `k` is
unrelated to a draw of `k + 1`. `Dispatch` is the gateway's call, with or without the member
tables; `Police` is `verify_selection`. The gateway, the nodes and the provider are not in the
repository: their actions are what the documentation of `selection.rs` asks of them.

**Chain.** An account is a header and a function from record slots to records: `NodeTable` and
`ProviderTable` compute the offsets that the code computes in bytes, over an account that may have
spare capacity behind the tables (the code requires only that both tables fit). `Publish`, `Resize` and
`Tick` are the registry program and the clock, external, from the documentation of
`grace_active_until` and `active_from`. `Ask` is one account entry point: `Refusal` has the account
checks in their order, and behind them the answer is the `Verdict` of the pipelines over the
view of that very account. `AnswersAreDetermined` in `VerifierProofs` shows that the pipelines, stage
by stage, end with exactly this verdict for all views. The answer is one step because a transaction is
atomic. Callers may hand in the program's accounts, the same while they are borrowed, accounts of
another type, and accounts of another program with any tables.

**Rotation.** A signature is its key, its format (a proof of possession or an aggregate of one)
and its message; a hash is its input. `Mean` is an honest holder signing a registration or a
rotation, as the helpers of the tests of `pop.rs` sign it; from then on it is in `Available` to every submission. Other holders sign
anything; a rogue point has no holder. `RegisterNode`, `RegisterProvider` and `Rotate` are the
program's instructions around the three verifiers. The program is external: it takes no node key
twice and replaces a node's key by a rotation only, which `pop.rs` 221-222 and 246-247 leave to it. `used` is
every key a node has had, `authors` a history of the keys that signed the rotations that landed. That the
node's authority signs a rotation too is left out, which allows more behaviours.

**Recovery.** The curve is a parameter: coordinates for the elements of a group of prime order.
`Recover` is the recovery syscall, external, on the code's terms: `r` is read as a scalar, a high
`s` and an `r` outside the scalars are refused. A hash may be any byte string. The verifiers are
then operators, with their checks in the order of the code, and a step answers one call.

**Scalar and Barrett.** `Scalar` has the limbs, at a width that is a parameter, and one action per
step of the reduction and of the bits of an exponent. `Barrett` is the same reduction on whole
numbers, for any width; `ReducesByBarrett` in `Scalar` is the refinement, with `Val`, the number that
limbs stand for, as the mapping: `Multiply` is its `Load`, `Shift` its `Halve`, `EstimateQuotient` its
`Divide`, `TakeRemainder` its `TakeRest`, `Subtract` its `Correction`, `Settle` its `Return`, and the
steps of the loop over the exponent stutter. `Words` has `cmp_limbs_le_4`, `sub_limbs_le_4`, `mul_4x4`
and their five-limb and general variants as one operator each, since they differ in the length only.

**Bitmap.** `Draw` sets a bit of the limbs as the sampler does and `SetBit` one of the word as
`live_slots` does; `mode` says which of the two uses this is, and `members` what is meant. `Visit` is one
turn of `for_each_set_bit`. The operators of Rust on words (`&`, `|`, `^`) are written on the positions
of their operands, through `WordOf`; shifts, complement and masks are arithmetic, as in the code. So
`WordsAreSets` does not hold by definition: the limbs reach the word through bytes, a limb is
found by division, and masks and complements are subtractions of powers of two.

## 3. Runs

| Run | Question | Bounds |
|---|---|---|
| `verifier` | Is every answer of every entry point one that the attestation justifies, do cheap checks come first, does every call end? | one caller; 2 node and 2 provider slots; order 3; snapshots with a hole, an unusable key, cancelling keys, absent tables; all 16 bitmaps for well-formed payloads, five of them for odd ones; both scalars, two signing keys, two signed messages |
| `agreement` | Can two callers contradict each other, or a supplied key decide an answer? | two callers, every pair of calls; order 5; three snapshots, three bitmaps, three signing keys |
| `sampler` | Is the group exact, is a failure justified, is the draw fair and short, does it implement `GroupChoice`, does it end? | 0 to 7 requested of 0 to 7 members where at most 6 are supported; 3 digests of 3 words; words 0 to 10 |
| `selection` | Is an honest round ever flagged, is the committee live, do both sides agree on it? | 3 node slots with holes, 2 provider slots, buffers 0 and 1, t from 0 to 3, three timestamps in two windows, every claim |
| `chain` | Do superseded keys stop, do honest rounds pass, does evidence keep its verdict, whatever account is handed in and whenever? | two versions of three memberships, clock 0 to 2, grace window 2 s, clock skew 1 s, two milliseconds to the second, four stamps, three bitmaps, honest and other signatures |
| `rotation` | Where can a key end up, who names its successor, what is a late or repeated proof answered? | two accounts, both a node address and a provider authority; two programs; three honest keys, one that signs anything, a rogue point, malformed bytes; three signed intentions |
| `recovery` | Is each check through recovery the signature equation, with exactly the refusals that are stated? | the curve y^2 = x^3 + 7x + 7 over 13 elements, of order 11, bytes 0 to 15: every aggregate signature, every proof of possession, every triple of scalars for 48 choices of points |
| `barrett` | Is the intermediate in range after every round, and the result canonical? | half-width 128, order 241, products of all operands in a set around 0, the middle and the order |
| `scalar` | Do the limbs compute what the whole numbers do, and the calls what they promise? | limbs of two one-bit bytes, so scalars of eight bits, order 241; every inverse, products of 61 operands, six exponents below the order and two above |
| `bitmap` | Are words the sets of their positions, whichever way they are built? | limbs of two bits: all 256 bitmaps, every node count |
| `wrong_key` | Is a wrong coalition key always an error, as the documentation says? (violated) | those of `verifier` |
| `flagged` | Is `Ok(false)` only returned for strict supersets, as the documentation says? (violated) | those of `selection` |

Why the bounds suffice. In `verifier` each stage depends on a few facts only: whether a bit
resolves, whether its key parses, whether the sum is infinity, the relation between the supplied
and the real key, the counts against `required`. Two node and two provider slots reach every
combination of them, including two providers in one bitmap, a bit of each segment beyond its
table, and prefixes of a coalition that cancel while the whole does not. Order 5 in `agreement`
is the least prime for which a key, its negation and a third point are distinct, which the
comparison of a supplied key needs. In `sampler` six members reach odd and even halves, the
complement, and word ranges that are and are not multiples of the member count; three digests are enough
for the limit to fall between and inside digests. In `selection` two windows of two milliseconds
separate the window from the stamp, and three node slots are the least for which a
hole, a redundant member and a missing member coexist. In `chain` retirement looks only at one version
and its successor, so two versions suffice; a version is superseded at 0, 1 or 2 and retired at 2, 3 or
4, and the stamps lie before, in and after the seconds in which that happens, at their first and
last millisecond. In `rotation` three intentions are a registration and two rotations, which may race
from one key, follow each other or lead back to the first key; a third honest key is needed for the
second successor. In `recovery` the curve is chosen like secp256k1 where it matters: the order is
prime, in the upper half of the width and below the order of the field. It differs in that points
whose x is at least the order are common, so that those branches run. In `barrett` and `scalar` the
order 241 in eight bits has operands whose estimate is two too small and whose intermediate exceeds nine
bits, the case that the comment at `scalar.rs` 287-291 describes (14 pairs of operands); limbs of two bits make
borrows and carries travel through all of them. In `bitmap` limb boundaries lie at 2, 4 and 6, so each
node count is on, before or after one.

Deadlock is not checked: a caller whose call is answered, a sampler that has returned and an
attestation that has been policed are done, a call in `recovery` is answered once, and the bounded
clock of `chain` and the bounded signing of `rotation` stop. `scalar`, `barrett` and `bitmap` check it.

**Fairness.** `Verifier` and `Sampler` are plain sequential code: once entered, nothing but
themselves can stop them. Weak fairness of `Step(c)` for each caller (of the next step of the
sampler) says exactly that. Nothing is assumed of whether a caller calls. `EveryCallAnswered` and
`Terminates` then say that the peeling and sampling loops end. `Selection` has no liveness
property: whether members answer is up to them.

## 4. Properties

`Verifier`
- `PolicySpec`: the pipelines implement `AttestationPolicy`. A positive answer is given exactly when
  the attestation deserves it; an adverse one only for an aggregate that is not genuine, of signers that exist and
  can be added up; an error only with its cause. The order of the checks is left open there, so the refinement says that no
  order the code uses turns one kind of answer into another.
- `Agreement`: what any path accepts, no dispute finds slashable.
- `HintDecidesNothing`: calls that differ in the supplied key alone get the same answer.
- `ProvenanceIsSigned`: the provider that is found is the only one, is in the signed bitmap, its
  key is part of the key that signed, and it stands for at most one node.
- `AdverseNeedsMembers`: the registry dispute is adverse only about live members.
- `CheapChecksFirst`: `verify` adds no key before version, scalar and quorum are checked.
- `EveryCallAnswered`.

`Sampler`: `ExactGroup`, `FailsOnlyExhausted`, `DrawsStayCheap` (at most half of the members are
drawn one by one), `FairDraw` (each member is named by equally many accepted words), `ChoiceSpec`,
`Terminates`.

`Selection`: `HonestNeverFlagged`, `PolicedByTheDispatch` (both sides derive one committee),
`CommitteeIsLive`, `PassedAreLive`.

`Chain`
- `AcceptedByMembers`: whichever account is handed in, an accepted attestation is signed by members
  of the version it names, with the keys they have in it.
- `SupersededKeysStop`: no round dated at or after the end of a version's grace window is accepted.
- `HonestRoundsVerify`: a round over the current version, stamped within the skew of the clock,
  passes `verify_attestation` however late it is submitted and whatever is published in between.
  It needs the skew to be below the grace window, which `WindowAssumption` states.
- `EvidenceDoesNotAge`: all disputes over the account of the version end alike, before and after it
  is superseded or retired, and uphold what was ever accepted.
- `TablesAreAsPublished`: spare capacity never shifts a record to another bit.
- `NoGap`: a version is active from the second it is published to the end of its successor's
  grace window, and at no other second.

`Rotation`
- `KeysAreWhereMeant`: no key without a holder is registered, and an honest key stands only in the
  role and account, on the program and by the way (registration or rotation) its holder signed for.
- `AuthorizedSuccessors`: an honest node key gives way only to the key its holder named for that node.
- `OneSuccessor`: the digest has neither nonce nor version and no signature is used up, yet of all the
  rotations one key signs, racing, repeated or late, at most one lands. It takes both sides: the verifier
  accepts signatures of the current key only, and the program never makes a retired key current again.
- `LateProofsAreToldApart`: what a rotation that was meant is answered, at any later time.

`Recovery`: `AggregateIsSchnorr`, `PopIsSchnorr` and `PartialIsEquation` (each check is the equation,
except for the refusals listed), `EvidenceCountsOnce` (no second encoding of a confirmed triple is
confirmed, which would make one signing evaluation look like two). The test of a zero `s` at `scalar.rs` 368
never fires, since `sub_be` yields the order for a zero product; `NormalizeLowS` then yields 0
and recovery refuses it, which is what `AggregateIsSchnorr` shows.

`Barrett`: `InRange` (the subtraction does not wrap, and each round takes one order off the bound),
`Correct`. `Scalar`: `Computes` (each call returns the canonical product of any operands, power of any
base to an exponent below the order, or inverse) and the refinement `ReducesByBarrett`. Of larger
exponents `Computes` says nothing: `mod_pow` reduces its exponent by the order (`scalar.rs` 112), which
gives another power; its only caller, `inv_mod`, passes the order less two. `Bitmap`: `WordsAreSets`.

Each property has a mutant in `PROJECT.json`: a plausible bug in a definition, under which the run
finds the property violated.

## 5. Proofs

All proofs hold for every value of the constants that meets the named assumptions: any number of
slots, any group order above 1, any snapshots of the shape the views have, any attestations
and callers, any committee sizes and buffers, any number of versions, any curve of odd
prime order, limbs of any number of bytes of any width.
The provers are SMT, Zenon and (temporal steps) LS4.

- `ClaimsProofs`: bitmaps have a lowest and a highest bit; the recursive sum of keys exists
  (by a minimal counterexample over the subsets of the finite set of bits, since the library's
  induction rule takes an operator argument that the provers cannot instantiate); and
  `KeySumExtends`: adding the key of a bit above all others extends the sum. This lemma is what
  relates the peeling loop, which goes upwards, to the sum of a set. `VerdictIsPermitted` shows that
  the verdict, for whatever snapshot, attestation and call, is an answer the attestation justifies.
- `VerifierProofs`: `Invariance` proves `Inv`. It says, for each running caller, that the sum is that of
  the keys peeled so far, that these are below the bits left, and that every check before the
  current stage has passed (`Passed`, by operation and stage); and for each caller that has ended,
  that its answer is the verdict of its call. `TypeOK` and the properties are not inductive on their own,
  since nothing in them ties the sum to the bitmap or the stage to the checks behind it. One lemma per stage
  proves preservation for the caller who steps (`VersionStep` ... `BeginStep`), `Frame` and
  `OthersRest` for the others. From it follow `TypeCorrect`, `VerdictsAgree` (`Agreement`),
  `AdverseVerdictsAreAboutMembers`, `ProvenanceHolds`, `CheapChecksPrecedeArithmetic`,
  `ImplementsPolicy` (the refinement), `AnswersAreDetermined` (the answer is `Verdict`, a function of
  snapshot, attestation and call) and, since a fitting key does not occur in that function,
  `SuppliedKeysDecideNothing` (`HintDecidesNothing`).
- `SamplerProofs`: `Invariance` proves that the counted selections are the slots in the bitmap and
  never exceed the target; from it `GroupIsExact`, `FailureIsExhaustion`, `DrawIsCheap`,
  `TypeCorrect` and the refinement `ImplementsChoice`. That the complement of an exact group is
  exact is a cardinality argument over the slots. `DrawIsFair` (`FairDraw`): the accepted words are
  whole blocks of as many words as there are members, and each block names each member once.
- `SelectionProofs`: the inductive invariant `Inv` says that the committee is the one drawn for the
  round's seed, that only the committee and at most one provider have answered, what an honest
  round publishes (`Faithful`), and that a verdict was passed by the committee drawn for the claim's
  seed. The crux is `SameSeed`: the seed of an honest claim is the seed of its dispatch, whichever
  millisecond of the window it is stamped with and whichever side subtracts the provider. The ranks
  of live slots are a bijection (`RanksAreTaken`, by cardinality), so ranks without repetition are
  a committee of as many live slots, and both views of the tables (`ViewsAgree`: gateway and
  police) yield the same one. From it follow `HonestStaysUnflagged`, `CommitteeStaysLive`,
  `PolicingIsByTheDispatch`, `PassedStayLive` and `TypeCorrect`.
- `ChainProofs`: `Inv` says of each version that its account holds what was published and when, of
  an honest attestation that it is dated before the end of its version's grace window, and of the
  answers kept that they are the verdict over the snapshot that the attestation names. `ViewFacts`
  shows that the view read out of an account is that snapshot, whatever the capacity;
  `OnlyOwnAccounts` that no other account gets past the checks; `HonestIsNotRetired` that the clock
  skew, being below the grace window, keeps an honest round acceptable. From it follow all seven
  invariants of the run. The assumptions are `WindowAssumption`, `StampAssumption` (stamps are
  natural numbers) and those of `Claims` and `Registry`.
- `WordProofs`, in three parts.
  *Barrett.* `EstimateBounds` sandwiches the estimated quotient between the quotient less two
  and the quotient, for any half-width `H`, order between `H` and `2H` and
  product of reduced operands. The inductive invariant `BarrettInv` carries it from step to step, and says that the
  remainder is congruent to the product; `RemainderInRange` and `ReductionCorrect` follow. The
  code's 2^255 and order are one instance.
  *Scalar.* The inductive invariant `ScalarInv` has four parts: the words have their lengths and digits
  in range (`ScalarTypes`); at each step of a reduction they stand for the numbers of Barrett's at that step, and
  the product under way is congruent to the one it is taken of (`Reducing`); in the loop over an
  exponent, the result is the power to the leading bits read so far (`Looping`); and an answer is the number
  wanted (`Answered`). `Computes` alone is not inductive: it says nothing until the call is over. Under it are one lemma
  per operator on words (conversion to and from bytes, comparison, subtraction with its borrows, the
  rows of a product with their carries, the shift across limbs), each a statement about `Val`, and
  `RemainderValue`: what the low five limbs drop of the product and of the multiple of the order
  cancels. `ReductionsRefineBarrett` is the refinement. `ScalarsComputed` (`Computes`) also needs
  that the power to `Order - 2` is an inverse: `Fermat` is proved from the primality of the order (Euclid's
  lemma by the least number that a product with the factor is a multiple for; multiples of a unit are the
  units in another order, by an injection of a finite set into itself; so their products agree).
  *Bitmap.* `BitmapInv` says that the limbs, or the word, hold the positions meant (`Held`) and that what is left to
  visit is the word less its lowest bits, which are those visited (`Peeling`); `WordsAreSets` alone says nothing
  before the word is complete. The lemmas under it say that a number below a power of two is determined by its
  positions, that setting, clearing and complementing act on them as on sets, and that the position of a bit
  in the word is that in its limb plus the limb's offset. `BitmapsAreSets` follows.
- `RotationProofs`: from what a signature of an honest key says (`HonestSignature`) it follows what
  an accepted registration or rotation was meant for (`NodeProof`, `ProviderProof`, `RotationProof`,
  `Authorization`). The invariant `IInv` is the properties with types; that only nodes with a
  key were ever rotated (`RotatedHasKey`), without which a registration could seem to follow a rotation;
  and, for `OneSuccessor`, that current keys are used and each one node's (`CurrentKeysApart`) and that the
  keys which signed the rotations that landed are used and nobody's any more (`AuthorsRetired`): a rotation
  that verifies is signed by a current key, so by none of these. `PurposeKept`,
  `SuccessorUnique`, `SuccessorsAuthorized` and `LateProofsAnswered` rest on `DigestAssumption` (a
  digest is no account address: hashes do not collide) and `KeyAssumption` (honest keys have
  no other holder).
- `RecoveryProofs`: numbers are compared modulo the order by the congruence `Same`. That the order is
  prime (`PrimeAssumption`) gives every element an inverse (`InverseExists`, by the least number that
  is congruent to a multiple) and lets factors cancel. `RecoverCombines` is the core of
  all three checks: recovery over inputs that are multiples of the x coordinate of the base returns a
  combination of the generator and the base, whether or not `s` had to be normalized, because the
  parity flips with it (`RecoverNormalized`). `AggregateIsTheEquation`, `PopIsTheEquation`,
  `PartialIsTheEquation` and `EvidenceIsUnique` follow, with the refusals as the only exceptions. The
  curve is any that meets `OrdersAssumption` and `CurveAssumption`: odd prime group order in the upper
  half of the width and below the field's odd order, opposite points sharing x, their y summing to the
  order of the field, no coordinate zero. secp256k1 meets them.

Induction over digits, bits and limbs is what these proofs need and what the library's induction
theorems cannot give, as they take an operator argument. Where a fact about all numbers up to
a bound is needed, the proof names the set of the numbers that have it and applies `LeastNumber` (a non-empty
set of naturals has a least element, from the well-foundedness of `<`) to those that do not; `Ascent` and
`Descent` say the same of a set that contains the first number and is closed under the step. That the
recursive functions of the model exist and meet their equations is `RecursionExists`, by `Ascent` too. Powers are `Pow`, a recursive function,
since `^` is opaque to the provers.

Assumptions of `WordProofs` besides those of `Barrett`: `WidthAssumption`; `OrderAssumption` (the order is in the upper half of
its width) and `PrimeAssumption`; `OperandsAssumption` (operands are byte strings of full width, reduced or not); and
`LimbAssumption` (a limb has at least two bits), which the refinement brought to light: the remainder is
below three times the order, which needs two bits above the four limbs, so a fifth limb of one bit would
not do. All hold of the code, with 8 bytes of 8 bits and the order of secp256k1. TLC evaluates all of them on the instances.

Only model-checked: the liveness properties `EveryCallAnswered` and `Terminates`, which need ENABLED, and
the two violations. Every invariant, action property and refinement that a passing run checks is a theorem.

## 6. Where code and documentation differ

- `wrong_key`. `onchain.rs` 34-36, `verify.rs` 186-187, `solana.rs` 393-394 and README 259-260 say
  that a wrong coalition key is an error and never a verdict. With a zero or non-canonical scalar
  the key is not looked at: `verify_aggregate_over_hash` and the resolved variant return
  `Ok(false)` first. Nothing adverse follows (an aggregate with such a scalar is slashable
  whichever key accompanies it, and `Agreement` holds), but the sentence is not true of the code.
- `flagged`. `selection.rs` 130-131 says that `Ok(false)` means a strict superset of the allowed selection;
  it is returned for any node signers that are not a subset, disjoint ones included.

## 7. Not modelled

Field and curve arithmetic, hashing and recovery are external libraries (`libsecp256k1-core`,
Keccak, the recovery syscall) and enter as described above. Serialization (`borsh`,
Anchor), error texts and numeric codes are data layout. The derivation of account addresses
(`provider_account`) is a hash that the entry points do not call. The crate's surface, its features and
its examples have no state. No run covers one case in the list of hazards: a provider round published
without its provider bit, which the documentation asks gateways not to do.

## 8. Plan

Done, in the order of what matters most: the core (`Registry`, `Claims`, `AttestationPolicy`,
`Verifier`, `Sampler`, `Selection`); registry accounts over time (`Chain`); registration and
rotation (`Rotation`); the arithmetic and the equations behind the signature checks (`Scalar`,
`Barrett`, `Recovery`); the words behind the bitmaps (`Bitmap`); and the proofs of section 5, the limb
arithmetic and the words last.

Nothing of the plan is left but liveness, which the provers cannot reach. What would extend it lies outside the
library: the field and curve arithmetic, and a model of the gateway's own protocol.
