-------------------------- MODULE RegistryAccount ---------------------------
(***************************************************************************)
(* The Solana adapter (solana.rs): what a Registry account holds, when it  *)
(* is accepted, the snapshot read out of it, and the checks made before    *)
(* the verifier is entered.  Definitions only.                             *)
(*                                                                         *)
(* The account holds a header and one table of records: the node table,    *)
(* right behind it the provider table, and spare capacity that is never    *)
(* read.                                                                   *)
(***************************************************************************)
EXTENDS Claims

CONSTANTS
  Program,       \* PROGRAM_ID
  MsPerSecond    \* 1 000 in the code

ASSUME ClockAssumption == MsPerSecond \in Nat \ {0}
ASSUME StampAssumption == \A payload \in Payloads : payload.timestamp \in Nat

Loaded == "loaded"
\* Those of AccountError that load returns; nothing returns InvalidRegistryPda.
AccountErrors == {"InvalidAccountOwner", "AccountBorrowFailed", "InvalidRegistryAccount"}

\* As a bug: anybody's account will do.
LoadAnyOwner(account) ==
  IF account.borrowed THEN "AccountBorrowFailed"
  ELSE IF account.isRegistry THEN Loaded ELSE "InvalidRegistryAccount"

(***************************************************************************)
(* RegistryAccount::load: owner, borrow, discriminator and shape.          *)
(***************************************************************************)
WellShaped(account) ==
  LET capacity == Cardinality(DOMAIN account.records)
  IN  /\ account.isRegistry
      /\ capacity <= MaxBits
      /\ account.nodeCount <= NodeSlots
      /\ account.providerCount <= MaxBits - NodeSlots
      /\ account.nodeCount + account.providerCount <= capacity

Load(account) ==
  IF account.owner # Program THEN "InvalidAccountOwner"
  ELSE IF account.borrowed THEN "AccountBorrowFailed"
  ELSE IF ~ WellShaped(account) THEN "InvalidRegistryAccount"
  ELSE Loaded

(***************************************************************************)
(* The two tables, viewed in place, and the snapshot they make up.         *)
(***************************************************************************)
NodeTable(account) ==
  [slot \in 0 .. account.nodeCount - 1 |-> account.records[slot]]

\* As a bug: the provider table is taken for the end of the account.
ProviderTableAtEnd(account) ==
  LET capacity == Cardinality(DOMAIN account.records)
  IN  [slot \in 0 .. account.providerCount - 1 |->
         account.records[capacity - account.providerCount + slot]]

ProviderTable(account) ==
  [slot \in 0 .. account.providerCount - 1 |-> account.records[account.nodeCount + slot]]

\* node_key: the account of the live node of a slot, as a set of at most one.
NodeKey(account, slot) ==
  {NodeTable(account)[i].account :
     i \in {j \in DOMAIN NodeTable(account) :
              j = slot /\ ~ IsVacant(NodeTable(account)[j])}}

ViewOf(account) ==
  [version |-> account.version, nodeCount |-> account.nodeCount,
   providerCount |-> account.providerCount, redundancyBuffer |-> account.redundancyBuffer,
   nodes |-> NodeTable(account), providers |-> ProviderTable(account)]

(***************************************************************************)
(* The life of a version, in seconds.                                      *)
(***************************************************************************)

\* As a bug: the last second of the grace window is still served.
RetiredLate(account, time) ==
  account.graceActiveUntil # 0 /\ account.graceActiveUntil < time

RetiredBy(account, time) ==
  account.graceActiveUntil # 0 /\ account.graceActiveUntil <= time

\* As a bug: a version is not active in the second it is created.
IsActiveAfter(account, time) ==
  account.activeFrom < time /\ ~ RetiredBy(account, time)

IsActiveAt(account, time) ==
  account.activeFrom <= time /\ ~ RetiredBy(account, time)

\* As a bug: seconds are rounded up.
SecondsUp(timestamp) == (timestamp + MsPerSecond - 1) \div MsPerSecond

\* AttestationPayload::timestamp_secs.
Seconds(timestamp) == timestamp \div MsPerSecond

(***************************************************************************)
(* The entry points up to the verifier: load_live_registry for the two     *)
(* verifying ones, verify_aggregate_over_hash_accounts for disputes.       *)
(***************************************************************************)

\* As a bug: a retired version is closed to disputes too.
RefusalOfDisputes(op, account) ==
  IF Load(account) # Loaded THEN Load(account)
  ELSE IF RetiredBy(account, Seconds(attestation.payload.timestamp)) THEN "RegistryRetired"
  ELSE Loaded

Refusal(op, account) ==
  IF Load(account) # Loaded THEN Load(account)
  ELSE IF account.version # attestation.payload.version
  THEN IF op \in Disputes THEN "InvalidRegistryAccount" ELSE "InvalidRegistryVersion"
  ELSE IF op \notin Disputes /\ RetiredBy(account, Seconds(attestation.payload.timestamp))
  THEN "RegistryRetired"
  ELSE Loaded

=============================================================================
