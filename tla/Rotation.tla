------------------------------ MODULE Rotation ------------------------------
(***************************************************************************)
(* Registration of node and provider keys and rotation of node keys        *)
(* (pop.rs), with the program that calls the verifier and the holders of   *)
(* the keys.  The verifier keeps no state: what is signed once can be      *)
(* presented at any time, again, after a later proof, to another node's    *)
(* record or taken apart.  Everything signed is therefore available to     *)
(* every later submission, and an accepted one is not consumed.            *)
(*                                                                         *)
(* A signature is its key, its format and its message: one signed in one   *)
(* format never verifies in the other (the challenges of the two hash      *)
(* inputs of different lengths).  A hash is its input, whose fields have   *)
(* fixed widths behind a prefix.                                           *)
(***************************************************************************)
EXTENDS Naturals, Sequences, FiniteSets

CONSTANTS
  Programs, Here,   \* program ids, and the one that runs this verifier
  Ids,              \* node account addresses and provider authorities
  Honest,           \* keys whose holders sign only what they mean
  Others,           \* keys whose holders sign anything
  Rogue,            \* points nobody knows the secret of, sums of keys say
  Malformed,        \* bytes that are no key
  None,             \* no key
  MaxMeant          \* bound on what honest holders sign

Keys == Honest \cup Others \cup Rogue

VARIABLES
  meant,      \* what honest holders have signed, and for what
  node,       \* node[id]: the current key of the node's account, or None
  provider,   \* provider[id]: the key of the provider's account, or None
  used,       \* every key a node has ever had
  rotated,    \* the nodes whose current key was rotated in
  authors     \* the keys that signed the rotations that landed, in order

vars == <<meant, node, provider, used, rotated, authors>>

-----------------------------------------------------------------------------
(* Messages *)

derive_node_pop_message(program, id) == <<"NODE_POP", program, id>>

derive_provider_pop_message(program, authority) ==
  <<"PROVIDER_POP", program, authority>>

\* As a bug: the digest does not name the new key.
AnyKeyDigest(program, id, newKey) == <<"ROTATION", program, id>>

key_rotation_digest(program, id, newKey) == <<"ROTATION", program, id, newKey>>

\* A digest is no account address (hashes do not collide).
ASSUME DigestAssumption ==
  \A p \in Programs, id \in Ids, k \in Keys \cup Malformed :
    key_rotation_digest(p, id, k) \notin Ids
ASSUME KeyAssumption ==
  /\ Here \in Programs /\ None \notin Keys
  /\ \A s \in {Others, Rogue, Malformed} : Honest \cap s = {}
  /\ Rogue \cap Others = {} /\ Malformed \cap Keys = {}
  /\ MaxMeant \in Nat

-----------------------------------------------------------------------------
(* Signatures *)

Signature(key, format, message) ==
  [key |-> key, format |-> format, message |-> message]

\* Bytes that are no signature of any key.
Unsigned == Signature(None, "none", <<>>)

Intents ==
  [what : {"node", "provider"}, program : Programs, id : Ids, key : Honest]
  \cup {i \in [what : {"rotation"}, program : Programs, id : Ids, old : Honest,
               key : Honest] : i.old # i.key}

Meant(what) == {i \in meant : i.what = what}

\* sign_pop, sign_aggregate and rotation_proof of the honest holders.
Signed ==
  {Signature(i.key, "pop", derive_node_pop_message(i.program, i.id))
     : i \in Meant("node")}
  \cup {Signature(i.key, "pop", derive_provider_pop_message(i.program, i.id))
          : i \in Meant("provider")}
  \cup {Signature(i.key, "pop",
                  derive_node_pop_message(i.program,
                    key_rotation_digest(i.program, i.id, i.key)))
          : i \in Meant("rotation")}
  \cup {Signature(i.old, "aggregate", key_rotation_digest(i.program, i.id, i.key))
          : i \in Meant("rotation")}

\* What can stand in a submission that needs this message signed: anything
\* honest holders ever signed, or what another holder signs for it.
Available(format, message) ==
  Signed \cup {Unsigned} \cup {Signature(k, format, message) : k \in Others}

-----------------------------------------------------------------------------
(* The verifier *)

\* As a bug: any available signature of the key will do.
VerifyAnyPop(key, message, pop) == pop # Unsigned /\ pop.key = key

VerifyPop(key, message, pop) == pop = Signature(key, "pop", message)

NodePopErrors == {"InvalidPublicKey", "InvalidProof"}

\* validate_key_and_verify_pop over a message.
ValidateKeyAndVerifyPop(key, message, pop) ==
  IF key \notin Keys THEN "InvalidPublicKey"
  ELSE IF ~ VerifyPop(key, message, pop) THEN "InvalidProof" ELSE "ok"

\* As a bug: the old key's signature is checked first.
VerifyAuthorizationFirst(id, oldKey, newKey, auth, pop) ==
  LET digest == key_rotation_digest(Here, id, newKey)
      possession == ValidateKeyAndVerifyPop(
                      newKey, derive_node_pop_message(Here, digest), pop)
  IN  IF auth = Signature(oldKey, "aggregate", digest) THEN possession
      ELSE "InvalidAuthorization"

\* As a bug: the authorization is checked under the key it comes with.
VerifyUnderAnyKey(id, oldKey, newKey, auth, pop) ==
  LET digest == key_rotation_digest(Here, id, newKey)
      possession == ValidateKeyAndVerifyPop(
                      newKey, derive_node_pop_message(Here, digest), pop)
      authorized == auth = Signature(auth.key, "aggregate", digest)
  IN  IF possession \in NodePopErrors THEN possession
      ELSE IF newKey = oldKey THEN "KeyUnchanged"
      ELSE IF ~ authorized THEN "InvalidAuthorization" ELSE "ok"

VerifyKeyRotation(id, oldKey, newKey, auth, pop) ==
  LET digest == key_rotation_digest(Here, id, newKey)
      possession == ValidateKeyAndVerifyPop(
                      newKey, derive_node_pop_message(Here, digest), pop)
      authorized == auth = Signature(oldKey, "aggregate", digest)
  IN  IF possession \in NodePopErrors THEN possession
      ELSE IF newKey = oldKey THEN "KeyUnchanged"
      ELSE IF ~ authorized THEN "InvalidAuthorization" ELSE "ok"

-----------------------------------------------------------------------------
(* The program: it takes no node key twice, and replaces none but by a     *)
(* rotation.  That the node's authority signs the instruction too could    *)
(* only make submissions fewer.                                            *)

Unused(key) == key \notin used

Init ==
  /\ meant = {}
  /\ node = [id \in Ids |-> None] /\ provider = [id \in Ids |-> None]
  /\ used = {} /\ rotated = {} /\ authors = <<>>

\* An honest holder signs a registration or a rotation.
Mean ==
  /\ Cardinality(meant) < MaxMeant
  /\ \E i \in Intents : meant' = meant \cup {i}
  /\ UNCHANGED <<node, provider, used, rotated, authors>>

Install(id, key) ==
  /\ node' = [node EXCEPT ![id] = key]
  /\ used' = used \cup {key}

RegisterNode(id, key, pop) ==
  /\ node[id] = None /\ Unused(key)
  /\ ValidateKeyAndVerifyPop(key, derive_node_pop_message(Here, id), pop) = "ok"
  /\ Install(id, key)
  /\ UNCHANGED <<meant, provider, rotated, authors>>

RegisterProvider(id, key, pop) ==
  /\ provider[id] = None
  /\ ValidateKeyAndVerifyPop(key, derive_provider_pop_message(Here, id), pop) = "ok"
  /\ provider' = [provider EXCEPT ![id] = key]
  /\ UNCHANGED <<meant, node, used, rotated, authors>>

Rotate(id, key, auth, pop) ==
  /\ node[id] # None /\ Unused(key)
  /\ VerifyKeyRotation(id, node[id], key, auth, pop) = "ok"
  /\ Install(id, key)
  /\ rotated' = rotated \cup {id}
  /\ authors' = Append(authors, auth.key)
  /\ UNCHANGED <<meant, provider>>

Next ==
  \/ Mean
  \/ \E id \in Ids, key \in Keys \cup Malformed :
       \/ \E pop \in Available("pop", derive_node_pop_message(Here, id)) :
            RegisterNode(id, key, pop)
       \/ \E pop \in Available("pop", derive_provider_pop_message(Here, id)) :
            RegisterProvider(id, key, pop)
       \/ LET digest == key_rotation_digest(Here, id, key)
          IN  \E auth \in Available("aggregate", digest),
                 pop \in Available("pop", derive_node_pop_message(Here, digest)) :
                Rotate(id, key, auth, pop)

Spec == Init /\ [][Next]_vars

-----------------------------------------------------------------------------
MeantFor(what, id, key) ==
  \E i \in Meant(what) : i.program = Here /\ i.id = id /\ i.key = key

(***************************************************************************)
(* Possession and purpose: nobody's point is ever registered, and an       *)
(* honest key is a node's or provider's key only where its holder proved   *)
(* it for that very role, account and program; a registration proof never  *)
(* rotates a key in, nor a rotation proof registers one.                   *)
(***************************************************************************)
KeysAreWhereMeant ==
  \A id \in Ids :
    /\ node[id] \in Honest \cup Others \cup {None}
    /\ provider[id] \in Honest \cup Others \cup {None}
    /\ node[id] \in Honest =>
         MeantFor(IF id \in rotated THEN "rotation" ELSE "node", id, node[id])
    /\ provider[id] \in Honest => MeantFor("provider", id, provider[id])

(***************************************************************************)
(* A node's honest key is replaced only by the successor its holder named  *)
(* for that node, with that key.                                           *)
(***************************************************************************)
SuccessorIsAuthorized ==
  \A id \in Ids :
    node[id] \in Honest /\ node'[id] # node[id] =>
      \E i \in Meant("rotation") :
        i.program = Here /\ i.id = id /\ i.old = node[id] /\ i.key = node'[id]

AuthorizedSuccessors == [][SuccessorIsAuthorized]_vars

(***************************************************************************)
(* The digest has neither nonce nor version, and signatures are not used   *)
(* up, yet of all the rotations that one key signs, however they race, are *)
(* delivered again or come late, at most one ever lands: it retires the    *)
(* key, verify_key_rotation takes signatures of the current key only, and  *)
(* the program never makes a retired key current again.                    *)
(***************************************************************************)
OneSuccessor ==
  \A m, n \in DOMAIN authors : authors[m] = authors[n] => m = n

\* The proof of a rotation that was meant, as rotation_proof builds it.
AnswerTo(i) ==
  LET digest == key_rotation_digest(Here, i.id, i.key)
  IN  VerifyKeyRotation(i.id, node[i.id], i.key,
        Signature(i.old, "aggregate", digest),
        Signature(i.key, "pop", derive_node_pop_message(Here, digest)))

(***************************************************************************)
(* A rotation that was meant verifies as long as the key that signed it is *)
(* current.  Delivered again once it has landed it is KeyUnchanged, and    *)
(* too late, after another successor or before the old key is there, it    *)
(* is InvalidAuthorization.                                                *)
(***************************************************************************)
LateProofsAreToldApart ==
  \A i \in Meant("rotation") :
    i.program = Here =>
      AnswerTo(i) = IF node[i.id] = i.old THEN "ok"
                    ELSE IF node[i.id] = i.key THEN "KeyUnchanged"
                    ELSE "InvalidAuthorization"
=============================================================================
