--------------------------- MODULE RotationProofs ---------------------------
(***************************************************************************)
(* What registration and rotation promise, for any accounts, programs and  *)
(* keys, however much is signed and in whatever order it is delivered.     *)
(***************************************************************************)
EXTENDS Rotation, TLAPS

TypeOK ==
  /\ meant \in SUBSET Intents
  /\ node \in [Ids -> Keys \cup {None}]
  /\ provider \in [Ids -> Keys \cup {None}]
  /\ used \in SUBSET Keys
  /\ rotated \in SUBSET Ids
  /\ authors \in Seq(Keys)

-----------------------------------------------------------------------------
(***************************************************************************)
(* What an honest key's signature says it was made for.  The lemmas only   *)
(* compare messages: prefix, program, subject and key.                     *)
(***************************************************************************)
LEMMA HonestSignature ==
  ASSUME NEW k \in Honest, NEW format, NEW message, NEW needed, NEW inFormat,
         Signature(k, format, message) \in Available(inFormat, needed)
  PROVE  Signature(k, format, message) \in Signed
<1>1. Signature(k, format, message).key = k
  BY DEF Signature
<1>2. Signature(k, format, message) # Unsigned
  BY <1>1, KeyAssumption DEF Signature, Unsigned, Keys
<1>3. ASSUME NEW o \in Others PROVE Signature(k, format, message) # Signature(o, inFormat, needed)
  <2>1. Signature(o, inFormat, needed).key = o
    BY DEF Signature
  <2>2. k # o
    BY KeyAssumption
  <2> QED BY <1>1, <2>1, <2>2
<1> QED BY <1>2, <1>3 DEF Available

\* Signatures are equal only in all their parts.
LEMMA SignatureParts ==
  ASSUME NEW k1, NEW f1, NEW m1, NEW k2, NEW f2, NEW m2,
         Signature(k1, f1, m1) = Signature(k2, f2, m2)
  PROVE  k1 = k2 /\ f1 = f2 /\ m1 = m2
BY DEF Signature

\* A proof of possession of an honest key was signed for one of its intentions.
LEMMA PopIsSigned ==
  ASSUME NEW k, NEW message, Signature(k, "pop", message) \in Signed
  PROVE  \/ \E i \in Meant("node") :
              i.key = k /\ message = derive_node_pop_message(i.program, i.id)
         \/ \E i \in Meant("provider") :
              i.key = k /\ message = derive_provider_pop_message(i.program, i.id)
         \/ \E i \in Meant("rotation") :
              /\ i.key = k
              /\ message = derive_node_pop_message(i.program,
                             key_rotation_digest(i.program, i.id, i.key))
BY SignatureParts DEF Signed

\* An authorization of an honest key was signed for one of its rotations.
LEMMA AuthorizationIsSigned ==
  ASSUME NEW k, NEW message, Signature(k, "aggregate", message) \in Signed
  PROVE  \E i \in Meant("rotation") :
           i.old = k /\ message = key_rotation_digest(i.program, i.id, i.key)
BY SignatureParts DEF Signed

\* Intentions are about programs, accounts and honest keys.
LEMMA IntentTypes ==
  ASSUME TypeOK
  PROVE  /\ \A i \in Meant("node") \cup Meant("provider") \cup Meant("rotation") :
              i.program \in Programs /\ i.id \in Ids /\ i.key \in Honest
         /\ \A i \in Meant("rotation") : i.old \in Honest /\ i.old # i.key
BY DEF TypeOK, Meant, Intents

\* The messages of the three statements are never taken for one another.
LEMMA MessageParts ==
  ASSUME NEW p1, NEW a1, NEW p2, NEW a2
  PROVE  /\ derive_node_pop_message(p1, a1) = derive_node_pop_message(p2, a2)
              => p1 = p2 /\ a1 = a2
         /\ derive_provider_pop_message(p1, a1) = derive_provider_pop_message(p2, a2)
              => p1 = p2 /\ a1 = a2
         /\ derive_node_pop_message(p1, a1) # derive_provider_pop_message(p2, a2)
BY DEF derive_node_pop_message, derive_provider_pop_message

\* Digests are equal only in all their parts.
LEMMA DigestParts ==
  ASSUME NEW p1, NEW a1, NEW k1, NEW p2, NEW a2, NEW k2,
         key_rotation_digest(p1, a1, k1) = key_rotation_digest(p2, a2, k2)
  PROVE  p1 = p2 /\ a1 = a2 /\ k1 = k2
BY DEF key_rotation_digest

\* Each kind of proof of an honest key shows what the key was meant for.
LEMMA NodeProof ==
  ASSUME TypeOK, NEW k \in Honest, NEW id \in Ids, NEW pop,
         pop \in Available("pop", derive_node_pop_message(Here, id)),
         pop = Signature(k, "pop", derive_node_pop_message(Here, id))
  PROVE  MeantFor("node", id, k)
<1> DEFINE m == derive_node_pop_message(Here, id)
<1>1. Signature(k, "pop", m) \in Signed
  BY HonestSignature
<1>2. CASE \E i \in Meant("node") :
             i.key = k /\ m = derive_node_pop_message(i.program, i.id)
  BY <1>2, MessageParts DEF MeantFor
<1>3. CASE \E i \in Meant("provider") :
             i.key = k /\ m = derive_provider_pop_message(i.program, i.id)
  BY <1>3, MessageParts
<1>4. CASE \E i \in Meant("rotation") :
             /\ i.key = k
             /\ m = derive_node_pop_message(i.program,
                      key_rotation_digest(i.program, i.id, i.key))
  <2>1. PICK i \in Meant("rotation") :
             id = key_rotation_digest(i.program, i.id, i.key)
    BY <1>4, MessageParts
  <2>2. i.program \in Programs /\ i.id \in Ids /\ i.key \in Keys
    BY IntentTypes DEF Keys
  <2> QED BY <2>1, <2>2, DigestAssumption
<1> QED BY <1>1, <1>2, <1>3, <1>4, PopIsSigned

\* An accepted proof of an honest provider key was meant for that provider.
LEMMA ProviderProof ==
  ASSUME TypeOK, NEW k \in Honest, NEW id \in Ids, NEW pop,
         pop \in Available("pop", derive_provider_pop_message(Here, id)),
         pop = Signature(k, "pop", derive_provider_pop_message(Here, id))
  PROVE  MeantFor("provider", id, k)
<1> DEFINE m == derive_provider_pop_message(Here, id)
<1>1. Signature(k, "pop", m) \in Signed
  BY HonestSignature
<1>2. PICK i \in Meant("provider") :
             i.key = k /\ m = derive_provider_pop_message(i.program, i.id)
  BY <1>1, PopIsSigned, MessageParts
<1> QED BY <1>2, MessageParts DEF MeantFor

\* An accepted proof of an honest successor was meant for that rotation.
LEMMA RotationProof ==
  ASSUME TypeOK, NEW k \in Honest, NEW id \in Ids, NEW pop,
         pop \in Available("pop",
                   derive_node_pop_message(Here, key_rotation_digest(Here, id, k))),
         pop = Signature(k, "pop",
                 derive_node_pop_message(Here, key_rotation_digest(Here, id, k)))
  PROVE  MeantFor("rotation", id, k)
<1> DEFINE d == key_rotation_digest(Here, id, k)
           m == derive_node_pop_message(Here, d)
<1>1. Signature(k, "pop", m) \in Signed
  BY HonestSignature
<1>2. d \notin Ids
  BY DigestAssumption, KeyAssumption DEF Keys
<1>3. CASE \E i \in Meant("node") :
             i.key = k /\ m = derive_node_pop_message(i.program, i.id)
  BY <1>2, <1>3, MessageParts, IntentTypes
<1>4. CASE \E i \in Meant("provider") :
             i.key = k /\ m = derive_provider_pop_message(i.program, i.id)
  BY <1>4, MessageParts
<1>5. CASE \E i \in Meant("rotation") :
             /\ i.key = k
             /\ m = derive_node_pop_message(i.program,
                      key_rotation_digest(i.program, i.id, i.key))
  <2>1. PICK i \in Meant("rotation") :
             i.key = k /\ d = key_rotation_digest(i.program, i.id, i.key)
    BY <1>5, MessageParts
  <2>2. i.program = Here /\ i.id = id
    BY <2>1, DigestParts
  <2> QED BY <2>1, <2>2 DEF MeantFor
<1> QED BY <1>1, <1>3, <1>4, <1>5, PopIsSigned

\* An accepted authorization of an honest key was meant for that rotation.
LEMMA Authorization ==
  ASSUME NEW k \in Honest, NEW id \in Ids, NEW new, NEW auth,
         auth \in Available("aggregate", key_rotation_digest(Here, id, new)),
         auth = Signature(k, "aggregate", key_rotation_digest(Here, id, new))
  PROVE  \E i \in Meant("rotation") :
           i.program = Here /\ i.id = id /\ i.old = k /\ i.key = new
<1> DEFINE d == key_rotation_digest(Here, id, new)
<1>1. Signature(k, "aggregate", d) \in Signed
  BY HonestSignature
<1>2. PICK i \in Meant("rotation") :
           i.old = k /\ d = key_rotation_digest(i.program, i.id, i.key)
  BY <1>1, AuthorizationIsSigned
<1> QED BY <1>2, DigestParts

(***************************************************************************)
(* Nobody's point cannot be proved: a proof that verifies is of a key that *)
(* somebody holds.                                                         *)
(***************************************************************************)
LEMMA Possessed ==
  ASSUME TypeOK, NEW k \in Keys, NEW message, NEW pop,
         pop \in Available("pop", message), pop = Signature(k, "pop", message)
  PROVE  k \in Honest \cup Others
<1>1. CASE pop \in Signed
  BY <1>1, PopIsSigned, IntentTypes
<1>2. CASE pop = Unsigned
  <2>1. k = None
    BY <1>2, SignatureParts DEF Unsigned
  <2> QED BY <2>1, KeyAssumption
<1>3. CASE \E o \in Others : pop = Signature(o, "pop", message)
  BY <1>3, SignatureParts
<1> QED BY <1>1, <1>2, <1>3 DEF Available

-----------------------------------------------------------------------------
(***************************************************************************)
(* What a successful answer of the verifier says.                          *)
(***************************************************************************)
LEMMA PopAnswer ==
  ASSUME NEW k, NEW message, NEW pop,
         ValidateKeyAndVerifyPop(k, message, pop) = "ok"
  PROVE  k \in Keys /\ pop = Signature(k, "pop", message)
BY DEF ValidateKeyAndVerifyPop, VerifyPop

\* What a rotation that verifies has shown.
LEMMA RotationAnswer ==
  ASSUME NEW id, NEW old, NEW new, NEW auth, NEW pop,
         VerifyKeyRotation(id, old, new, auth, pop) = "ok"
  PROVE  LET d == key_rotation_digest(Here, id, new)
         IN  /\ new \in Keys /\ new # old
             /\ pop = Signature(new, "pop", derive_node_pop_message(Here, d))
             /\ auth = Signature(old, "aggregate", d)
<1> DEFINE d == key_rotation_digest(Here, id, new)
           m == derive_node_pop_message(Here, d)
<1>1. ValidateKeyAndVerifyPop(new, m, pop) = "ok"
  BY DEF VerifyKeyRotation, NodePopErrors, ValidateKeyAndVerifyPop
<1>2. new # old /\ auth = Signature(old, "aggregate", d)
  BY DEF VerifyKeyRotation, NodePopErrors
<1> QED BY <1>1, <1>2, PopAnswer

-----------------------------------------------------------------------------
\* Only a node with a key was ever rotated.
RotatedHasKey == \A id \in rotated : node[id] # None

\* The current keys of nodes are used, and no two nodes have the same.
CurrentKeysApart ==
  \A id \in Ids :
    node[id] # None =>
      node[id] \in used /\ \A other \in Ids : node[other] = node[id] => other = id

\* A key that signed a rotation that landed is used, and no node's any more.
AuthorsRetired ==
  \A n \in DOMAIN authors :
    authors[n] \in used /\ \A id \in Ids : node[id] # authors[n]

IInv ==
  /\ TypeOK /\ KeysAreWhereMeant /\ OneSuccessor
  /\ RotatedHasKey /\ CurrentKeysApart /\ AuthorsRetired

\* The invariant holds initially.
LEMMA InitIInv == Init => IInv
<1> SUFFICES ASSUME Init PROVE IInv
  OBVIOUS
<1> USE DEF Init
<1>1. TypeOK
  BY DEF TypeOK
<1>2. KeysAreWhereMeant
  BY KeyAssumption DEF KeysAreWhereMeant, Keys
<1>3. OneSuccessor /\ AuthorsRetired
  BY DEF OneSuccessor, AuthorsRetired
<1>4. RotatedHasKey /\ CurrentKeysApart
  BY DEF RotatedHasKey, CurrentKeysApart
<1> QED BY <1>1, <1>2, <1>3, <1>4 DEF IInv

\* An unused key that is installed is one node's and was nobody's before.
LEMMA InstallUnused ==
  ASSUME TypeOK, CurrentKeysApart, AuthorsRetired,
         NEW id \in Ids, NEW key \in Keys, Unused(key), Install(id, key)
  PROVE  /\ CurrentKeysApart'
         /\ \A n \in DOMAIN authors :
              authors[n] \in used' /\ \A other \in Ids : node'[other] # authors[n]
<1>1. /\ node' = [node EXCEPT ![id] = key] /\ used' = used \cup {key}
      /\ key \notin used /\ node'[id] = key
      /\ \A other \in Ids : other # id => node'[other] = node[other]
  BY DEF Install, Unused, TypeOK
<1>2. CurrentKeysApart'
  BY <1>1 DEF CurrentKeysApart
<1>3. ASSUME NEW n \in DOMAIN authors
      PROVE  authors[n] \in used' /\ \A other \in Ids : node'[other] # authors[n]
  BY <1>1 DEF AuthorsRetired
<1> QED BY <1>2, <1>3

\* The key that signs the rotation that retires it has signed none before.
LEMMA AuthorIsNew ==
  ASSUME TypeOK, OneSuccessor, AuthorsRetired, CurrentKeysApart,
         NEW id \in Ids, node[id] # None, NEW key \in Keys, Unused(key),
         Install(id, key), authors' = Append(authors, node[id])
  PROVE  authors' \in Seq(Keys) /\ OneSuccessor' /\ AuthorsRetired'
<1>1. /\ authors \in Seq(Keys) /\ node[id] \in Keys
      /\ \A n \in DOMAIN authors : authors[n] # node[id]
  BY DEF TypeOK, AuthorsRetired
<1>2. authors' \in Seq(Keys)
  BY <1>1
<1>3. \A n \in DOMAIN authors' :
        \/ n \in DOMAIN authors /\ authors'[n] = authors[n]
        \/ n = Len(authors) + 1 /\ authors'[n] = node[id]
  BY <1>1
<1>4. OneSuccessor'
  BY <1>1, <1>3 DEF OneSuccessor
<1>5. node[id] \in used' /\ \A other \in Ids : node'[other] # node[id]
  <2>1. node[id] \in used /\ key \notin used
    BY DEF CurrentKeysApart, Unused
  <2>2. \A other \in Ids : node'[other] = IF other = id THEN key ELSE node[other]
    BY DEF Install, TypeOK
  <2> QED BY <2>1, <2>2 DEF CurrentKeysApart, Install
<1>6. AuthorsRetired'
  BY <1>3, <1>5, InstallUnused DEF AuthorsRetired
<1> QED BY <1>2, <1>4, <1>6

\* What was meant stays meant, and so does what it was meant for.
LEMMA MeantStays ==
  ASSUME meant \subseteq meant', NEW what, NEW id, NEW key, MeantFor(what, id, key)
  PROVE  MeantFor(what, id, key)'
BY DEF MeantFor, Meant

\* A key that is installed where it was meant keeps every key where it was meant.
LEMMA InstallKeepsPurpose ==
  ASSUME TypeOK, KeysAreWhereMeant, NEW id \in Ids, NEW key \in Honest \cup Others,
         node' = [node EXCEPT ![id] = key], UNCHANGED <<meant, provider>>,
         rotated' \subseteq rotated \cup {id}, rotated \subseteq rotated',
         key \in Honest => MeantFor(IF id \in rotated' THEN "rotation" ELSE "node", id, key)
  PROVE  KeysAreWhereMeant'
<1> SUFFICES ASSUME NEW other \in Ids
             PROVE  /\ node'[other] \in Honest \cup Others \cup {None}
                    /\ node'[other] \in Honest =>
                         \E i \in meant :
                           /\ i.what = IF other \in rotated' THEN "rotation" ELSE "node"
                           /\ i.program = Here /\ i.id = other /\ i.key = node'[other]
  BY DEF KeysAreWhereMeant, MeantFor, Meant
<1>1. CASE other = id
  <2>1. node'[other] = key
    BY <1>1 DEF TypeOK
  <2> QED BY <1>1, <2>1 DEF MeantFor, Meant
<1>2. CASE other # id
  <2>1. node'[other] = node[other] /\ (other \in rotated' <=> other \in rotated)
    BY <1>2 DEF TypeOK
  <2>2. node[other] \in Honest =>
          MeantFor(IF other \in rotated THEN "rotation" ELSE "node", other, node[other])
    BY DEF KeysAreWhereMeant
  <2>3. node[other] \in Honest \cup Others \cup {None}
    BY DEF KeysAreWhereMeant
  <2> QED BY <2>1, <2>2, <2>3 DEF MeantFor, Meant
<1> QED BY <1>1, <1>2

\* Every step keeps the invariant.
LEMMA NextIInv == IInv /\ [Next]_vars => IInv'
<1> SUFFICES ASSUME IInv, [Next]_vars PROVE IInv'
  OBVIOUS
<1>0. /\ TypeOK /\ KeysAreWhereMeant /\ OneSuccessor
      /\ RotatedHasKey /\ CurrentKeysApart /\ AuthorsRetired
  BY DEF IInv
<1>1. CASE Mean
  <2>1. meant \subseteq meant' /\ meant' \in SUBSET Intents
    BY <1>0, <1>1 DEF Mean, TypeOK
  <2>2. UNCHANGED <<node, provider, used, rotated, authors>>
    BY <1>1 DEF Mean
  <2>3. TypeOK'
    BY <1>0, <2>1, <2>2 DEF TypeOK
  <2>4. KeysAreWhereMeant'
    BY <1>0, <2>1, <2>2, MeantStays DEF KeysAreWhereMeant
  <2>5. OneSuccessor' /\ RotatedHasKey' /\ CurrentKeysApart' /\ AuthorsRetired'
    BY <1>0, <2>2 DEF OneSuccessor, RotatedHasKey, CurrentKeysApart, AuthorsRetired
  <2> QED BY <2>3, <2>4, <2>5 DEF IInv
<1>2. ASSUME NEW id \in Ids, NEW key \in Keys \cup Malformed,
             NEW pop \in Available("pop", derive_node_pop_message(Here, id)),
             RegisterNode(id, key, pop)
      PROVE  IInv'
  <2>1. key \in Keys /\ pop = Signature(key, "pop", derive_node_pop_message(Here, id))
    BY <1>2, PopAnswer DEF RegisterNode
  <2>2. /\ node' = [node EXCEPT ![id] = key]
        /\ Install(id, key)
        /\ UNCHANGED <<meant, provider, rotated, authors>>
        /\ node[id] = None /\ Unused(key)
    BY <1>2 DEF RegisterNode, Install
  <2>3. OneSuccessor' /\ CurrentKeysApart' /\ AuthorsRetired'
    BY <1>0, <2>1, <2>2, InstallUnused DEF OneSuccessor, AuthorsRetired
  <2>4. TypeOK'
    BY <1>0, <2>1, <2>2 DEF TypeOK, Install
  <2>5. key \in Honest \cup Others
    BY <1>0, <2>1, Possessed
  <2>6. key \in Honest => MeantFor("node", id, key)
    BY <1>0, <2>1, NodeProof
  <2>7. id \notin rotated'
    BY <1>0, <2>2 DEF RotatedHasKey
  <2>8. KeysAreWhereMeant'
    BY <1>0, <2>2, <2>5, <2>6, <2>7, InstallKeepsPurpose
  <2>9. RotatedHasKey'
    BY <1>0, <2>2, <2>7 DEF RotatedHasKey, TypeOK
  <2> QED BY <2>3, <2>4, <2>8, <2>9 DEF IInv
<1>3. ASSUME NEW id \in Ids, NEW key \in Keys \cup Malformed,
             NEW pop \in Available("pop", derive_provider_pop_message(Here, id)),
             RegisterProvider(id, key, pop)
      PROVE  IInv'
  <2>1. key \in Keys /\ pop = Signature(key, "pop", derive_provider_pop_message(Here, id))
    BY <1>3, PopAnswer DEF RegisterProvider
  <2>2. provider' = [provider EXCEPT ![id] = key] /\ UNCHANGED <<meant, node, used, rotated, authors>>
    BY <1>3 DEF RegisterProvider
  <2>3. key \in Honest \cup Others
    BY <1>0, <2>1, Possessed
  <2>4. key \in Honest => MeantFor("provider", id, key)
    BY <1>0, <2>1, ProviderProof
  <2>5. TypeOK'
    BY <1>0, <2>1, <2>2 DEF TypeOK
  <2>6. ASSUME NEW other \in Ids
        PROVE  /\ provider'[other] \in Honest \cup Others \cup {None}
               /\ provider'[other] \in Honest =>
                    MeantFor("provider", other, provider'[other])
    BY <1>0, <2>2, <2>3, <2>4 DEF TypeOK, KeysAreWhereMeant
  <2>7. KeysAreWhereMeant'
    BY <1>0, <2>2, <2>6, MeantStays DEF KeysAreWhereMeant
  <2>8. OneSuccessor' /\ RotatedHasKey' /\ CurrentKeysApart' /\ AuthorsRetired'
    BY <1>0, <2>2 DEF OneSuccessor, RotatedHasKey, CurrentKeysApart, AuthorsRetired
  <2> QED BY <2>5, <2>7, <2>8 DEF IInv
<1>4. ASSUME NEW id \in Ids, NEW key \in Keys \cup Malformed,
             NEW auth \in Available("aggregate", key_rotation_digest(Here, id, key)),
             NEW pop \in Available("pop",
                   derive_node_pop_message(Here, key_rotation_digest(Here, id, key))),
             Rotate(id, key, auth, pop)
      PROVE  IInv'
  <2>1. /\ key \in Keys
        /\ pop = Signature(key, "pop",
                   derive_node_pop_message(Here, key_rotation_digest(Here, id, key)))
        /\ auth.key = node[id]
    BY <1>4, RotationAnswer DEF Rotate, Signature
  <2>2. /\ node' = [node EXCEPT ![id] = key]
        /\ Install(id, key)
        /\ rotated' = rotated \cup {id}
        /\ authors' = Append(authors, node[id])
        /\ UNCHANGED <<meant, provider>>
        /\ node[id] # None /\ Unused(key)
    BY <1>4, <2>1 DEF Rotate, Install
  <2>3. authors' \in Seq(Keys) /\ OneSuccessor' /\ CurrentKeysApart' /\ AuthorsRetired'
    BY <1>0, <2>1, <2>2, InstallUnused, AuthorIsNew
  <2>4. TypeOK'
    BY <1>0, <2>1, <2>2, <2>3 DEF TypeOK, Install
  <2>5. key \in Honest \cup Others
    BY <1>0, <2>1, Possessed
  <2>6. key \in Honest => MeantFor("rotation", id, key)
    BY <1>0, <2>1, RotationProof
  <2>7. KeysAreWhereMeant'
    BY <1>0, <2>2, <2>5, <2>6, InstallKeepsPurpose
  <2>8. RotatedHasKey'
    BY <1>0, <2>1, <2>2, KeyAssumption DEF RotatedHasKey, TypeOK
  <2> QED BY <2>3, <2>4, <2>7, <2>8 DEF IInv
<1>5. CASE UNCHANGED vars
  <2>1. UNCHANGED <<meant, node, provider, used, rotated, authors>>
    BY <1>5 DEF vars
  <2>2. /\ TypeOK' /\ OneSuccessor'
        /\ RotatedHasKey' /\ CurrentKeysApart' /\ AuthorsRetired'
    BY <1>0, <2>1
    DEF TypeOK, OneSuccessor, RotatedHasKey, CurrentKeysApart, AuthorsRetired
  <2>3. KeysAreWhereMeant'
    BY <1>0, <2>1, MeantStays DEF KeysAreWhereMeant
  <2> QED BY <2>2, <2>3 DEF IInv
<1> QED BY <1>1, <1>2, <1>3, <1>4, <1>5 DEF Next

\* The invariant holds throughout.
LEMMA Inductive == Spec => []IInv
BY InitIInv, NextIInv, PTL DEF Spec

-----------------------------------------------------------------------------
(***************************************************************************)
(* Every registered key is possessed, and every honest one stands where    *)
(* its holder meant it to (validate_key_and_verify_pop and its provider    *)
(* form, verify_key_rotation).                                             *)
(***************************************************************************)
THEOREM PurposeKept == Spec => []KeysAreWhereMeant
<1>1. IInv => KeysAreWhereMeant
  BY DEF IInv
<1> QED BY <1>1, Inductive, PTL

(***************************************************************************)
(* Of all the rotations that one key signs at most one ever lands:         *)
(* verify_key_rotation takes signatures of the current key only, and the   *)
(* program makes no retired key current again.                             *)
(***************************************************************************)
THEOREM SuccessorUnique == Spec => []OneSuccessor
<1>1. IInv => OneSuccessor
  BY DEF IInv
<1> QED BY <1>1, Inductive, PTL

(***************************************************************************)
(* An honest key is replaced only by the key its holder named for the node *)
(* (verify_key_rotation).                                                  *)
(***************************************************************************)
THEOREM SuccessorsAuthorized == Spec => AuthorizedSuccessors
<1>1. IInv /\ [Next]_vars => [SuccessorIsAuthorized]_vars
  <2> SUFFICES ASSUME IInv, Next, NEW n \in Ids, node[n] \in Honest, node'[n] # node[n]
               PROVE  \E i \in Meant("rotation") :
                        i.program = Here /\ i.id = n /\ i.old = node[n] /\ i.key = node'[n]
    BY DEF SuccessorIsAuthorized
  <2>0. TypeOK /\ node[n] # None
    BY KeyAssumption DEF IInv, Keys
  <2>1. CASE Mean
    BY <2>1 DEF Mean
  <2>2. ASSUME NEW id \in Ids, NEW key \in Keys \cup Malformed, NEW pop,
               RegisterNode(id, key, pop)
        PROVE  FALSE
    BY <2>0, <2>2 DEF RegisterNode, Install, TypeOK
  <2>3. ASSUME NEW id \in Ids, NEW key \in Keys \cup Malformed, NEW pop,
               RegisterProvider(id, key, pop)
        PROVE  FALSE
    BY <2>3 DEF RegisterProvider
  <2>4. ASSUME NEW id \in Ids, NEW key \in Keys \cup Malformed,
               NEW auth \in Available("aggregate", key_rotation_digest(Here, id, key)),
               NEW pop, Rotate(id, key, auth, pop)
        PROVE  \E i \in Meant("rotation") :
                 i.program = Here /\ i.id = n /\ i.old = node[n] /\ i.key = node'[n]
    <3>1. node' = [node EXCEPT ![id] = key]
      BY <2>4 DEF Rotate, Install
    <3>2. n = id /\ node'[n] = key
      BY <2>0, <3>1 DEF TypeOK
    <3>3. auth = Signature(node[n], "aggregate", key_rotation_digest(Here, n, key))
      BY <2>4, <3>2, RotationAnswer DEF Rotate
    <3> QED BY <2>4, <3>2, <3>3, Authorization
  <2> QED BY <2>1, <2>2, <2>3, <2>4 DEF Next
<1> QED BY <1>1, Inductive, PTL DEF Spec, AuthorizedSuccessors

(***************************************************************************)
(* verify_key_rotation answers a proof that was meant by where the node's  *)
(* key stands: ok, KeyUnchanged or InvalidAuthorization, never another.    *)
(***************************************************************************)
THEOREM LateProofsAnswered == Spec => []LateProofsAreToldApart
<1>1. IInv => LateProofsAreToldApart
  <2> SUFFICES ASSUME TypeOK, NEW i \in Meant("rotation"), i.program = Here
               PROVE  AnswerTo(i) = IF node[i.id] = i.old THEN "ok"
                                    ELSE IF node[i.id] = i.key THEN "KeyUnchanged"
                                    ELSE "InvalidAuthorization"
    BY DEF IInv, LateProofsAreToldApart
  <2> DEFINE d == key_rotation_digest(Here, i.id, i.key)
             auth == Signature(i.old, "aggregate", d)
             pop == Signature(i.key, "pop", derive_node_pop_message(Here, d))
  <2>1. i.key \in Keys /\ i.old # i.key
    BY IntentTypes DEF Keys
  <2>2. ValidateKeyAndVerifyPop(i.key, derive_node_pop_message(Here, d), pop) = "ok"
    BY <2>1 DEF ValidateKeyAndVerifyPop, VerifyPop
  <2>3. auth = Signature(node[i.id], "aggregate", d) <=> node[i.id] = i.old
    BY SignatureParts
  <2>4. AnswerTo(i) = IF i.key = node[i.id] THEN "KeyUnchanged"
                      ELSE IF ~ (auth = Signature(node[i.id], "aggregate", d))
                      THEN "InvalidAuthorization" ELSE "ok"
    BY <2>2 DEF AnswerTo, VerifyKeyRotation, NodePopErrors
  <2> QED BY <2>1, <2>3, <2>4
<1> QED BY <1>1, Inductive, PTL
=============================================================================
