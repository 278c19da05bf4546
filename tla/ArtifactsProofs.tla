--------------------------- MODULE ArtifactsProofs ---------------------------
(***************************************************************************)
(* Theorems about Artifacts and KeyStore: for any processes, tenants,      *)
(* artifacts and contents, and any bounds.                                 *)
(***************************************************************************)
EXTENDS Artifacts, FiniteSetTheorems, TLAPS

-----------------------------------------------------------------------------
(* The steps of a caller and of the key store's operation it is in. *)

HasText(p) == pc[p] \in {"numbering", "inserting", "auditing", "sealing", "committing"}
Encrypts(p) == pc[p] \in {"encrypting", "sealing", "committing"}

\* An append encrypts twice, for its tenant; nobody else is in an operation but who
\* erases; a text carries the key it was encrypted with, from then on.
CallInv(p) ==
  /\ step[p] \in CASE pc[p] \in {"encrypting", "sealing"} ->
                        {"encrypt", "truncate", "save", "done", "failed"}
                   [] pc[p] = "committing" -> {"done"}
                   [] pc[p] = "erasing" -> {"destroy", "truncate", "save", "done", "failed"}
                   [] OTHER -> {"none"}
  /\ Encrypts(p) => target[p] = TenantFor(p)
  /\ pc[p] = "erasing" => target[p] \in Tenants
  /\ Encrypts(p) \/ HasText(p) =>
       /\ artifact[p] \in Artifact
       /\ ciphertext[p] \in Text /\ ciphertext[p].tenant = TenantFor(p)
  /\ HasText(p) => ciphertext[p].key \in Keys
  /\ Encrypts(p) /\ step[p] \in {"truncate", "save", "done"} => material[p] \in Keys
  /\ Encrypts(p) /\ Rewriting(p) => view[p][target[p]] = material[p]
  /\ pc[p] = "erasing" /\ Rewriting(p) => view[p][target[p]] = NoKey

TypeInv ==
  /\ ArtifactTypeOK
  /\ DOMAIN ciphertext = Processes
  /\ \A v \in versions : v.text.key \in Keys
  /\ \A p \in Processes : CallInv(p)

-----------------------------------------------------------------------------
(* Versions and blobs. *)

\* The number of rows of an artifact.
Rows(a) == Cardinality(Of(a))

\* What an append has read is no more than one too high, and what it has inserted is the
\* next number, its alone.
NumberInv ==
  /\ IsFiniteSet(versions)
  /\ VersionsGapless
  /\ \A p \in Processes : pc[p] = "inserting" => number[p] \in 1 .. Rows(artifact[p]) + 1
  /\ \A p \in Processes : Inserted(p) => number[p] = Rows(artifact[p]) + 1
  /\ \A p, q \in Processes : p # q /\ Inserted(p) /\ Inserted(q) => artifact[p] # artifact[q]

\* The text has been put among the blobs, and is there unless the blobs were destroyed.
IsPut(c) == c \in shredded <=> Blob(c) \notin blobs

\* No two texts are equal: that of an append that has still to put it is nowhere else.
BlobInv ==
  /\ \A b \in blobs : b = Blob(b.bytes)
  /\ \A c \in shredded : Blob(c) \notin blobs
  /\ \A v \in versions : IsPut(v.text)
  /\ \A p \in Processes : HasText(p) => IsPut(ciphertext[p])
  /\ \A b \in blobs : b.bytes.nonce <= appends
  /\ \A c \in shredded : c.nonce <= appends
  /\ \A p \in Processes : ciphertext[p].nonce <= appends
  /\ \A p \in Processes : pc[p] = "encrypting" =>
       /\ \A b \in blobs : b.bytes.nonce # ciphertext[p].nonce
       /\ \A c \in shredded : c.nonce # ciphertext[p].nonce
       /\ \A q \in Processes \ {p} : ciphertext[q].nonce # ciphertext[p].nonce

-----------------------------------------------------------------------------
(* Keys. *)

\* Key m of tenant t is in use: something is encrypted with it, or is about to be.
InUse(t, m) ==
  \/ \E v \in versions : v.text.tenant = t /\ v.text.key = m
  \/ \E r \in payloads : r.tenant = t /\ r.key = m
  \/ \E p \in Processes : HasText(p) /\ TenantFor(p) = t /\ ciphertext[p].key = m
  \/ \E p \in Processes : Encrypts(p) /\ step[p] = "done" /\ TenantFor(p) = t /\ material[p] = m

\* The keys k are of one tenant each, none of them removed, and open what is in use, but
\* for the keys in gone.
OpenAll(k, gone) ==
  /\ \A t, u \in Tenants : k[t] = k[u] /\ k[t] # NoKey => t = u
  /\ \A t \in Tenants : k[t] \notin erased \union gone
  /\ \A t \in Tenants : \A m \in Keys : InUse(t, m) => (k[t] = m <=> m \notin erased \union gone)

Removed(p) == IF IsDestroy(p) THEN {material[p]} \ {NoKey} ELSE {}

\* Who has decided on a rewrite has the keys of the file in hand, changed for one tenant.
ViewFits(p) ==
  /\ whole
  /\ IF IsDestroy(p)
     THEN material[p] = keys[target[p]] /\ view[p] = [keys EXCEPT ![target[p]] = NoKey]
     ELSE /\ keys[target[p]] = NoKey
          /\ view[p] = [keys EXCEPT ![target[p]] = material[p]]
          /\ material[p] \notin erased
          /\ \A t \in Tenants : keys[t] # material[p] /\ ~InUse(t, material[p])

\* Who has emptied the file is alone with it, and will restore it.
FileInv ==
  ~raced =>
    /\ whole => OpenAll(keys, {})
    /\ \A p \in Processes : step[p] = "truncate" => ViewFits(p)
    /\ \A p \in Processes : step[p] = "save" =>
         /\ ~whole /\ length = 0
         /\ \A q \in Processes \ {p} : ~Rewriting(q)
         /\ OpenAll(view[p], Removed(p))

-----------------------------------------------------------------------------
(* Types: the key store. *)

LEMMA CountKeysType ==
  ASSUME NEW k PROVE CountKeys(k) \in 0 .. Cardinality(Tenants)
<1> DEFINE S == {t \in Tenants : k[t] # NoKey}
<1>1. S \in SUBSET Tenants
  OBVIOUS
<1>2. IsFiniteSet(S) /\ Cardinality(S) <= Cardinality(Tenants)
  BY <1>1, KeyStoreAssumption, FS_Subset
<1>3. Cardinality(S) \in Nat /\ Cardinality(Tenants) \in Nat
  BY <1>2, KeyStoreAssumption, FS_CardinalityType
<1>4. QED
  BY <1>2, <1>3 DEF CountKeys

LEMMA CountNoKeys == CountKeys(NoKeys) = 0
<1>1. {t \in Tenants : NoKeys[t] # NoKey} = {}
  BY DEF NoKeys
<1>2. QED
  BY <1>1, FS_EmptySet DEF CountKeys

LEMMA MaxOfTwo ==
  ASSUME NEW m \in Nat, NEW n \in Nat
  PROVE  Max({m, n}) = IF m <= n THEN n ELSE m
<1>1. \E x \in {m, n} : \A y \in {m, n} : x >= y
  OBVIOUS
<1>2. Max({m, n}) \in {m, n} /\ \A y \in {m, n} : Max({m, n}) >= y
  BY <1>1 DEF Max
<1>3. QED
  BY <1>2

LEMMA InitTypeInv == Init => TypeInv
<1> SUFFICES ASSUME Init PROVE TypeInv
  OBVIOUS
<1> USE DEF Init, KeyInit, NoKey, Keys
<1>1. KeyTypeOK
  <2>1. CountKeys(keys) = 0 /\ 0 \in 0 .. Cardinality(Tenants)
    BY CountNoKeys, CountKeysType
  <2>2. QED
    BY <2>1 DEF KeyTypeOK, Steps, NoKeys
<1>2. ArtifactTypeOK
  BY <1>1, ArtifactAssumption DEF ArtifactTypeOK, PC
<1>3. \A p \in Processes : CallInv(p)
  BY DEF CallInv, HasText, Encrypts, Rewriting
<1>4. QED
  BY <1>2, <1>3 DEF TypeInv

\* A caller's step that leaves the key file alone.
LEMMA KeyTypeStands ==
  ASSUME KeyTypeOK, NEW p \in Processes, UNCHANGED fileVars,
         \/ \E t \in Tenants : Call(p, "encrypt", t) \/ Call(p, "destroy", t)
         \/ Return(p)
         \/ UNCHANGED callVars
  PROVE  KeyTypeOK'
<1>1. /\ UNCHANGED <<keys, length, whole, generated, erased, raced>>
      /\ Keys' = Keys /\ CountKeys(keys)' = CountKeys(keys)
  BY DEF fileVars, Keys, CountKeys
<1>2. /\ step' \in [Processes -> Steps]
      /\ target' \in [Processes -> Tenants \union {NoTenant}]
  BY DEF KeyTypeOK, Call, Return, callVars, Steps
<1>3. /\ view' \in [Processes -> [Tenants -> Keys \union {NoKey}]]
      /\ material' \in [Processes -> Keys \union {NoKey}]
  <2>1. NoKeys \in [Tenants -> Keys \union {NoKey}]
    BY DEF NoKeys
  <2>2. CASE UNCHANGED <<view, material>>
    BY <2>2 DEF KeyTypeOK
  <2>3. CASE Return(p)
    BY <2>1, <2>3 DEF KeyTypeOK, Return
  <2>4. QED
    BY <2>2, <2>3 DEF Call, callVars
<1>4. QED
  BY <1>1, <1>2, <1>3 DEF KeyTypeOK

\* A step of the key store, whose caller has named a tenant.
LEMMA KeyStepKeepsType ==
  ASSUME KeyTypeOK, NEW p \in Processes, KeyStep(p),
         step[p] \in {"encrypt", "destroy"} => target[p] \in Tenants
  PROVE  KeyTypeOK'
<1> USE DEF KeyTypeOK, Steps, NoKey
<1>0. 0 \in 0 .. Cardinality(Tenants)
  <2>1. CountKeys(keys) \in 0 .. Cardinality(Tenants) /\ Cardinality(Tenants) \in Nat
    BY CountKeysType, KeyStoreAssumption, FS_CardinalityType
  <2>2. QED
    BY <2>1
<1>1. CASE LoadFails(p)
  BY <1>1 DEF LoadFails, fileVars, CountKeys, Keys
<1>2. CASE LoadToEncrypt(p)
  <2>1. /\ UNCHANGED <<keys, length, whole, erased, raced, target>>
        /\ generated' \in {generated, generated + 1} /\ step[p] = "encrypt"
        /\ CountKeys(keys)' = CountKeys(keys)
    BY <1>2 DEF LoadToEncrypt, CountKeys
  <2>2. Keys \subseteq Keys' /\ generated' \in Nat
    BY <2>1 DEF Keys
  <2>3. /\ view' \in [Processes -> [Tenants -> Keys' \union {NoKey}]]
        /\ material' \in [Processes -> Keys' \union {NoKey}]
        /\ step' \in [Processes -> Steps]
    <3>1. CASE UNCHANGED <<view, generated>>
      <4>1. /\ material' = [material EXCEPT ![p] = keys[target[p]]]
            /\ step' = [step EXCEPT ![p] = "done"]
        BY <1>2, <3>1 DEF LoadToEncrypt
      <4>2. target[p] \in Tenants
        BY <2>1
      <4>3. Keys' = Keys
        BY <3>1 DEF Keys
      <4>4. QED
        BY <3>1, <4>1, <4>2, <4>3
    <3>2. CASE generated' = generated + 1
      <4>1. generated' \in Keys' /\ keys \in [Tenants -> Keys' \union {NoKey}]
        BY <2>2, <3>2 DEF Keys
      <4>2. /\ material' = [material EXCEPT ![p] = generated']
            /\ view' = [view EXCEPT ![p] = [keys EXCEPT ![target[p]] = generated']]
            /\ step' = [step EXCEPT ![p] = "truncate"]
        BY <1>2, <3>2 DEF LoadToEncrypt
      <4>3. QED
        BY <2>2, <4>1, <4>2
    <3>3. QED
      BY <1>2, <3>1, <3>2 DEF LoadToEncrypt
  <2>4. QED
    BY <2>1, <2>2, <2>3
<1>3. CASE LoadToDestroy(p)
  BY <1>3 DEF LoadToDestroy, fileVars, CountKeys, Keys
<1>4. CASE Truncate(p)
  BY <1>0, <1>4 DEF Truncate, NoKeys, Keys
<1>5. CASE Save(p)
  <2> DEFINE n == CountKeys(view[p])
  <2>1. n \in 0 .. Cardinality(Tenants) /\ Cardinality(Tenants) \in Nat
    BY CountKeysType, KeyStoreAssumption, FS_CardinalityType
  <2>2. /\ keys' = view[p] /\ length' = Max({length, n}) /\ whole' = (length <= n)
        /\ UNCHANGED <<generated, raced, target, view, material>>
        /\ step' = [step EXCEPT ![p] = "done"]
        /\ erased' \subseteq erased \union ({material[p]} \ {NoKey})
    BY <1>5 DEF Save
  <2>3. CountKeys(keys)' = n /\ Keys' = Keys
    BY <2>2 DEF CountKeys, Keys
  <2> HIDE DEF n
  <2>4. length' = IF length <= n THEN n ELSE length
    BY <2>1, <2>2, MaxOfTwo
  <2>5. length' \in 0 .. Cardinality(Tenants) /\ (whole' => length' = CountKeys(keys)')
    BY <2>1, <2>2, <2>3, <2>4
  <2>6. QED
    BY <2>2, <2>3, <2>5
<1>6. QED
  BY <1>1, <1>2, <1>3, <1>4, <1>5 DEF KeyStep

-----------------------------------------------------------------------------
(* Types: the steps of a caller. *)

\* Whoever a step says nothing of is where it was.
LEMMA OthersStand ==
  ASSUME NEW q \in Processes, CallInv(q), Keys \subseteq Keys',
         pc'[q] = pc[q], artifact'[q] = artifact[q], ciphertext'[q] = ciphertext[q],
         step'[q] = step[q], target'[q] = target[q], view'[q] = view[q],
         material'[q] = material[q]
  PROVE  CallInv(q)'
<1>1. Text \subseteq Text'
  BY DEF Text
<1>2. QED
  BY <1>1 DEF CallInv, HasText, Encrypts, Rewriting, TenantFor, NoKey

\* A transaction that ends lets its head go and forgets what it was about.
LEMMA CloseKeepsType ==
  ASSUME TypeInv, NEW p \in Processes, Close(p),
         \/ versions' = versions
         \/ /\ pc[p] = "committing" /\ number[p] \in Nat \ {0}
            /\ versions' = versions \union {Version(p)},
         \/ payloads' = payloads
         \/ pc[p] = "committing" /\ payloads' = payloads \union {Payload(p)},
         crashes' \in Nat
  PROVE  TypeInv'
<1>1. /\ headLock' = Released(p) /\ pc' = [pc EXCEPT ![p] = "idle"]
      /\ artifact' = [artifact EXCEPT ![p] = NoArtifact]
      /\ ciphertext' = [ciphertext EXCEPT ![p] = NoText]
      /\ number' = [number EXCEPT ![p] = 0]
      /\ Return(p) /\ UNCHANGED fileVars /\ UNCHANGED <<blobs, shredded, appends, erasures>>
  BY DEF Close, Goto
<1>2. KeyTypeOK'
  BY <1>1, KeyTypeStands DEF TypeInv, ArtifactTypeOK
<1>3. Keys' = Keys /\ Text' = Text
  BY <1>1 DEF fileVars, Keys, Text
<1>4. pc[p] = "committing" => /\ Version(p).artifact \in Artifact /\ Version(p).text \in Text
                              /\ Version(p).number = number[p] /\ Version(p).text.key \in Keys
                              /\ Payload(p) \in [tenant : Tenants, key : Keys]
  BY ArtifactAssumption
  DEF TypeInv, CallInv, HasText, Encrypts, Version, Payload, TenantFor
<1>5. \A v \in versions' :
        v.artifact \in Artifact /\ v.number \in Nat \ {0} /\ v.text \in Text /\ v.text.key \in Keys
  BY <1>4 DEF TypeInv, ArtifactTypeOK
<1>6. payloads' \subseteq [tenant : Tenants, key : Keys]
  BY <1>4 DEF TypeInv, ArtifactTypeOK
<1>7. /\ pc' \in [Processes -> PC] /\ artifact' \in [Processes -> Artifact \union {NoArtifact}]
      /\ number' \in [Processes -> Nat] /\ DOMAIN ciphertext' = Processes
      /\ \A q \in Processes : ciphertext'[q] \in Text \union {NoText}
  BY <1>1 DEF TypeInv, ArtifactTypeOK, PC
<1>8. \A q \in Processes \ {p} :
        /\ pc'[q] = pc[q] /\ artifact'[q] = artifact[q] /\ ciphertext'[q] = ciphertext[q]
        /\ number'[q] = number[q] /\ step'[q] = step[q] /\ target'[q] = target[q]
        /\ view'[q] = view[q] /\ material'[q] = material[q]
  BY <1>1 DEF TypeInv, ArtifactTypeOK, KeyTypeOK, Return
<1>9. pc'[p] = "idle" /\ step'[p] = "none"
  BY <1>1 DEF TypeInv, ArtifactTypeOK, KeyTypeOK, Return
<1>10. \A q \in Processes : CallInv(q)'
  <2>1. CallInv(p)'
    BY <1>9 DEF CallInv, HasText, Encrypts
  <2>2. QED
    BY <1>3, <1>8, <2>1, OthersStand DEF TypeInv
<1>11. headLock' \in [Tenants -> Processes \union {NoProcess}]
  BY <1>1 DEF TypeInv, ArtifactTypeOK, Released
<1>12. \A t \in Tenants, q \in Processes :
         headLock'[t] = q <=> pc'[q] \in {"sealing", "committing"} /\ TenantFor(q)' = t
  <2>1. \A t \in Tenants : headLock'[t] = IF headLock[t] = p THEN NoProcess ELSE headLock[t]
    BY <1>1 DEF Released
  <2>2. QED
    BY <1>8, <1>9, <2>1, ArtifactAssumption DEF TypeInv, ArtifactTypeOK, TenantFor
<1>13. QED
  BY <1>1, <1>2, <1>3, <1>5, <1>6, <1>7, <1>10, <1>11, <1>12 DEF TypeInv, ArtifactTypeOK

\* What process p does to its own call, and a head it takes, when neither rows nor the
\* key file change.
LEMMA CallerKeepsType ==
  ASSUME TypeInv, NEW p \in Processes,
         \/ \E t \in Tenants : Call(p, "encrypt", t) \/ Call(p, "destroy", t)
         \/ Return(p)
         \/ UNCHANGED callVars,
         UNCHANGED <<fileVars, versions, payloads, shredded>>,
         \A b \in blobs' : b \in blobs \/ b.bytes \in Text,
         appends' \in Nat, erasures' \in Nat, crashes' \in Nat,
         pc' \in [Processes -> PC], artifact' \in [Processes -> Artifact \union {NoArtifact}],
         number' \in [Processes -> Nat], DOMAIN ciphertext' = Processes,
         ciphertext'[p] \in Text \union {NoText},
         \A q \in Processes \ {p} : /\ pc'[q] = pc[q] /\ artifact'[q] = artifact[q]
                                    /\ ciphertext'[q] = ciphertext[q],
         CallInv(p)',
         \/ /\ headLock' = headLock
            /\ pc[p] \notin {"sealing", "committing"} /\ pc'[p] \notin {"sealing", "committing"}
         \/ /\ headLock' = headLock /\ artifact' = artifact
            /\ pc[p] \in {"sealing", "committing"} /\ pc'[p] \in {"sealing", "committing"}
         \/ /\ pc[p] \notin {"sealing", "committing"} /\ pc'[p] \in {"sealing", "committing"}
            /\ artifact' = artifact /\ headLock[TenantFor(p)] = NoProcess
            /\ TenantFor(p) \in Tenants
            /\ headLock' = [headLock EXCEPT ![TenantFor(p)] = p]
  PROVE  TypeInv'
<1>1. KeyTypeOK'
  BY KeyTypeStands DEF TypeInv, ArtifactTypeOK
<1>2. Keys' = Keys /\ Text' = Text
  BY DEF fileVars, Keys, Text
<1>3. \A q \in Processes \ {p} :
        /\ step'[q] = step[q] /\ target'[q] = target[q]
        /\ view'[q] = view[q] /\ material'[q] = material[q]
  BY DEF TypeInv, ArtifactTypeOK, KeyTypeOK, Return, Call, callVars
<1>4. \A q \in Processes : CallInv(q)'
  BY <1>2, <1>3, OthersStand DEF TypeInv
<1>5. \A q \in Processes : ciphertext'[q] \in Text \union {NoText}
  BY DEF TypeInv, ArtifactTypeOK
<1>6. /\ headLock' \in [Tenants -> Processes \union {NoProcess}]
      /\ \A t \in Tenants, q \in Processes :
           headLock'[t] = q <=> pc'[q] \in {"sealing", "committing"} /\ TenantFor(q)' = t
  <2>1. \A q \in Processes \ {p} : TenantFor(q)' = TenantFor(q)
    BY DEF TenantFor
  <2>2. p # NoProcess
    BY ArtifactAssumption
  <2>3. /\ headLock \in [Tenants -> Processes \union {NoProcess}]
        /\ \A t \in Tenants, q \in Processes :
             headLock[t] = q <=> pc[q] \in {"sealing", "committing"} /\ TenantFor(q) = t
    BY DEF TypeInv, ArtifactTypeOK
  <2>4. CASE headLock' = headLock
    <3>1. \/ pc[p] \notin {"sealing", "committing"} /\ pc'[p] \notin {"sealing", "committing"}
          \/ /\ TenantFor(p)' = TenantFor(p)
             /\ pc[p] \in {"sealing", "committing"} /\ pc'[p] \in {"sealing", "committing"}
      BY <2>2, <2>3, <2>4 DEF TenantFor
    <3>2. QED
      BY <2>1, <2>3, <2>4, <3>1
  <2>5. CASE headLock' # headLock
    <3>1. /\ TenantFor(p)' = TenantFor(p) /\ TenantFor(p) \in Tenants
          /\ pc[p] \notin {"sealing", "committing"} /\ pc'[p] \in {"sealing", "committing"}
          /\ headLock[TenantFor(p)] = NoProcess
          /\ headLock' = [headLock EXCEPT ![TenantFor(p)] = p]
      BY <2>5 DEF TenantFor
    <3>2. NoProcess \notin Processes
      BY ArtifactAssumption
    <3>3. QED
      BY <2>1, <2>3, <3>1, <3>2
  <2>6. QED
    BY <2>4, <2>5
<1>7. QED
  BY <1>1, <1>2, <1>4, <1>5, <1>6 DEF TypeInv, ArtifactTypeOK

LEMMA BeginAppendKeepsType ==
  ASSUME TypeInv, NEW p \in Processes, NEW a \in Artifact, NEW c \in Contents,
         BeginAppend(p, a, c)
  PROVE  TypeInv'
<1> DEFINE text == [tenant |-> TenantOf[a], content |-> c, key |-> NoKey, nonce |-> appends + 1]
<1>1. /\ pc[p] = "idle" /\ appends' = appends + 1
      /\ artifact' = [artifact EXCEPT ![p] = a]
      /\ ciphertext' = [ciphertext EXCEPT ![p] = text]
      /\ Call(p, "encrypt", TenantOf[a])
      /\ pc' = [pc EXCEPT ![p] = "encrypting"]
      /\ UNCHANGED <<fileVars, versions, payloads, headLock, blobs, number, shredded,
                     erasures, crashes>>
  BY DEF BeginAppend, Goto, rowVars
<1>2. TenantOf[a] \in Tenants
  BY ArtifactAssumption
<1>3. text \in Text /\ Text' = Text /\ text.tenant = TenantOf[a]
  BY <1>1, <1>2 DEF Text, TypeInv, ArtifactTypeOK, fileVars, Keys
<1> HIDE DEF text
<1>4. /\ pc' \in [Processes -> PC] /\ artifact' \in [Processes -> Artifact \union {NoArtifact}]
      /\ number' \in [Processes -> Nat] /\ DOMAIN ciphertext' = Processes
      /\ pc'[p] = "encrypting" /\ artifact'[p] = a /\ ciphertext'[p] = text
      /\ \A q \in Processes \ {p} : /\ pc'[q] = pc[q] /\ artifact'[q] = artifact[q]
                                    /\ ciphertext'[q] = ciphertext[q]
      /\ appends' \in Nat /\ erasures' \in Nat /\ crashes' \in Nat
  BY <1>1 DEF TypeInv, ArtifactTypeOK, PC
<1>5. step'[p] = "encrypt" /\ target'[p] = TenantOf[a]
  BY <1>1 DEF TypeInv, ArtifactTypeOK, KeyTypeOK, Call
<1>6. CallInv(p)'
  BY <1>3, <1>4, <1>5 DEF CallInv, HasText, Encrypts, Rewriting, TenantFor
<1>7. QED
  BY <1>1, <1>2, <1>3, <1>4, <1>6, CallerKeepsType

LEMMA PutBlobKeepsType ==
  ASSUME TypeInv, NEW p \in Processes, PutBlob(p)
  PROVE  TypeInv'
<1> DEFINE text == [ciphertext[p] EXCEPT !.key = material[p]]
<1>1. /\ pc[p] = "encrypting" /\ step[p] = "done" /\ Return(p)
      /\ ciphertext' = [ciphertext EXCEPT ![p] = text]
      /\ \A b \in blobs' : b \in blobs \/ b.bytes = text
      /\ pc' = [pc EXCEPT ![p] = "numbering"]
      /\ UNCHANGED <<fileVars, versions, payloads, headLock, artifact, number, shredded,
                     appends, erasures, crashes>>
  BY DEF PutBlob, Goto, rowVars, boundVars, Blob
<1>2. /\ artifact[p] \in Artifact /\ ciphertext[p] \in Text /\ material[p] \in Keys
      /\ ciphertext[p].tenant = TenantFor(p)
  BY <1>1 DEF TypeInv, CallInv, Encrypts, HasText
<1>3. /\ text \in Text /\ Text' = Text /\ Keys' = Keys
      /\ text.tenant = TenantFor(p) /\ text.key = material[p]
  BY <1>1, <1>2 DEF Text, fileVars, Keys
<1> HIDE DEF text
<1>4. /\ pc' \in [Processes -> PC] /\ DOMAIN ciphertext' = Processes
      /\ pc'[p] = "numbering" /\ ciphertext'[p] = text
      /\ \A q \in Processes \ {p} : /\ pc'[q] = pc[q] /\ ciphertext'[q] = ciphertext[q]
      /\ step'[p] = "none"
  BY <1>1 DEF TypeInv, ArtifactTypeOK, PC, KeyTypeOK, Return
<1>5. CallInv(p)'
  BY <1>1, <1>2, <1>3, <1>4 DEF CallInv, HasText, Encrypts, Rewriting, TenantFor
<1>6. QED
  BY <1>1, <1>2, <1>3, <1>4, <1>5, CallerKeepsType DEF TypeInv, ArtifactTypeOK

LEMMA InsertVersionKeepsType ==
  ASSUME TypeInv, NEW p \in Processes, InsertVersion(p) \/ SealRecord(p)
  PROVE  TypeInv'
<1>1. /\ \/ pc[p] = "inserting" /\ pc' = [pc EXCEPT ![p] = "auditing"]
         \/ pc[p] = "sealing" /\ step[p] = "done" /\ pc' = [pc EXCEPT ![p] = "committing"]
      /\ UNCHANGED <<callVars, fileVars, versions, payloads, headLock, blobs, artifact,
                     ciphertext, number, shredded, appends, erasures, crashes>>
  BY DEF InsertVersion, SealRecord, Goto, rowVars, boundVars, keyVars
<1>2. Text' = Text /\ Keys' = Keys
  BY <1>1 DEF Text, fileVars, Keys
<1>3. /\ pc' \in [Processes -> PC] /\ DOMAIN ciphertext' = Processes
      /\ \/ pc[p] = "inserting" /\ pc'[p] = "auditing"
         \/ pc[p] = "sealing" /\ pc'[p] = "committing" /\ step'[p] = "done"
      /\ \A q \in Processes \ {p} : pc'[q] = pc[q]
  BY <1>1 DEF TypeInv, ArtifactTypeOK, PC, callVars
<1>4. CallInv(p)'
  <2>1. CallInv(p) /\ UNCHANGED <<step, target, view, material>>
    BY <1>1 DEF TypeInv, callVars
  <2>2. QED
    BY <1>1, <1>2, <1>3, <2>1 DEF CallInv, HasText, Encrypts, Rewriting, TenantFor
<1>5. QED
  BY <1>1, <1>2, <1>3, <1>4, CallerKeepsType DEF TypeInv, ArtifactTypeOK

LEMMA LockHeadKeepsType ==
  ASSUME TypeInv, NEW p \in Processes, LockHead(p)
  PROVE  TypeInv'
<1>1. /\ pc[p] = "auditing" /\ headLock[TenantFor(p)] = NoProcess
      /\ headLock' = [headLock EXCEPT ![TenantFor(p)] = p]
      /\ Call(p, "encrypt", TenantFor(p)) /\ pc' = [pc EXCEPT ![p] = "sealing"]
      /\ UNCHANGED <<fileVars, versions, payloads, blobs, artifact, ciphertext, number,
                     shredded, appends, erasures, crashes>>
  BY DEF LockHead, Goto, boundVars
<1>2. Text' = Text /\ Keys' = Keys
  BY <1>1 DEF Text, fileVars, Keys
<1>3. TenantFor(p) \in Tenants
  BY <1>1, ArtifactAssumption DEF TypeInv, CallInv, HasText, TenantFor
<1>4. /\ pc' \in [Processes -> PC] /\ pc'[p] = "sealing"
      /\ \A q \in Processes \ {p} : pc'[q] = pc[q]
      /\ step'[p] = "encrypt" /\ target'[p] = TenantFor(p)
  BY <1>1 DEF TypeInv, ArtifactTypeOK, PC, KeyTypeOK, Call
<1>5. CallInv(p)'
  BY <1>1, <1>2, <1>4 DEF TypeInv, CallInv, HasText, Encrypts, Rewriting, TenantFor
<1>6. QED
  BY <1>1, <1>2, <1>3, <1>4, <1>5, CallerKeepsType DEF TypeInv, ArtifactTypeOK

LEMMA BeginErasureKeepsType ==
  ASSUME TypeInv, NEW p \in Processes, NEW t \in Tenants, BeginErasure(p, t)
  PROVE  TypeInv'
<1>1. /\ pc[p] = "idle" /\ erasures' = erasures + 1
      /\ Call(p, "destroy", t) /\ pc' = [pc EXCEPT ![p] = "erasing"]
      /\ UNCHANGED <<fileVars, versions, payloads, headLock, blobs, artifact, ciphertext, number,
                     shredded, appends, crashes>>
  BY DEF BeginErasure, Goto, rowVars
<1>2. /\ pc' \in [Processes -> PC] /\ pc'[p] = "erasing"
      /\ \A q \in Processes \ {p} : pc'[q] = pc[q]
      /\ step'[p] = "destroy" /\ target'[p] = t /\ erasures' \in Nat
  BY <1>1 DEF TypeInv, ArtifactTypeOK, PC, KeyTypeOK, Call
<1>3. CallInv(p)'
  BY <1>1, <1>2 DEF CallInv, HasText, Encrypts, Rewriting
<1>4. QED
  BY <1>1, <1>2, <1>3, CallerKeepsType DEF TypeInv, ArtifactTypeOK

-----------------------------------------------------------------------------
(* Types: the numbers an append reads, and the key store's steps. *)

LEMMA RowsType ==
  ASSUME IsFiniteSet(versions), NEW a
  PROVE  IsFiniteSet(Of(a)) /\ Rows(a) \in Nat
<1>1. Of(a) \subseteq versions
  BY DEF Of
<1>2. QED
  BY <1>1, FS_Subset, FS_CardinalityType DEF Rows

\* The highest number of an artifact whose versions have no gap is how many there are.
LEMMA HighestNumber ==
  ASSUME IsFiniteSet(versions), VersionsGapless, NEW a \in Artifact
  PROVE  Max({v.number : v \in Of(a)} \union {0}) = Rows(a)
<1> DEFINE N == {v.number : v \in Of(a)} \union {0}
<1>1. Rows(a) \in Nat
  BY RowsType
<1>2. N = 0 .. Rows(a)
  BY <1>1 DEF VersionsGapless, Rows
<1> HIDE DEF N
<1>3. Rows(a) \in N /\ \A n \in N : Rows(a) >= n
  BY <1>1, <1>2
<1>4. Max(N) \in N /\ \A n \in N : Max(N) >= n
  BY <1>3 DEF Max
<1>5. Max(N) = Rows(a)
  BY <1>1, <1>2, <1>3, <1>4
<1>6. QED
  BY <1>5 DEF N

LEMMA ReadNumberKeepsType ==
  ASSUME TypeInv, NumberInv, NEW p \in Processes, ReadNumber(p)
  PROVE  TypeInv'
<1>1. /\ pc[p] = "numbering"
      /\ number' = [number EXCEPT ![p] = Max({v.number : v \in Of(artifact[p])} \union {0}) + 1]
      /\ pc' = [pc EXCEPT ![p] = "inserting"]
      /\ UNCHANGED <<callVars, fileVars, versions, payloads, headLock, blobs, artifact,
                     ciphertext, shredded, appends, erasures, crashes>>
  BY DEF ReadNumber, Goto, rowVars, boundVars, keyVars
<1>2. artifact[p] \in Artifact
  BY <1>1 DEF TypeInv, CallInv, HasText
<1>3. number' = [number EXCEPT ![p] = Rows(artifact[p]) + 1] /\ Rows(artifact[p]) \in Nat
  BY <1>1, <1>2, HighestNumber, RowsType DEF NumberInv
<1>4. Text' = Text /\ Keys' = Keys
  BY <1>1 DEF Text, fileVars, Keys
<1>5. /\ pc' \in [Processes -> PC] /\ pc'[p] = "inserting"
      /\ \A q \in Processes \ {p} : pc'[q] = pc[q]
      /\ number' \in [Processes -> Nat]
  BY <1>1, <1>3 DEF TypeInv, ArtifactTypeOK, PC
<1>6. CallInv(p)'
  <2>1. CallInv(p) /\ UNCHANGED <<step, target, view, material>>
    BY <1>1 DEF TypeInv, callVars
  <2>2. QED
    BY <1>1, <1>4, <1>5, <2>1 DEF CallInv, HasText, Encrypts, Rewriting, TenantFor
<1>7. QED
  BY <1>1, <1>5, <1>6, CallerKeepsType DEF TypeInv, ArtifactTypeOK

LEMMA UseKeysKeepsType ==
  ASSUME TypeInv, NEW p \in Processes, UseKeys(p)
  PROVE  TypeInv'
<1>1. KeyStep(p) /\ UNCHANGED artifactVars
  BY DEF UseKeys
<1>2. /\ UNCHANGED <<versions, payloads, headLock, pc, artifact, ciphertext, number, blobs,
                     shredded, appends, erasures, crashes>>
      /\ target' = target /\ generated \in Nat /\ generated' \in {generated, generated + 1}
      /\ \A q \in Processes \ {p} : step'[q] = step[q] /\ view'[q] = view[q]
                                    /\ material'[q] = material[q]
  BY <1>1
  DEF artifactVars, rowVars, appendVars, boundVars, KeyStep, LoadFails, LoadToEncrypt,
      LoadToDestroy, Truncate, Save, fileVars, TypeInv, ArtifactTypeOK, KeyTypeOK
<1>3. Keys \subseteq Keys'
  BY <1>2 DEF Keys
<1>4. CallInv(p) /\ TenantFor(p)' = TenantFor(p)
  BY <1>2 DEF TypeInv, TenantFor
<1>5. /\ pc[p] \in PC /\ step[p] \in Steps
      /\ step[p] \in {"encrypt", "destroy", "truncate", "save"} =>
           pc[p] \in {"encrypting", "sealing", "erasing"}
      /\ step[p] = "encrypt" => pc[p] \in {"encrypting", "sealing"}
      /\ step[p] = "destroy" => pc[p] = "erasing"
  BY <1>4 DEF TypeInv, ArtifactTypeOK, KeyTypeOK, CallInv, PC
<1>6. step[p] \in {"encrypt", "destroy", "truncate", "save"} => target[p] \in Tenants
  BY <1>4, <1>5, ArtifactAssumption DEF CallInv, Encrypts, TenantFor
<1>7. KeyTypeOK'
  BY <1>1, <1>6, KeyStepKeepsType DEF TypeInv, ArtifactTypeOK
<1>8. CallInv(p)'
  <2>1. /\ HasText(p)' = HasText(p) /\ Encrypts(p)' = Encrypts(p)
        /\ Text \subseteq Text'
    BY <1>2, <1>3 DEF HasText, Encrypts, Text
  <2> USE <1>2, <1>3, <1>4, <1>5, <1>6, <2>1
      DEF TypeInv, ArtifactTypeOK, KeyTypeOK
  <2>2. CASE LoadFails(p)
    <3>1. step'[p] = "failed" /\ pc[p] \in {"encrypting", "sealing", "erasing"}
      BY <2>2 DEF LoadFails
    <3>2. QED
      BY <3>1 DEF CallInv, Encrypts, HasText, Rewriting
  <2>3. CASE LoadToEncrypt(p)
    <3>1. /\ pc[p] \in {"encrypting", "sealing"} /\ step[p] = "encrypt"
          /\ keys[target[p]] \in Keys \union {NoKey} /\ target[p] \in Tenants
      BY <2>3 DEF LoadToEncrypt
    <3>2. p \in DOMAIN material /\ p \in DOMAIN step /\ p \in DOMAIN view
      BY DEF TypeInv
    <3>3. /\ material'[p] \in Keys'
          /\ step'[p] \in {"truncate", "done"}
          /\ step'[p] = "truncate" => view'[p][target[p]] = material'[p]
      <4>1. CASE NeedsKey(target[p])
        <5>1. /\ generated' = generated + 1
              /\ material' = [material EXCEPT ![p] = generated + 1]
              /\ step' = [step EXCEPT ![p] = "truncate"]
              /\ view' = [view EXCEPT ![p] = [keys EXCEPT ![target[p]] = generated + 1]]
          BY <2>3, <4>1 DEF LoadToEncrypt
        <5>2. target[p] \in DOMAIN keys
          BY <3>1
        <5>3. material'[p] = generated + 1 /\ view'[p][target[p]] = generated + 1
          BY <3>2, <5>1, <5>2
        <5>4. generated + 1 \in Keys'
          BY <5>1 DEF Keys
        <5>5. QED
          BY <3>2, <5>1, <5>3, <5>4
      <4>2. CASE ~NeedsKey(target[p])
        <5>1. /\ material' = [material EXCEPT ![p] = keys[target[p]]]
              /\ step' = [step EXCEPT ![p] = "done"]
          BY <2>3, <4>2 DEF LoadToEncrypt
        <5>2. keys[target[p]] \in Keys
          BY <3>1, <4>2 DEF NeedsKey
        <5>3. QED
          BY <3>2, <5>1, <5>2
      <4>3. QED
        BY <4>1, <4>2
    <3>4. QED
      BY <3>1, <3>3 DEF CallInv, Encrypts, HasText, Rewriting
  <2>4. CASE LoadToDestroy(p)
    <3>1. /\ pc[p] = "erasing" /\ step'[p] = "truncate" /\ target[p] \in Tenants
          /\ view'[p] = [keys EXCEPT ![target[p]] = NoKey]
      BY <2>4 DEF LoadToDestroy
    <3>2. view'[p][target[p]] = NoKey
      BY <3>1
    <3>3. QED
      BY <3>1, <3>2 DEF CallInv, Encrypts, HasText, Rewriting
  <2>5. CASE Truncate(p) \/ Save(p)
    <3>1. /\ pc[p] \in {"encrypting", "sealing", "erasing"}
          /\ step[p] \in {"truncate", "save"} /\ step'[p] \in {"save", "done"}
          /\ view' = view /\ material' = material
      BY <2>5 DEF Truncate, Save
    <3>2. QED
      BY <3>1 DEF CallInv, Encrypts, HasText, Rewriting
  <2>6. QED
    BY <1>1, <2>2, <2>3, <2>4, <2>5 DEF KeyStep
<1>9. \A q \in Processes : CallInv(q)'
  BY <1>2, <1>3, <1>8, OthersStand DEF TypeInv
<1>10. Text \subseteq Text'
  BY <1>3 DEF Text
<1>11. \A q \in Processes : TenantFor(q)' = TenantFor(q)
  BY <1>2 DEF TenantFor
<1>12. QED
  BY <1>2, <1>3, <1>7, <1>9, <1>10, <1>11 DEF TypeInv, ArtifactTypeOK

-----------------------------------------------------------------------------
(* Types and numbers: every step. *)

LEMMA DestroyTenantKeepsType ==
  ASSUME TypeInv, NEW t \in Tenants, DestroyTenant(t)
  PROVE  TypeInv'
<1>1. /\ UNCHANGED <<keys, length, whole, generated, erased, raced, step, target, view, material,
                     versions, payloads, headLock, pc, artifact, ciphertext, number, appends,
                     crashes>>
      /\ erasures' = erasures + 1
      /\ blobs' \subseteq blobs
      /\ \A c \in shredded' : c \in shredded \/ \E b \in blobs : c = b.bytes
  BY DEF DestroyTenant, keyVars, fileVars, callVars, rowVars, appendVars
<1>2. Keys' = Keys /\ Text' = Text /\ CountKeys(keys)' = CountKeys(keys)
  BY <1>1 DEF Keys, Text, CountKeys
<1>3. KeyTypeOK'
  BY <1>1, <1>2 DEF TypeInv, ArtifactTypeOK, KeyTypeOK
<1>4. \A q \in Processes : CallInv(q)'
  BY <1>1, <1>2, OthersStand DEF TypeInv
<1>5. \A q \in Processes : TenantFor(q)' = TenantFor(q)
  BY <1>1 DEF TenantFor
<1>6. QED
  BY <1>1, <1>2, <1>3, <1>4, <1>5 DEF TypeInv, ArtifactTypeOK

\* What an append ends with, whatever it ends by.
LEMMA EndsKeepType ==
  ASSUME TypeInv, NumberInv, NEW p \in Processes,
         CommitAppend(p) \/ FailAppend(p) \/ Die(p) \/ EndErasure(p)
  PROVE  TypeInv'
<1>1. Close(p)
  BY DEF CommitAppend, FailAppend, Die, EndErasure
<1>2. crashes' \in Nat
  BY DEF CommitAppend, FailAppend, Die, EndErasure, TypeInv, ArtifactTypeOK
<1>3. CASE CommitAppend(p)
  <2>1. artifact[p] \in Artifact /\ number[p] = Rows(artifact[p]) + 1
    BY <1>3 DEF CommitAppend, TypeInv, CallInv, Encrypts, NumberInv, Inserted
  <2>2. Rows(artifact[p]) \in Nat
    BY RowsType DEF NumberInv
  <2>3. number[p] \in Nat \ {0}
    BY <2>1, <2>2
  <2>4. QED
    BY <1>1, <1>2, <1>3, <2>3, CloseKeepsType DEF CommitAppend
<1>4. CASE FailAppend(p) \/ Die(p) \/ EndErasure(p)
  BY <1>1, <1>2, <1>4, CloseKeepsType DEF FailAppend, Die, EndErasure
<1>5. QED
  BY <1>3, <1>4

LEMMA NextKeepsType == TypeInv /\ NumberInv /\ [Next]_vars => TypeInv'
<1> SUFFICES ASSUME TypeInv, NumberInv, [Next]_vars PROVE TypeInv'
  OBVIOUS
<1>1. CASE UNCHANGED vars
  <2>1. /\ UNCHANGED <<keys, length, whole, generated, erased, raced, step, target, view,
                       material>>
        /\ UNCHANGED <<versions, payloads, headLock, pc, artifact, ciphertext, number, blobs,
                       shredded, appends, erasures, crashes>>
    BY <1>1 DEF vars, keyVars, fileVars, callVars, artifactVars, rowVars, appendVars, boundVars
  <2>2. Keys' = Keys /\ Text' = Text /\ CountKeys(keys)' = CountKeys(keys)
    BY <2>1 DEF Keys, Text, CountKeys
  <2>3. KeyTypeOK'
    BY <2>1, <2>2 DEF TypeInv, ArtifactTypeOK, KeyTypeOK
  <2>4. \A q \in Processes : CallInv(q)'
    BY <2>1, <2>2, OthersStand DEF TypeInv
  <2>5. \A q \in Processes : TenantFor(q)' = TenantFor(q)
    BY <2>1 DEF TenantFor
  <2>6. QED
    BY <2>1, <2>2, <2>3, <2>4, <2>5 DEF TypeInv, ArtifactTypeOK
<1>2. ASSUME NEW p \in Processes,
             \/ \E a \in Artifact, c \in Contents : BeginAppend(p, a, c)
             \/ UseKeys(p) \/ PutBlob(p) \/ ReadNumber(p)
      PROVE  TypeInv'
  BY <1>2, BeginAppendKeepsType, UseKeysKeepsType, PutBlobKeepsType, ReadNumberKeepsType
<1>3. ASSUME NEW p \in Processes,
             \/ InsertVersion(p) \/ LockHead(p) \/ SealRecord(p)
             \/ CommitAppend(p) \/ FailAppend(p) \/ Die(p) \/ EndErasure(p)
             \/ \E t \in Tenants : BeginErasure(p, t)
      PROVE  TypeInv'
  BY <1>3, InsertVersionKeepsType, LockHeadKeepsType, EndsKeepType, BeginErasureKeepsType
<1>4. ASSUME NEW t \in Tenants, DestroyTenant(t) PROVE TypeInv'
  BY <1>4, DestroyTenantKeepsType
<1>5. QED
  BY <1>1, <1>2, <1>3, <1>4 DEF Next

-----------------------------------------------------------------------------

\* A step that commits nothing, after which nobody has read or inserted a number anew.
LEMMA NumbersStand ==
  ASSUME NumberInv, versions' = versions,
         \A q \in Processes :
           pc'[q] = "inserting" \/ Inserted(q)' =>
             /\ pc'[q] = "inserting" => pc[q] = "inserting"
             /\ Inserted(q)' => Inserted(q)
             /\ number'[q] = number[q] /\ artifact'[q] = artifact[q]
  PROVE  NumberInv'
<1>1. \A a : Of(a)' = Of(a) /\ Rows(a)' = Rows(a)
  BY DEF Of, Rows
<1>2. VersionsGapless'
  BY <1>1 DEF NumberInv, VersionsGapless
<1>3. QED
  BY <1>1, <1>2 DEF NumberInv

LEMMA ReadNumberKeepsNumbers ==
  ASSUME TypeInv, NumberInv, NEW p \in Processes, ReadNumber(p)
  PROVE  NumberInv'
<1>1. /\ pc[p] = "numbering" /\ pc' = [pc EXCEPT ![p] = "inserting"]
      /\ number' = [number EXCEPT ![p] = Max({v.number : v \in Of(artifact[p])} \union {0}) + 1]
      /\ artifact' = artifact /\ versions' = versions
  BY DEF ReadNumber, Goto, rowVars
<1>2. artifact[p] \in Artifact
  BY <1>1 DEF TypeInv, CallInv, HasText
<1>3. number' = [number EXCEPT ![p] = Rows(artifact[p]) + 1] /\ Rows(artifact[p]) \in Nat
  BY <1>1, <1>2, HighestNumber, RowsType DEF NumberInv
<1>4. \A a : Of(a)' = Of(a) /\ Rows(a)' = Rows(a)
  BY <1>1 DEF Of, Rows
<1>5. /\ pc'[p] = "inserting" /\ number'[p] = Rows(artifact[p]) + 1
      /\ \A q \in Processes \ {p} : pc'[q] = pc[q] /\ number'[q] = number[q]
  BY <1>1, <1>3 DEF TypeInv, ArtifactTypeOK
<1>6. VersionsGapless'
  BY <1>1, <1>4 DEF NumberInv, VersionsGapless
<1>7. /\ ~Inserted(p)' /\ IsFiniteSet(versions')
      /\ \A q \in Processes \ {p} : Inserted(q)' = Inserted(q)
  BY <1>1, <1>5 DEF NumberInv, Inserted
<1>8. \A q \in Processes : pc'[q] = "inserting" => number'[q] \in 1 .. Rows(artifact[q])' + 1
  BY <1>1, <1>3, <1>4, <1>5 DEF NumberInv
<1>9. QED
  BY <1>1, <1>4, <1>5, <1>6, <1>7, <1>8 DEF NumberInv

\* The number that is free is the next one.
LEMMA InsertVersionKeepsNumbers ==
  ASSUME TypeInv, NumberInv, NEW p \in Processes, InsertVersion(p)
  PROVE  NumberInv'
<1>1. /\ pc[p] = "inserting" /\ ~NumberTaken(p) /\ ~NumberHeld(p)
      /\ pc' = [pc EXCEPT ![p] = "auditing"]
      /\ artifact' = artifact /\ versions' = versions /\ number' = number
  BY DEF InsertVersion, Goto, rowVars, NumberFree
<1>2. artifact[p] \in Artifact /\ Rows(artifact[p]) \in Nat
  BY <1>1, RowsType DEF TypeInv, CallInv, HasText, NumberInv
<1>3. number[p] = Rows(artifact[p]) + 1
  <2>1. number[p] \in 1 .. Rows(artifact[p]) + 1
    BY <1>1 DEF NumberInv
  <2>2. number[p] \notin {v.number : v \in Of(artifact[p])}
    BY <1>1 DEF NumberTaken
  <2>3. number[p] \notin 1 .. Rows(artifact[p])
    BY <1>2, <2>2 DEF NumberInv, VersionsGapless, Rows
  <2>4. QED
    BY <1>2, <2>1, <2>3
<1>4. \A q \in Processes \ {p} : Inserted(q) => artifact[q] # artifact[p]
  BY <1>1, <1>3 DEF NumberInv, NumberHeld
<1>5. \A a : Of(a)' = Of(a) /\ Rows(a)' = Rows(a)
  BY <1>1 DEF Of, Rows
<1>6. /\ pc'[p] = "auditing" /\ Inserted(p)'
      /\ \A q \in Processes \ {p} : pc'[q] = pc[q] /\ Inserted(q)' = Inserted(q)
  BY <1>1 DEF TypeInv, ArtifactTypeOK, Inserted
<1>7. VersionsGapless'
  BY <1>1, <1>5 DEF NumberInv, VersionsGapless
<1>8. QED
  BY <1>1, <1>3, <1>4, <1>5, <1>6, <1>7 DEF NumberInv

LEMMA CommitAppendKeepsNumbers ==
  ASSUME TypeInv, NumberInv, NEW p \in Processes, CommitAppend(p)
  PROVE  NumberInv'
<1>0. PICK a : a = artifact[p]
  OBVIOUS
<1>00. PICK n : n = Rows(a)
  OBVIOUS
<1>1. /\ pc[p] = "committing" /\ pc' = [pc EXCEPT ![p] = "idle"]
      /\ versions' = versions \union {Version(p)}
      /\ \A q \in Processes \ {p} : artifact'[q] = artifact[q] /\ number'[q] = number[q]
  BY DEF CommitAppend, Close, Goto
<1>2. a \in Artifact /\ number[p] = n + 1 /\ n \in Nat /\ IsFiniteSet(Of(a))
  BY <1>0, <1>00, <1>1, RowsType DEF TypeInv, CallInv, Encrypts, NumberInv, Inserted
<1>3. Version(p).artifact = a /\ Version(p).number = n + 1
  BY <1>0, <1>2 DEF Version
<1>4. {v.number : v \in Of(a)} = 1 .. n
  BY <1>00, <1>2 DEF NumberInv, VersionsGapless, Rows
<1>5. Version(p) \notin Of(a)
  <2>1. n + 1 \notin {v.number : v \in Of(a)}
    BY <1>2, <1>4
  <2>2. QED
    BY <1>3, <2>1
<1>6. Of(a)' = Of(a) \union {Version(p)} /\ \A b : b # a => Of(b)' = Of(b)
  <2>1. \A b : Of(b)' = {v \in versions \union {Version(p)} : v.artifact = b}
    BY <1>1 DEF Of
  <2>2. QED
    BY <1>3, <2>1 DEF Of
<1>7. Rows(a)' = n + 1 /\ \A b : b # a => Rows(b)' = Rows(b)
  <2>1. Cardinality(Of(a) \union {Version(p)}) = Cardinality(Of(a)) + 1
    BY <1>2, <1>5, FS_AddElement
  <2>2. QED
    BY <1>00, <1>6, <2>1 DEF Rows
<1>8. IsFiniteSet(versions')
  BY <1>1, FS_AddElement DEF NumberInv
<1>9. VersionsGapless'
  <2>1. {v.number : v \in Of(a) \union {Version(p)}} = 1 .. n + 1
    <3>1. {v.number : v \in Of(a) \union {Version(p)}} = {v.number : v \in Of(a)} \union {n + 1}
      BY <1>3
    <3>2. QED
      BY <1>2, <1>4, <3>1
  <2>2. \A b \in Artifact : {v.number : v \in Of(b)'} = 1 .. Rows(b)'
    <3>1. {v.number : v \in Of(a)'} = 1 .. Rows(a)'
      BY <1>6, <1>7, <2>1
    <3>2. \A b \in Artifact \ {a} : {v.number : v \in Of(b)'} = 1 .. Rows(b)'
      BY <1>6, <1>7 DEF NumberInv, VersionsGapless, Rows
    <3>3. QED
      BY <3>1, <3>2
  <2>3. QED
    BY <2>2 DEF VersionsGapless, Rows
<1>10. /\ pc'[p] = "idle" /\ \A q \in Processes \ {p} : pc'[q] = pc[q]
       /\ ~Inserted(p)' /\ Inserted(p)
       /\ \A q \in Processes \ {p} : Inserted(q)' = Inserted(q)
  BY <1>1 DEF TypeInv, ArtifactTypeOK, Inserted
<1>11. \A q \in Processes \ {p} : Inserted(q) => artifact[q] # a
  BY <1>0, <1>10 DEF NumberInv
<1>12. \A b : Rows(b) \in Nat
  BY RowsType DEF NumberInv
<1>13. \A b : Rows(b)' = Rows(b) \/ (b = a /\ Rows(b)' = Rows(b) + 1)
  BY <1>00, <1>7
<1>14. QED
  BY <1>1, <1>8, <1>9, <1>10, <1>11, <1>12, <1>13 DEF NumberInv

LEMMA NextKeepsNumbers == TypeInv /\ NumberInv /\ [Next]_vars => NumberInv'
<1> SUFFICES ASSUME TypeInv, NumberInv, [Next]_vars PROVE NumberInv'
  OBVIOUS
<1>1. CASE UNCHANGED vars
  <2>1. UNCHANGED <<versions, pc, number, artifact>>
    BY <1>1 DEF vars, artifactVars, rowVars, appendVars
  <2>2. QED
    BY <2>1, NumbersStand DEF Inserted
<1>2. ASSUME NEW p \in Processes,
             \/ \E a \in Artifact, c \in Contents : BeginAppend(p, a, c)
             \/ UseKeys(p) \/ PutBlob(p) \/ LockHead(p) \/ SealRecord(p)
             \/ FailAppend(p) \/ Die(p) \/ EndErasure(p)
             \/ \E t \in Tenants : BeginErasure(p, t)
      PROVE  NumberInv'
  <2>1. versions' = versions
    BY <1>2
    DEF BeginAppend, UseKeys, PutBlob, LockHead, SealRecord, FailAppend, Die, EndErasure,
        BeginErasure, artifactVars, rowVars
  <2>2. \A q \in Processes \ {p} :
          pc'[q] = pc[q] /\ number'[q] = number[q] /\ artifact'[q] = artifact[q]
    BY <1>2
    DEF BeginAppend, UseKeys, PutBlob, LockHead, SealRecord, FailAppend, Die, EndErasure,
        BeginErasure, artifactVars, appendVars, Close, Goto, TypeInv, ArtifactTypeOK
  <2>3. \/ pc'[p] \in {"encrypting", "numbering", "idle", "erasing"}
        \/ pc' = pc /\ number' = number /\ artifact' = artifact
        \/ Inserted(p) /\ Inserted(p)' /\ number' = number /\ artifact' = artifact
    BY <1>2
    DEF BeginAppend, UseKeys, PutBlob, LockHead, SealRecord, FailAppend, Die, EndErasure,
        BeginErasure, artifactVars, appendVars, Close, Goto, TypeInv, ArtifactTypeOK, Inserted
  <2>4. QED
    BY <2>1, <2>2, <2>3, NumbersStand DEF Inserted
<1>3. ASSUME NEW t \in Tenants, DestroyTenant(t) PROVE NumberInv'
  <2>1. UNCHANGED <<versions, pc, number, artifact>>
    BY <1>3 DEF DestroyTenant, rowVars, appendVars
  <2>2. QED
    BY <2>1, NumbersStand DEF Inserted
<1>4. QED
  BY <1>1, <1>2, <1>3, ReadNumberKeepsNumbers, InsertVersionKeepsNumbers,
     CommitAppendKeepsNumbers DEF Next

LEMMA InitNumberInv == Init => NumberInv
<1> SUFFICES ASSUME Init PROVE NumberInv
  OBVIOUS
<1>1. \A a : Of(a) = {} /\ Rows(a) = 0
  BY FS_EmptySet DEF Init, Of, Rows
<1>2. VersionsGapless
  BY <1>1 DEF VersionsGapless, Rows
<1>3. QED
  BY <1>1, <1>2, FS_EmptySet DEF Init, NumberInv, Inserted

LEMMA AlwaysTyped == Spec => [](TypeInv /\ NumberInv)
<1>1. Init => TypeInv /\ NumberInv
  BY InitTypeInv, InitNumberInv
<1>2. TypeInv /\ NumberInv /\ [Next]_vars => (TypeInv /\ NumberInv)'
  BY NextKeepsType, NextKeepsNumbers
<1>3. QED
  BY <1>1, <1>2, PTL DEF Spec

\* Rows, blobs, locks and the key file hold values of the right kind, whatever appends,
\* erasures and rewrites of the file overlap; who has the chain's head is sealing or
\* committing.
THEOREM ArtifactTypeCorrect == Spec => []ArtifactTypeOK
<1>1. TypeInv => ArtifactTypeOK
  BY DEF TypeInv
<1>2. QED
  BY <1>1, AlwaysTyped, PTL

-----------------------------------------------------------------------------
(* Blobs. *)

\* A step that puts and destroys nothing, after which nobody has begun an append anew.
LEMMA BlobsStand ==
  ASSUME TypeInv, BlobInv, UNCHANGED <<blobs, shredded, appends>>,
         \A v \in versions' : v \in versions \/ IsPut(v.text),
         \A q \in Processes :
           \/ /\ ciphertext'[q] = ciphertext[q]
              /\ HasText(q)' => HasText(q)
              /\ pc'[q] = "encrypting" => pc[q] = "encrypting"
           \/ ciphertext'[q] = NoText /\ ~HasText(q)' /\ pc'[q] # "encrypting"
  PROVE  BlobInv'
<1>1. \A c : IsPut(c)' = IsPut(c) /\ Blob(c)' = Blob(c)
  BY DEF IsPut, Blob, Digest
<1>2. NoText.nonce = 0
  BY DEF NoText
<1>3. appends \in Nat
  BY DEF TypeInv, ArtifactTypeOK
<1>4. \A q \in Processes : pc[q] = "encrypting" => ciphertext[q].nonce # 0
  BY DEF TypeInv, CallInv, Encrypts, Text
<1>5. \A q \in Processes : ciphertext'[q].nonce \in {ciphertext[q].nonce, 0}
  BY <1>2
<1>6. \A q \in Processes : pc'[q] = "encrypting" =>
        pc[q] = "encrypting" /\ ciphertext'[q] = ciphertext[q]
  OBVIOUS
<1>7. \A q \in Processes : HasText(q)' => HasText(q) /\ ciphertext'[q] = ciphertext[q]
  OBVIOUS
<1>8. /\ \A v \in versions' : IsPut(v.text)'
      /\ \A q \in Processes : HasText(q)' => IsPut(ciphertext[q])'
  <2>1. \A q \in Processes : HasText(q)' => IsPut(ciphertext'[q])
    BY <1>7 DEF BlobInv
  <2>2. QED
    BY <1>1, <2>1 DEF BlobInv, IsPut, Blob, Digest
<1>9. \A q \in Processes : ciphertext'[q].nonce <= appends'
  BY <1>3, <1>5 DEF BlobInv
<1>10. \A q \in Processes : pc'[q] = "encrypting" =>
         \A r \in Processes \ {q} : ciphertext'[r].nonce # ciphertext'[q].nonce
  BY <1>4, <1>5, <1>6 DEF BlobInv
<1>11. QED
  BY <1>1, <1>6, <1>8, <1>9, <1>10 DEF BlobInv

\* An append begins with a text that nobody has seen.
LEMMA BeginAppendKeepsBlobs ==
  ASSUME TypeInv, BlobInv, NEW p \in Processes, NEW a \in Artifact, NEW c \in Contents,
         BeginAppend(p, a, c)
  PROVE  BlobInv'
<1>1. /\ pc[p] = "idle" /\ pc' = [pc EXCEPT ![p] = "encrypting"] /\ appends' = appends + 1
      /\ UNCHANGED <<versions, blobs, shredded>>
      /\ \A q \in Processes \ {p} : ciphertext'[q] = ciphertext[q]
      /\ ciphertext'[p].nonce = appends + 1
  BY DEF BeginAppend, Goto, rowVars, TypeInv
<1>2. \A d : IsPut(d)' = IsPut(d) /\ Blob(d)' = Blob(d)
  BY <1>1 DEF IsPut, Blob, Digest
<1>3. /\ pc'[p] = "encrypting" /\ ~HasText(p)'
      /\ \A q \in Processes \ {p} : pc'[q] = pc[q] /\ HasText(q)' = HasText(q)
  BY <1>1 DEF TypeInv, ArtifactTypeOK, HasText
<1>4. appends \in Nat
  BY DEF TypeInv, ArtifactTypeOK
<1>5. /\ \A b \in blobs : b.bytes.nonce \in Nat
      /\ \A d \in shredded : d.nonce \in Nat
      /\ \A q \in Processes : ciphertext[q].nonce \in Nat
  BY DEF TypeInv, ArtifactTypeOK, Text, NoText
<1>6. /\ \A v \in versions' : IsPut(v.text)'
      /\ \A q \in Processes : HasText(q)' => IsPut(ciphertext[q])'
  <2>1. \A q \in Processes : HasText(q)' => IsPut(ciphertext'[q])
    BY <1>1, <1>3 DEF BlobInv
  <2>2. QED
    BY <1>1, <1>2, <2>1 DEF BlobInv, IsPut, Blob, Digest
<1>7. /\ \A b \in blobs' : b.bytes.nonce <= appends'
      /\ \A d \in shredded' : d.nonce <= appends'
      /\ \A q \in Processes : ciphertext'[q].nonce <= appends'
  BY <1>1, <1>4, <1>5 DEF BlobInv
<1>8. \A q \in Processes : pc'[q] = "encrypting" =>
        /\ \A b \in blobs' : b.bytes.nonce # ciphertext'[q].nonce
        /\ \A d \in shredded' : d.nonce # ciphertext'[q].nonce
        /\ \A r \in Processes \ {q} : ciphertext'[r].nonce # ciphertext'[q].nonce
  BY <1>1, <1>3, <1>4, <1>5 DEF BlobInv
<1>9. QED
  BY <1>1, <1>2, <1>6, <1>7, <1>8 DEF BlobInv

\* A put adds its own text, which was nowhere, and touches no other blob.
LEMMA PutBlobKeepsBlobs ==
  ASSUME TypeInv, BlobInv, NEW p \in Processes, PutBlob(p)
  PROVE  BlobInv'
<1>0. PICK c : c = [ciphertext[p] EXCEPT !.key = material[p]]
  OBVIOUS
<1>1. /\ pc[p] = "encrypting" /\ pc' = [pc EXCEPT ![p] = "numbering"]
      /\ ciphertext' = [ciphertext EXCEPT ![p] = c]
      /\ blobs' = (blobs \ At(c)) \union {Blob(c)}
      /\ UNCHANGED <<versions, shredded, appends>>
  BY <1>0 DEF PutBlob, Goto, rowVars, boundVars, Digest
<1>2. ciphertext[p] \in Text
  BY <1>1 DEF TypeInv, CallInv, Encrypts
<1>3. c.nonce = ciphertext[p].nonce
  BY <1>0, <1>2 DEF Text
<1>4. (\A b \in blobs : b.bytes # c) /\ c \notin shredded
  BY <1>1, <1>3 DEF BlobInv
<1>5. Blob(c).bytes = c /\ Blob(c).path = c /\ \A d : Blob(d) = Blob(c) => d = c
  BY DEF Blob, Digest
<1>6. At(c) = {} /\ Blob(c) \notin blobs
  BY <1>4, <1>5 DEF At, BlobInv, Blob, Digest
<1>7. blobs' = blobs \union {Blob(c)}
  BY <1>1, <1>6
<1>8. ~IsPut(c)
  BY <1>4, <1>6 DEF IsPut
<1>9. \A d : Blob(d)' = Blob(d) /\ (IsPut(d)' <=> d = c \/ IsPut(d))
  BY <1>1, <1>4, <1>5, <1>7 DEF IsPut, Blob, Digest
<1>10. /\ pc'[p] = "numbering" /\ ciphertext'[p] = c
       /\ \A q \in Processes \ {p} : /\ pc'[q] = pc[q] /\ ciphertext'[q] = ciphertext[q]
                                     /\ HasText(q)' = HasText(q)
  BY <1>1 DEF TypeInv, ArtifactTypeOK, HasText
<1>11. \A b \in blobs' : b = Blob(b.bytes)'
  BY <1>5, <1>7, <1>9 DEF BlobInv
<1>12. \A d \in shredded' : (Blob(d) \notin blobs)'
  <2>1. \A d \in shredded : Blob(d) \notin blobs'
    BY <1>4, <1>5, <1>7 DEF BlobInv
  <2>2. QED
    BY <1>1, <2>1 DEF Blob, Digest
<1>13. /\ \A v \in versions' : IsPut(v.text)'
       /\ \A q \in Processes : HasText(q)' => IsPut(ciphertext[q])'
  <2>1. \A q \in Processes : HasText(q)' => ciphertext'[q] = c \/ IsPut(ciphertext'[q])
    BY <1>10 DEF BlobInv
  <2>2. IsPut(c)'
    BY <1>9
  <2>3. \A q \in Processes : HasText(q)' => IsPut(ciphertext[q])'
    BY <1>1, <1>4, <1>5, <1>7, <2>1 DEF IsPut, Blob, Digest
  <2>4. \A v \in versions' : IsPut(v.text)'
    BY <1>1, <1>9 DEF BlobInv
  <2>5. QED
    BY <2>3, <2>4
<1>14. /\ \A b \in blobs' : b.bytes.nonce <= appends'
       /\ \A d \in shredded' : d.nonce <= appends'
       /\ \A q \in Processes : ciphertext'[q].nonce <= appends'
  BY <1>1, <1>3, <1>5, <1>7, <1>10 DEF BlobInv
<1>15. \A q \in Processes : pc'[q] = "encrypting" =>
         /\ \A b \in blobs' : b.bytes.nonce # ciphertext'[q].nonce
         /\ \A d \in shredded' : d.nonce # ciphertext'[q].nonce
         /\ \A r \in Processes \ {q} : ciphertext'[r].nonce # ciphertext'[q].nonce
  BY <1>1, <1>3, <1>5, <1>7, <1>10 DEF BlobInv
<1>16. QED
  BY <1>11, <1>12, <1>13, <1>14, <1>15 DEF BlobInv

\* A blob that is destroyed is remembered as such.
LEMMA DestroyTenantKeepsBlobs ==
  ASSUME TypeInv, BlobInv, NEW t \in Tenants, DestroyTenant(t)
  PROVE  BlobInv'
<1>0. PICK gone \in SUBSET {b \in blobs : b.bytes.tenant = t} :
        blobs' = blobs \ gone /\ shredded' = shredded \union {b.bytes : b \in gone}
  BY DEF DestroyTenant
<1>1. /\ blobs' = blobs \ gone /\ shredded' = shredded \union {b.bytes : b \in gone}
      /\ gone \subseteq blobs
      /\ UNCHANGED <<versions, appends, pc, ciphertext>>
  BY <1>0 DEF DestroyTenant, rowVars, appendVars
<1>2. \A d : Blob(d)' = Blob(d) /\ Blob(d).bytes = d
  BY DEF Blob, Digest
<1>3. \A b \in blobs : b = Blob(b.bytes)
  BY DEF BlobInv
<1>4. \A d : d \in shredded' <=> d \in shredded \/ Blob(d) \in gone
  BY <1>0, <1>1, <1>2, <1>3
<1>5. \A d : IsPut(d) => IsPut(d)'
  BY <1>0, <1>1, <1>2, <1>4 DEF IsPut
<1>6. \A q \in Processes : HasText(q)' = HasText(q)
  BY <1>1 DEF HasText
<1>7. /\ \A v \in versions' : IsPut(v.text)'
      /\ \A q \in Processes : HasText(q)' => IsPut(ciphertext[q])'
  BY <1>1, <1>5, <1>6 DEF BlobInv, IsPut, Blob, Digest
<1>8. \A d \in shredded' : (Blob(d) \notin blobs)'
  BY <1>1, <1>2, <1>4 DEF BlobInv
<1>9. \A d \in shredded' : d \in shredded \/ \E b \in blobs : d = b.bytes
  BY <1>0, <1>1
<1>10. QED
  BY <1>0, <1>1, <1>2, <1>7, <1>8, <1>9 DEF BlobInv

LEMMA NextKeepsBlobs == TypeInv /\ BlobInv /\ [Next]_vars => BlobInv'
<1> SUFFICES ASSUME TypeInv, BlobInv, [Next]_vars PROVE BlobInv'
  OBVIOUS
<1>1. CASE UNCHANGED vars
  <2>1. UNCHANGED <<versions, pc, ciphertext, blobs, shredded, appends>>
    BY <1>1 DEF vars, artifactVars, rowVars, appendVars, boundVars
  <2>2. QED
    BY <2>1, BlobsStand DEF HasText
<1>2. ASSUME NEW p \in Processes,
             \/ UseKeys(p) \/ ReadNumber(p) \/ InsertVersion(p) \/ LockHead(p) \/ SealRecord(p)
             \/ \E t \in Tenants : BeginErasure(p, t)
      PROVE  BlobInv'
  <2>1. UNCHANGED <<versions, ciphertext, blobs, shredded, appends>>
    BY <1>2
    DEF UseKeys, ReadNumber, InsertVersion, LockHead, SealRecord, BeginErasure, rowVars,
        boundVars, artifactVars, appendVars
  <2>2. \/ pc' = pc
        \/ HasText(p) /\ \E l \in PC : l # "encrypting" /\ pc' = [pc EXCEPT ![p] = l]
        \/ pc' = [pc EXCEPT ![p] = "erasing"]
    BY <1>2
    DEF UseKeys, ReadNumber, InsertVersion, LockHead, SealRecord, BeginErasure, artifactVars,
        appendVars, Goto, HasText, PC
  <2>3. \A q \in Processes : /\ HasText(q)' => HasText(q)
                             /\ pc'[q] = "encrypting" => pc[q] = "encrypting"
    BY <2>2 DEF HasText, TypeInv, ArtifactTypeOK
  <2>4. QED
    BY <2>1, <2>3, BlobsStand
<1>3. ASSUME NEW p \in Processes, CommitAppend(p) \/ FailAppend(p) \/ Die(p) \/ EndErasure(p)
      PROVE  BlobInv'
  <2>1. /\ UNCHANGED <<blobs, shredded, appends>>
        /\ ciphertext' = [ciphertext EXCEPT ![p] = NoText] /\ pc' = [pc EXCEPT ![p] = "idle"]
    BY <1>3 DEF CommitAppend, FailAppend, Die, EndErasure, Close, Goto
  <2>2. \A v \in versions' : v \in versions \/ IsPut(v.text)
    <3>1. CASE CommitAppend(p)
      <4>1. versions' = versions \union {Version(p)} /\ Version(p).text = ciphertext[p]
        BY <3>1 DEF CommitAppend, Version
      <4>2. IsPut(ciphertext[p])
        BY <3>1 DEF CommitAppend, BlobInv, HasText
      <4>3. QED
        BY <4>1, <4>2
    <3>2. QED
      BY <1>3, <3>1 DEF FailAppend, Die, EndErasure
  <2>3. \A q \in Processes :
          \/ /\ ciphertext'[q] = ciphertext[q]
             /\ HasText(q)' => HasText(q)
             /\ pc'[q] = "encrypting" => pc[q] = "encrypting"
          \/ ciphertext'[q] = NoText /\ ~HasText(q)' /\ pc'[q] # "encrypting"
    BY <2>1 DEF HasText, TypeInv, ArtifactTypeOK
  <2>4. QED
    BY <2>1, <2>2, <2>3, BlobsStand
<1>4. ASSUME NEW t \in Tenants, DestroyTenant(t) PROVE BlobInv'
  BY <1>4, DestroyTenantKeepsBlobs
<1>5. QED
  BY <1>1, <1>2, <1>3, <1>4, BeginAppendKeepsBlobs, PutBlobKeepsBlobs DEF Next

LEMMA InitBlobInv == Init => BlobInv
BY DEF Init, BlobInv, HasText, NoText

LEMMA AlwaysPut == Spec => []BlobInv
<1>1. Init => BlobInv
  BY InitBlobInv
<1>2. TypeInv /\ BlobInv /\ [Next]_vars => BlobInv'
  BY NextKeepsBlobs
<1>3. QED
  BY <1>1, <1>2, AlwaysTyped, PTL DEF Spec

\* The versions of an artifact are numbered without a gap, and each one's blob holds what
\* it was committed with unless the tenant's blobs were destroyed: numbers are read without
\* a lock, but only one that is one higher than the rows can be inserted, by one append at
\* a time; and no put meets a file of the same name, for no two texts are equal.
THEOREM VersionsAlwaysStand == Spec => []VersionsStand
<1>1. NumberInv /\ BlobInv => VersionsStand
  <2> SUFFICES ASSUME NumberInv, BlobInv PROVE VersionsStand
    OBVIOUS
  <2>1. ASSUME NEW v \in versions, v.text \notin shredded
        PROVE  {b.bytes : b \in At(Digest(v.text))} = {v.text}
    <3>1. Blob(v.text) \in blobs /\ Blob(v.text).path = v.text /\ Blob(v.text).bytes = v.text
      BY <2>1 DEF BlobInv, IsPut, Blob, Digest
    <3>2. \A b \in blobs : b.path = b.bytes
      BY DEF BlobInv, Blob, Digest
    <3>3. At(v.text) = {Blob(v.text)}
      BY <3>1, <3>2 DEF At, BlobInv
    <3>4. QED
      BY <3>1, <3>3 DEF Digest
  <2>2. QED
    BY <2>1 DEF VersionsStand, NumberInv, BlobsBackVersions
<1>2. QED
  BY <1>1, AlwaysTyped, AlwaysPut, PTL

\* The versions of each artifact are numbered by their count, no number twice.
VersionsNumbered ==
  \A a \in Artifact :
    /\ Cardinality(Of(a)) \in Nat
    /\ \A n \in 1 .. Cardinality(Of(a)) : \E v \in Of(a) : v.number = n
    /\ \A v \in Of(a) : v.number \in 1 .. Cardinality(Of(a))
    /\ \A v, w \in Of(a) : v.number = w.number => v = w

LEMMA InvNumbersVersions == NumberInv => VersionsNumbered
<1> SUFFICES ASSUME NumberInv, NEW a \in Artifact
             PROVE  LET V == Of(a)  n == Cardinality(Of(a)) IN
                    /\ n \in Nat
                    /\ \A m \in 1 .. n : \E v \in V : v.number = m
                    /\ \A v \in V : v.number \in 1 .. n
                    /\ \A v, w \in V : v.number = w.number => v = w
  BY DEF VersionsNumbered
<1> DEFINE f == [v \in Of(a) |-> v.number]
<1>1. PICK n \in Nat : n = Cardinality(Of(a)) /\ IsFiniteSet(Of(a))
  BY RowsType DEF NumberInv, Rows
<1>2. {v.number : v \in Of(a)} = 1 .. n
  BY <1>1 DEF NumberInv, VersionsGapless
<1>3. f \in Surjection(Of(a), 1 .. n)
  BY <1>2 DEF Surjection
<1>4. Cardinality(1 .. n) = Cardinality(Of(a))
  BY <1>1, FS_Interval
<1>5. f \in Injection(Of(a), 1 .. n)
  <2> HIDE DEF f
  <2> QED
    BY <1>1, <1>3, <1>4, FS_SurjSameCardinalityImpliesInj
<1>6. \A v, w \in Of(a) : v.number = w.number => v = w
  BY <1>5 DEF Injection, IsInjective
<1>7. QED
  BY <1>1, <1>2, <1>6

\* The versions of an artifact are an append-only log: Artifacts implements AppendOnlyLog
\* (append_version inserts next_version_no, nothing rewrites a row, and erasure leaves rows
\* where they are).
THEOREM VersionsAreALog == Spec => VersionsOnlyGrow
<1> DEFINE log == [a \in Artifact |-> EntriesOf(a)]
           len == [a \in Artifact |-> Cardinality(Of(a))]
<1>1. Init => VersionLog!Init
  <2> SUFFICES ASSUME Init PROVE VersionLog!Init
    OBVIOUS
  <2>1. \A a : Of(a) = {} /\ EntriesOf(a) = {}
    BY DEF Init, Of, EntriesOf
  <2>2. QED
    BY <2>1, FS_EmptySet DEF VersionLog!Init
<1>2. TypeInv /\ NumberInv /\ VersionsNumbered /\ VersionsNumbered' /\ [Next]_vars
        => [\E o \in Artifact : VersionLog!Append(o)]_
             <<[a \in Artifact |-> EntriesOf(a)], [a \in Artifact |-> Cardinality(Of(a))]>>
  <2> SUFFICES ASSUME TypeInv, NumberInv, VersionsNumbered, VersionsNumbered', [Next]_vars
               PROVE  (\E o \in Artifact : VersionLog!Append(o)) \/ UNCHANGED versions
    BY DEF Of, EntriesOf
  <2>1. ASSUME ~\E p \in Processes : CommitAppend(p) PROVE UNCHANGED versions
    BY <2>1 DEF Next, BeginAppend, UseKeys, ReadNumber, InsertVersion, PutBlob, LockHead,
                SealRecord, FailAppend, Die, EndErasure, BeginErasure, DestroyTenant, vars,
                artifactVars, rowVars
  <2>2. ASSUME NEW p \in Processes, CommitAppend(p)
        PROVE  \E o \in Artifact : VersionLog!Append(o)
    <3>1. PICK a \in Artifact : a = artifact[p]
      BY <2>2 DEF CommitAppend, TypeInv, CallInv, Encrypts
    <3>2. /\ Version(p).artifact = a
          /\ versions' = versions \union {Version(p)}
      BY <2>2, <3>1 DEF CommitAppend, Version
    <3>3. number[p] = Rows(a) + 1
      BY <2>2, <3>1 DEF CommitAppend, NumberInv, Inserted
    <3>4. /\ Of(a)' = Of(a) \union {Version(p)}
          /\ \A b \in Artifact \ {a} : Of(b)' = Of(b)
      BY <3>2 DEF Of
    <3>5. /\ len[a] \in Nat /\ len'[a] \in Nat
          /\ \A v \in Of(a)' : v.number \in 1 .. len'[a]
          /\ \A n \in 1 .. len'[a] : \E v \in Of(a)' : v.number = n
          /\ \A v, w \in Of(a)' : v.number = w.number => v = w
      BY DEF VersionsNumbered
    <3>6. Version(p).number = len[a] + 1
      BY <3>3 DEF Version, Rows
    <3>7. len'[a] > len[a] /\ Version(p).number \in len[a] + 1 .. len'[a]
      BY <3>4, <3>5, <3>6
    <3>8. /\ log' = [log EXCEPT ![a] = log'[a]] /\ len' = [len EXCEPT ![a] = len'[a]]
          /\ log[a] \subseteq log'[a]
      <4>1. \A b \in Artifact \ {a} : log'[b] = log[b] /\ len'[b] = len[b]
        BY <3>4 DEF EntriesOf
      <4>2. log[a] \subseteq log'[a]
        BY <3>4 DEF EntriesOf
      <4>3. /\ log = [b \in Artifact |-> log[b]] /\ log' = [b \in Artifact |-> log'[b]]
            /\ len = [b \in Artifact |-> len[b]] /\ len' = [b \in Artifact |-> len'[b]]
        OBVIOUS
      <4> HIDE DEF log, len
      <4>4. QED
        BY <4>1, <4>2, <4>3
    <3>9. \A e \in log'[a] \ log[a] : e.seq \in len[a] + 1 .. len'[a]
      BY <3>4, <3>7 DEF EntriesOf
    <3>10. \A n \in len[a] + 1 .. len'[a] : \E e \in log'[a] : e.seq = n
      <4>1. ASSUME NEW v \in Of(a)' PROVE \E e \in log'[a] : e.seq = v.number
        <5>1. [seq |-> v.number, version |-> v] \in log'[a]
          BY DEF EntriesOf
        <5>2. QED
          BY <5>1
      <4>2. \A n \in len[a] + 1 .. len'[a] : n \in 1 .. len'[a]
        BY <3>5
      <4>3. QED
        BY <3>5, <4>1, <4>2
    <3>11. \A d, e \in log'[a] : d.seq = e.seq => d = e
      BY <3>5 DEF EntriesOf
    <3> HIDE DEF log, len
    <3>12. VersionLog!Append(a)
      BY <3>7, <3>8, <3>9, <3>10, <3>11 DEF VersionLog!Append, log, len
    <3>13. QED
      BY <3>12
  <2>3. QED
    BY <2>1, <2>2
<1>3. QED
  BY <1>1, <1>2, InvNumbersVersions, AlwaysTyped, PTL
     DEF Spec, VersionsOnlyGrow, VersionLog!Spec

-----------------------------------------------------------------------------
(* Keys. *)

LEMMA InUseIsGenerated ==
  ASSUME TypeInv, NEW t \in Tenants, NEW m, InUse(t, m)
  PROVE  m \in Keys
BY DEF InUse, TypeInv, ArtifactTypeOK, CallInv, HasText, Encrypts

\* A step that leaves the file and every rewrite alone, and takes no key into use.
LEMMA FileStands ==
  ASSUME FileInv, UNCHANGED fileVars,
         \A t \in Tenants : \A m : InUse(t, m)' => InUse(t, m),
         \A q \in Processes : Rewriting(q)' =>
           /\ step'[q] = step[q] /\ target'[q] = target[q]
           /\ view'[q] = view[q] /\ material'[q] = material[q]
  PROVE  FileInv'
<1>1. UNCHANGED <<keys, length, whole, generated, erased, raced>> /\ Keys' = Keys
  BY DEF fileVars, Keys
<1>2. \A q \in Processes : Rewriting(q)' =>
        /\ Rewriting(q) /\ IsDestroy(q)' = IsDestroy(q) /\ Removed(q)' = Removed(q)
  BY DEF Rewriting, IsDestroy, Removed
<1>3. ASSUME NEW q \in Processes, step'[q] = "truncate", ~raced
      PROVE  ViewFits(q)'
  <2>1. /\ Rewriting(q)' /\ ViewFits(q)
        /\ target'[q] = target[q] /\ view'[q] = view[q] /\ material'[q] = material[q]
    BY <1>3 DEF FileInv, Rewriting
  <2>2. IsDestroy(q)' = IsDestroy(q)
    BY <1>2, <2>1
  <2>3. QED
    BY <1>1, <2>1, <2>2 DEF ViewFits
<1>4. ASSUME NEW q \in Processes, step'[q] = "save", ~raced
      PROVE  /\ ~whole' /\ length' = 0
             /\ \A r \in Processes \ {q} : ~Rewriting(r)'
             /\ OpenAll(view[q], Removed(q))'
  <2>1. /\ Rewriting(q)' /\ step[q] = "save"
        /\ view'[q] = view[q] /\ Removed(q)' = Removed(q)
    BY <1>2, <1>4 DEF Rewriting
  <2>2. OpenAll(view[q], Removed(q))
    BY <1>4, <2>1 DEF FileInv
  <2>3. OpenAll(view[q], Removed(q))'
    BY <1>1, <2>1, <2>2 DEF OpenAll
  <2>4. QED
    BY <1>1, <1>2, <1>4, <2>1, <2>3 DEF FileInv
<1>5. ~raced /\ whole => OpenAll(keys, {})'
  BY <1>1 DEF FileInv, OpenAll
<1>6. QED
  BY <1>1, <1>3, <1>4, <1>5 DEF FileInv

\* What an operation does to its caller's steps.
LEMMA KeyStepFrame ==
  ASSUME TypeInv, NEW p \in Processes, KeyStep(p), UNCHANGED artifactVars
  PROVE  /\ UNCHANGED <<versions, payloads, pc, artifact, ciphertext>>
         /\ target' = target
         /\ \A q \in Processes \ {p} :
              step'[q] = step[q] /\ view'[q] = view[q] /\ material'[q] = material[q]
         /\ \A q \in Processes : HasText(q)' = HasText(q) /\ Encrypts(q)' = Encrypts(q)
                                 /\ TenantFor(q)' = TenantFor(q)
<1>1. /\ UNCHANGED <<versions, payloads, pc, artifact, ciphertext>> /\ target' = target
  BY DEF artifactVars, rowVars, appendVars, KeyStep, LoadFails, LoadToEncrypt, LoadToDestroy,
         Truncate, Save
<1>2. \A q \in Processes \ {p} :
        step'[q] = step[q] /\ view'[q] = view[q] /\ material'[q] = material[q]
  BY DEF KeyStep, LoadFails, LoadToEncrypt, LoadToDestroy, Truncate, Save, TypeInv,
         ArtifactTypeOK, KeyTypeOK
<1>3. QED
  BY <1>1, <1>2 DEF HasText, Encrypts, TenantFor

\* A key comes into use only when the operation that encrypts with it is done.
LEMMA KeyStepUse ==
  ASSUME TypeInv, NEW p \in Processes, KeyStep(p), UNCHANGED artifactVars,
         NEW t \in Tenants, NEW m, InUse(t, m)'
  PROVE  \/ InUse(t, m)
         \/ /\ Encrypts(p) /\ step'[p] = "done" /\ t = TenantFor(p) /\ t = target[p]
            /\ m = material'[p]
<1>1. /\ UNCHANGED <<versions, payloads, pc, artifact, ciphertext>>
      /\ \A q \in Processes \ {p} :
           step'[q] = step[q] /\ view'[q] = view[q] /\ material'[q] = material[q]
      /\ \A q \in Processes : HasText(q)' = HasText(q) /\ Encrypts(q)' = Encrypts(q)
                              /\ TenantFor(q)' = TenantFor(q)
  BY KeyStepFrame
<1>2. Encrypts(p) => target[p] = TenantFor(p)
  BY DEF TypeInv, CallInv
<1>3. QED
  BY <1>1, <1>2 DEF InUse

\* Who encrypts adds a key; who erases removes one.
LEMMA WhoDestroys ==
  ASSUME TypeInv, NEW p \in Processes, Rewriting(p)
  PROVE  /\ target[p] \in Tenants
         /\ IsDestroy(p) <=> pc[p] = "erasing"
         /\ ~IsDestroy(p) => Encrypts(p) /\ material[p] \in Keys /\ view[p][target[p]] = material[p]
<1>1. CallInv(p) /\ pc[p] \in PC
  BY DEF TypeInv, ArtifactTypeOK
<1>2. pc[p] = "erasing" \/ Encrypts(p)
  BY <1>1 DEF CallInv, Rewriting, Encrypts, PC
<1>3. CASE pc[p] = "erasing"
  BY <1>1, <1>3 DEF CallInv, IsDestroy, Encrypts
<1>4. CASE Encrypts(p)
  <2>1. artifact[p] \in Artifact /\ TenantFor(p) \in Tenants /\ target[p] = TenantFor(p)
    BY <1>1, <1>4, ArtifactAssumption DEF CallInv, TenantFor
  <2>2. material[p] \in Keys /\ view[p][target[p]] = material[p] /\ pc[p] # "erasing"
    BY <1>1, <1>4 DEF CallInv, Rewriting, Encrypts
  <2>3. material[p] # NoKey
    BY <2>2 DEF Keys, NoKey
  <2>4. QED
    BY <1>4, <2>1, <2>2, <2>3 DEF IsDestroy
<1>5. QED
  BY <1>2, <1>3, <1>4

LEMMA LoadFailsKeepsFile ==
  ASSUME TypeInv, FileInv, NEW p \in Processes, LoadFails(p), UNCHANGED artifactVars
  PROVE  FileInv'
<1>1. KeyStep(p)
  BY DEF KeyStep
<1>2. step'[p] = "failed" /\ UNCHANGED fileVars
  BY DEF LoadFails, TypeInv, ArtifactTypeOK, KeyTypeOK
<1>3. \A t \in Tenants : \A m : InUse(t, m)' => InUse(t, m)
  BY <1>1, <1>2, KeyStepUse
<1>4. \A q \in Processes : Rewriting(q)' =>
        /\ step'[q] = step[q] /\ target'[q] = target[q]
        /\ view'[q] = view[q] /\ material'[q] = material[q]
  BY <1>1, <1>2, KeyStepFrame DEF Rewriting
<1>5. QED
  BY <1>2, <1>3, <1>4, FileStands

\* The tenant's key is there: it comes into use, and nobody is about to generate it.
LEMMA UseOfKeyKeepsFile ==
  ASSUME TypeInv, FileInv, NEW p \in Processes, LoadToEncrypt(p), ~NeedsKey(target[p]),
         UNCHANGED artifactVars
  PROVE  FileInv'
<1>1. KeyStep(p)
  BY DEF KeyStep
<1>2. /\ whole /\ step[p] = "encrypt" /\ step'[p] = "done" /\ material'[p] = keys[target[p]]
      /\ keys[target[p]] # NoKey
      /\ UNCHANGED <<keys, length, whole, generated, erased, raced>> /\ Keys' = Keys
  BY DEF LoadToEncrypt, NeedsKey, TypeInv, ArtifactTypeOK, KeyTypeOK, Keys
<1>3. \A t \in Tenants : \A m : InUse(t, m)' =>
        InUse(t, m) \/ (t = target[p] /\ m = keys[t])
  BY <1>1, <1>2, KeyStepUse
<1>4. target[p] \in Tenants
  BY <1>2, ArtifactAssumption DEF TypeInv, CallInv, ArtifactTypeOK, PC, Encrypts, TenantFor
<1>5. \A q \in Processes : Rewriting(q)' =>
        /\ Rewriting(q) /\ q # p
        /\ step'[q] = step[q] /\ target'[q] = target[q]
        /\ view'[q] = view[q] /\ material'[q] = material[q]
        /\ IsDestroy(q)' = IsDestroy(q)
  BY <1>1, <1>2, KeyStepFrame DEF Rewriting, IsDestroy
<1>6. ASSUME ~raced PROVE OpenAll(keys, {})'
  <2>1. OpenAll(keys, {})
    BY <1>2, <1>6 DEF FileInv
  <2>2. QED
    BY <1>2, <1>3, <1>4, <2>1 DEF OpenAll
<1>7. ASSUME NEW q \in Processes, step'[q] = "truncate", ~raced
      PROVE  ViewFits(q)'
  <2>1. /\ Rewriting(q)' /\ step[q] = "truncate"
    BY <1>5, <1>7 DEF Rewriting
  <2>2. ViewFits(q)
    BY <1>7, <2>1 DEF FileInv
  <2>3. QED
    <3>1. CASE IsDestroy(q)
      BY <1>2, <1>5, <2>1, <2>2, <3>1 DEF ViewFits
    <3>2. CASE ~IsDestroy(q)
      <4>1. /\ keys[target[q]] = NoKey /\ view[q] = [keys EXCEPT ![target[q]] = material[q]]
            /\ material[q] \notin erased
            /\ \A t \in Tenants : keys[t] # material[q] /\ ~InUse(t, material[q])
        BY <2>2, <3>2 DEF ViewFits
      <4>2. /\ ~IsDestroy(q)' /\ target'[q] = target[q] /\ view'[q] = view[q]
            /\ material'[q] = material[q]
        BY <1>5, <2>1, <3>2
      <4>3. \A t \in Tenants : ~InUse(t, material[q])'
        <5>1. \A t \in Tenants : \A m : m = material[q] => ~InUse(t, m)'
          BY <1>3, <4>1
        <5>2. QED
          BY <4>2, <5>1 DEF InUse
      <4>4. QED
        BY <1>2, <4>1, <4>2, <4>3 DEF ViewFits
    <3>3. QED
      BY <3>1, <3>2
<1>8. \A q \in Processes : step'[q] = "save" => raced
  BY <1>2, <1>5 DEF FileInv, Rewriting
<1>9. QED
  BY <1>2, <1>6, <1>7, <1>8 DEF FileInv

\* A rewrite is decided on: the file is whole, and nobody who has emptied it is left.
LEMMA DecisionKeepsFile ==
  ASSUME TypeInv, FileInv, NEW p \in Processes, UNCHANGED artifactVars, KeyStep(p),
         whole, step'[p] = "truncate",
         UNCHANGED <<keys, length, whole, erased, raced>>, Keys \subseteq Keys',
         ~raced => ViewFits(p)'
  PROVE  FileInv'
<1>1. \A t \in Tenants : \A m : InUse(t, m)' => InUse(t, m)
  BY KeyStepUse
<1>2. \A q \in Processes \ {p} : Rewriting(q)' =>
        /\ Rewriting(q)
        /\ step'[q] = step[q] /\ target'[q] = target[q]
        /\ view'[q] = view[q] /\ material'[q] = material[q]
        /\ IsDestroy(q)' = IsDestroy(q)
  BY KeyStepFrame DEF Rewriting, IsDestroy
<1>3. ASSUME ~raced PROVE OpenAll(keys, {})'
  <2>1. OpenAll(keys, {})
    BY <1>3 DEF FileInv
  <2>2. \A t \in Tenants : \A m : InUse(t, m)' => InUse(t, m) /\ m \in Keys
    BY <1>1, InUseIsGenerated
  <2>3. QED
    BY <2>1, <2>2 DEF OpenAll
<1>4. ASSUME NEW q \in Processes \ {p}, step'[q] = "truncate", ~raced
      PROVE  ViewFits(q)'
  <2>1. /\ Rewriting(q)' /\ step[q] = "truncate"
    BY <1>2, <1>4 DEF Rewriting
  <2>2. ViewFits(q)
    BY <1>4, <2>1 DEF FileInv
  <2>3. QED
    BY <1>1, <1>2, <2>1, <2>2 DEF ViewFits
<1>5. \A q \in Processes : step'[q] = "save" => raced
  BY <1>2 DEF FileInv, Rewriting
<1>6. QED
  BY <1>3, <1>4, <1>5 DEF FileInv

LEMMA NewKeyKeepsFile ==
  ASSUME TypeInv, FileInv, NEW p \in Processes, LoadToEncrypt(p), NeedsKey(target[p]),
         UNCHANGED artifactVars
  PROVE  FileInv'
<1>0. PICK g : g = generated + 1
  OBVIOUS
<1>1. KeyStep(p)
  BY DEF KeyStep
<1>2. /\ whole /\ step[p] = "encrypt" /\ keys[target[p]] = NoKey
      /\ generated' = g /\ material' = [material EXCEPT ![p] = g]
      /\ view' = [view EXCEPT ![p] = [keys EXCEPT ![target[p]] = g]]
      /\ step' = [step EXCEPT ![p] = "truncate"]
      /\ UNCHANGED <<keys, length, whole, erased, raced, target>>
  BY <1>0 DEF LoadToEncrypt, NeedsKey
<1>3. g \notin Keys /\ g # NoKey /\ Keys \subseteq Keys'
  BY <1>0, <1>2 DEF Keys, NoKey, TypeInv, ArtifactTypeOK, KeyTypeOK
<1>4. target[p] \in Tenants
  BY <1>2, ArtifactAssumption DEF TypeInv, CallInv, ArtifactTypeOK, PC, Encrypts, TenantFor
<1>5. /\ step'[p] = "truncate" /\ material'[p] = g
      /\ view'[p] = [keys EXCEPT ![target[p]] = g] /\ view'[p][target[p]] = g
  BY <1>2, <1>4 DEF TypeInv, ArtifactTypeOK, KeyTypeOK
<1>6. \A t \in Tenants : ~InUse(t, g)' /\ keys[t] # g /\ g \notin erased
  <2>1. \A t \in Tenants : ~InUse(t, g)
    BY <1>3, InUseIsGenerated
  <2>2. \A t \in Tenants : ~InUse(t, g)'
    BY <1>1, <1>5, <2>1, KeyStepUse
  <2>3. QED
    BY <1>3, <2>2 DEF TypeInv, ArtifactTypeOK, KeyTypeOK
<1>7. ViewFits(p)'
  <2>1. ~IsDestroy(p)'
    BY <1>2, <1>3, <1>5 DEF IsDestroy
  <2>2. \A t \in Tenants : ~InUse(t, material[p])' /\ keys'[t] # material'[p]
    BY <1>2, <1>5, <1>6 DEF InUse
  <2>3. /\ whole' /\ keys'[target'[p]] = NoKey /\ material'[p] \notin erased'
        /\ view'[p] = [keys' EXCEPT ![target'[p]] = material'[p]]
    <3>1. keys' = keys /\ target'[p] = target[p] /\ g \notin erased' /\ whole'
      BY <1>2, <1>4, <1>6
    <3>2. keys[target[p]] = NoKey /\ view'[p] = [keys EXCEPT ![target[p]] = g]
          /\ material'[p] = g
      BY <1>2, <1>5
    <3>3. QED
      BY <3>1, <3>2
  <2>4. QED
    BY <2>1, <2>2, <2>3 DEF ViewFits
<1>8. QED
  BY <1>1, <1>2, <1>3, <1>5, <1>7, DecisionKeepsFile

LEMMA LoadToDestroyKeepsFile ==
  ASSUME TypeInv, FileInv, NEW p \in Processes, LoadToDestroy(p), UNCHANGED artifactVars
  PROVE  FileInv'
<1>1. KeyStep(p)
  BY DEF KeyStep
<1>2. /\ whole /\ step[p] = "destroy"
      /\ material' = [material EXCEPT ![p] = keys[target[p]]]
      /\ view' = [view EXCEPT ![p] = [keys EXCEPT ![target[p]] = NoKey]]
      /\ step' = [step EXCEPT ![p] = "truncate"]
      /\ UNCHANGED <<keys, length, whole, generated, erased, raced, target>>
  BY DEF LoadToDestroy, fileVars
<1>3. target[p] \in Tenants
  BY <1>2 DEF TypeInv, CallInv, ArtifactTypeOK, PC
<1>4. /\ step'[p] = "truncate" /\ material'[p] = keys[target[p]]
      /\ view'[p] = [keys EXCEPT ![target[p]] = NoKey] /\ view'[p][target[p]] = NoKey
  BY <1>2, <1>3 DEF TypeInv, ArtifactTypeOK, KeyTypeOK
<1>5. ViewFits(p)'
  BY <1>2, <1>4 DEF ViewFits, IsDestroy
<1>6. Keys' = Keys
  BY <1>2 DEF Keys
<1>7. QED
  BY <1>1, <1>2, <1>4, <1>5, <1>6, DecisionKeepsFile

\* Opening the file empties it; what it held is in the hands of who opened it.
LEMMA TruncateKeepsFile ==
  ASSUME TypeInv, FileInv, NEW p \in Processes, Truncate(p), UNCHANGED artifactVars
  PROVE  FileInv'
<1>1. KeyStep(p)
  BY DEF KeyStep
<1>2. /\ step[p] = "truncate" /\ step'[p] = "save" /\ ~whole' /\ length' = 0
      /\ raced' = (raced \/ \E q \in Processes \ {p} : Rewriting(q))
      /\ UNCHANGED <<generated, erased, target, view, material>> /\ Keys' = Keys
  BY DEF Truncate, TypeInv, ArtifactTypeOK, KeyTypeOK, Keys
<1>3. SUFFICES ASSUME ~raced' PROVE FileInv'
  BY DEF FileInv
<1>4. ~raced /\ \A q \in Processes \ {p} : ~Rewriting(q) /\ ~Rewriting(q)'
  BY <1>1, <1>2, <1>3, KeyStepFrame DEF Rewriting
<1>5. ViewFits(p) /\ OpenAll(keys, {}) /\ whole
  BY <1>2, <1>4 DEF FileInv, ViewFits
<1>6. Rewriting(p) /\ target[p] \in Tenants
  BY <1>2, WhoDestroys DEF Rewriting
<1>7. keys \in [Tenants -> Keys \union {NoKey}] /\ NoKey \notin Keys /\ erased \subseteq Keys
  BY DEF TypeInv, ArtifactTypeOK, KeyTypeOK, Keys, NoKey
<1>8. OpenAll(view[p], Removed(p))
  <2>1. CASE IsDestroy(p)
    <3>1. view[p] = [keys EXCEPT ![target[p]] = NoKey]
      BY <1>5, <2>1 DEF ViewFits
    <3>2. Removed(p) = {keys[target[p]]} \ {NoKey}
      BY <1>5, <2>1 DEF ViewFits, Removed
    <3>3. QED
      BY <1>5, <1>6, <1>7, <3>1, <3>2 DEF OpenAll
  <2>2. CASE ~IsDestroy(p)
    <3>1. /\ view[p] = [keys EXCEPT ![target[p]] = material[p]] /\ keys[target[p]] = NoKey
          /\ material[p] \notin erased
          /\ \A t \in Tenants : keys[t] # material[p] /\ ~InUse(t, material[p])
          /\ Removed(p) = {}
      BY <1>5, <2>2 DEF ViewFits, Removed
    <3>2. QED
      BY <1>5, <1>6, <1>7, <3>1 DEF OpenAll
  <2>3. QED
    BY <2>1, <2>2
<1>9. OpenAll(view[p], Removed(p))'
  <2>1. Removed(p)' = Removed(p) /\ view'[p] = view[p]
    BY <1>2 DEF Removed, IsDestroy
  <2>2. \A t \in Tenants : \A m : InUse(t, m)' => InUse(t, m)
    BY <1>1, <1>2, KeyStepUse
  <2>3. QED
    BY <1>2, <1>8, <2>1, <2>2 DEF OpenAll
<1>10. QED
  BY <1>2, <1>4, <1>9 DEF FileInv, Rewriting

\* Closing it writes that, with the change of one tenant's key.
LEMMA SaveKeepsFile ==
  ASSUME TypeInv, FileInv, NEW p \in Processes, Save(p), UNCHANGED artifactVars
  PROVE  FileInv'
<1>1. KeyStep(p)
  BY DEF KeyStep
<1>2. /\ step[p] = "save" /\ step'[p] = "done" /\ keys' = view[p]
      /\ erased' = erased \union Removed(p) /\ raced' = raced /\ Keys' = Keys
      /\ material' = material
  BY DEF Save, Removed, TypeInv, ArtifactTypeOK, KeyTypeOK, Keys
<1>3. SUFFICES ASSUME ~raced PROVE FileInv'
  BY <1>2 DEF FileInv
<1>4. /\ OpenAll(view[p], Removed(p))
      /\ \A q \in Processes \ {p} : ~Rewriting(q) /\ ~Rewriting(q)'
  BY <1>1, <1>2, <1>3, KeyStepFrame DEF FileInv, Rewriting
<1>5. \A t \in Tenants : \A m : InUse(t, m)' => InUse(t, m)
        \/ (~IsDestroy(p) /\ t = target[p] /\ m = material[p] /\ view[p][t] = m)
  <2>1. Rewriting(p)
    BY <1>2 DEF Rewriting
  <2>2. Encrypts(p) => ~IsDestroy(p)
    BY <2>1, WhoDestroys DEF Encrypts
  <2>3. QED
    BY <1>1, <1>2, <2>1, <2>2, WhoDestroys, KeyStepUse
<1>6. OpenAll(keys, {})'
  <2>1. \A t, u \in Tenants : view[p][t] = view[p][u] /\ view[p][t] # NoKey => t = u
    BY <1>4 DEF OpenAll
  <2>2. \A t \in Tenants : view[p][t] \notin erased'
    BY <1>2, <1>4 DEF OpenAll
  <2>3. \A t \in Tenants : \A m \in Keys : InUse(t, m)' => (view[p][t] = m <=> m \notin erased')
    BY <1>2, <1>4, <1>5, <2>2 DEF OpenAll
  <2>4. QED
    BY <1>2, <2>1, <2>2, <2>3 DEF OpenAll
<1>7. QED
  BY <1>2, <1>4, <1>6 DEF FileInv, Rewriting

LEMMA UseKeysKeepsFile ==
  ASSUME TypeInv, FileInv, NEW p \in Processes, UseKeys(p)
  PROVE  FileInv'
<1>1. KeyStep(p) /\ UNCHANGED artifactVars
  BY DEF UseKeys
<1>2. QED
  BY <1>1, LoadFailsKeepsFile, UseOfKeyKeepsFile, NewKeyKeepsFile, LoadToDestroyKeepsFile,
     TruncateKeepsFile, SaveKeepsFile
  DEF KeyStep

\* The steps of a caller: a key in use is handed on from the operation to the text, and
\* from there to the row.
LEMMA CallerKeepsFile ==
  ASSUME TypeInv, FileInv, NEW p \in Processes,
         \/ \E a \in Artifact, c \in Contents : BeginAppend(p, a, c)
         \/ PutBlob(p) \/ ReadNumber(p) \/ InsertVersion(p) \/ LockHead(p) \/ SealRecord(p)
         \/ CommitAppend(p) \/ FailAppend(p) \/ Die(p) \/ EndErasure(p)
         \/ \E t \in Tenants : BeginErasure(p, t)
  PROVE  FileInv'
<1> USE DEF BeginAppend, PutBlob, ReadNumber, InsertVersion, LockHead, SealRecord, CommitAppend,
        FailAppend, Die, EndErasure, BeginErasure
<1>1. UNCHANGED fileVars
  BY DEF Close, keyVars
<1>2. \A q \in Processes \ {p} :
        /\ pc'[q] = pc[q] /\ artifact'[q] = artifact[q] /\ ciphertext'[q] = ciphertext[q]
        /\ step'[q] = step[q] /\ target'[q] = target[q]
        /\ view'[q] = view[q] /\ material'[q] = material[q]
  BY DEF Close, Goto, keyVars, callVars, Call, Return, TypeInv, ArtifactTypeOK, KeyTypeOK
<1>3. \A q \in Processes \ {p} : /\ HasText(q)' = HasText(q) /\ Encrypts(q)' = Encrypts(q)
                                 /\ TenantFor(q)' = TenantFor(q)
  BY <1>2 DEF HasText, Encrypts, TenantFor
<1>4. \/ UNCHANGED <<step, target, view, material>>
      \/ step'[p] \in {"none", "encrypt", "destroy"}
  BY DEF Close, keyVars, callVars, Call, Return, TypeInv, ArtifactTypeOK, KeyTypeOK
<1>5. \A q \in Processes : Rewriting(q)' =>
        /\ step'[q] = step[q] /\ target'[q] = target[q]
        /\ view'[q] = view[q] /\ material'[q] = material[q]
  BY <1>2, <1>4 DEF Rewriting
<1>6. HasText(p)' =>
        /\ TenantFor(p)' = TenantFor(p)
        /\ \/ HasText(p) /\ ciphertext'[p] = ciphertext[p]
           \/ /\ Encrypts(p) /\ step[p] = "done"
              /\ ciphertext'[p].key = material[p]
  <2>1. CASE PutBlob(p)
    <3>1. /\ pc[p] = "encrypting" /\ step[p] = "done" /\ artifact' = artifact
          /\ ciphertext'[p] = [ciphertext[p] EXCEPT !.key = material[p]]
      BY <2>1 DEF TypeInv
    <3>2. ciphertext[p] \in Text
      BY <3>1 DEF TypeInv, CallInv, Encrypts
    <3>3. ciphertext'[p].key = material[p]
      BY <3>1, <3>2 DEF Text
    <3>4. QED
      BY <3>1, <3>3 DEF Encrypts, TenantFor
  <2>2. CASE ReadNumber(p) \/ InsertVersion(p) \/ LockHead(p) \/ SealRecord(p)
    BY <2>2 DEF HasText, TenantFor
  <2>3. CASE ~PutBlob(p) /\ ~(ReadNumber(p) \/ InsertVersion(p) \/ LockHead(p) \/ SealRecord(p))
    <3>1. pc'[p] \in {"encrypting", "erasing", "idle"}
      BY <2>3 DEF Close, Goto, TypeInv, ArtifactTypeOK
    <3>2. QED
      BY <3>1 DEF HasText
  <2>4. QED
    BY <2>1, <2>2, <2>3
<1>7. Encrypts(p)' /\ step'[p] = "done" =>
        /\ Encrypts(p) /\ step[p] = "done" /\ TenantFor(p)' = TenantFor(p)
        /\ material'[p] = material[p]
  <2>1. CASE SealRecord(p)
    BY <2>1 DEF Encrypts, TenantFor, keyVars, callVars, Goto, TypeInv, ArtifactTypeOK
  <2>2. CASE ReadNumber(p) \/ InsertVersion(p)
    <3>1. pc'[p] \in {"inserting", "auditing"}
      BY <2>2 DEF Goto, TypeInv, ArtifactTypeOK
    <3>2. QED
      BY <3>1 DEF Encrypts
  <2>3. CASE ~SealRecord(p) /\ ~ReadNumber(p) /\ ~InsertVersion(p)
    <3>1. step'[p] \in {"none", "encrypt", "destroy"}
      BY <2>3 DEF Close, Call, Return, TypeInv, ArtifactTypeOK, KeyTypeOK
    <3>2. QED
      BY <3>1
  <2>4. QED
    BY <2>1, <2>2, <2>3
<1>8. /\ \A v \in versions' : v \in versions
           \/ (HasText(p) /\ v.text = ciphertext[p] /\ ciphertext[p].tenant = TenantFor(p))
      /\ \A r \in payloads' : r \in payloads
           \/ (Encrypts(p) /\ step[p] = "done" /\ r.tenant = TenantFor(p) /\ r.key = material[p])
  <2>1. CASE CommitAppend(p)
    <3>1. /\ pc[p] = "committing"
          /\ versions' = versions \union {Version(p)} /\ payloads' = payloads \union {Payload(p)}
      BY <2>1
    <3>2. step[p] = "done" /\ ciphertext[p].tenant = TenantFor(p)
      BY <3>1 DEF TypeInv, CallInv, Encrypts
    <3>3. QED
      BY <3>1, <3>2 DEF Version, Payload, HasText, Encrypts
  <2>2. CASE ~CommitAppend(p)
    BY <2>2 DEF rowVars
  <2>3. QED
    BY <2>1, <2>2
<1>9. ASSUME NEW t \in Tenants, NEW m, InUse(t, m)' PROVE InUse(t, m)
  <2>1. CASE \E v \in versions' : v.text.tenant = t /\ v.text.key = m
    BY <1>8, <2>1 DEF InUse
  <2>2. CASE \E r \in payloads' : r.tenant = t /\ r.key = m
    BY <1>8, <2>2 DEF InUse
  <2>3. CASE \E q \in Processes : HasText(q)' /\ TenantFor(q)' = t /\ ciphertext'[q].key = m
    BY <1>2, <1>3, <1>6, <2>3 DEF InUse
  <2>4. CASE \E q \in Processes :
               Encrypts(q)' /\ step'[q] = "done" /\ TenantFor(q)' = t /\ material'[q] = m
    BY <1>2, <1>3, <1>7, <2>4 DEF InUse
  <2>5. QED
    BY <1>9, <2>1, <2>2, <2>3, <2>4 DEF InUse
<1>10. QED
  BY <1>1, <1>5, <1>9, FileStands

LEMMA NextKeepsFile == TypeInv /\ FileInv /\ [Next]_vars => FileInv'
<1> SUFFICES ASSUME TypeInv, FileInv, [Next]_vars PROVE FileInv'
  OBVIOUS
<1>1. ASSUME UNCHANGED vars \/ \E t \in Tenants : DestroyTenant(t) PROVE FileInv'
  <2>1. /\ UNCHANGED fileVars
        /\ UNCHANGED <<step, target, view, material, versions, payloads, pc, artifact, ciphertext>>
    BY <1>1 DEF vars, keyVars, callVars, artifactVars, rowVars, appendVars, DestroyTenant
  <2>2. \A t \in Tenants : \A m : InUse(t, m)' => InUse(t, m)
    BY <2>1 DEF InUse, HasText, Encrypts, TenantFor
  <2>3. QED
    BY <2>1, <2>2, FileStands
<1>2. ASSUME NEW p \in Processes,
             \/ \E a \in Artifact, c \in Contents : BeginAppend(p, a, c)
             \/ UseKeys(p)
             \/ PutBlob(p) \/ ReadNumber(p) \/ InsertVersion(p) \/ LockHead(p) \/ SealRecord(p)
             \/ CommitAppend(p) \/ FailAppend(p) \/ Die(p) \/ EndErasure(p)
             \/ \E t \in Tenants : BeginErasure(p, t)
      PROVE  FileInv'
  BY <1>2, CallerKeepsFile, UseKeysKeepsFile
<1>3. QED
  BY <1>1, <1>2 DEF Next

LEMMA InitFileInv == Init => FileInv
<1> SUFFICES ASSUME Init PROVE FileInv
  OBVIOUS
<1>1. \A t \in Tenants : \A m : ~InUse(t, m)
  BY DEF Init, KeyInit, InUse, HasText, Encrypts
<1>2. OpenAll(keys, {})
  BY <1>1 DEF Init, KeyInit, OpenAll, NoKeys
<1>3. QED
  BY <1>2 DEF Init, KeyInit, FileInv

LEMMA AlwaysKept == Spec => []FileInv
<1>1. Init => FileInv
  BY InitFileInv
<1>2. TypeInv /\ FileInv /\ [Next]_vars => FileInv'
  BY NextKeepsFile
<1>3. QED
  BY <1>1, <1>2, AlwaysTyped, PTL DEF Spec

\* While no two rewrites of the key file have overlapped and it is not half written, a
\* committed version or audit payload can be opened exactly until its key's removal is
\* written or its blob destroyed: a rewrite that has been decided on carries every key in
\* use but the one it removes, and who has emptied the file is the only one to have done so.
THEOREM KeysAlwaysTellErasure == Spec => []KeysTellErasure
<1>1. TypeInv /\ BlobInv /\ FileInv => KeysTellErasure
  <2> SUFFICES ASSUME TypeInv, BlobInv, FileInv, ~raced, whole
               PROVE  /\ \A v \in versions :
                           Readable(v) <=> v.text.key \notin erased /\ v.text \notin shredded
                      /\ \A r \in payloads : Opens(r.tenant, r.key) <=> r.key \notin erased
    BY DEF KeysTellErasure
  <2>1. OpenAll(keys, {})
    BY DEF FileInv
  <2>2. ASSUME NEW v \in versions
        PROVE  Readable(v) <=> v.text.key \notin erased /\ v.text \notin shredded
    <3>1. v.text.tenant \in Tenants /\ v.text.key \in Keys
      BY DEF TypeInv, ArtifactTypeOK, Text
    <3>2. InUse(v.text.tenant, v.text.key)
      BY DEF InUse
    <3>3. Opens(v.text.tenant, v.text.key) <=> v.text.key \notin erased
      BY <2>1, <3>1, <3>2 DEF OpenAll, Opens
    <3>4. v.text \in {b.bytes : b \in At(Digest(v.text))} <=> v.text \notin shredded
      <4>1. Blob(v.text).path = v.text /\ Blob(v.text).bytes = v.text
        BY DEF Blob, Digest
      <4>2. v.text \in {b.bytes : b \in At(Digest(v.text))} <=> Blob(v.text) \in blobs
        BY <4>1 DEF At, Digest, BlobInv
      <4>3. QED
        BY <4>2 DEF BlobInv, IsPut
    <3>5. QED
      BY <3>3, <3>4 DEF Readable
  <2>3. ASSUME NEW r \in payloads PROVE Opens(r.tenant, r.key) <=> r.key \notin erased
    <3>1. r.tenant \in Tenants /\ r.key \in Keys /\ InUse(r.tenant, r.key)
      BY DEF TypeInv, ArtifactTypeOK, InUse
    <3>2. QED
      BY <2>1, <3>1 DEF OpenAll, Opens
  <2>4. QED
    BY <2>2, <2>3
<1>2. QED
  BY <1>1, AlwaysTyped, AlwaysPut, AlwaysKept, PTL
=============================================================================
