----------------------------- MODULE Artifacts ------------------------------
(***************************************************************************)
(* Artifact versions: append_version and read_content of                   *)
(* src/adw/services/artifact_service.py over the tables artifact_version   *)
(* and chain_record, the blob directory of blobstore_local.py and the key  *)
(* file (KeyStore).                                                        *)
(*                                                                         *)
(* One append is one transaction: it encrypts the content, puts the        *)
(* ciphertext among the blobs, numbers and inserts the version, and        *)
(* appends the audit record, whose payload is encrypted too.  Blobs and    *)
(* keys are written at once and outlive a transaction that rolls back.     *)
(* Erasure destroys a tenant's key, or its blobs.                          *)
(*                                                                         *)
(* Definitions named after another with a suffix are that one with a       *)
(* plausible bug in it (see README.md).                                    *)
(***************************************************************************)
EXTENDS KeyStore, Sequences

CONSTANTS Artifact,     \* artifacts
          TenantOf,     \* the tenant each belongs to
          Contents,     \* what a version may contain
          NoArtifact,   \* no append is under way
          NoProcess,    \* nobody holds a lock
          MaxAppends,   \* bound: appends begun
          MaxErasures,  \* bound: keys or blobs destroyed
          MaxCrashes    \* bound: processes that die

ASSUME ArtifactAssumption ==
  /\ TenantOf \in [Artifact -> Tenants]
  /\ NoArtifact \notin Artifact
  /\ NoProcess \notin Processes
  /\ MaxAppends \in Nat /\ MaxErasures \in Nat /\ MaxCrashes \in Nat

VARIABLES
  versions,    \* committed rows of artifact_version
  payloads,    \* the ciphertexts of the committed audit records
  blobs,       \* files of the blob directory
  headLock,    \* per tenant, the process that has the chain head
  pc,
  artifact,    \* what the process appends to
  ciphertext,  \* its encrypted content
  number,      \* the version number it has read
  shredded,    \* history: ciphertexts whose blobs were removed
  appends, erasures, crashes

rowVars    == <<versions, payloads, headLock>>
appendVars == <<pc, artifact, ciphertext, number>>
boundVars  == <<appends, erasures, crashes>>
artifactVars == <<rowVars, appendVars, blobs, shredded, boundVars>>
vars == <<keyVars, artifactVars>>

PC == {"idle", "encrypting", "numbering", "inserting", "auditing", "sealing", "committing",
       "erasing"}

NoText == [tenant |-> NoTenant, content |-> "none", key |-> NoKey, nonce |-> 0]

Init ==
  /\ KeyInit
  /\ versions   = {}
  /\ payloads   = {}
  /\ blobs      = {}
  /\ headLock   = [t \in Tenants |-> NoProcess]
  /\ pc         = [p \in Processes |-> "idle"]
  /\ artifact   = [p \in Processes |-> NoArtifact]
  /\ ciphertext = [p \in Processes |-> NoText]
  /\ number     = [p \in Processes |-> 0]
  /\ shredded   = {}
  /\ appends    = 0
  /\ erasures   = 0
  /\ crashes    = 0

Goto(p, label) == pc' = [pc EXCEPT ![p] = label]
TenantFor(p) == TenantOf[artifact[p]]

-----------------------------------------------------------------------------
(* append_version *)

BeginAppend(p, a, c) ==
  /\ pc[p] = "idle"
  /\ appends < MaxAppends
  /\ appends' = appends + 1
  /\ artifact' = [artifact EXCEPT ![p] = a]
  \* The nonce of the ciphertext to be: no two are equal.
  /\ ciphertext' = [ciphertext EXCEPT ![p] = [tenant |-> TenantOf[a], content |-> c,
                                              key |-> NoKey, nonce |-> appends']]
  /\ Call(p, "encrypt", TenantOf[a])
  /\ Goto(p, "encrypting")
  /\ UNCHANGED <<fileVars, rowVars, blobs, number, shredded, erasures, crashes>>

\* The digest of the ciphertext's bytes, of which it is an injective function.
Digest(c) == c

Blob(c) == [path |-> Digest(c), bytes |-> c]
At(path) == {b \in blobs : b.path = path}

\* Encrypted: digest_content, and blobstore.put.
PutBlob(p) ==
  /\ pc[p] = "encrypting"
  /\ step[p] = "done"
  /\ LET c == [ciphertext[p] EXCEPT !.key = material[p]] IN
       /\ ciphertext' = [ciphertext EXCEPT ![p] = c]
       /\ blobs' = (blobs \ At(Digest(c))) \union {Blob(c)}
  /\ Return(p)
  /\ Goto(p, "numbering")
  /\ UNCHANGED <<fileVars, rowVars, artifact, number, shredded, boundVars>>

Of(a) == {v \in versions : v.artifact = a}

\* next_version_no
ReadNumber(p) ==
  /\ pc[p] = "numbering"
  /\ number' = [number EXCEPT ![p] = Max({v.number : v \in Of(artifact[p])} \union {0}) + 1]
  /\ Goto(p, "inserting")
  /\ UNCHANGED <<keyVars, rowVars, blobs, artifact, ciphertext, shredded, boundVars>>

\* The INSERT under UNIQUE (artifact_id, version_no) waits for an uncommitted row.
Inserted(p) == pc[p] \in {"auditing", "sealing", "committing"}
NumberTaken(p) == \E v \in Of(artifact[p]) : v.number = number[p]
NumberHeld(p) ==
  \E q \in Processes \ {p} :
    Inserted(q) /\ artifact[q] = artifact[p] /\ number[q] = number[p]

NumberFreeAlways(p) == TRUE
NumberFree(p) == ~NumberTaken(p) /\ ~NumberHeld(p)

InsertVersion(p) ==
  /\ pc[p] = "inserting"
  /\ NumberFree(p)
  /\ Goto(p, "auditing")
  /\ UNCHANGED <<keyVars, rowVars, blobs, artifact, ciphertext, number, shredded, boundVars>>

\* The audit record: the chain head is locked (the tenant has a chain already), then the
\* record's payload encrypted.
LockHead(p) ==
  /\ pc[p] = "auditing"
  /\ headLock[TenantFor(p)] = NoProcess
  /\ headLock' = [headLock EXCEPT ![TenantFor(p)] = p]
  /\ Call(p, "encrypt", TenantFor(p))
  /\ Goto(p, "sealing")
  /\ UNCHANGED <<fileVars, versions, payloads, blobs, artifact, ciphertext, number, shredded,
                 boundVars>>

SealRecord(p) ==
  /\ pc[p] = "sealing"
  /\ step[p] = "done"
  /\ Goto(p, "committing")
  /\ UNCHANGED <<keyVars, rowVars, blobs, artifact, ciphertext, number, shredded, boundVars>>

ReleasedNever(p) == headLock
Released(p) == [t \in Tenants |-> IF headLock[t] = p THEN NoProcess ELSE headLock[t]]

\* The transaction is over.
Close(p) ==
  /\ headLock' = Released(p)
  /\ artifact' = [artifact EXCEPT ![p] = NoArtifact]
  /\ ciphertext' = [ciphertext EXCEPT ![p] = NoText]
  /\ number' = [number EXCEPT ![p] = 0]
  /\ Return(p)
  /\ Goto(p, "idle")
  /\ UNCHANGED <<fileVars, blobs, shredded, appends, erasures>>

Version(p) == [artifact |-> artifact[p], number |-> number[p], text |-> ciphertext[p]]
Payload(p) == [tenant |-> TenantFor(p), key |-> material[p]]

CommitAppend(p) ==
  /\ pc[p] = "committing"
  /\ versions' = versions \union {Version(p)}
  /\ payloads' = payloads \union {Payload(p)}
  /\ Close(p)
  /\ UNCHANGED crashes

\* A unique violation, or a key file that cannot be read: the transaction rolls back.
FailAppend(p) ==
  /\ \/ pc[p] = "inserting" /\ NumberTaken(p)
     \/ pc[p] \in {"encrypting", "sealing", "erasing"} /\ step[p] = "failed"
  /\ Close(p)
  /\ UNCHANGED <<versions, payloads, crashes>>

\* A process dies, also between opening the key file and writing it.
Die(p) ==
  /\ pc[p] # "idle"
  /\ crashes < MaxCrashes
  /\ crashes' = crashes + 1
  /\ Close(p)
  /\ UNCHANGED <<versions, payloads>>

-----------------------------------------------------------------------------
(* Erasure: keystore.destroy, and blobstore.destroy_tenant. *)

BeginErasure(p, t) ==
  /\ pc[p] = "idle"
  /\ erasures < MaxErasures
  /\ erasures' = erasures + 1
  /\ Call(p, "destroy", t)
  /\ Goto(p, "erasing")
  /\ UNCHANGED <<fileVars, rowVars, blobs, artifact, ciphertext, number, shredded, appends,
                 crashes>>

EndErasure(p) ==
  /\ pc[p] = "erasing"
  /\ step[p] = "done"
  /\ Close(p)
  /\ UNCHANGED <<versions, payloads, crashes>>

\* rmtree goes file by file, and its process may die between two of them: any of the
\* tenant's blobs are gone, and the rest stay.
DestroyTenant(t) ==
  /\ erasures < MaxErasures
  /\ erasures' = erasures + 1
  /\ \E gone \in SUBSET {b \in blobs : b.bytes.tenant = t} :
       /\ blobs' = blobs \ gone
       /\ shredded' = shredded \union {b.bytes : b \in gone}
  /\ UNCHANGED <<keyVars, rowVars, appendVars, appends, crashes>>

-----------------------------------------------------------------------------

\* read_content: the bytes at the row's blob_key, and the key that opens them.
Readable(v) == v.text \in {b.bytes : b \in At(Digest(v.text))}
                 /\ Opens(v.text.tenant, v.text.key)

UseKeys(p) == KeyStep(p) /\ UNCHANGED artifactVars

Next ==
  \/ \E p \in Processes :
       \/ \E a \in Artifact, c \in Contents : BeginAppend(p, a, c)
       \/ UseKeys(p)
       \/ PutBlob(p) \/ ReadNumber(p) \/ InsertVersion(p) \/ LockHead(p) \/ SealRecord(p)
       \/ CommitAppend(p) \/ FailAppend(p) \/ Die(p)
       \/ \E t \in Tenants : BeginErasure(p, t)
       \/ EndErasure(p)
  \/ \E t \in Tenants : DestroyTenant(t)

Spec == Init /\ [][Next]_vars
-----------------------------------------------------------------------------
(* What must hold. *)

Text == [tenant : Tenants, content : Contents, key : Keys \union {NoKey}, nonce : Nat \ {0}]

\* Rows, blobs and locks hold values of the right kind, the key file is what processes
\* have made of it, and a transaction with a locked head is about to seal or commit.
ArtifactTypeOK ==
  /\ KeyTypeOK
  /\ \A v \in versions : v.artifact \in Artifact /\ v.number \in Nat \ {0} /\ v.text \in Text
  /\ payloads \subseteq [tenant : Tenants, key : Keys]
  /\ \A b \in blobs : b.bytes \in Text
  /\ shredded \subseteq Text
  /\ headLock \in [Tenants -> Processes \union {NoProcess}]
  /\ pc \in [Processes -> PC]
  /\ artifact \in [Processes -> Artifact \union {NoArtifact}]
  /\ \A p \in Processes : ciphertext[p] \in Text \union {NoText}
  /\ number \in [Processes -> Nat]
  /\ appends \in Nat /\ erasures \in Nat /\ crashes \in Nat
  /\ \A t \in Tenants, p \in Processes :
       headLock[t] = p <=> pc[p] \in {"sealing", "committing"} /\ TenantFor(p) = t

VersionsGapless ==
  \A a \in Artifact : {v.number : v \in Of(a)} = 1 .. Cardinality(Of(a))

\* The versions of an artifact are an append-only log: no append and no erasure changes,
\* displaces or doubles a version that was committed before.
EntriesOf(a) == {[seq |-> v.number, version |-> v] : v \in Of(a)}
VersionLog == INSTANCE AppendOnlyLog
                WITH Owners <- Artifact,
                     log    <- [a \in Artifact |-> EntriesOf(a)],
                     length <- [a \in Artifact |-> Cardinality(Of(a))]
VersionsOnlyGrow == VersionLog!Spec

BlobsBackVersions ==
  \A v \in versions :
    v.text \in shredded \/ {b.bytes : b \in At(Digest(v.text))} = {v.text}

\* The versions of an artifact are numbered 1 .. n, each number once, and what a version
\* was committed with is what its blob holds ever after, unless the tenant's blobs were
\* destroyed: whatever appends overlap, fail or die, no put touches another's blob and no
\* committed row is without one.
VersionsStand == VersionsGapless /\ BlobsBackVersions

\* What is committed can be read until its key's removal is written (or its blob is
\* destroyed) and never again: no key is lost, revived or replaced.  This holds while no
\* two rewrites of the key file have overlapped and it is not half written, by somebody
\* who is writing or who died.
KeysTellErasure ==
  ~raced /\ whole =>
    /\ \A v \in versions : Readable(v) <=> v.text.key \notin erased /\ v.text \notin shredded
    /\ \A r \in payloads : Opens(r.tenant, r.key) <=> r.key \notin erased
=============================================================================
