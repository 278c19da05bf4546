----------------------------- MODULE AuditChain -----------------------------
(***************************************************************************)
(* The audit chain and its only writer: src/adw/services/audit_writer.py   *)
(* over the tables chain_record and chain_head.                            *)
(*                                                                         *)
(* A writer is a transaction of some service, scoped to one tenant, that   *)
(* appends one or more audit records beside the changes they are about.    *)
(* PostgreSQL runs at READ COMMITTED: locking the head row and flushing    *)
(* the INSERTs are steps of their own, the rows appear at the commit, and  *)
(* a flush that meets a key of an uncommitted row waits for its writer.    *)
(* transaction_timestamp() is the clock at the start of the transaction.   *)
(*                                                                         *)
(* Payload, actor and algorithm are left out of the header: nothing below  *)
(* depends on them.  Definitions named after another with a suffix are     *)
(* that one with a plausible bug in it (see README.md).                    *)
(***************************************************************************)
EXTENDS Integers, FiniteSets

CONSTANTS Tenants,           \* tenants, the platform among them
          PlatformTenant,    \* PLATFORM_TENANT_ID
          Writers,           \* transactions that may be open at once
          Hash(_, _, _, _, _), \* compute_record_hash of a header's fields
          NoHash,            \* GENESIS_PREV_HASH
          NoWriter,          \* nobody holds the head row
          MaxTransactions,   \* bound: transactions begun
          MaxAppends,        \* bound: records of one transaction (an anomaly may go over it)
          MaxClock,          \* bound: the clock's last tick
          MaxStepsBack       \* bound: times the clock is set back

ASSUME AuditChainAssumption ==
  /\ PlatformTenant \in Tenants
  /\ NoWriter \notin Writers
  /\ MaxTransactions \in Nat
  /\ MaxAppends \in Nat
  /\ MaxClock \in Nat
  /\ MaxStepsBack \in Nat

VARIABLES
  (* committed tables *)
  records,     \* chain_record: the rows of each tenant
  head,        \* chain_head: seq, head_hash and last_event_time of each tenant
  (* the database server *)
  lock,        \* the writer that holds a tenant's head row FOR UPDATE
  clock,       \* now()
  stepsBack,   \* times it was set back
  (* one transaction each *)
  pc,
  tenant,      \* app.tenant_id
  started,     \* transaction_timestamp()
  view,        \* the head as _locked_head returned it
  newRecords,  \* rows it has inserted and not committed
  newHead,     \* its uncommitted version of the head row, or NoHead
  begun        \* bound

tableVars  == <<records, head>>
clockVars  == <<clock, stepsBack>>
writerVars == <<pc, tenant, started, view, newRecords, newHead, begun>>
auditVars  == <<tableVars, lock, clockVars, writerVars>>

\* Stands for the chain_head row a tenant does not have yet.
NoHead == [seq |-> 0, hash |-> NoHash, time |-> 0]

Kinds == {"event", "anomaly"}
PC    == {"idle", "open", "sealing"}

AuditInit ==
  /\ records    = [t \in Tenants |-> {}]
  /\ head       = [t \in Tenants |-> NoHead]
  /\ lock       = [t \in Tenants |-> NoWriter]
  /\ clock      = 0
  /\ stepsBack  = 0
  /\ pc         = [w \in Writers |-> "idle"]
  /\ tenant     = [w \in Writers |-> PlatformTenant]
  /\ started    = [w \in Writers |-> 0]
  /\ view       = [w \in Writers |-> NoHead]
  /\ newRecords = [w \in Writers |-> {}]
  /\ newHead    = [w \in Writers |-> NoHead]
  /\ begun      = 0

-----------------------------------------------------------------------------
(* Time: the clock of the database server. *)

Tick ==
  /\ clock < MaxClock
  /\ clock' = clock + 1
  /\ UNCHANGED <<tableVars, lock, stepsBack, writerVars>>

\* A step correction, or a failover to a host whose clock is behind.
StepBack ==
  /\ clock > 0
  /\ stepsBack < MaxStepsBack
  /\ clock' = clock - 1
  /\ stepsBack' = stepsBack + 1
  /\ UNCHANGED <<tableVars, lock, writerVars>>

-----------------------------------------------------------------------------
(* tenant_session: a transaction of one tenant. *)

Begin(w, t) ==
  /\ pc[w] = "idle"
  /\ begun < MaxTransactions
  /\ begun' = begun + 1
  /\ tenant' = [tenant EXCEPT ![w] = t]
  /\ started' = [started EXCEPT ![w] = clock]
  /\ pc' = [pc EXCEPT ![w] = "open"]
  /\ UNCHANGED <<tableVars, lock, clockVars, view, newRecords, newHead>>

-----------------------------------------------------------------------------
(* _append: lock the head, seal the header, flush. *)

LockFreeWithoutForUpdate(t, w) == TRUE
LockFree(t, w) == lock[t] \in {NoWriter, w}

\* _locked_head: the transaction's own version of the row if it has one; else the
\* committed row, once nobody else holds it; else None, and nothing is locked.
LockHead(w) ==
  LET t == tenant[w] IN
  /\ pc[w] = "open"
  /\ Cardinality(newRecords[w]) < MaxAppends
  /\ \/ /\ newHead[w] # NoHead
        /\ view' = [view EXCEPT ![w] = newHead[w]]
        /\ UNCHANGED lock
     \/ /\ newHead[w] = NoHead /\ head[t] # NoHead
        /\ LockFree(t, w)
        /\ view' = [view EXCEPT ![w] = head[t]]
        /\ lock' = [lock EXCEPT ![t] = w]
     \/ /\ newHead[w] = NoHead /\ head[t] = NoHead
        /\ UNCHANGED <<view, lock>>
  /\ pc' = [pc EXCEPT ![w] = "sealing"]
  /\ UNCHANGED <<tableVars, clockVars, tenant, started, newRecords, newHead, begun>>

NextSeqFromZero(h) == IF h = NoHead THEN 0 ELSE h.seq + 1
NextSeq(h) == IF h = NoHead THEN 1 ELSE h.seq + 1
NextPrev(h) == IF h = NoHead THEN NoHash ELSE h.hash

\* seal: the record of a kind that follows head h.
SealUnlinked(w, h, k) ==
  LET t == tenant[w]  e == started[w]
  IN  [tenant |-> t, seq |-> NextSeq(h), prev |-> NoHash, kind |-> k, time |-> e,
       hash |-> Hash(t, NextSeq(h), NoHash, k, e)]
Seal(w, h, k) ==
  LET t == tenant[w]  e == started[w]
  IN  [tenant |-> t, seq |-> NextSeq(h), prev |-> NextPrev(h), kind |-> k, time |-> e,
       hash |-> Hash(t, NextSeq(h), NextPrev(h), k, e)]

HeadAfter(r) == [seq |-> r.seq, hash |-> r.hash, time |-> r.time]

WentBackwardsOrStood(w) == view[w] # NoHead /\ started[w] <= view[w].time
WentBackwards(w) == view[w] # NoHead /\ started[w] < view[w].time

\* UNIQUE (tenant_id, seq), and the primary key of chain_head with it: no row has
\* the key, nor will one if an open transaction commits.
KeyFreeAlways(w) == TRUE
KeyFree(w) ==
  /\ \A r \in records[tenant[w]] : r.seq # NextSeq(view[w])
  /\ \A v \in Writers \ {w} : tenant[v] = tenant[w] =>
       \A r \in newRecords[v] : r.seq # NextSeq(view[w])

\* The record, the head row and, if time went backwards, the anomaly record: it
\* follows in the same transaction, under the lock already held.
Append(w) ==
  LET r    == Seal(w, view[w], "event")
      a    == Seal(w, HeadAfter(r), "anomaly")
      last == IF WentBackwards(w) THEN a ELSE r
  IN
  /\ pc[w] = "sealing"
  /\ KeyFree(w)
  /\ newRecords' = [newRecords EXCEPT ![w] = @ \union {r, last}]
  /\ newHead' = [newHead EXCEPT ![w] = HeadAfter(last)]
  /\ view' = [view EXCEPT ![w] = NoHead]
  /\ pc' = [pc EXCEPT ![w] = "open"]
  /\ UNCHANGED <<tableVars, lock, clockVars, tenant, started, begun>>

-----------------------------------------------------------------------------
(* The end of the transaction. *)

Release(w) ==
  /\ lock' = [t \in Tenants |-> IF lock[t] = w THEN NoWriter ELSE lock[t]]
  /\ pc' = [pc EXCEPT ![w] = "idle"]
  /\ tenant' = [tenant EXCEPT ![w] = PlatformTenant]
  /\ started' = [started EXCEPT ![w] = 0]
  /\ view' = [view EXCEPT ![w] = NoHead]
  /\ newRecords' = [newRecords EXCEPT ![w] = {}]
  /\ newHead' = [newHead EXCEPT ![w] = NoHead]
  /\ UNCHANGED <<clockVars, begun>>

Commit(w) ==
  /\ pc[w] = "open"
  /\ newRecords[w] # {}
  /\ records' = [records EXCEPT ![tenant[w]] = @ \union newRecords[w]]
  /\ head' = [head EXCEPT ![tenant[w]] = newHead[w]]
  /\ Release(w)

\* The service raises, its process dies, or a flush found its key taken
\* (IntegrityError): what the transaction wrote is gone, and so is its lock.
Rollback(w) ==
  /\ pc[w] # "idle"
  /\ Release(w)
  /\ UNCHANGED tableVars

-----------------------------------------------------------------------------

WriterStep(w) ==
  \/ \E t \in Tenants : Begin(w, t)
  \/ LockHead(w) \/ Append(w) \/ Commit(w) \/ Rollback(w)

AuditNext ==
  \/ Tick \/ StepBack
  \/ \E w \in Writers : WriterStep(w)

AuditSpec == AuditInit /\ [][AuditNext]_auditVars
-----------------------------------------------------------------------------
(* What must hold. *)

SealedRecord(r) ==
  /\ r.tenant \in Tenants
  /\ r.seq \in Nat \ {0}
  /\ r.kind \in Kinds
  /\ r.time \in Nat
  /\ r.hash = Hash(r.tenant, r.seq, r.prev, r.kind, r.time)
  /\ r = [tenant |-> r.tenant, seq |-> r.seq, prev |-> r.prev, kind |-> r.kind,
          time |-> r.time, hash |-> r.hash]

HeadRow(h) ==
  /\ h.seq \in Nat
  /\ h.time \in Nat
  /\ h = [seq |-> h.seq, hash |-> h.hash, time |-> h.time]
  /\ h.seq = 0 => h = NoHead

\* Rows and heads are sealed as domain/chain.py seals them: the hash is the hash of
\* the header's own fields, sequence numbers start at 1, only a missing head is 0.
AuditTypeOK ==
  /\ DOMAIN records = Tenants /\ \A t \in Tenants : \A r \in records[t] : SealedRecord(r)
  /\ DOMAIN head = Tenants /\ \A t \in Tenants : HeadRow(head[t])
  /\ lock \in [Tenants -> Writers \union {NoWriter}]
  /\ clock \in Nat
  /\ stepsBack \in Nat
  /\ pc \in [Writers -> PC]
  /\ tenant \in [Writers -> Tenants]
  /\ started \in [Writers -> Nat]
  /\ DOMAIN view = Writers /\ \A w \in Writers : HeadRow(view[w])
  /\ DOMAIN newRecords = Writers
  /\ \A w \in Writers : \A r \in newRecords[w] : SealedRecord(r)
  /\ DOMAIN newHead = Writers /\ \A w \in Writers : HeadRow(newHead[w])
  /\ begun \in Nat

Length(h) == IF h = NoHead THEN 0 ELSE h.seq

\* S is the whole chain of tenant t with head h: every sequence number once, each
\* record linked to the one before, and the head the summary of the last.
IsChain(t, S, h) ==
  /\ \A r \in S : r.tenant = t /\ r.seq \in 1 .. Length(h)
  /\ \A n \in 1 .. Length(h) : \E r \in S : r.seq = n
  /\ \A r, s \in S : r.seq = s.seq => r = s
  /\ \A r \in S : IF r.seq = 1 THEN r.prev = NoHash
                  ELSE \E p \in S : p.seq = r.seq - 1 /\ r.prev = p.hash
  /\ h # NoHead => \E r \in S : h = HeadAfter(r)

\* Per-tenant, gap-free, linked, and the head agrees, after every commit: also
\* when two transactions race to write a tenant's first record.
ChainsIntact == \A t \in Tenants : IsChain(t, records[t], head[t])

\* The chain is an append-only log: no commit, in whatever order transactions
\* sealed and committed, changes or displaces a record that was committed before.
Log == INSTANCE AppendOnlyLog
         WITH Owners <- Tenants, log <- records, length <- [t \in Tenants |-> Length(head[t])]
ChainsOnlyGrow == Log!Spec

\* An append that found a head to lock never fails on the unique key: the row
\* lock serializes appends once the tenant's chain exists.
LockedAppendNeverCollides ==
  \A w \in Writers : pc[w] = "sealing" /\ view[w] # NoHead => KeyFree(w)

AnomaliesFollowBackwardSteps(S) ==
  \A r \in S :
    (\E a \in S : a.seq = r.seq + 1 /\ a.kind = "anomaly") <=>
      /\ r.kind = "event"
      /\ \E p \in S : p.seq = r.seq - 1 /\ r.time < p.time

\* D21: an event stamped earlier than the record before it is followed by an
\* anomaly record, and nothing else is, in every chain that is ever committed.
AnomalyIffBackwards == \A t \in Tenants : AnomaliesFollowBackwardSteps(records[t])
=============================================================================
