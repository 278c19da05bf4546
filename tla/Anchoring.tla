------------------------------ MODULE Anchoring ------------------------------
(***************************************************************************)
(* The anchor chain: src/adw/services/anchor_writer.py over the tables     *)
(* anchor_record and anchor_head, beside the audit chains it anchors.      *)
(*                                                                         *)
(* A pass is one transaction of one scheduler process: it reads all chain  *)
(* heads without a lock, judges tenant by tenant whether an anchor is due  *)
(* (one SELECT each), and appends one anchor per due tenant under the lock *)
(* of the single anchor_head row.  The heads it anchors are the ones it    *)
(* read at the start, however far the chains have grown since.             *)
(***************************************************************************)
EXTENDS AuditChain

CONSTANTS Passes,            \* anchoring passes that may run at once
          AnchorHash(_, _, _, _, _, _), \* compute_anchor_hash
          NoPass,            \* nobody holds the anchor head
          RecordsPerAnchor,  \* RECORDS_PER_ANCHOR
          TicksPerAnchor,    \* SECONDS_PER_ANCHOR, in ticks of the clock
          MaxPasses          \* bound: passes begun

ASSUME AnchoringAssumption ==
  /\ NoPass \notin Passes
  /\ RecordsPerAnchor \in Nat \ {0}
  /\ TicksPerAnchor \in Nat
  /\ MaxPasses \in Nat

VARIABLES
  (* committed tables *)
  anchors,        \* anchor_record
  anchorHead,     \* anchor_head: anchor_seq and head_hash
  anchorLock,     \* the pass that holds that row FOR UPDATE
  (* one pass each *)
  apc,
  passStarted,    \* its transaction_timestamp()
  headsRead,      \* chain_head as its one SELECT returned it
  unjudged,       \* tenants tenants_due has still to judge
  due,            \* the due tenants it has still to anchor
  anchorView,     \* the anchor head as _locked_anchor_head returned it
  newAnchors,     \* rows inserted and not committed
  newAnchorHead,  \* its uncommitted version of the head row, or NoHead
  passesBegun     \* bound

anchorTables == <<anchors, anchorHead>>
passVars   == <<apc, passStarted, headsRead, unjudged, due, anchorView, newAnchors,
                newAnchorHead, passesBegun>>
anchorVars == <<anchorTables, anchorLock, passVars>>
anchoringVars == <<auditVars, anchorVars>>

NoHeadsRead == [t \in Tenants |-> NoHead]

AnchorInit ==
  /\ anchors       = {}
  /\ anchorHead    = NoHead
  /\ anchorLock    = NoPass
  /\ apc           = [p \in Passes |-> "idle"]
  /\ passStarted   = [p \in Passes |-> 0]
  /\ headsRead     = [p \in Passes |-> NoHeadsRead]
  /\ unjudged      = [p \in Passes |-> {}]
  /\ due           = [p \in Passes |-> {}]
  /\ anchorView    = [p \in Passes |-> NoHead]
  /\ newAnchors    = [p \in Passes |-> {}]
  /\ newAnchorHead = [p \in Passes |-> NoHead]
  /\ passesBegun   = 0

BeginPass(p) ==
  /\ apc[p] = "idle"
  /\ passesBegun < MaxPasses
  /\ passesBegun' = passesBegun + 1
  /\ passStarted' = [passStarted EXCEPT ![p] = clock]
  /\ apc' = [apc EXCEPT ![p] = "started"]
  /\ UNCHANGED <<anchorTables, anchorLock, headsRead, unjudged, due, anchorView, newAnchors,
                 newAnchorHead>>

-----------------------------------------------------------------------------
(* tenants_due *)

ReadHeads(p) ==
  /\ apc[p] = "started"
  /\ headsRead' = [headsRead EXCEPT ![p] = head]
  /\ unjudged' = [unjudged EXCEPT ![p] = {t \in Tenants : head[t] # NoHead}]
  /\ apc' = [apc EXCEPT ![p] = "judging"]
  /\ UNCHANGED <<anchorTables, anchorLock, passStarted, due, anchorView, newAnchors,
                 newAnchorHead, passesBegun>>

AnchorsOf(t) == {a \in anchors : a.tenant = t}

\* _last_anchor_for: the committed anchors of the tenant, latest first, LIMIT 1.
LastAnchorsFor(t) == {a \in AnchorsOf(t) : \A b \in AnchorsOf(t) : b.tenantSeq <= a.tenantSeq}

\* What tenants_due asks of a head and the last anchor, if there is one.
IsDue(h, now, last) ==
  /\ h.seq > last.tenantSeq
  /\ h.seq - last.tenantSeq >= RecordsPerAnchor \/ last.time + TicksPerAnchor <= now

JudgeTenant(p, t) ==
  /\ apc[p] = "judging"
  /\ t \in unjudged[p]
  /\ unjudged' = [unjudged EXCEPT ![p] = @ \ {t}]
  /\ due' = IF \A last \in LastAnchorsFor(t) : IsDue(headsRead[p][t], passStarted[p], last)
            THEN [due EXCEPT ![p] = @ \union {t}]
            ELSE due
  /\ UNCHANGED <<anchorTables, anchorLock, apc, passStarted, headsRead, anchorView, newAnchors,
                 newAnchorHead, passesBegun>>

EndJudging(p) ==
  /\ apc[p] = "judging"
  /\ unjudged[p] = {}
  /\ apc' = [apc EXCEPT ![p] = "anchoring"]
  /\ UNCHANGED <<anchorTables, anchorLock, passStarted, headsRead, unjudged, due, anchorView,
                 newAnchors, newAnchorHead, passesBegun>>

-----------------------------------------------------------------------------
(* anchor_tenant: lock the anchor head, seal the anchor, flush. *)

LockAnchorHead(p) ==
  /\ apc[p] = "anchoring"
  /\ due[p] # {}
  /\ \/ /\ newAnchorHead[p] # NoHead
        /\ anchorView' = [anchorView EXCEPT ![p] = newAnchorHead[p]]
        /\ UNCHANGED anchorLock
     \/ /\ newAnchorHead[p] = NoHead /\ anchorHead # NoHead
        /\ anchorLock \in {NoPass, p}
        /\ anchorView' = [anchorView EXCEPT ![p] = anchorHead]
        /\ anchorLock' = p
     \/ /\ newAnchorHead[p] = NoHead /\ anchorHead = NoHead
        /\ UNCHANGED <<anchorView, anchorLock>>
  /\ apc' = [apc EXCEPT ![p] = "sealing"]
  /\ UNCHANGED <<anchorTables, passStarted, headsRead, unjudged, due, newAnchors,
                 newAnchorHead, passesBegun>>

\* seal_anchor: the anchor of head h of tenant t that follows anchor head g.
SealAnchor(t, h, g, now) ==
  LET n == NextSeq(g)  prev == NextPrev(g)
  IN  [seq |-> n, prev |-> prev, tenant |-> t, tenantSeq |-> h.seq, tenantHash |-> h.hash,
       time |-> now, hash |-> AnchorHash(n, prev, t, h.seq, h.hash, now)]

AnchorHeadAfter(a) == [seq |-> a.seq, hash |-> a.hash]

\* UNIQUE (anchor_seq) and UNIQUE (tenant_id, tenant_seq), against committed rows
\* and the rows of other passes.
AnchorKeysFreeAlways(p, a) == TRUE
AnchorKeysFree(p, a) ==
  \A b \in anchors \union UNION {newAnchors[q] : q \in Passes} :
    b.seq # a.seq /\ <<b.tenant, b.tenantSeq>> # <<a.tenant, a.tenantSeq>>

AnchorTenantRereadingSeq(p, t) ==
  LET h == [headsRead[p][t] EXCEPT !.seq = head[t].seq]
      a == SealAnchor(t, h, anchorView[p], passStarted[p])
  IN
  /\ apc[p] = "sealing"
  /\ t \in due[p]
  /\ AnchorKeysFree(p, a)
  /\ newAnchors' = [newAnchors EXCEPT ![p] = @ \union {a}]
  /\ newAnchorHead' = [newAnchorHead EXCEPT ![p] = AnchorHeadAfter(a)]
  /\ due' = [due EXCEPT ![p] = @ \ {t}]
  /\ anchorView' = [anchorView EXCEPT ![p] = NoHead]
  /\ apc' = [apc EXCEPT ![p] = "anchoring"]
  /\ UNCHANGED <<anchorTables, anchorLock, passStarted, headsRead, unjudged, passesBegun>>

\* The anchor is of the head the pass read at its start, not of the present one.
AnchorTenant(p, t) ==
  LET a == SealAnchor(t, headsRead[p][t], anchorView[p], passStarted[p]) IN
  /\ apc[p] = "sealing"
  /\ t \in due[p]
  /\ AnchorKeysFree(p, a)
  /\ newAnchors' = [newAnchors EXCEPT ![p] = @ \union {a}]
  /\ newAnchorHead' = [newAnchorHead EXCEPT ![p] = AnchorHeadAfter(a)]
  /\ due' = [due EXCEPT ![p] = @ \ {t}]
  /\ anchorView' = [anchorView EXCEPT ![p] = NoHead]
  /\ apc' = [apc EXCEPT ![p] = "anchoring"]
  /\ UNCHANGED <<anchorTables, anchorLock, passStarted, headsRead, unjudged, passesBegun>>

-----------------------------------------------------------------------------
(* The end of the pass. *)

EndPass(p) ==
  /\ anchorLock' = IF anchorLock = p THEN NoPass ELSE anchorLock
  /\ apc' = [apc EXCEPT ![p] = "idle"]
  /\ passStarted' = [passStarted EXCEPT ![p] = 0]
  /\ headsRead' = [headsRead EXCEPT ![p] = NoHeadsRead]
  /\ unjudged' = [unjudged EXCEPT ![p] = {}]
  /\ due' = [due EXCEPT ![p] = {}]
  /\ anchorView' = [anchorView EXCEPT ![p] = NoHead]
  /\ newAnchors' = [newAnchors EXCEPT ![p] = {}]
  /\ newAnchorHead' = [newAnchorHead EXCEPT ![p] = NoHead]
  /\ UNCHANGED passesBegun

CommitPass(p) ==
  /\ apc[p] = "anchoring"
  /\ due[p] = {}
  /\ anchors' = anchors \union newAnchors[p]
  /\ anchorHead' = IF newAnchorHead[p] = NoHead THEN anchorHead ELSE newAnchorHead[p]
  /\ EndPass(p)

\* The process dies, or a flush finds a key taken: nothing of the pass remains.
AbortPass(p) ==
  /\ apc[p] # "idle"
  /\ EndPass(p)
  /\ UNCHANGED anchorTables

-----------------------------------------------------------------------------

PassStep(p) ==
  \/ BeginPass(p) \/ ReadHeads(p)
  \/ \E t \in Tenants : JudgeTenant(p, t) \/ AnchorTenant(p, t)
  \/ EndJudging(p) \/ LockAnchorHead(p)
  \/ CommitPass(p) \/ AbortPass(p)

Init == AuditInit /\ AnchorInit

Next ==
  \/ AuditNext /\ UNCHANGED anchorVars
  \/ (\E p \in Passes : PassStep(p)) /\ UNCHANGED auditVars

Spec == Init /\ [][Next]_anchoringVars
-----------------------------------------------------------------------------
(* What must hold. *)

\* The anchor chain is gap-free and linked across tenants, and its head is its
\* last anchor, also when two passes race to write the first one.
AnchorChainIntact ==
  /\ \A a, b \in anchors : a.seq = b.seq => a = b
  /\ \A a \in anchors : a.seq \in 1 .. Length(anchorHead)
  /\ \A n \in 1 .. Length(anchorHead) : \E a \in anchors : a.seq = n
  /\ \A a \in anchors :
       IF a.seq = 1 THEN a.prev = NoHash
       ELSE \E b \in anchors : b.seq = a.seq - 1 /\ a.prev = b.hash
  /\ anchorHead # NoHead => \E a \in anchors : anchorHead = AnchorHeadAfter(a)

\* The anchors are an append-only log: whatever passes overlap, none changes, displaces
\* or doubles an anchor that was committed before.
AnchorLog == INSTANCE AppendOnlyLog
               WITH Owners <- {PlatformTenant},
                    log    <- [o \in {PlatformTenant} |-> anchors],
                    length <- [o \in {PlatformTenant} |-> Length(anchorHead)]
AnchorsOnlyGrow == AnchorLog!Spec

\* Every anchor names a record that is in the chain with the hash anchored, though
\* the head was read without a lock and long before: never a head that was rolled
\* back, never one seq with the hash of another.
AnchorsMatchChain ==
  \A a \in anchors : \E r \in records[a.tenant] : r.seq = a.tenantSeq /\ r.hash = a.tenantHash

\* A tenant is not anchored again before RecordsPerAnchor new records or TicksPerAnchor
\* of time, and never for a chain that has not advanced.
Cadence ==
  \A a, b \in anchors :
    /\ a.tenant = b.tenant /\ a.seq < b.seq
    => /\ a.tenantSeq < b.tenantSeq
       /\ b.tenantSeq - a.tenantSeq >= RecordsPerAnchor \/ b.time >= a.time + TicksPerAnchor
=============================================================================
