-------------------------- MODULE AuditChainProofs --------------------------
(***************************************************************************)
(* Theorems about AuditChain, for any tenants, writers, bounds and hash.   *)
(* That the hash has no collisions is not needed: nothing here compares    *)
(* records by their digests.                                               *)
(***************************************************************************)
EXTENDS AuditChain, TLAPS

-----------------------------------------------------------------------------
(* The types, and what each transaction holds at each step. *)

\* An idle writer has nothing; the head row is rewritten by exactly the writers
\* that have inserted; a head is locked only by a transaction of its tenant; only
\* a transaction that is about to append remembers the head it read.
TidyWriters ==
  \A w \in Writers :
    /\ pc[w] = "idle" => newRecords[w] = {} /\ \A t \in Tenants : lock[t] # w
    /\ newRecords[w] = {} <=> newHead[w] = NoHead
    /\ pc[w] # "sealing" => view[w] = NoHead
    /\ \A t \in Tenants : lock[t] = w => t = tenant[w]

TypeInv == AuditTypeOK /\ TidyWriters

LEMMA NoHeadIsRow == HeadRow(NoHead)
BY DEF HeadRow, NoHead

\* Sealing after a head row gives a well-formed record, and that one a head row.
LEMMA SealIsRecord ==
  ASSUME TypeInv, NEW w \in Writers, NEW h, HeadRow(h), NEW k \in Kinds
  PROVE  /\ SealedRecord(Seal(w, h, k))
         /\ Seal(w, h, k).seq = Length(h) + 1
         /\ HeadRow(HeadAfter(Seal(w, h, k)))
         /\ HeadAfter(Seal(w, h, k)) # NoHead
<1> USE DEF TypeInv, AuditTypeOK
<1> DEFINE r == Seal(w, h, k)
<1>1. r.tenant \in Tenants /\ r.kind = k /\ r.time \in Nat
  BY DEF Seal
<1>2. r.seq = Length(h) + 1 /\ r.seq \in Nat \ {0}
  BY DEF Seal, NextSeq, Length, HeadRow
<1>3. r.hash = Hash(r.tenant, r.seq, r.prev, r.kind, r.time)
  BY DEF Seal
<1>4. r = [tenant |-> r.tenant, seq |-> r.seq, prev |-> r.prev, kind |-> r.kind,
           time |-> r.time, hash |-> r.hash]
  BY DEF Seal
<1> HIDE DEF r
<1>5. HeadAfter(r).seq = r.seq /\ HeadAfter(r).time = r.time
  BY DEF HeadAfter
<1>6. HeadAfter(r) = [seq |-> HeadAfter(r).seq, hash |-> HeadAfter(r).hash,
                      time |-> HeadAfter(r).time]
  BY DEF HeadAfter
<1>7. HeadAfter(r) # NoHead
  BY <1>2, <1>5 DEF NoHead
<1>8. SealedRecord(r) /\ HeadRow(HeadAfter(r))
  BY <1>1, <1>2, <1>3, <1>4, <1>5, <1>6 DEF SealedRecord, HeadRow
<1>9. QED
  BY <1>2, <1>7, <1>8 DEF r

LEMMA InitTypeInv == AuditInit => TypeInv
BY AuditChainAssumption, NoHeadIsRow
   DEF AuditInit, TypeInv, AuditTypeOK, TidyWriters, PC

LEMMA NextTypeInv == TypeInv /\ [AuditNext]_auditVars => TypeInv'
<1> SUFFICES ASSUME TypeInv, [AuditNext]_auditVars PROVE TypeInv'
  OBVIOUS
<1> USE AuditChainAssumption
    DEF TypeInv, AuditTypeOK, PC, tableVars, clockVars, writerVars
<1>1. CASE Tick
  BY <1>1 DEF Tick, TidyWriters
<1>2. CASE StepBack
  BY <1>2 DEF StepBack, TidyWriters
<1>3. ASSUME NEW w \in Writers, NEW t \in Tenants, Begin(w, t) PROVE TypeInv'
  BY <1>3 DEF Begin, TidyWriters
<1>4. ASSUME NEW w \in Writers, LockHead(w) PROVE TypeInv'
  <2>1. AuditTypeOK'
    BY <1>4 DEF LockHead
  <2>2. TidyWriters'
    BY <1>4 DEF LockHead, LockFree, TidyWriters
  <2>3. QED
    BY <2>1, <2>2
<1>5. ASSUME NEW w \in Writers, Append(w) PROVE TypeInv'
  <2> DEFINE r    == Seal(w, view[w], "event")
             a    == Seal(w, HeadAfter(r), "anomaly")
             last == IF WentBackwards(w) THEN a ELSE r
  <2>1. SealedRecord(r) /\ HeadRow(HeadAfter(r)) /\ HeadAfter(r) # NoHead
    BY SealIsRecord DEF Kinds
  <2>2. SealedRecord(a) /\ HeadRow(HeadAfter(a)) /\ HeadAfter(a) # NoHead
    BY <2>1, SealIsRecord DEF Kinds
  <2> HIDE DEF r, a
  <2>3. SealedRecord(last) /\ HeadRow(HeadAfter(last)) /\ HeadAfter(last) # NoHead
    BY <2>1, <2>2
  <2>4. /\ pc[w] = "sealing"
        /\ newRecords' = [newRecords EXCEPT ![w] = @ \union {r, last}]
        /\ newHead' = [newHead EXCEPT ![w] = HeadAfter(last)]
        /\ view' = [view EXCEPT ![w] = NoHead]
        /\ pc' = [pc EXCEPT ![w] = "open"]
        /\ UNCHANGED <<tableVars, lock, clockVars, tenant, started, begun>>
    BY <1>5 DEF Append, r, a
  <2> HIDE DEF last
  <2>5. AuditTypeOK'
    BY <2>1, <2>3, <2>4, NoHeadIsRow
  <2>6. TidyWriters'
    BY <2>3, <2>4 DEF TidyWriters
  <2>7. QED
    BY <2>5, <2>6
<1>6. ASSUME NEW w \in Writers, Commit(w) PROVE TypeInv'
  BY <1>6, NoHeadIsRow DEF Commit, Release, TidyWriters
<1>7. ASSUME NEW w \in Writers, Rollback(w) PROVE TypeInv'
  BY <1>7, NoHeadIsRow DEF Rollback, Release, TidyWriters
<1>8. CASE UNCHANGED auditVars
  BY <1>8 DEF auditVars, TidyWriters
<1>9. QED
  BY <1>1, <1>2, <1>3, <1>4, <1>5, <1>6, <1>7, <1>8 DEF AuditNext, WriterStep

\* Every row and every version of a row an open transaction holds is well formed,
\* and every record's digest is the hash of its own header.
THEOREM AuditTypeCorrect == AuditSpec => []AuditTypeOK
<1>1. TypeInv => AuditTypeOK
  BY DEF TypeInv
<1>2. QED
  BY <1>1, InitTypeInv, NextTypeInv, PTL DEF AuditSpec

LEMMA TypeInvHolds == AuditSpec => []TypeInv
BY InitTypeInv, NextTypeInv, PTL DEF AuditSpec

-----------------------------------------------------------------------------
(* The chain, and the piece an open transaction is about to add to it. *)

\* A record sealed after the head of a chain extends the chain.
LEMMA ExtendChain ==
  ASSUME NEW t, NEW S, NEW h, HeadRow(h), IsChain(t, S, h),
         NEW r, r.tenant = t, r.seq = Length(h) + 1, r.prev = NextPrev(h)
  PROVE  IsChain(t, S \union {r}, HeadAfter(r))
<1> DEFINE T == S \union {r}
<1>1. Length(h) \in Nat /\ Length(HeadAfter(r)) = Length(h) + 1
  BY DEF HeadRow, Length, HeadAfter, NoHead
<1>2. \A s \in T : s.tenant = t /\ s.seq \in 1 .. Length(h) + 1
  BY <1>1 DEF IsChain
<1>3. \A n \in 1 .. Length(h) + 1 : \E s \in T : s.seq = n
  <2> SUFFICES ASSUME NEW n \in 1 .. Length(h) + 1 PROVE \E s \in T : s.seq = n
    OBVIOUS
  <2>1. CASE n = Length(h) + 1
    BY <2>1
  <2>2. CASE n # Length(h) + 1
    <3>1. n \in 1 .. Length(h)
      BY <1>1, <2>2
    <3>2. QED
      BY <3>1 DEF IsChain
  <2>3. QED
    BY <2>1, <2>2
<1>4. \A p, s \in T : p.seq = s.seq => p = s
  BY <1>1 DEF IsChain
<1>5. ASSUME NEW s \in T
      PROVE IF s.seq = 1 THEN s.prev = NoHash ELSE \E p \in T : p.seq = s.seq - 1 /\ s.prev = p.hash
  <2>1. CASE s \in S
    BY <2>1 DEF IsChain
  <2>2. CASE s = r /\ h = NoHead
    BY <2>2 DEF Length, NextPrev
  <2>3. CASE s = r /\ h # NoHead
    <3>1. PICK q \in S : h = HeadAfter(q)
      BY <2>3 DEF IsChain
    <3>2. q.seq = h.seq /\ q.hash = h.hash
      BY <3>1 DEF HeadAfter
    <3>3. s.seq - 1 = q.seq /\ s.seq # 1 /\ s.prev = q.hash
      BY <1>1, <2>3, <3>2 DEF Length, NextPrev, HeadRow
    <3>4. QED
      BY <3>3
  <2>4. QED
    BY <2>1, <2>2, <2>3
<1>6. QED
  BY <1>1, <1>2, <1>3, <1>4, <1>5 DEF IsChain

LEMMA LengthIsNat == ASSUME NEW h, HeadRow(h) PROVE Length(h) \in Nat
BY DEF HeadRow, Length

LEMMA LengthZero == ASSUME NEW h, HeadRow(h) PROVE Length(h) = 0 <=> h = NoHead
BY DEF HeadRow, Length, NoHead

\* What w has inserted continues the committed chain, and nobody else's insertion
\* can: w holds the head row, or there is none and the genesis key is w's.
ContinuesChain(w) ==
  newRecords[w] # {} =>
    /\ IsChain(tenant[w], records[tenant[w]] \union newRecords[w], newHead[w])
    /\ \A r \in newRecords[w] : r.seq > Length(head[tenant[w]])
    /\ \A v \in Writers \ {w} : tenant[v] = tenant[w] => newRecords[v] = {}
    /\ lock[tenant[w]] = w \/ head[tenant[w]] = NoHead

\* The head w is about to append to is still the head.
ViewIsCurrent(w) ==
  pc[w] = "sealing" =>
    IF newRecords[w] # {} THEN view[w] = newHead[w]
    ELSE view[w] # NoHead => view[w] = head[tenant[w]] /\ lock[tenant[w]] = w

ChainInv ==
  /\ TypeInv
  /\ ChainsIntact
  /\ \A w \in Writers : ContinuesChain(w) /\ ViewIsCurrent(w)

\* The committed chain together with what w has inserted, up to the head it read.
LEMMA ViewEndsChain ==
  ASSUME ChainInv, NEW w \in Writers, pc[w] = "sealing", KeyFree(w)
  PROVE  /\ IsChain(tenant[w], records[tenant[w]] \union newRecords[w], view[w])
         /\ \A v \in Writers \ {w} : tenant[v] = tenant[w] => newRecords[v] = {}
         /\ lock[tenant[w]] = w \/ head[tenant[w]] = NoHead
         /\ Length(view[w]) >= Length(head[tenant[w]])
<1> DEFINE t == tenant[w]
<1> USE DEF ChainInv, TypeInv, AuditTypeOK
<1>0. t \in Tenants /\ HeadRow(view[w]) /\ HeadRow(head[t]) /\ HeadRow(newHead[w])
  OBVIOUS
<1>1. IsChain(t, records[t], head[t])
  BY DEF ChainsIntact
<1>2. CASE newRecords[w] # {}
  <2>1. view[w] = newHead[w]
    BY <1>2 DEF ViewIsCurrent
  <2>2. PICK r \in newRecords[w] : TRUE
    BY <1>2
  <2>3. r.seq > Length(head[t]) /\ r.seq \in 1 .. Length(view[w])
    BY <1>2, <2>1, <2>2 DEF ContinuesChain, IsChain
  <2>4. Length(view[w]) >= Length(head[t])
    BY <1>0, <2>3, LengthIsNat
  <2>5. QED
    BY <1>2, <2>1, <2>4 DEF ContinuesChain
<1>3. CASE newRecords[w] = {} /\ view[w] # NoHead
  <2>1. view[w] = head[t] /\ lock[t] = w
    BY <1>3 DEF ViewIsCurrent
  <2>2. ASSUME NEW v \in Writers \ {w}, tenant[v] = t PROVE newRecords[v] = {}
    BY <1>3, <2>1, <2>2 DEF ContinuesChain
  <2>3. QED
    BY <1>0, <1>1, <1>3, <2>1, <2>2, LengthIsNat
<1>4. CASE newRecords[w] = {} /\ view[w] = NoHead
  <2>1. NextSeq(view[w]) = 1
    BY <1>4 DEF NextSeq
  <2>2. Length(head[t]) = 0
    BY <1>0, <1>1, <2>1, LengthIsNat DEF KeyFree, IsChain
  <2>3. head[t] = NoHead
    BY <1>0, <2>2, LengthZero
  <2>4. ASSUME NEW v \in Writers \ {w}, tenant[v] = t PROVE newRecords[v] = {}
    <3> SUFFICES ASSUME newRecords[v] # {} PROVE FALSE
      OBVIOUS
    <3>1. IsChain(t, records[t] \union newRecords[v], newHead[v])
      BY <2>4 DEF ContinuesChain
    <3>2. PICK r \in newRecords[v] : TRUE
      OBVIOUS
    <3>3. Length(newHead[v]) \in Nat /\ r.seq \in 1 .. Length(newHead[v])
      BY <3>1, <3>2, LengthIsNat DEF IsChain
    <3>4. \E s \in records[t] \union newRecords[v] : s.seq = 1
      BY <3>1, <3>3 DEF IsChain
    <3>5. QED
      BY <2>1, <2>4, <3>4 DEF KeyFree
  <2>5. QED
    BY <1>0, <1>1, <1>4, <2>3, <2>4, LengthIsNat
<1>5. QED
  BY <1>2, <1>3, <1>4

LEMMA InitChainInv == AuditInit => ChainInv
BY InitTypeInv DEF AuditInit, ChainInv, ChainsIntact, IsChain, Length, ContinuesChain, ViewIsCurrent

\* Appending, event and anomaly alike, keeps the promise of the open transaction.
LEMMA AppendContinues ==
  ASSUME ChainInv, NEW w \in Writers, Append(w)
  PROVE  \A v \in Writers : ContinuesChain(v)' /\ ViewIsCurrent(v)'
<1> DEFINE t    == tenant[w]
           base == records[t] \union newRecords[w]
           r    == Seal(w, view[w], "event")
           a    == Seal(w, HeadAfter(r), "anomaly")
           last == IF WentBackwards(w) THEN a ELSE r
<1> USE DEF ChainInv, TypeInv, AuditTypeOK
<1>1. /\ pc[w] = "sealing" /\ KeyFree(w)
      /\ newRecords' = [newRecords EXCEPT ![w] = @ \union {r, last}]
      /\ newHead' = [newHead EXCEPT ![w] = HeadAfter(last)]
      /\ pc' = [pc EXCEPT ![w] = "open"]
      /\ view' = [view EXCEPT ![w] = NoHead]
      /\ UNCHANGED <<records, head, lock, tenant>>
  BY DEF Append, tableVars
<1>2. /\ IsChain(t, base, view[w])
      /\ \A v \in Writers \ {w} : tenant[v] = t => newRecords[v] = {}
      /\ lock[t] = w \/ head[t] = NoHead
      /\ Length(view[w]) >= Length(head[t])
  BY <1>1, ViewEndsChain
<1>3. HeadRow(view[w]) /\ HeadRow(head[t])
  OBVIOUS
<1>4. HeadRow(HeadAfter(r)) /\ r.seq = Length(view[w]) + 1
  BY <1>3, SealIsRecord DEF Kinds
<1>5. a.seq = Length(HeadAfter(r)) + 1 /\ Length(HeadAfter(r)) = r.seq
  <2>1. HeadAfter(r) # NoHead
    BY <1>3, SealIsRecord DEF Kinds
  <2>2. QED
    BY <1>4, <2>1, SealIsRecord DEF Kinds, Length, HeadAfter
<1>6. r.tenant = t /\ r.prev = NextPrev(view[w])
  BY DEF Seal
<1>7. a.tenant = t /\ a.prev = NextPrev(HeadAfter(r))
  BY DEF Seal
<1> HIDE DEF r, a
<1>8. IsChain(t, base \union {r}, HeadAfter(r))
  BY <1>2, <1>3, <1>4, <1>6, ExtendChain
<1>9. IsChain(t, base \union {r} \union {a}, HeadAfter(a))
  BY <1>4, <1>5, <1>7, <1>8, ExtendChain
<1>10. IsChain(t, records[t] \union (newRecords[w] \union {r, last}), HeadAfter(last))
  <2>1. CASE WentBackwards(w)
    <3>1. base \union {r} \union {a} = records[t] \union (newRecords[w] \union {r, last})
      BY <2>1
    <3>2. QED
      BY <1>9, <2>1, <3>1
  <2>2. CASE ~WentBackwards(w)
    <3>1. base \union {r} = records[t] \union (newRecords[w] \union {r, last})
      BY <2>2
    <3>2. QED
      BY <1>8, <2>2, <3>1
  <2>3. QED
    BY <2>1, <2>2
<1>11. r.seq > Length(head[t]) /\ last.seq > Length(head[t])
  <2>1. Length(view[w]) \in Nat /\ Length(head[t]) \in Nat
    BY <1>3, LengthIsNat
  <2>2. QED
    BY <1>2, <1>4, <1>5, <2>1
<1> HIDE DEF last
<1>12. ContinuesChain(w)'
  <2>1. \A s \in newRecords[w] : s.seq > Length(head[t])
    BY DEF ContinuesChain
  <2>2. newRecords'[w] = newRecords[w] \union {r, last} /\ newHead'[w] = HeadAfter(last)
    BY <1>1
  <2>3. \A v \in Writers \ {w} : tenant[v] = t => newRecords'[v] = {}
    BY <1>1, <1>2
  <2>4. \A s \in newRecords'[w] : s.seq > Length(head[t])
    BY <1>11, <2>1, <2>2
  <2>5. IsChain(t, records[t] \union newRecords'[w], newHead'[w])
    BY <1>10, <2>2
  <2>6. QED
    BY <1>1, <1>2, <2>3, <2>4, <2>5 DEF ContinuesChain
<1>13. ASSUME NEW v \in Writers \ {w} PROVE ContinuesChain(v)'
  <2>1. newRecords'[v] = newRecords[v] /\ newHead'[v] = newHead[v]
    BY <1>1
  <2>2. newRecords[v] # {} => tenant[v] # t
    BY <1>2
  <2>3. newRecords[v] # {} => \A u \in Writers \ {v} : tenant[u] = tenant[v] => newRecords'[u] = {}
    BY <1>1, <2>2 DEF ContinuesChain
  <2>4. QED
    BY <1>1, <2>1, <2>3 DEF ContinuesChain
<1>14. \A v \in Writers : ViewIsCurrent(v)'
  BY <1>1 DEF ViewIsCurrent
<1>15. QED
  BY <1>12, <1>13, <1>14

\* A commit: the committed chain becomes what the transaction had made of it.
LEMMA CommitContinues ==
  ASSUME ChainInv, NEW w \in Writers, Commit(w)
  PROVE  ChainsIntact' /\ \A v \in Writers : ContinuesChain(v)' /\ ViewIsCurrent(v)'
<1> DEFINE t == tenant[w]
<1> USE DEF ChainInv, TypeInv, AuditTypeOK
<1>1. /\ newRecords[w] # {}
      /\ records' = [records EXCEPT ![t] = @ \union newRecords[w]]
      /\ head' = [head EXCEPT ![t] = newHead[w]]
      /\ lock' = [u \in Tenants |-> IF lock[u] = w THEN NoWriter ELSE lock[u]]
      /\ pc' = [pc EXCEPT ![w] = "idle"]
      /\ tenant' = [tenant EXCEPT ![w] = PlatformTenant]
      /\ view' = [view EXCEPT ![w] = NoHead]
      /\ newRecords' = [newRecords EXCEPT ![w] = {}]
      /\ newHead' = [newHead EXCEPT ![w] = NoHead]
  BY DEF Commit, Release
<1>2. /\ IsChain(t, records[t] \union newRecords[w], newHead[w])
      /\ \A v \in Writers \ {w} : tenant[v] = t => newRecords[v] = {}
      /\ lock[t] = w \/ head[t] = NoHead
  BY <1>1 DEF ContinuesChain
<1>3. ChainsIntact'
  <2> SUFFICES ASSUME NEW u \in Tenants PROVE IsChain(u, records'[u], head'[u])
    BY DEF ChainsIntact, IsChain, HeadAfter, Length
  <2>1. CASE u = t
    BY <1>1, <1>2, <2>1
  <2>2. CASE u # t
    BY <1>1, <2>2 DEF ChainsIntact
  <2>3. QED
    BY <2>1, <2>2
<1>4. ASSUME NEW v \in Writers PROVE ContinuesChain(v)'
  <2>1. CASE newRecords'[v] = {}
    BY <2>1 DEF ContinuesChain
  <2>2. CASE newRecords'[v] # {}
    <3>1. v # w /\ newRecords[v] # {} /\ tenant[v] # t
      BY <1>1, <1>2, <2>2
    <3>2. /\ newRecords'[v] = newRecords[v] /\ newHead'[v] = newHead[v] /\ tenant'[v] = tenant[v]
          /\ records'[tenant[v]] = records[tenant[v]] /\ head'[tenant[v]] = head[tenant[v]]
      BY <1>1, <3>1
    <3>3. \A x \in Writers \ {v} : tenant'[x] = tenant[v] => newRecords'[x] = {}
      BY <1>1, <3>1 DEF ContinuesChain
    <3>4. lock'[tenant[v]] = v \/ head'[tenant[v]] = NoHead
      BY <1>1, <3>1, <3>2 DEF ContinuesChain
    <3>5. QED
      BY <3>1, <3>2, <3>3, <3>4 DEF ContinuesChain, IsChain, HeadAfter, Length
  <2>3. QED
    BY <2>1, <2>2
<1>5. ASSUME NEW v \in Writers PROVE ViewIsCurrent(v)'
  <2> SUFFICES ASSUME pc'[v] = "sealing"
               PROVE IF newRecords'[v] # {} THEN view'[v] = newHead'[v]
                     ELSE view'[v] # NoHead =>
                            view'[v] = head'[tenant'[v]] /\ lock'[tenant'[v]] = v
    BY DEF ViewIsCurrent
  <2>1. v # w /\ pc[v] = "sealing"
    BY <1>1
  <2>2. CASE newRecords[v] # {}
    BY <1>1, <2>1, <2>2 DEF ViewIsCurrent
  <2>3. CASE newRecords[v] = {} /\ view[v] # NoHead
    <3>1. view[v] = head[tenant[v]] /\ lock[tenant[v]] = v
      BY <2>1, <2>3 DEF ViewIsCurrent
    <3>2. tenant[v] # t
      BY <1>2, <2>1, <2>3, <3>1
    <3>3. QED
      BY <1>1, <2>1, <2>3, <3>1, <3>2
  <2>4. CASE newRecords[v] = {} /\ view[v] = NoHead
    BY <1>1, <2>1, <2>4
  <2>5. QED
    BY <2>2, <2>3, <2>4
<1>6. QED
  BY <1>3, <1>4, <1>5

LEMMA NextChainInv == ChainInv /\ [AuditNext]_auditVars => ChainInv'
<1> SUFFICES ASSUME ChainInv, [AuditNext]_auditVars
             PROVE  ChainsIntact' /\ \A v \in Writers : ContinuesChain(v)' /\ ViewIsCurrent(v)'
  BY NextTypeInv DEF ChainInv
<1> USE DEF TypeInv, AuditTypeOK, tableVars, clockVars, writerVars
<1>1. CASE Tick \/ StepBack \/ UNCHANGED auditVars
  <2>1. UNCHANGED <<records, head, lock, pc, tenant, view, newRecords, newHead>>
    BY <1>1 DEF Tick, StepBack, auditVars
  <2>2. ChainsIntact'
    BY <2>1 DEF ChainInv, ChainsIntact
  <2>3. ASSUME NEW v \in Writers PROVE ContinuesChain(v)' /\ ViewIsCurrent(v)'
    BY <2>1 DEF ChainInv, ContinuesChain, ViewIsCurrent
  <2>4. QED
    BY <2>2, <2>3
<1>2. ASSUME NEW w \in Writers, NEW t \in Tenants, Begin(w, t)
      PROVE ChainsIntact' /\ \A v \in Writers : ContinuesChain(v)' /\ ViewIsCurrent(v)'
  <2>1. newRecords[w] = {} /\ pc'[w] = "open"
    BY <1>2 DEF ChainInv, Begin, TidyWriters
  <2>2. ChainsIntact'
    BY <1>2 DEF ChainInv, Begin, ChainsIntact
  <2>3. ASSUME NEW v \in Writers PROVE ContinuesChain(v)' /\ ViewIsCurrent(v)'
    <3>1. CASE v = w
      BY <1>2, <2>1, <3>1 DEF Begin, ContinuesChain, ViewIsCurrent
    <3>2. CASE v # w
      BY <1>2, <2>1, <3>2 DEF ChainInv, Begin, ContinuesChain, ViewIsCurrent
    <3>3. QED
      BY <3>1, <3>2
  <2>4. QED
    BY <2>2, <2>3
<1>3. ASSUME NEW w \in Writers, LockHead(w)
      PROVE ChainsIntact' /\ \A v \in Writers : ContinuesChain(v)' /\ ViewIsCurrent(v)'
  <2>1. ChainsIntact'
    BY <1>3 DEF ChainInv, LockHead, ChainsIntact
  <2>2. ASSUME NEW u \in Tenants, NEW v \in Writers, lock[u] = v PROVE lock'[u] = v
    BY <1>3, <2>2, AuditChainAssumption DEF ChainInv, LockHead, LockFree
  <2>3. ASSUME NEW v \in Writers PROVE ContinuesChain(v)' /\ ViewIsCurrent(v)'
    <3>1. ContinuesChain(v)'
      BY <1>3, <2>2 DEF ChainInv, LockHead, ContinuesChain
    <3>2. CASE v = w
      BY <1>3, <3>1, <3>2 DEF ChainInv, LockHead, ViewIsCurrent, TidyWriters
    <3>3. CASE v # w
      BY <1>3, <2>2, <3>1, <3>3 DEF ChainInv, LockHead, ViewIsCurrent
    <3>4. QED
      BY <3>1, <3>2, <3>3
  <2>4. QED
    BY <2>1, <2>3
<1>4. ASSUME NEW w \in Writers, Append(w)
      PROVE ChainsIntact' /\ \A v \in Writers : ContinuesChain(v)' /\ ViewIsCurrent(v)'
  <2>1. ChainsIntact'
    BY <1>4 DEF ChainInv, Append, ChainsIntact
  <2>2. QED
    BY <1>4, <2>1, AppendContinues
<1>5. ASSUME NEW w \in Writers, Commit(w)
      PROVE ChainsIntact' /\ \A v \in Writers : ContinuesChain(v)' /\ ViewIsCurrent(v)'
  BY <1>5, CommitContinues
<1>6. ASSUME NEW w \in Writers, Rollback(w)
      PROVE ChainsIntact' /\ \A v \in Writers : ContinuesChain(v)' /\ ViewIsCurrent(v)'
  <2>1. ChainsIntact'
    BY <1>6 DEF ChainInv, Rollback, ChainsIntact
  <2>2. ASSUME NEW v \in Writers PROVE ContinuesChain(v)' /\ ViewIsCurrent(v)'
    <3>0. /\ UNCHANGED <<records, head>>
          /\ lock' = [u \in Tenants |-> IF lock[u] = w THEN NoWriter ELSE lock[u]]
          /\ pc' = [pc EXCEPT ![w] = "idle"]
          /\ tenant' = [tenant EXCEPT ![w] = PlatformTenant]
          /\ view' = [view EXCEPT ![w] = NoHead]
          /\ newRecords' = [newRecords EXCEPT ![w] = {}]
          /\ newHead' = [newHead EXCEPT ![w] = NoHead]
      BY <1>6 DEF Rollback, Release
    <3>1. CASE v = w
      BY <3>0, <3>1 DEF ChainInv, ContinuesChain, ViewIsCurrent
    <3>2. CASE v # w
      <4>1. /\ tenant'[v] = tenant[v] /\ pc'[v] = pc[v] /\ view'[v] = view[v]
            /\ newRecords'[v] = newRecords[v] /\ newHead'[v] = newHead[v]
            /\ lock[tenant[v]] = v => lock'[tenant[v]] = v
        BY <3>0, <3>2 DEF ChainInv
      <4>2. \A x \in Writers : newRecords'[x] = newRecords[x] \/ newRecords'[x] = {}
        BY <3>0 DEF ChainInv
      <4>3. \A x \in Writers : newRecords'[x] # {} => tenant'[x] = tenant[x]
        BY <3>0 DEF ChainInv
      <4>4. newRecords[v] # {} =>
              \A x \in Writers \ {v} : tenant'[x] = tenant'[v] => newRecords'[x] = {}
        BY <4>1, <4>2, <4>3 DEF ChainInv, ContinuesChain
      <4>5. ContinuesChain(v)'
        BY <3>0, <4>1, <4>4 DEF ChainInv, ContinuesChain
      <4>6. ViewIsCurrent(v)'
        BY <3>0, <4>1 DEF ChainInv, ViewIsCurrent
      <4>7. QED
        BY <4>5, <4>6
    <3>3. QED
      BY <3>1, <3>2
  <2>3. QED
    BY <2>1, <2>2
<1>7. QED
  BY <1>1, <1>2, <1>3, <1>4, <1>5, <1>6 DEF AuditNext, WriterStep

LEMMA ChainInvHolds == AuditSpec => []ChainInv
BY InitChainInv, NextChainInv, PTL DEF AuditSpec

\* Every committed chain is gap-free, linked and summarised by its head, whatever
\* the number of tenants and writers and however they race, crash or roll back.
THEOREM ChainsStayIntact == AuditSpec => []ChainsIntact
<1>1. ChainInv => ChainsIntact
  BY DEF ChainInv
<1>2. QED
  BY <1>1, ChainInvHolds, PTL

\* An append that locked a head never meets its key taken.
THEOREM LockedAppendsSucceed == AuditSpec => []LockedAppendNeverCollides
<1>1. ChainInv => LockedAppendNeverCollides
  <2> SUFFICES ASSUME ChainInv, NEW w \in Writers, pc[w] = "sealing", view[w] # NoHead
               PROVE  KeyFree(w)
    BY DEF LockedAppendNeverCollides
  <2> DEFINE t == tenant[w]
  <2> USE DEF ChainInv, TypeInv, AuditTypeOK
  <2>1. /\ HeadRow(view[w]) /\ HeadRow(head[t]) /\ Length(view[w]) \in Nat
        /\ NextSeq(view[w]) = Length(view[w]) + 1
    BY LengthIsNat DEF NextSeq, Length
  <2>2. IsChain(t, records[t], head[t])
    BY DEF ChainsIntact
  <2>3. CASE newRecords[w] # {}
    <3>1. view[w] = newHead[w]
      BY <2>3 DEF ViewIsCurrent
    <3>2. \A r \in records[t] : r.seq \in 1 .. Length(view[w])
      BY <2>3, <3>1 DEF ContinuesChain, IsChain
    <3>3. \A v \in Writers \ {w} : tenant[v] = t => newRecords[v] = {}
      BY <2>3 DEF ContinuesChain
    <3>4. QED
      BY <2>1, <3>2, <3>3 DEF KeyFree
  <2>4. CASE newRecords[w] = {}
    <3>1. view[w] = head[t] /\ lock[t] = w
      BY <2>4 DEF ViewIsCurrent
    <3>2. \A r \in records[t] : r.seq \in 1 .. Length(view[w])
      BY <2>2, <3>1 DEF IsChain
    <3>3. \A v \in Writers \ {w} : tenant[v] = t => newRecords[v] = {}
      BY <3>1 DEF ContinuesChain
    <3>4. QED
      BY <2>1, <3>2, <3>3 DEF KeyFree
  <2>5. QED
    BY <2>3, <2>4
<1>2. QED
  BY <1>1, ChainInvHolds, PTL

\* The audit chain implements the append-only log.
THEOREM ImplementsAppendOnlyLog == AuditSpec => ChainsOnlyGrow
<1> DEFINE len == [t \in Tenants |-> Length(head[t])]
<1>1. AuditInit => Log!Init
  BY DEF AuditInit, Log!Init, Length
<1>2. ChainInv /\ ChainInv' /\ [AuditNext]_auditVars
        => [\E o \in Tenants : Log!Append(o)]_<<records, len>>
  <2> SUFFICES ASSUME ChainInv, ChainInv', [AuditNext]_auditVars
               PROVE  (\E o \in Tenants : Log!Append(o)) \/ UNCHANGED <<records, len>>
    OBVIOUS
  <2>1. ASSUME UNCHANGED tableVars PROVE UNCHANGED <<records, len>>
    BY <2>1 DEF tableVars
  <2>2. ASSUME NEW w \in Writers, Commit(w) PROVE Log!Append(tenant[w])
    <3> DEFINE t == tenant[w]
    <3> USE DEF ChainInv, TypeInv, AuditTypeOK
    <3>1. /\ newRecords[w] # {}
          /\ records' = [records EXCEPT ![t] = @ \union newRecords[w]]
          /\ head' = [head EXCEPT ![t] = newHead[w]]
      BY <2>2 DEF Commit
    <3>2. /\ IsChain(t, records'[t], newHead[w])
          /\ \A r \in newRecords[w] : r.seq > Length(head[t])
      BY <3>1 DEF ContinuesChain
    <3>3. t \in Tenants /\ Length(head[t]) \in Nat /\ Length(newHead[w]) \in Nat
      BY LengthIsNat
    <3>4. len' = [len EXCEPT ![t] = len'[t]] /\ len'[t] = Length(newHead[w])
      BY <3>1, <3>3 DEF Length
    <3>5. PICK r \in newRecords[w] : TRUE
      BY <3>1
    <3>6. r.seq > Length(head[t]) /\ r.seq \in 1 .. Length(newHead[w])
      BY <3>1, <3>2, <3>5 DEF IsChain
    <3>7. len'[t] > len[t]
      BY <3>3, <3>4, <3>6
    <3>8. \A e \in records'[t] \ records[t] : e.seq \in len[t] + 1 .. len'[t]
      BY <3>1, <3>2, <3>3, <3>4 DEF IsChain
    <3>9. \A n \in len[t] + 1 .. len'[t] : \E e \in records'[t] : e.seq = n
      BY <3>2, <3>3, <3>4 DEF IsChain
    <3>10. \A d, e \in records'[t] : d.seq = e.seq => d = e
      BY <3>2 DEF IsChain
    <3>11. records' = [records EXCEPT ![t] = records'[t]] /\ records[t] \subseteq records'[t]
      BY <3>1, <3>3
    <3> HIDE DEF len
    <3>12. QED
      BY <3>4, <3>7, <3>8, <3>9, <3>10, <3>11 DEF Log!Append, len
  <2>3. QED
    <3>1. CASE \E w \in Writers : Commit(w)
      BY <2>2, <3>1 DEF ChainInv, TypeInv, AuditTypeOK
    <3>2. CASE ~ \E w \in Writers : Commit(w)
      <4>1. UNCHANGED tableVars
        BY <3>2 DEF AuditNext, WriterStep, Tick, StepBack, Begin, LockHead, Append, Rollback,
                    auditVars, tableVars
      <4>2. QED
        BY <2>1, <4>1
    <3>3. QED
      BY <3>1, <3>2
<1>3. QED
  BY <1>1, <1>2, ChainInvHolds, PTL DEF AuditSpec, ChainsOnlyGrow, Log!Spec

-----------------------------------------------------------------------------
(* Time anomalies. *)

\* The committed chain of a tenant with what w is about to add to it.
Pending(w) == records[tenant[w]] \union newRecords[w]

AnomalyInv ==
  /\ ChainInv
  /\ AnomalyIffBackwards
  /\ \A w \in Writers : newRecords[w] # {} => AnomaliesFollowBackwardSteps(Pending(w))

\* An event that is not earlier than the last record needs no anomaly.
LEMMA ExtendInOrder ==
  ASSUME NEW t, NEW S, NEW h, HeadRow(h), IsChain(t, S, h), AnomaliesFollowBackwardSteps(S),
         \A s \in S : s.time \in Nat,
         NEW r, r.seq = Length(h) + 1, r.kind = "event", r.time \in Nat,
         ~(h # NoHead /\ r.time < h.time)
  PROVE  AnomaliesFollowBackwardSteps(S \union {r})
<1> DEFINE T == S \union {r}
<1>1. Length(h) \in Nat /\ \A s \in S : s.seq \in 1 .. Length(h)
  BY LengthIsNat DEF IsChain
<1>2. ASSUME NEW p \in S, p.seq = Length(h) PROVE ~(r.time < p.time)
  <2>1. h # NoHead
    BY <1>1, <1>2 DEF Length
  <2>2. PICK q \in S : h = HeadAfter(q)
    BY <2>1 DEF IsChain
  <2>3. q.seq = h.seq /\ q.time = h.time /\ Length(h) = h.seq
    BY <2>1, <2>2 DEF HeadAfter, Length
  <2>4. p = q
    BY <1>2, <2>3 DEF IsChain
  <2>5. QED
    BY <2>1, <2>3, <2>4
<1>3. ASSUME NEW s \in S
      PROVE (\E a \in T : a.seq = s.seq + 1 /\ a.kind = "anomaly") <=>
              /\ s.kind = "event"
              /\ \E p \in T : p.seq = s.seq - 1 /\ s.time < p.time
  <2>1. r.seq # s.seq - 1
    BY <1>1
  <2>2. QED
    BY <2>1 DEF AnomaliesFollowBackwardSteps
<1>4. ~ \E a \in T : a.seq = r.seq + 1
  BY <1>1
<1>5. ~ \E p \in T : p.seq = r.seq - 1 /\ r.time < p.time
  BY <1>1, <1>2
<1>6. QED
  BY <1>3, <1>4, <1>5 DEF AnomaliesFollowBackwardSteps

\* An event earlier than the last record, with the anomaly that says so.
LEMMA ExtendBackwards ==
  ASSUME NEW t, NEW S, NEW h, HeadRow(h), IsChain(t, S, h), AnomaliesFollowBackwardSteps(S),
         NEW r, r.seq = Length(h) + 1, r.kind = "event",
         h # NoHead, r.time < h.time,
         NEW a, a.seq = r.seq + 1, a.kind = "anomaly"
  PROVE  AnomaliesFollowBackwardSteps(S \union {r, a})
<1> DEFINE T == S \union {r, a}
<1>1. Length(h) \in Nat /\ \A s \in S : s.seq \in 1 .. Length(h)
  BY LengthIsNat DEF IsChain
<1>2. PICK q \in S : h = HeadAfter(q)
  BY DEF IsChain
<1>3. q.seq = r.seq - 1 /\ q.time = h.time
  BY <1>1, <1>2 DEF HeadAfter, Length
<1>4. ASSUME NEW s \in S
      PROVE (\E b \in T : b.seq = s.seq + 1 /\ b.kind = "anomaly") <=>
              /\ s.kind = "event"
              /\ \E p \in T : p.seq = s.seq - 1 /\ s.time < p.time
  <2>1. r.seq # s.seq - 1 /\ a.seq # s.seq - 1 /\ a.seq # s.seq + 1
    BY <1>1
  <2>2. QED
    BY <2>1 DEF AnomaliesFollowBackwardSteps
<1>5. /\ \E b \in T : b.seq = r.seq + 1 /\ b.kind = "anomaly"
      /\ \E p \in T : p.seq = r.seq - 1 /\ r.time < p.time
  BY <1>3
<1>6. ~ \E b \in T : b.seq = a.seq + 1
  BY <1>1
<1>7. QED
  BY <1>4, <1>5, <1>6 DEF AnomaliesFollowBackwardSteps

LEMMA AppendKeepsAnomalies ==
  ASSUME AnomalyInv, NEW w \in Writers, Append(w)
  PROVE  AnomaliesFollowBackwardSteps(Pending(w)')
<1> DEFINE t    == tenant[w]
           h    == view[w]
           r    == Seal(w, h, "event")
           a    == Seal(w, HeadAfter(r), "anomaly")
           last == IF WentBackwards(w) THEN a ELSE r
<1> USE DEF AnomalyInv, ChainInv, TypeInv, AuditTypeOK
<1>1. /\ pc[w] = "sealing" /\ KeyFree(w)
      /\ newRecords' = [newRecords EXCEPT ![w] = @ \union {r, last}]
      /\ UNCHANGED <<records, tenant>>
  BY DEF Append, tableVars
<1>2. HeadRow(h) /\ IsChain(t, Pending(w), h)
  BY <1>1, ViewEndsChain DEF Pending
<1>3. /\ r.seq = Length(h) + 1 /\ r.kind = "event" /\ r.time = started[w] /\ r.time \in Nat
      /\ HeadRow(HeadAfter(r)) /\ HeadAfter(r) # NoHead
  BY <1>2, SealIsRecord DEF Kinds, Seal
<1>4. a.seq = r.seq + 1 /\ a.kind = "anomaly"
  <2>1. Length(HeadAfter(r)) = r.seq
    BY <1>3 DEF Length, HeadAfter
  <2>2. a.seq = Length(HeadAfter(r)) + 1
    BY <1>3, SealIsRecord DEF Kinds
  <2>3. a.kind = "anomaly"
    BY DEF Seal
  <2>4. QED
    BY <2>1, <2>2, <2>3
<1>5. \A s \in Pending(w) : s.time \in Nat
  BY DEF Pending, SealedRecord
<1>6. AnomaliesFollowBackwardSteps(Pending(w))
  <2>1. CASE newRecords[w] # {}
    BY <2>1
  <2>2. CASE newRecords[w] = {}
    <3>1. Pending(w) = records[t]
      BY <2>2 DEF Pending
    <3>2. QED
      BY <3>1 DEF AnomalyIffBackwards
  <2>3. QED
    BY <2>1, <2>2
<1> HIDE DEF r, a
<1>7. CASE WentBackwards(w)
  <2>1. Pending(w)' = Pending(w) \union {r, a}
    BY <1>1, <1>7 DEF Pending
  <2>2. h # NoHead /\ r.time < h.time
    BY <1>3, <1>7 DEF WentBackwards
  <2>3. QED
    BY <1>2, <1>3, <1>4, <1>6, <2>1, <2>2, ExtendBackwards
<1>8. CASE ~WentBackwards(w)
  <2>1. Pending(w)' = Pending(w) \union {r}
    BY <1>1, <1>8 DEF Pending
  <2>2. ~(h # NoHead /\ r.time < h.time)
    BY <1>3, <1>8 DEF WentBackwards
  <2>3. QED
    BY <1>2, <1>3, <1>5, <1>6, <2>1, <2>2, ExtendInOrder
<1>9. QED
  BY <1>7, <1>8

LEMMA InitAnomalyInv == AuditInit => AnomalyInv
BY InitChainInv
   DEF AuditInit, AnomalyInv, AnomalyIffBackwards, AnomaliesFollowBackwardSteps

LEMMA NextAnomalyInv == AnomalyInv /\ [AuditNext]_auditVars => AnomalyInv'
<1> DEFINE Kept == AnomalyIffBackwards' /\ \A v \in Writers :
                     newRecords'[v] # {} => AnomaliesFollowBackwardSteps(Pending(v)')
<1> SUFFICES ASSUME AnomalyInv, [AuditNext]_auditVars PROVE Kept
  BY NextChainInv DEF AnomalyInv
<1> USE DEF AnomalyInv, ChainInv, TypeInv, AuditTypeOK
<1>1. ASSUME NEW w \in Writers, UNCHANGED records,
             \A v \in Writers \ {w} : newRecords'[v] = newRecords[v] /\ tenant'[v] = tenant[v],
             newRecords'[w] # {} => AnomaliesFollowBackwardSteps(Pending(w)')
      PROVE Kept
  <2>1. AnomalyIffBackwards'
    BY <1>1 DEF AnomalyIffBackwards
  <2>2. ASSUME NEW v \in Writers, newRecords'[v] # {}
        PROVE AnomaliesFollowBackwardSteps(Pending(v)')
    <3>1. CASE v = w
      BY <1>1, <2>2, <3>1
    <3>2. CASE v # w
      <4>1. Pending(v)' = Pending(v)
        BY <1>1, <3>2 DEF Pending
      <4>2. QED
        BY <1>1, <2>2, <3>2, <4>1
    <3>3. QED
      BY <3>1, <3>2
  <2>3. QED
    BY <2>1, <2>2
<1>2. ASSUME UNCHANGED <<records, newRecords, tenant>> PROVE Kept
  BY <1>2 DEF AnomalyIffBackwards, Pending
<1>3. CASE Tick \/ StepBack \/ UNCHANGED auditVars \/ \E w \in Writers : LockHead(w)
  BY <1>2, <1>3 DEF Tick, StepBack, LockHead, auditVars, tableVars, writerVars
<1>4. ASSUME NEW w \in Writers, NEW t \in Tenants, Begin(w, t) PROVE Kept
  <2>1. newRecords'[w] = {}
    BY <1>4 DEF Begin, TidyWriters
  <2>2. QED
    BY <1>1, <1>4, <2>1 DEF Begin, tableVars
<1>5. ASSUME NEW w \in Writers, Append(w) PROVE Kept
  <2>1. AnomaliesFollowBackwardSteps(Pending(w)')
    BY <1>5, AppendKeepsAnomalies
  <2>2. /\ UNCHANGED records
        /\ \A v \in Writers \ {w} : newRecords'[v] = newRecords[v] /\ tenant'[v] = tenant[v]
    BY <1>5 DEF Append, tableVars
  <2>3. QED
    BY <1>1, <2>1, <2>2
<1>6. ASSUME NEW w \in Writers, Rollback(w) PROVE Kept
  <2>1. newRecords'[w] = {}
    BY <1>6 DEF Rollback, Release
  <2>2. QED
    BY <1>1, <1>6, <2>1 DEF Rollback, Release, tableVars
<1>7. ASSUME NEW w \in Writers, Commit(w) PROVE Kept
  <2> DEFINE t == tenant[w]
  <2>1. /\ newRecords[w] # {}
        /\ records' = [records EXCEPT ![t] = Pending(w)]
        /\ \A v \in Writers \ {w} : tenant[v] = t => newRecords[v] = {}
        /\ newRecords' = [newRecords EXCEPT ![w] = {}]
        /\ tenant' = [tenant EXCEPT ![w] = PlatformTenant]
    BY <1>7 DEF Commit, Release, Pending, ContinuesChain
  <2>2. AnomalyIffBackwards'
    BY <2>1 DEF AnomalyIffBackwards
  <2>3. ASSUME NEW v \in Writers, newRecords'[v] # {}
        PROVE AnomaliesFollowBackwardSteps(Pending(v)')
    <3>1. v # w /\ newRecords'[v] = newRecords[v] /\ tenant'[v] = tenant[v] /\ tenant[v] # t
      BY <2>1, <2>3
    <3>2. Pending(v)' = Pending(v)
      BY <2>1, <3>1 DEF Pending
    <3>3. QED
      BY <2>3, <3>1, <3>2
  <2>4. QED
    BY <2>2, <2>3
<1>8. QED
  BY <1>3, <1>4, <1>5, <1>6, <1>7 DEF AuditNext, WriterStep

\* D21 as it is implemented: in every committed chain, an anomaly record stands
\* exactly behind each event that is stamped earlier than its predecessor.
THEOREM AnomaliesAreRecorded == AuditSpec => []AnomalyIffBackwards
<1>1. AnomalyInv => AnomalyIffBackwards
  BY DEF AnomalyInv
<1>2. QED
  BY <1>1, InitAnomalyInv, NextAnomalyInv, PTL DEF AuditSpec
=============================================================================
