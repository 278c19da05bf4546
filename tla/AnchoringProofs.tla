--------------------------- MODULE AnchoringProofs ---------------------------
(***************************************************************************)
(* Theorems about Anchoring, and about Scheduler and ChainVerification,    *)
(* which run its passes under an elected leader and beside verifications:  *)
(* for any tenants, writers, passes, connections, verifiers and bounds.    *)
(***************************************************************************)
EXTENDS AuditChainProofs, Scheduler, ChainVerification

-----------------------------------------------------------------------------
(* The types, and what a pass holds at each step. *)

APC == {"idle", "started", "judging", "anchoring", "sealing"}

\* The head row of the anchor chain, which NoHead stands for while there is none.
AnchorHeadRow(h) ==
  h # NoHead => h.seq \in Nat \ {0} /\ h = [seq |-> h.seq, hash |-> h.hash]

Anchor(a) ==
  /\ a.seq \in Nat \ {0} /\ a.tenant \in Tenants
  /\ a.tenantSeq \in Nat \ {0} /\ a.time \in Nat

PassTypes ==
  /\ \A a \in anchors : Anchor(a)
  /\ AnchorHeadRow(anchorHead)
  /\ anchorLock \in Passes \union {NoPass}
  /\ apc \in [Passes -> APC]
  /\ passStarted \in [Passes -> Nat]
  /\ DOMAIN headsRead = Passes
  /\ \A p \in Passes : \A t \in Tenants : HeadRow(headsRead[p][t])
  /\ unjudged \in [Passes -> SUBSET Tenants]
  /\ due \in [Passes -> SUBSET Tenants]
  /\ DOMAIN anchorView = Passes /\ \A p \in Passes : AnchorHeadRow(anchorView[p])
  /\ DOMAIN newAnchors = Passes
  /\ \A p \in Passes : \A a \in newAnchors[p] : Anchor(a)
  /\ DOMAIN newAnchorHead = Passes /\ \A p \in Passes : AnchorHeadRow(newAnchorHead[p])

\* A pass that has not read the heads has nothing to judge or anchor, one that has
\* ended has neither rows nor the lock; it remembers the anchor head only to seal.
TidyPasses ==
  \A p \in Passes :
    /\ apc[p] \in {"idle", "started"} => unjudged[p] = {} /\ due[p] = {}
    /\ apc[p] \in {"anchoring", "sealing"} => unjudged[p] = {}
    /\ apc[p] \in {"idle", "started", "judging"} => newAnchors[p] = {} /\ anchorLock # p
    /\ newAnchors[p] = {} <=> newAnchorHead[p] = NoHead
    /\ apc[p] # "sealing" => anchorView[p] = NoHead

-----------------------------------------------------------------------------
(* What the anchors name. *)

\* The record that an anchor names is in the chain.
Named(a) == \E r \in records[a.tenant] : r.seq = a.tenantSeq /\ r.hash = a.tenantHash

\* A head that was read is the summary of a record that is in the chain; only tenants
\* with a head are judged; and what is about to be committed names records too.
ReadsLast ==
  /\ \A p \in Passes, t \in Tenants :
       headsRead[p][t] # NoHead => \E r \in records[t] : headsRead[p][t] = HeadAfter(r)
  /\ \A p \in Passes : \A t \in unjudged[p] \union due[p] : headsRead[p][t] # NoHead
  /\ \A p \in Passes : \A a \in newAnchors[p] : Named(a)

-----------------------------------------------------------------------------
(* The anchor chain, and the piece a pass is about to add to it. *)

\* S is a whole anchor chain with head h.
IsAnchorChain(S, h) ==
  /\ \A a, b \in S : a.seq = b.seq => a = b
  /\ \A a \in S : a.seq \in 1 .. Length(h)
  /\ \A n \in 1 .. Length(h) : \E a \in S : a.seq = n
  /\ \A a \in S :
       IF a.seq = 1 THEN a.prev = NoHash
       ELSE \E b \in S : b.seq = a.seq - 1 /\ a.prev = b.hash
  /\ h # NoHead => \E a \in S : h = AnchorHeadAfter(a)

ContinuesAnchors(p) ==
  newAnchors[p] # {} =>
    /\ IsAnchorChain(anchors \union newAnchors[p], newAnchorHead[p])
    /\ \A a \in newAnchors[p] : a.seq > Length(anchorHead)
    /\ \A q \in Passes \ {p} : newAnchors[q] = {}
    /\ anchorLock = p \/ anchorHead = NoHead

AnchorViewIsCurrent(p) ==
  apc[p] = "sealing" =>
    IF newAnchors[p] # {} THEN anchorView[p] = newAnchorHead[p]
    ELSE anchorView[p] # NoHead => anchorView[p] = anchorHead /\ anchorLock = p

PassInv ==
  /\ ChainInv
  /\ PassTypes
  /\ TidyPasses
  /\ ReadsLast
  /\ AnchorsMatchChain
  /\ AnchorChainIntact
  /\ \A p \in Passes : ContinuesAnchors(p) /\ AnchorViewIsCurrent(p)

-----------------------------------------------------------------------------
(* PassInv is inductive: the steps of the writers. *)

LEMMA InitPassInv == Init => PassInv
<1> SUFFICES ASSUME Init PROVE PassInv
  OBVIOUS
<1> USE AnchoringAssumption DEF Init, AnchorInit, NoHeadsRead
<1>1. ChainInv
  BY InitChainInv
<1>2. PassTypes
  BY NoHeadIsRow DEF PassTypes, APC, AnchorHeadRow
<1>3. TidyPasses /\ ReadsLast /\ AnchorsMatchChain
  BY DEF TidyPasses, ReadsLast, AnchorsMatchChain
<1>4. AnchorChainIntact
  BY DEF AnchorChainIntact, Length
<1>5. \A p \in Passes : ContinuesAnchors(p) /\ AnchorViewIsCurrent(p)
  BY DEF ContinuesAnchors, AnchorViewIsCurrent
<1>6. QED
  BY <1>1, <1>2, <1>3, <1>4, <1>5 DEF PassInv

\* A committed record stays.
LEMMA RecordsStay ==
  ASSUME ChainInv, [AuditNext]_auditVars, NEW t \in Tenants
  PROVE  records[t] \subseteq records'[t]
<1>1. CASE \E w \in Writers : Commit(w)
  <2>1. PICK w \in Writers : records' = [records EXCEPT ![tenant[w]] = @ \union newRecords[w]]
    BY <1>1 DEF Commit
  <2>2. QED
    BY <2>1 DEF ChainInv, TypeInv, AuditTypeOK
<1>2. CASE ~ \E w \in Writers : Commit(w)
  <2>1. UNCHANGED records
    BY <1>2 DEF AuditNext, WriterStep, Tick, StepBack, Begin, LockHead, Append, Rollback,
                auditVars, tableVars
  <2>2. QED
    BY <2>1
<1>3. QED
  BY <1>1, <1>2

LEMMA WritersKeepPasses ==
  ASSUME PassInv, [AuditNext]_auditVars, UNCHANGED anchorVars
  PROVE  PassInv'
<1>1. ChainInv'
  BY NextChainInv DEF PassInv
<1>2. UNCHANGED <<anchors, anchorHead, anchorLock, apc, passStarted, headsRead, unjudged, due,
                  anchorView, newAnchors, newAnchorHead, passesBegun>>
  BY DEF anchorVars, anchorTables, passVars
<1>3. PassTypes' /\ TidyPasses' /\ AnchorChainIntact'
  BY <1>2 DEF PassInv, PassTypes, TidyPasses, AnchorChainIntact
<1>4. \A t \in Tenants : records[t] \subseteq records'[t]
  BY RecordsStay DEF PassInv
<1>5. ReadsLast'
  BY <1>2, <1>4 DEF PassInv, ReadsLast, Named, PassTypes, Anchor
<1>6. AnchorsMatchChain'
  BY <1>2, <1>4 DEF PassInv, AnchorsMatchChain, PassTypes, Anchor
<1>7. \A p \in Passes : ContinuesAnchors(p)' /\ AnchorViewIsCurrent(p)'
  BY <1>2 DEF PassInv, ContinuesAnchors, AnchorViewIsCurrent, IsAnchorChain
<1>8. QED
  BY <1>1, <1>3, <1>5, <1>6, <1>7 DEF PassInv

-----------------------------------------------------------------------------
(* The steps of a pass that write nothing. *)

\* What a pass says of the audit chains holds while they do not change.
LEMMA ChainsStand ==
  ASSUME PassInv, UNCHANGED auditVars
  PROVE  ChainInv' /\ UNCHANGED <<records, head, clock>>
BY NextChainInv DEF PassInv, auditVars, tableVars, clockVars

\* No row is written, and at most the lock of the anchor head is taken.
LEMMA QuietStep ==
  ASSUME PassInv, UNCHANGED auditVars, NEW p \in Passes,
         UNCHANGED <<anchors, anchorHead, newAnchors, newAnchorHead>>,
         anchorLock' \in {anchorLock, p}, anchorLock # p => anchorLock' = anchorLock \/ anchorLock = NoPass,
         \A q \in Passes \ {p} :
           /\ apc'[q] = apc[q] /\ anchorView'[q] = anchorView[q] /\ headsRead'[q] = headsRead[q]
           /\ unjudged'[q] = unjudged[q] /\ due'[q] = due[q],
         PassTypes', TidyPasses', AnchorViewIsCurrent(p)',
         \A t \in Tenants :
           headsRead'[p][t] # NoHead => \E r \in records[t] : headsRead'[p][t] = HeadAfter(r),
         \A t \in unjudged'[p] \union due'[p] : headsRead'[p][t] # NoHead
  PROVE  PassInv'
<1>1. ChainInv' /\ UNCHANGED records
  BY ChainsStand
<1>2. ReadsLast'
  BY <1>1 DEF PassInv, ReadsLast, Named
<1>3. AnchorsMatchChain' /\ AnchorChainIntact'
  BY <1>1 DEF PassInv, AnchorsMatchChain, AnchorChainIntact
<1>4. \A q \in Passes : anchorLock = q => anchorLock' = q
  BY AnchoringAssumption
<1>5. ASSUME NEW q \in Passes PROVE ContinuesAnchors(q)'
  BY <1>4 DEF PassInv, ContinuesAnchors, IsAnchorChain
<1>6. ASSUME NEW q \in Passes \ {p} PROVE AnchorViewIsCurrent(q)'
  BY <1>4 DEF PassInv, AnchorViewIsCurrent
<1>7. QED
  BY <1>1, <1>2, <1>3, <1>5, <1>6 DEF PassInv

LEMMA BeginPassKeeps ==
  ASSUME PassInv, UNCHANGED auditVars, NEW p \in Passes, BeginPass(p)
  PROVE  PassInv'
<1> USE DEF PassInv
<1>1. /\ apc[p] = "idle" /\ apc' = [apc EXCEPT ![p] = "started"]
      /\ passStarted' = [passStarted EXCEPT ![p] = clock]
      /\ UNCHANGED <<anchors, anchorHead, anchorLock, headsRead, unjudged, due, anchorView,
                     newAnchors, newAnchorHead>>
  BY DEF BeginPass, anchorTables
<1>2. clock \in Nat
  BY DEF ChainInv, TypeInv, AuditTypeOK
<1>3. PassTypes' /\ TidyPasses'
  BY <1>1, <1>2 DEF PassTypes, TidyPasses, APC
<1>4. AnchorViewIsCurrent(p)'
  BY <1>1 DEF AnchorViewIsCurrent, PassTypes
<1>5. QED
  BY <1>1, <1>3, <1>4, QuietStep DEF ReadsLast

LEMMA ReadHeadsKeeps ==
  ASSUME PassInv, UNCHANGED auditVars, NEW p \in Passes, ReadHeads(p)
  PROVE  PassInv'
<1> USE DEF PassInv
<1>1. /\ apc[p] = "started" /\ apc' = [apc EXCEPT ![p] = "judging"]
      /\ headsRead' = [headsRead EXCEPT ![p] = head]
      /\ unjudged' = [unjudged EXCEPT ![p] = {t \in Tenants : head[t] # NoHead}]
      /\ UNCHANGED <<anchors, anchorHead, anchorLock, passStarted, due, anchorView,
                     newAnchors, newAnchorHead>>
  BY DEF ReadHeads, anchorTables
<1>2. /\ \A t \in Tenants : HeadRow(head[t])
      /\ \A t \in Tenants : head[t] # NoHead => \E r \in records[t] : head[t] = HeadAfter(r)
  BY DEF ChainInv, TypeInv, AuditTypeOK, ChainsIntact, IsChain
<1>3. headsRead'[p] = head /\ unjudged'[p] = {t \in Tenants : head[t] # NoHead} /\ due'[p] = {}
  BY <1>1 DEF PassTypes, TidyPasses
<1>4. PassTypes'
  BY <1>1, <1>2 DEF PassTypes, APC
<1>5. TidyPasses'
  BY <1>1 DEF TidyPasses, PassTypes
<1>6. AnchorViewIsCurrent(p)'
  BY <1>1 DEF AnchorViewIsCurrent, PassTypes
<1>7. QED
  BY <1>1, <1>2, <1>3, <1>4, <1>5, <1>6, QuietStep

LEMMA JudgeTenantKeeps ==
  ASSUME PassInv, UNCHANGED auditVars, NEW p \in Passes, NEW t \in Tenants, JudgeTenant(p, t)
  PROVE  PassInv'
<1> USE DEF PassInv
<1>1. /\ apc[p] = "judging" /\ t \in unjudged[p]
      /\ unjudged' = [unjudged EXCEPT ![p] = @ \ {t}]
      /\ \/ due' = [due EXCEPT ![p] = @ \union {t}]
         \/ due' = due
      /\ UNCHANGED <<anchors, anchorHead, anchorLock, apc, passStarted, headsRead, anchorView,
                     newAnchors, newAnchorHead>>
  BY DEF JudgeTenant, anchorTables
<1>2. PassTypes' /\ TidyPasses'
  BY <1>1 DEF PassTypes, TidyPasses
<1>3. AnchorViewIsCurrent(p)'
  BY <1>1 DEF AnchorViewIsCurrent
<1>4. unjudged'[p] \union due'[p] \subseteq unjudged[p] \union due[p]
  BY <1>1 DEF PassTypes
<1>5. \A q \in Passes \ {p} : unjudged'[q] = unjudged[q] /\ due'[q] = due[q]
  BY <1>1 DEF PassTypes
<1>6. \A u \in unjudged'[p] \union due'[p] : headsRead'[p][u] # NoHead
  BY <1>1, <1>4 DEF ReadsLast
<1>7. \A u \in Tenants :
        headsRead'[p][u] # NoHead => \E r \in records[u] : headsRead'[p][u] = HeadAfter(r)
  BY <1>1 DEF ReadsLast
<1>8. QED
  BY <1>1, <1>2, <1>3, <1>5, <1>6, <1>7, QuietStep

LEMMA EndJudgingKeeps ==
  ASSUME PassInv, UNCHANGED auditVars, NEW p \in Passes, EndJudging(p)
  PROVE  PassInv'
<1> USE DEF PassInv
<1>1. /\ apc[p] = "judging" /\ unjudged[p] = {}
      /\ apc' = [apc EXCEPT ![p] = "anchoring"]
      /\ UNCHANGED <<anchors, anchorHead, anchorLock, passStarted, headsRead, unjudged, due,
                     anchorView, newAnchors, newAnchorHead>>
  BY DEF EndJudging, anchorTables
<1>2. PassTypes' /\ TidyPasses'
  BY <1>1 DEF PassTypes, TidyPasses, APC
<1>3. AnchorViewIsCurrent(p)'
  BY <1>1 DEF AnchorViewIsCurrent, PassTypes
<1>4. QED
  BY <1>1, <1>2, <1>3, QuietStep DEF ReadsLast

LEMMA LockAnchorHeadKeeps ==
  ASSUME PassInv, UNCHANGED auditVars, NEW p \in Passes, LockAnchorHead(p)
  PROVE  PassInv'
<1> USE AnchoringAssumption DEF PassInv
<1>1. /\ apc[p] = "anchoring" /\ apc' = [apc EXCEPT ![p] = "sealing"]
      /\ UNCHANGED <<anchors, anchorHead, passStarted, headsRead, unjudged, due, newAnchors,
                     newAnchorHead>>
  BY DEF LockAnchorHead, anchorTables
<1>2. anchorView[p] = NoHead /\ (newAnchors[p] = {} <=> newAnchorHead[p] = NoHead)
  BY <1>1 DEF TidyPasses
<1>3. CASE /\ newAnchorHead[p] # NoHead
           /\ anchorView' = [anchorView EXCEPT ![p] = newAnchorHead[p]]
           /\ UNCHANGED anchorLock
  <2>1. PassTypes' /\ TidyPasses'
    BY <1>1, <1>3 DEF PassTypes, TidyPasses, APC
  <2>2. AnchorViewIsCurrent(p)'
    BY <1>1, <1>2, <1>3 DEF AnchorViewIsCurrent, PassTypes
  <2>3. QED
    BY <1>1, <1>3, <2>1, <2>2, QuietStep DEF ReadsLast, PassTypes
<1>4. CASE /\ newAnchorHead[p] = NoHead
           /\ anchorLock \in {NoPass, p} /\ anchorLock' = p
           /\ anchorView' = [anchorView EXCEPT ![p] = anchorHead]
  <2>1. PassTypes'
    BY <1>1, <1>4 DEF PassTypes, APC
  <2>2. TidyPasses'
    BY <1>1, <1>4 DEF PassTypes, TidyPasses
  <2>3. AnchorViewIsCurrent(p)'
    BY <1>1, <1>2, <1>4 DEF AnchorViewIsCurrent, PassTypes
  <2>4. QED
    BY <1>1, <1>4, <2>1, <2>2, <2>3, QuietStep DEF ReadsLast, PassTypes
<1>5. CASE newAnchorHead[p] = NoHead /\ UNCHANGED <<anchorView, anchorLock>>
  <2>1. PassTypes' /\ TidyPasses'
    BY <1>1, <1>5 DEF PassTypes, TidyPasses, APC
  <2>2. AnchorViewIsCurrent(p)'
    BY <1>1, <1>2, <1>5 DEF AnchorViewIsCurrent, PassTypes
  <2>3. QED
    BY <1>1, <1>5, <2>1, <2>2, QuietStep DEF ReadsLast, PassTypes
<1>6. QED
  BY <1>3, <1>4, <1>5 DEF LockAnchorHead

-----------------------------------------------------------------------------
(* Anchoring a tenant. *)

LEMMA AnchorLength ==
  ASSUME NEW h, AnchorHeadRow(h)
  PROVE  /\ Length(h) \in Nat
         /\ NextSeq(h) = Length(h) + 1
         /\ Length(h) = 0 <=> h = NoHead
BY DEF AnchorHeadRow, Length, NextSeq

LEMMA AfterAnchor ==
  ASSUME NEW a, a.seq \in Nat \ {0}
  PROVE  /\ AnchorHeadRow(AnchorHeadAfter(a))
         /\ AnchorHeadAfter(a) # NoHead
         /\ Length(AnchorHeadAfter(a)) = a.seq
BY DEF AnchorHeadAfter, AnchorHeadRow, NoHead, Length

\* An anchor sealed after the head of an anchor chain extends that chain.
LEMMA ExtendAnchors ==
  ASSUME NEW S, NEW h, AnchorHeadRow(h), IsAnchorChain(S, h),
         NEW a, a.seq = Length(h) + 1, a.prev = NextPrev(h)
  PROVE  IsAnchorChain(S \union {a}, AnchorHeadAfter(a))
<1> DEFINE T == S \union {a}
<1>1. Length(h) \in Nat /\ Length(AnchorHeadAfter(a)) = Length(h) + 1
  BY AnchorLength, AfterAnchor
<1>2. \A b \in T : b.seq \in 1 .. Length(h) + 1
  BY <1>1 DEF IsAnchorChain
<1>3. ASSUME NEW n \in 1 .. Length(h) + 1 PROVE \E b \in T : b.seq = n
  <2>1. CASE n = Length(h) + 1
    BY <2>1
  <2>2. CASE n # Length(h) + 1
    <3>1. n \in 1 .. Length(h)
      BY <1>1, <2>2
    <3>2. QED
      BY <3>1 DEF IsAnchorChain
  <2>3. QED
    BY <2>1, <2>2
<1>4. \A b, c \in T : b.seq = c.seq => b = c
  BY <1>1 DEF IsAnchorChain
<1>5. ASSUME NEW b \in T
      PROVE IF b.seq = 1 THEN b.prev = NoHash ELSE \E c \in T : c.seq = b.seq - 1 /\ b.prev = c.hash
  <2>1. CASE b \in S
    BY <2>1 DEF IsAnchorChain
  <2>2. CASE b = a /\ h = NoHead
    BY <2>2 DEF Length, NextPrev
  <2>3. CASE b = a /\ h # NoHead
    <3>1. PICK c \in S : h = AnchorHeadAfter(c)
      BY <2>3 DEF IsAnchorChain
    <3>2. c.seq = h.seq /\ c.hash = h.hash
      BY <3>1 DEF AnchorHeadAfter
    <3>3. b.seq - 1 = c.seq /\ b.seq # 1 /\ b.prev = c.hash
      BY <1>1, <2>3, <3>2 DEF Length, NextPrev, AnchorHeadRow
    <3>4. QED
      BY <3>3
  <2>4. QED
    BY <2>1, <2>2, <2>3
<1>6. QED
  BY <1>1, <1>2, <1>3, <1>4, <1>5 DEF IsAnchorChain

\* The committed anchors with those of the pass, up to the head it is about to seal.
LEMMA ViewEndsAnchors ==
  ASSUME PassInv, NEW p \in Passes, apc[p] = "sealing",
         \A q \in Passes : \A b \in anchors \union newAnchors[q] : b.seq # NextSeq(anchorView[p])
  PROVE  /\ IsAnchorChain(anchors \union newAnchors[p], anchorView[p])
         /\ \A q \in Passes \ {p} : newAnchors[q] = {}
         /\ anchorLock = p \/ anchorHead = NoHead
         /\ Length(anchorView[p]) >= Length(anchorHead)
<1> USE DEF PassInv
<1>0. /\ AnchorHeadRow(anchorView[p]) /\ AnchorHeadRow(anchorHead) /\ AnchorHeadRow(newAnchorHead[p])
      /\ Length(anchorHead) \in Nat /\ Length(anchorView[p]) \in Nat
  BY AnchorLength DEF PassTypes
<1>1. IsAnchorChain(anchors, anchorHead)
  BY DEF AnchorChainIntact, IsAnchorChain
<1>2. CASE newAnchors[p] # {}
  <2>1. anchorView[p] = newAnchorHead[p]
    BY <1>2 DEF AnchorViewIsCurrent
  <2>2. PICK a \in newAnchors[p] : TRUE
    BY <1>2
  <2>3. a.seq > Length(anchorHead) /\ a.seq \in 1 .. Length(anchorView[p])
    BY <1>2, <2>1, <2>2 DEF ContinuesAnchors, IsAnchorChain
  <2>4. Length(anchorView[p]) >= Length(anchorHead)
    BY <1>0, <2>3
  <2>5. QED
    BY <1>2, <2>1, <2>4 DEF ContinuesAnchors
<1>3. CASE newAnchors[p] = {} /\ anchorView[p] # NoHead
  <2>1. anchorView[p] = anchorHead /\ anchorLock = p
    BY <1>3 DEF AnchorViewIsCurrent
  <2>2. ASSUME NEW q \in Passes \ {p} PROVE newAnchors[q] = {}
    BY <1>3, <2>1, <2>2 DEF ContinuesAnchors
  <2>3. anchors \union newAnchors[p] = anchors
    BY <1>3
  <2>4. IsAnchorChain(anchors \union newAnchors[p], anchorView[p])
    BY <1>1, <2>1, <2>3
  <2>5. QED
    BY <1>0, <2>1, <2>2, <2>4
<1>4. CASE newAnchors[p] = {} /\ anchorView[p] = NoHead
  <2>1. NextSeq(anchorView[p]) = 1 /\ Length(anchorView[p]) = 0
    BY <1>4 DEF NextSeq, Length
  <2>2. Length(anchorHead) = 0
    BY <1>0, <1>1, <2>1 DEF IsAnchorChain
  <2>3. anchorHead = NoHead
    BY <1>0, <2>2, AnchorLength
  <2>4. ASSUME NEW q \in Passes \ {p} PROVE newAnchors[q] = {}
    <3> SUFFICES ASSUME newAnchors[q] # {} PROVE FALSE
      OBVIOUS
    <3>1. IsAnchorChain(anchors \union newAnchors[q], newAnchorHead[q])
      BY DEF ContinuesAnchors
    <3>2. PICK a \in newAnchors[q] : TRUE
      OBVIOUS
    <3>3. Length(newAnchorHead[q]) \in Nat /\ a.seq \in 1 .. Length(newAnchorHead[q])
      BY <3>1, <3>2, AnchorLength DEF IsAnchorChain, PassTypes
    <3>4. 1 \in 1 .. Length(newAnchorHead[q])
      BY <3>3
    <3>5. \E b \in anchors \union newAnchors[q] : b.seq = 1
      BY <3>1, <3>4 DEF IsAnchorChain
    <3>6. QED
      BY <2>1, <3>5
  <2>5. anchors \union newAnchors[p] = anchors
    BY <1>4
  <2>6. IsAnchorChain(anchors \union newAnchors[p], anchorView[p])
    BY <1>1, <1>4, <2>3, <2>5
  <2>7. QED
    BY <2>1, <2>2, <2>3, <2>4, <2>6
<1>5. QED
  BY <1>2, <1>3, <1>4

\* What anchoring a tenant writes, under names.
LEMMA AnchorTenantWrites ==
  ASSUME PassInv, NEW p \in Passes, NEW t \in Tenants, AnchorTenant(p, t)
  PROVE  \E a :
    /\ a = SealAnchor(t, headsRead[p][t], anchorView[p], passStarted[p])
    /\ Anchor(a) /\ Named(a)
    /\ a.tenant = t /\ a.tenantSeq = headsRead[p][t].seq /\ a.time = passStarted[p]
    /\ a.seq = Length(anchorView[p]) + 1 /\ a.prev = NextPrev(anchorView[p])
    /\ \A q \in Passes : \A b \in anchors \union newAnchors[q] : b.seq # NextSeq(anchorView[p])
    /\ newAnchors' = [newAnchors EXCEPT ![p] = newAnchors[p] \union {a}]
    /\ newAnchorHead' = [newAnchorHead EXCEPT ![p] = AnchorHeadAfter(a)]
    /\ due' = [due EXCEPT ![p] = @ \ {t}]
    /\ anchorView' = [anchorView EXCEPT ![p] = NoHead]
    /\ apc' = [apc EXCEPT ![p] = "anchoring"]
    /\ apc[p] = "sealing" /\ t \in due[p]
    /\ UNCHANGED <<anchors, anchorHead, anchorLock, passStarted, headsRead, unjudged>>
<1>1. PICK a : a = SealAnchor(t, headsRead[p][t], anchorView[p], passStarted[p])
  OBVIOUS
<1>2. /\ AnchorKeysFree(p, a) /\ t \in due[p]
      /\ newAnchors' = [newAnchors EXCEPT ![p] = newAnchors[p] \union {a}]
      /\ newAnchorHead' = [newAnchorHead EXCEPT ![p] = AnchorHeadAfter(a)]
  BY <1>1 DEF AnchorTenant, PassInv, PassTypes
<1>3. /\ a.seq = NextSeq(anchorView[p]) /\ a.prev = NextPrev(anchorView[p])
      /\ a.tenant = t /\ a.tenantSeq = headsRead[p][t].seq
      /\ a.tenantHash = headsRead[p][t].hash /\ a.time = passStarted[p]
  BY <1>1 DEF SealAnchor
<1>4. a.seq = Length(anchorView[p]) + 1 /\ a.seq \in Nat \ {0}
  BY <1>3, AnchorLength DEF PassInv, PassTypes
<1>5. headsRead[p][t] # NoHead /\ HeadRow(headsRead[p][t])
  BY <1>2 DEF PassInv, ReadsLast, PassTypes
<1>6. PICK r \in records[t] : headsRead[p][t] = HeadAfter(r)
  BY <1>5 DEF PassInv, ReadsLast
<1>7. Anchor(a)
  BY <1>3, <1>4, <1>5 DEF Anchor, HeadRow, PassInv, PassTypes
<1>8. Named(a)
  BY <1>3, <1>6 DEF Named, HeadAfter
<1>9. \A q \in Passes : \A b \in anchors \union newAnchors[q] : b.seq # NextSeq(anchorView[p])
  BY <1>2, <1>3 DEF AnchorKeysFree
<1>10. QED
  BY <1>1, <1>2, <1>3, <1>4, <1>7, <1>8, <1>9 DEF AnchorTenant, anchorTables

LEMMA AnchorTenantKeeps ==
  ASSUME PassInv, UNCHANGED auditVars, NEW p \in Passes, NEW t \in Tenants, AnchorTenant(p, t)
  PROVE  PassInv'
<1> USE DEF PassInv
<1>1. PICK a :
        /\ Anchor(a) /\ Named(a)
        /\ a.seq = Length(anchorView[p]) + 1 /\ a.prev = NextPrev(anchorView[p])
        /\ \A q \in Passes : \A b \in anchors \union newAnchors[q] : b.seq # NextSeq(anchorView[p])
        /\ newAnchors' = [newAnchors EXCEPT ![p] = newAnchors[p] \union {a}]
        /\ newAnchorHead' = [newAnchorHead EXCEPT ![p] = AnchorHeadAfter(a)]
        /\ due' = [due EXCEPT ![p] = @ \ {t}]
        /\ anchorView' = [anchorView EXCEPT ![p] = NoHead]
        /\ apc' = [apc EXCEPT ![p] = "anchoring"]
        /\ apc[p] = "sealing"
        /\ UNCHANGED <<anchors, anchorHead, anchorLock, passStarted, headsRead, unjudged>>
  BY AnchorTenantWrites
<1>2. /\ IsAnchorChain(anchors \union newAnchors[p], anchorView[p])
      /\ \A q \in Passes \ {p} : newAnchors[q] = {}
      /\ anchorLock = p \/ anchorHead = NoHead
      /\ Length(anchorView[p]) >= Length(anchorHead)
  BY <1>1, ViewEndsAnchors
<1>3. ChainInv' /\ UNCHANGED records
  BY ChainsStand
<1>4. /\ newAnchors'[p] = newAnchors[p] \union {a} /\ newAnchorHead'[p] = AnchorHeadAfter(a)
      /\ \A q \in Passes \ {p} :
           /\ newAnchors'[q] = newAnchors[q] /\ newAnchorHead'[q] = newAnchorHead[q]
           /\ due'[q] = due[q] /\ anchorView'[q] = anchorView[q] /\ apc'[q] = apc[q]
  BY <1>1 DEF PassTypes
<1>5. AnchorHeadRow(AnchorHeadAfter(a)) /\ AnchorHeadAfter(a) # NoHead
  BY <1>1, AfterAnchor DEF Anchor
<1>6. PassTypes'
  <2>1. AnchorHeadRow(NoHead)
    BY DEF AnchorHeadRow
  <2>2. \A q \in Passes : \A b \in newAnchors'[q] : Anchor(b)
    BY <1>1, <1>4 DEF PassTypes
  <2>3. QED
    BY <1>1, <1>5, <2>1, <2>2 DEF PassTypes, APC
<1>7. TidyPasses'
  BY <1>1, <1>4, <1>5 DEF TidyPasses, PassTypes
<1>8. ReadsLast'
  <2>1. \A q \in Passes : due'[q] \subseteq due[q]
    BY <1>1 DEF PassTypes
  <2>2. \A q \in Passes : \A b \in newAnchors'[q] : Named(b)'
    BY <1>1, <1>3, <1>4 DEF ReadsLast, Named
  <2>3. QED
    BY <1>1, <1>3, <2>1, <2>2 DEF ReadsLast
<1>9. AnchorsMatchChain' /\ AnchorChainIntact'
  BY <1>1, <1>3 DEF AnchorsMatchChain, AnchorChainIntact
<1>10. ContinuesAnchors(p)'
  <2>1. IsAnchorChain(anchors \union newAnchors[p] \union {a}, AnchorHeadAfter(a))
    BY <1>1, <1>2, ExtendAnchors DEF PassTypes
  <2>2. anchors \union newAnchors[p] \union {a} = anchors \union newAnchors'[p]
    BY <1>4
  <2>3. a.seq > Length(anchorHead)
    BY <1>1, <1>2, AnchorLength DEF PassTypes
  <2>4. \A b \in newAnchors'[p] : b.seq > Length(anchorHead)
    BY <1>4, <2>3 DEF ContinuesAnchors
  <2>5. IsAnchorChain(anchors \union newAnchors'[p], newAnchorHead'[p])
    BY <1>4, <2>1, <2>2
  <2>6. QED
    BY <1>1, <1>2, <1>4, <2>4, <2>5 DEF ContinuesAnchors
<1>11. \A q \in Passes \ {p} : ContinuesAnchors(q)'
  BY <1>2, <1>4 DEF ContinuesAnchors
<1>12. \A q \in Passes : AnchorViewIsCurrent(q)'
  BY <1>1, <1>4 DEF AnchorViewIsCurrent, PassTypes
<1>13. QED
  BY <1>3, <1>6, <1>7, <1>8, <1>9, <1>10, <1>11, <1>12

-----------------------------------------------------------------------------
(* The end of a pass. *)

\* What the end of a pass clears, and what it leaves to the others.
LEMMA EndPassClears ==
  ASSUME PassInv, NEW p \in Passes, EndPass(p)
  PROVE  /\ apc'[p] = "idle" /\ headsRead'[p] = NoHeadsRead
         /\ unjudged'[p] = {} /\ due'[p] = {} /\ anchorView'[p] = NoHead
         /\ newAnchors'[p] = {} /\ newAnchorHead'[p] = NoHead
         /\ anchorLock' # p
         /\ \A q \in Passes \ {p} :
              /\ apc'[q] = apc[q] /\ headsRead'[q] = headsRead[q]
              /\ unjudged'[q] = unjudged[q] /\ due'[q] = due[q]
              /\ anchorView'[q] = anchorView[q]
              /\ newAnchors'[q] = newAnchors[q] /\ newAnchorHead'[q] = newAnchorHead[q]
              /\ anchorLock' = q <=> anchorLock = q
BY AnchoringAssumption DEF EndPass, PassInv, PassTypes

\* The types do not depend on what the pass has committed, so long as that has them.
LEMMA EndPassTidies ==
  ASSUME PassInv, UNCHANGED auditVars, NEW p \in Passes, EndPass(p),
         \A a \in anchors' : Anchor(a), AnchorHeadRow(anchorHead)'
  PROVE  PassTypes' /\ TidyPasses' /\ ReadsLast'
<1> USE EndPassClears
<1>1. /\ anchorLock' \in Passes \union {NoPass}
      /\ apc' \in [Passes -> APC] /\ passStarted' \in [Passes -> Nat]
      /\ unjudged' \in [Passes -> SUBSET Tenants] /\ due' \in [Passes -> SUBSET Tenants]
      /\ DOMAIN headsRead' = Passes /\ DOMAIN anchorView' = Passes
      /\ DOMAIN newAnchors' = Passes /\ DOMAIN newAnchorHead' = Passes
  BY DEF EndPass, PassInv, PassTypes, APC
<1>2. AnchorHeadRow(NoHead) /\ \A t \in Tenants : HeadRow(NoHeadsRead[t])
  BY NoHeadIsRow DEF AnchorHeadRow, NoHeadsRead
<1>3. \A q \in Passes : /\ \A t \in Tenants : HeadRow(headsRead'[q][t])
                        /\ AnchorHeadRow(anchorView'[q]) /\ AnchorHeadRow(newAnchorHead'[q])
                        /\ \A a \in newAnchors'[q] : Anchor(a)
  BY <1>2 DEF PassInv, PassTypes
<1>4. PassTypes'
  BY <1>1, <1>3 DEF PassTypes
<1>5. TidyPasses'
  BY DEF PassInv, TidyPasses
<1>6. \A t \in Tenants : NoHeadsRead[t] = NoHead
  BY DEF NoHeadsRead
<1>7. ReadsLast'
  BY <1>6, ChainsStand DEF PassInv, ReadsLast, Named
<1>8. QED
  BY <1>4, <1>5, <1>7

LEMMA AbortPassKeeps ==
  ASSUME PassInv, UNCHANGED auditVars, NEW p \in Passes, AbortPass(p)
  PROVE  PassInv'
<1>1. EndPass(p) /\ UNCHANGED <<anchors, anchorHead>>
  BY DEF AbortPass, anchorTables
<1>2. ChainInv' /\ UNCHANGED records
  BY ChainsStand
<1>3. PassTypes' /\ TidyPasses' /\ ReadsLast'
  BY <1>1, EndPassTidies DEF PassInv, PassTypes
<1>4. AnchorsMatchChain' /\ AnchorChainIntact'
  BY <1>1, <1>2 DEF PassInv, AnchorsMatchChain, AnchorChainIntact
<1>5. \A q \in Passes : ContinuesAnchors(q)' /\ AnchorViewIsCurrent(q)'
  BY <1>1, EndPassClears DEF PassInv, ContinuesAnchors, AnchorViewIsCurrent, IsAnchorChain
<1>6. QED
  BY <1>2, <1>3, <1>4, <1>5 DEF PassInv

LEMMA CommitPassKeeps ==
  ASSUME PassInv, UNCHANGED auditVars, NEW p \in Passes, CommitPass(p)
  PROVE  PassInv'
<1>1. /\ EndPass(p) /\ apc[p] = "anchoring"
      /\ anchors' = anchors \union newAnchors[p]
      /\ anchorHead' = IF newAnchorHead[p] = NoHead THEN anchorHead ELSE newAnchorHead[p]
  BY DEF CommitPass
<1>2. newAnchors[p] = {} <=> newAnchorHead[p] = NoHead
  BY DEF PassInv, TidyPasses
<1>3. CASE newAnchors[p] = {}
  \* Nothing was due: the commit is like an abort.
  <2>1. AbortPass(p)
    BY <1>1, <1>2, <1>3 DEF AbortPass, anchorTables
  <2>2. QED
    BY <2>1, AbortPassKeeps
<1>4. CASE newAnchors[p] # {}
  <2>1. /\ IsAnchorChain(anchors', anchorHead')
        /\ \A q \in Passes \ {p} : newAnchors[q] = {}
        /\ anchorLock = p \/ anchorHead = NoHead
    BY <1>1, <1>2, <1>4 DEF PassInv, ContinuesAnchors
  <2>2. ChainInv' /\ UNCHANGED records
    BY ChainsStand
  <2>3. PassTypes' /\ TidyPasses' /\ ReadsLast'
    BY <1>1, EndPassTidies DEF PassInv, PassTypes
  <2>4. AnchorsMatchChain'
    BY <1>1, <2>2 DEF PassInv, AnchorsMatchChain, ReadsLast, Named
  <2>5. AnchorChainIntact'
    BY <2>1 DEF IsAnchorChain, AnchorChainIntact, Length, AnchorHeadAfter
  <2>6. \A q \in Passes : newAnchors'[q] = {}
    BY <1>1, <2>1, EndPassClears
  <2>7. \A q \in Passes : ContinuesAnchors(q)'
    BY <2>6 DEF ContinuesAnchors
  <2>8. ASSUME NEW q \in Passes, apc'[q] = "sealing" PROVE anchorView'[q] = NoHead
    <3>1. q # p /\ apc[q] = "sealing" /\ anchorView'[q] = anchorView[q] /\ newAnchors[q] = {}
      BY <1>1, <2>1, <2>8, EndPassClears
    <3>2. anchorView[q] # NoHead => anchorView[q] = anchorHead /\ anchorLock = q
      BY <3>1 DEF PassInv, AnchorViewIsCurrent
    <3>3. QED
      BY <2>1, <3>1, <3>2
  <2>9. \A q \in Passes : AnchorViewIsCurrent(q)'
    BY <2>6, <2>8 DEF AnchorViewIsCurrent
  <2>10. QED
    BY <2>2, <2>3, <2>4, <2>5, <2>7, <2>9 DEF PassInv
<1>5. QED
  BY <1>3, <1>4

-----------------------------------------------------------------------------
(* The anchoring pass beside the writers. *)

LEMMA PassStepKeeps ==
  ASSUME PassInv, UNCHANGED auditVars, NEW p \in Passes, PassStep(p)
  PROVE  PassInv'
BY BeginPassKeeps, ReadHeadsKeeps, JudgeTenantKeeps, AnchorTenantKeeps, EndJudgingKeeps,
   LockAnchorHeadKeeps, CommitPassKeeps, AbortPassKeeps DEF PassStep

LEMMA NextPassInv == PassInv /\ [Next]_anchoringVars => PassInv'
<1> SUFFICES ASSUME PassInv, [Next]_anchoringVars PROVE PassInv'
  OBVIOUS
<1>1. CASE AuditNext /\ UNCHANGED anchorVars
  BY <1>1, WritersKeepPasses
<1>2. CASE (\E p \in Passes : PassStep(p)) /\ UNCHANGED auditVars
  BY <1>2, PassStepKeeps
<1>3. CASE UNCHANGED anchoringVars
  BY <1>3, WritersKeepPasses DEF anchoringVars
<1>4. QED
  BY <1>1, <1>2, <1>3 DEF Next

\* The inductive invariant of the anchoring pass, for any number of passes at once.
THEOREM PassInvariant == Spec => []PassInv
<1>1. QED
  BY InitPassInv, NextPassInv, PTL DEF Spec

\* Whatever passes race, the committed anchors form one gap-free linked chain that
\* ends at anchor_head: the row lock and, before the row exists, UNIQUE (anchor_seq).
THEOREM AnchorChainStaysIntact == Spec => []AnchorChainIntact
<1>1. PassInv => AnchorChainIntact
  BY DEF PassInv
<1>2. QED
  BY <1>1, PassInvariant, PTL

\* Every anchor names a committed record with the hash anchored, although the heads
\* are read without a lock and long before the anchors are written.
THEOREM AnchorsAlwaysMatch == Spec => []AnchorsMatchChain
<1>1. PassInv => AnchorsMatchChain
  BY DEF PassInv
<1>2. QED
  BY <1>1, PassInvariant, PTL

\* The anchors are an append-only log: Anchoring implements AppendOnlyLog (take_anchors
\* inserts at the head it has locked, or first under UNIQUE (anchor_seq)).
THEOREM AnchorsAreALog == Spec => AnchorsOnlyGrow
<1> DEFINE P   == PlatformTenant
           log == [o \in {P} |-> anchors]
           len == [o \in {P} |-> Length(anchorHead)]
<1>1. Init => AnchorLog!Init
  BY DEF Init, AnchorInit, AnchorLog!Init, Length
<1>2. PassInv /\ PassInv' /\ [Next]_anchoringVars
        => [\E o \in {PlatformTenant} : AnchorLog!Append(o)]_
             <<[o \in {PlatformTenant} |-> anchors],
               [o \in {PlatformTenant} |-> Length(anchorHead)]>>
  <2> SUFFICES ASSUME PassInv, PassInv', [Next]_anchoringVars
               PROVE  AnchorLog!Append(P) \/ UNCHANGED <<anchors, anchorHead>>
    OBVIOUS
  <2>1. ASSUME NEW p \in Passes, CommitPass(p), newAnchors[p] # {}
        PROVE  AnchorLog!Append(P)
    <3>1. anchors' = anchors \union newAnchors[p] /\ anchorHead' = newAnchorHead[p]
      BY <2>1 DEF CommitPass, PassInv, TidyPasses
    <3>2. /\ IsAnchorChain(anchors', anchorHead')
          /\ \A a \in newAnchors[p] : a.seq > Length(anchorHead)
      BY <2>1, <3>1 DEF PassInv, ContinuesAnchors
    <3>3. Length(anchorHead) \in Nat /\ Length(anchorHead') \in Nat
      BY DEF PassInv, PassTypes, AnchorHeadRow, Length
    <3>4. \A a \in newAnchors[p] : a.seq \in Length(anchorHead) + 1 .. Length(anchorHead')
      BY <3>1, <3>2, <3>3 DEF IsAnchorChain
    <3>5. PICK a \in newAnchors[p] : TRUE
      BY <2>1
    <3>6. Length(anchorHead') > Length(anchorHead)
      BY <3>3, <3>4, <3>5
    <3>7. \A n \in Length(anchorHead) + 1 .. Length(anchorHead') : \E b \in anchors' : b.seq = n
      BY <3>2, <3>3 DEF IsAnchorChain
    <3>8. \A b, c \in anchors' : b.seq = c.seq => b = c
      BY <3>2 DEF IsAnchorChain
    <3>9. /\ log'[P] = anchors' /\ log[P] = anchors /\ log' = [log EXCEPT ![P] = log'[P]]
          /\ len[P] = Length(anchorHead) /\ len'[P] = Length(anchorHead')
          /\ len' = [len EXCEPT ![P] = len'[P]]
      BY DEF Length
    <3>10. anchors \subseteq anchors' /\ anchors' \ anchors \subseteq newAnchors[p]
      BY <3>1
    <3> HIDE DEF log, len
    <3>11. QED
      BY <3>4, <3>6, <3>7, <3>8, <3>9, <3>10 DEF AnchorLog!Append, log, len
  <2>2. ASSUME ~\E p \in Passes : CommitPass(p) /\ newAnchors[p] # {}
        PROVE  UNCHANGED <<anchors, anchorHead>>
    <3>1. ASSUME NEW p \in Passes, PassStep(p) PROVE UNCHANGED <<anchors, anchorHead>>
      <4>1. CASE CommitPass(p)
        BY <2>2, <4>1 DEF CommitPass, PassInv, TidyPasses
      <4>2. CASE ~CommitPass(p)
        BY <3>1, <4>2 DEF PassStep, BeginPass, ReadHeads, JudgeTenant, AnchorTenant, EndJudging,
                          LockAnchorHead, AbortPass, anchorTables
      <4>3. QED
        BY <4>1, <4>2
    <3>2. QED
      BY <3>1 DEF Next, anchoringVars, anchorVars, anchorTables
  <2>3. QED
    BY <2>1, <2>2
<1>3. QED
  BY <1>1, <1>2, PassInvariant, PTL DEF Spec, AnchorsOnlyGrow, AnchorLog!Spec

-----------------------------------------------------------------------------
(* The scheduler runs the passes of Anchoring. *)

LEMMA ScheduledStepIsStep == [ScheduledNext]_schedulerVars => [Next]_anchoringVars
<1> SUFFICES ASSUME [ScheduledNext]_schedulerVars PROVE [Next]_anchoringVars
  OBVIOUS
<1>1. CASE AuditNext /\ UNCHANGED <<anchorVars, leaderVars>>
  BY <1>1 DEF Next
<1>2. CASE SchedulerStep /\ UNCHANGED auditVars
  <2>1. (\E p \in Passes : PassStep(p)) \/ UNCHANGED anchorVars
    BY <1>2 DEF SchedulerStep, WorkOn, RunUnelected, EndUnelected, CommitLeader, StopLeader,
                FailLeader, BecomeLeader, DropConnection, PassStep
  <2>2. QED
    BY <1>2, <2>1 DEF Next, anchoringVars
<1>3. CASE UNCHANGED schedulerVars
  BY <1>3 DEF schedulerVars
<1>4. QED
  BY <1>1, <1>2, <1>3 DEF ScheduledNext

\* Scheduler, with its leaders, lost connections and passes nobody elected, implements
\* Anchoring: it adds no step to the tables that a pass could not take.
THEOREM ScheduledPassesArePasses == ScheduledSpec => Spec
<1>1. ScheduledInit => Init
  BY DEF ScheduledInit
<1>2. QED
  BY <1>1, ScheduledStepIsStep, PTL DEF ScheduledSpec, Spec

\* So the anchor chain is intact, true to the chains and an append-only log also under the
\* scheduler.
THEOREM ScheduledAnchorsHold ==
  ScheduledSpec => [](AnchorChainIntact /\ AnchorsMatchChain) /\ AnchorsOnlyGrow
<1>1. QED
  BY ScheduledPassesArePasses, AnchorChainStaysIntact, AnchorsAlwaysMatch, AnchorsAreALog, PTL

-----------------------------------------------------------------------------
(* Elected leaders keep the cadence. *)

\* The scheduler's lock is on one connection at most, a leader's call has that one
\* checked out, and every pass that is under way is a leader's.
LeaderInv ==
  /\ depth \in [Connections -> Nat]
  /\ connection \in [Passes -> Connections \union {NoConnection}]
  /\ \A c, d \in Connections : depth[c] > 0 /\ depth[d] > 0 => c = d
  /\ \A p \in Passes : connection[p] # NoConnection => depth[connection[p]] > 0
  /\ \A p, q \in Passes : connection[p] = connection[q] /\ connection[p] # NoConnection => p = q
  /\ \A p \in Passes : apc[p] # "idle" <=> connection[p] # NoConnection

\* Anchor b of a tenant may follow anchor a.
Apart(a, b) ==
  /\ a.tenantSeq < b.tenantSeq
  /\ b.tenantSeq - a.tenantSeq >= RecordsPerAnchor \/ b.time >= a.time + TicksPerAnchor

\* What the pass found due is due after every committed anchor of the tenant, and what
\* it has written may follow them; it judges and anchors a tenant once.
MayCommit(p) ==
  /\ \A t \in due[p] : \A a \in AnchorsOf(t) : IsDue(headsRead[p][t], passStarted[p], a)
  /\ \A b \in newAnchors[p] :
       /\ \A a \in AnchorsOf(b.tenant) : Apart(a, b)
       /\ b.tenant \notin due[p] \union unjudged[p]
  /\ \A a, b \in newAnchors[p] : a.tenant = b.tenant => a = b
  /\ unjudged[p] \intersect due[p] = {}

CadenceInv ==
  /\ Cadence
  /\ \A t \in Tenants : AnchorsOf(t) # {} => LastAnchorsFor(t) # {}
  /\ \A p \in Passes : MayCommit(p)

ElectedInv == ~unelected => LeaderInv /\ CadenceInv

\* Two passes are never under way at once.
LEMMA OnePass ==
  ASSUME LeaderInv, NEW p \in Passes, NEW q \in Passes, apc[p] # "idle", apc[q] # "idle"
  PROVE  p = q
BY DEF LeaderInv

\* An idle pass may commit: it has found nothing due and written nothing.
LEMMA IdleMayCommit == ASSUME PassInv, NEW p \in Passes, apc[p] = "idle" PROVE MayCommit(p)
BY DEF PassInv, TidyPasses, MayCommit

\* The only anchor-table step of a pass is its commit; what follows it is judged anew.
LEMMA CadenceStands ==
  ASSUME CadenceInv, UNCHANGED anchors, \A p \in Passes : MayCommit(p)'
  PROVE  CadenceInv'
BY DEF CadenceInv, Cadence, AnchorsOf, LastAnchorsFor

\* A tenant that is due after its last anchor is due after each of its anchors.
LEMMA DueAfterAll ==
  ASSUME PassInv, CadenceInv, NEW p \in Passes, NEW t \in Tenants,
         \A last \in LastAnchorsFor(t) : IsDue(headsRead[p][t], passStarted[p], last),
         NEW a \in AnchorsOf(t)
  PROVE  IsDue(headsRead[p][t], passStarted[p], a)
<1>1. PICK last \in AnchorsOf(t) :
        /\ a.tenantSeq <= last.tenantSeq
        /\ IsDue(headsRead[p][t], passStarted[p], last)
  BY DEF CadenceInv, LastAnchorsFor
<1>2. /\ a \in anchors /\ last \in anchors /\ a.tenant = last.tenant
      /\ a.seq \in Nat /\ last.seq \in Nat
      /\ a.tenantSeq \in Nat /\ last.tenantSeq \in Nat /\ a.time \in Nat /\ last.time \in Nat
  BY DEF AnchorsOf, PassInv, PassTypes, Anchor
<1>3. headsRead[p][t].seq \in Nat /\ passStarted[p] \in Nat
  BY DEF PassInv, PassTypes, HeadRow
<1>4. CASE a.seq = last.seq
  BY <1>1, <1>2, <1>4 DEF PassInv, AnchorChainIntact
<1>5. CASE last.seq < a.seq
  BY <1>1, <1>2, <1>5 DEF CadenceInv, Cadence
<1>6. CASE a.seq < last.seq
  <2>1. /\ a.tenantSeq < last.tenantSeq
        /\ \/ last.tenantSeq - a.tenantSeq >= RecordsPerAnchor
           \/ last.time >= a.time + TicksPerAnchor
    BY <1>2, <1>6 DEF CadenceInv, Cadence
  <2>2. QED
    BY <1>1, <1>2, <1>3, <2>1, AnchoringAssumption DEF IsDue
<1>7. QED
  BY <1>2, <1>4, <1>5, <1>6

LEMMA JudgeTenantMayCommit ==
  ASSUME PassInv, CadenceInv, NEW p \in Passes, NEW t \in Tenants, JudgeTenant(p, t)
  PROVE  MayCommit(p)'
<1> USE DEF PassInv, PassTypes
<1>1. /\ apc[p] = "judging" /\ t \in unjudged[p]
      /\ unjudged'[p] = unjudged[p] \ {t}
      /\ due'[p] = IF \A last \in LastAnchorsFor(t) : IsDue(headsRead[p][t], passStarted[p], last)
                   THEN due[p] \union {t} ELSE due[p]
      /\ UNCHANGED <<anchors, passStarted, headsRead, newAnchors>>
  BY DEF JudgeTenant, anchorTables
<1>2. MayCommit(p) /\ newAnchors[p] = {}
  BY <1>1 DEF CadenceInv, TidyPasses
<1>3. \A u \in due'[p] : \A a \in AnchorsOf(u) : IsDue(headsRead[p][u], passStarted[p], a)
  BY <1>1, <1>2, DueAfterAll DEF MayCommit
<1>4. QED
  BY <1>1, <1>2, <1>3 DEF MayCommit, AnchorsOf, IsDue

LEMMA AnchorTenantMayCommit ==
  ASSUME PassInv, CadenceInv, NEW p \in Passes, NEW t \in Tenants, AnchorTenant(p, t)
  PROVE  MayCommit(p)'
<1>1. PICK b :
        /\ Anchor(b)
        /\ b.tenant = t /\ b.tenantSeq = headsRead[p][t].seq /\ b.time = passStarted[p]
        /\ newAnchors' = [newAnchors EXCEPT ![p] = newAnchors[p] \union {b}]
        /\ due' = [due EXCEPT ![p] = @ \ {t}]
        /\ apc[p] = "sealing" /\ t \in due[p]
        /\ UNCHANGED <<anchors, passStarted, headsRead, unjudged>>
  BY AnchorTenantWrites
<1>2. newAnchors'[p] = newAnchors[p] \union {b} /\ due'[p] = due[p] \ {t} /\ unjudged[p] = {}
  BY <1>1 DEF PassInv, PassTypes, TidyPasses
<1>3. MayCommit(p)
  BY DEF CadenceInv
<1>4. ASSUME NEW a \in AnchorsOf(t) PROVE Apart(a, b)
  <2>1. IsDue(headsRead[p][t], passStarted[p], a)
    BY <1>1, <1>3, <1>4 DEF MayCommit
  <2>2. a.time \in Nat /\ passStarted[p] \in Nat
    BY DEF AnchorsOf, PassInv, PassTypes, Anchor
  <2>3. QED
    BY <1>1, <2>1, <2>2, AnchoringAssumption DEF IsDue, Apart
<1>5. \A u \in Tenants : AnchorsOf(u)' = AnchorsOf(u)
  BY <1>1 DEF AnchorsOf
<1>6. \A d \in newAnchors'[p] :
        /\ d.tenant \in Tenants
        /\ \A a \in AnchorsOf(d.tenant) : Apart(a, d)
        /\ d.tenant \notin due'[p] \union unjudged'[p]
  BY <1>1, <1>2, <1>3, <1>4 DEF MayCommit, PassInv, PassTypes, Anchor
<1>7. \A d, e \in newAnchors'[p] : d.tenant = e.tenant => d = e
  BY <1>1, <1>2, <1>3 DEF MayCommit
<1>8. \A u \in due'[p] : \A a \in AnchorsOf(u) : IsDue(headsRead[p][u], passStarted[p], a)
  BY <1>2, <1>3 DEF MayCommit
<1>9. due'[p] \subseteq Tenants
  BY <1>2 DEF PassInv, PassTypes
<1>10. QED
  BY <1>1, <1>2, <1>5, <1>6, <1>7, <1>8, <1>9 DEF MayCommit, Apart, IsDue

\* The commit of the only pass that is under way.
LEMMA CommitKeepsCadence ==
  ASSUME PassInv, CadenceInv, NEW p \in Passes, CommitPass(p),
         \A q \in Passes \ {p} : apc[q] = "idle", \A q \in Passes : MayCommit(q)'
  PROVE  CadenceInv'
<1>1. anchors' = anchors \union newAnchors[p] /\ MayCommit(p)
  BY DEF CommitPass, CadenceInv
<1>2. /\ \A a \in anchors : a.seq \in 1 .. Length(anchorHead)
      /\ Length(anchorHead) \in Nat
      /\ \A a \in newAnchors[p] : a.seq > Length(anchorHead) /\ a.tenant \in Tenants /\ a.seq \in Nat
      /\ \A a \in anchors \union newAnchors[p] : a.tenantSeq \in Nat
  BY AnchorLength DEF PassInv, AnchorChainIntact, ContinuesAnchors, PassTypes, Anchor
<1>3. Cadence'
  <2> SUFFICES ASSUME NEW a \in anchors', NEW b \in anchors', a.tenant = b.tenant, a.seq < b.seq
               PROVE Apart(a, b)
    BY DEF Cadence, Apart
  <2>1. CASE a \in anchors /\ b \in anchors
    BY <2>1 DEF CadenceInv, Cadence, Apart
  <2>2. CASE a \in anchors /\ b \in newAnchors[p]
    BY <1>1, <2>2 DEF MayCommit, AnchorsOf
  <2>3. CASE a \in newAnchors[p] /\ b \in newAnchors[p]
    BY <1>1, <1>2, <2>3 DEF MayCommit
  <2>4. CASE a \in newAnchors[p] /\ b \in anchors
    BY <1>2, <2>4
  <2>5. QED
    BY <1>1, <2>1, <2>2, <2>3, <2>4
<1>4. ASSUME NEW t \in Tenants, AnchorsOf(t)' # {} PROVE LastAnchorsFor(t)' # {}
  <2>1. CASE \E b \in newAnchors[p] : b.tenant = t
    <3>1. PICK b \in newAnchors[p] : b.tenant = t
      BY <2>1
    <3>2. ASSUME NEW a \in anchors', a.tenant = t PROVE a.tenantSeq <= b.tenantSeq
      <4>1. CASE a \in anchors
        <5>1. Apart(a, b)
          BY <1>1, <3>1, <3>2, <4>1 DEF MayCommit, AnchorsOf
        <5>2. QED
          BY <1>2, <3>1, <4>1, <5>1 DEF Apart
      <4>2. CASE a \in newAnchors[p]
        BY <1>1, <1>2, <3>1, <3>2, <4>2 DEF MayCommit
      <4>3. QED
        BY <1>1, <4>1, <4>2
    <3>3. b \in LastAnchorsFor(t)'
      BY <1>1, <3>1, <3>2 DEF LastAnchorsFor, AnchorsOf
    <3>4. QED
      BY <3>3
  <2>2. CASE ~ \E b \in newAnchors[p] : b.tenant = t
    <3>1. AnchorsOf(t)' = AnchorsOf(t)
      BY <1>1, <2>2 DEF AnchorsOf
    <3>2. LastAnchorsFor(t)' = LastAnchorsFor(t)
      BY <3>1 DEF LastAnchorsFor
    <3>3. QED
      BY <1>4, <3>1, <3>2 DEF CadenceInv
  <2>3. QED
    BY <2>1, <2>2
<1>5. QED
  BY <1>3, <1>4 DEF CadenceInv

\* A step of the only pass that is under way keeps the cadence.
LEMMA PassStepKeepsCadence ==
  ASSUME PassInv, PassInv', CadenceInv, NEW p \in Passes, PassStep(p),
         \A q \in Passes \ {p} : apc[q] = "idle"
  PROVE  CadenceInv'
<1>1. \A q \in Passes \ {p} : apc'[q] = "idle"
  BY DEF PassStep, BeginPass, ReadHeads, JudgeTenant, AnchorTenant, EndJudging, LockAnchorHead,
         CommitPass, AbortPass, EndPass, PassInv, PassTypes
<1>2. ASSUME NEW q \in Passes, apc'[q] = "idle" PROVE MayCommit(q)'
  BY <1>2 DEF PassInv, TidyPasses, MayCommit
<1>3. CASE BeginPass(p) \/ ReadHeads(p)
  <2>1. UNCHANGED anchors /\ unjudged'[p] \intersect due'[p] = {} /\ due'[p] = {} /\ newAnchors'[p] = {}
    BY <1>3 DEF BeginPass, ReadHeads, anchorTables, PassInv, TidyPasses
  <2>2. MayCommit(p)'
    BY <2>1 DEF MayCommit
  <2>3. QED
    BY <1>1, <1>2, <2>1, <2>2, CadenceStands
<1>4. CASE \E t \in Tenants : JudgeTenant(p, t)
  <2>1. UNCHANGED anchors /\ MayCommit(p)'
    BY <1>4, JudgeTenantMayCommit DEF JudgeTenant, anchorTables
  <2>2. QED
    BY <1>1, <1>2, <2>1, CadenceStands
<1>5. CASE \E t \in Tenants : AnchorTenant(p, t)
  <2>1. UNCHANGED anchors /\ MayCommit(p)'
    BY <1>5, AnchorTenantMayCommit DEF AnchorTenant, anchorTables
  <2>2. QED
    BY <1>1, <1>2, <2>1, CadenceStands
<1>6. CASE EndJudging(p) \/ LockAnchorHead(p)
  <2>1. UNCHANGED <<anchors, passStarted, headsRead, unjudged, due, newAnchors>>
    BY <1>6 DEF EndJudging, LockAnchorHead, anchorTables
  <2>2. MayCommit(p)'
    BY <2>1 DEF CadenceInv, MayCommit, AnchorsOf, IsDue, Apart
  <2>3. QED
    BY <1>1, <1>2, <2>1, <2>2, CadenceStands
<1>7. CASE CommitPass(p)
  <2>1. apc'[p] = "idle"
    BY <1>7, EndPassClears DEF CommitPass
  <2>2. QED
    BY <1>1, <1>2, <1>7, <2>1, CommitKeepsCadence
<1>8. CASE AbortPass(p)
  <2>1. apc'[p] = "idle" /\ UNCHANGED anchors
    BY <1>8, EndPassClears DEF AbortPass, anchorTables
  <2>2. QED
    BY <1>1, <1>2, <2>1, CadenceStands
<1>9. QED
  BY <1>3, <1>4, <1>5, <1>6, <1>7, <1>8 DEF PassStep

-----------------------------------------------------------------------------
(* ElectedInv is inductive. *)

LEMMA InitElectedInv == ScheduledInit => ElectedInv
<1> SUFFICES ASSUME ScheduledInit PROVE LeaderInv /\ CadenceInv
  BY DEF ElectedInv
<1> USE SchedulerAssumption DEF ScheduledInit, SchedulerInit, Init, AnchorInit
<1>1. LeaderInv
  BY DEF LeaderInv
<1>2. CadenceInv
  BY DEF CadenceInv, Cadence, AnchorsOf, MayCommit
<1>3. QED
  BY <1>1, <1>2

\* Which passes are under way depends on the passes alone.
LEMMA LeadersStand ==
  ASSUME LeaderInv, UNCHANGED <<depth, connection>>,
         \A q \in Passes : apc'[q] = "idle" <=> apc[q] = "idle"
  PROVE  LeaderInv'
BY DEF LeaderInv

\* A step in the middle of a pass.
LEMMA WorkOnElected ==
  ASSUME PassInv, PassInv', LeaderInv, CadenceInv, NEW p \in Passes,
         WorkOn(p), UNCHANGED leaderVars
  PROVE  LeaderInv' /\ CadenceInv'
<1>1. apc[p] # "idle" /\ \A q \in Passes : apc'[q] = "idle" <=> apc[q] = "idle"
  BY DEF WorkOn, ReadHeads, JudgeTenant, AnchorTenant, EndJudging, LockAnchorHead,
         PassInv, PassTypes
<1>2. \A q \in Passes \ {p} : apc[q] = "idle"
  BY <1>1, OnePass
<1>3. PassStep(p)
  BY DEF WorkOn, PassStep
<1>4. QED
  BY <1>1, <1>2, <1>3, LeadersStand, PassStepKeepsCadence DEF leaderVars

\* A leader is elected only while no pass is under way.
LEMMA BecomeLeaderElected ==
  ASSUME PassInv, PassInv', LeaderInv, CadenceInv, NEW p \in Passes, NEW c \in Connections,
         BecomeLeader(p, c)
  PROVE  LeaderInv' /\ CadenceInv'
<1> USE SchedulerAssumption
<1>1. /\ IsIdle(c) /\ LockIsFree(c)
      /\ depth' = [depth EXCEPT ![c] = @ + 1]
      /\ connection' = [connection EXCEPT ![p] = c]
      /\ BeginPass(p)
  BY DEF BecomeLeader
<1>2. apc' = [apc EXCEPT ![p] = "started"]
  BY <1>1 DEF BeginPass
<1>3. \A q \in Passes : connection[q] = NoConnection
  BY <1>1 DEF LeaderInv, IsIdle, LockIsFree
<1>4. \A q \in Passes : apc[q] = "idle"
  BY <1>3 DEF LeaderInv
<1>5. \A d \in Connections : depth'[d] > 0 <=> d = c
  BY <1>1 DEF LeaderInv, LockIsFree
<1>6. /\ depth' \in [Connections -> Nat]
      /\ connection' \in [Passes -> Connections \union {NoConnection}]
      /\ \A q \in Passes : connection'[q] # NoConnection <=> q = p
      /\ \A q \in Passes : apc'[q] # "idle" <=> q = p
      /\ connection'[p] = c
  BY <1>1, <1>2, <1>3, <1>4 DEF LeaderInv, PassInv, PassTypes
<1>7. LeaderInv'
  BY <1>5, <1>6 DEF LeaderInv
<1>8. CadenceInv'
  BY <1>1, <1>4, PassStepKeepsCadence DEF PassStep
<1>9. QED
  BY <1>7, <1>8

\* The end of a leader's pass, and with it of the hold on its connection, whether or not
\* the lock is given up there.
LEMMA EndLeaderElected ==
  ASSUME PassInv, PassInv', LeaderInv, CadenceInv, NEW p \in Passes,
         connection[p] # NoConnection, CommitPass(p) \/ AbortPass(p), HandBack(p),
         depth' \in [Connections -> Nat], \A c \in Connections : depth'[c] > 0 => depth[c] > 0,
         \A c \in Connections : c # connection[p] => depth'[c] = depth[c]
  PROVE  LeaderInv' /\ CadenceInv'
<1>1. connection' = [connection EXCEPT ![p] = NoConnection]
  BY DEF HandBack
<1>2. apc' = [apc EXCEPT ![p] = "idle"] /\ PassStep(p)
  BY DEF CommitPass, AbortPass, EndPass, PassStep
<1>3. \A q \in Passes \ {p} : apc[q] = "idle"
  BY OnePass DEF LeaderInv
<1>4. \A q \in Passes : connection'[q] = NoConnection /\ apc'[q] = "idle"
  BY <1>1, <1>2, <1>3 DEF LeaderInv, PassInv, PassTypes
<1>5. connection' \in [Passes -> Connections \union {NoConnection}]
  BY <1>1 DEF LeaderInv
<1>6. LeaderInv'
  BY <1>4, <1>5 DEF LeaderInv
<1>7. QED
  BY <1>2, <1>3, <1>6, PassStepKeepsCadence

LEMMA ReleaseElected ==
  ASSUME LeaderInv, CadenceInv, NEW p \in Passes, NEW c \in Connections,
         ReleaseLeadership(p, c), UNCHANGED anchorVars
  PROVE  LeaderInv' /\ CadenceInv'
<1>1. IsIdle(c) /\ depth' = Unlocked(c) /\ UNCHANGED connection
  BY DEF ReleaseLeadership
<1>2. UNCHANGED <<anchors, apc, passStarted, headsRead, unjudged, due, newAnchors>>
  BY DEF anchorVars, anchorTables, passVars
<1>3. /\ depth' \in [Connections -> Nat]
      /\ \A d \in Connections : depth'[d] > 0 => depth[d] > 0
      /\ \A d \in Connections : d # c => depth'[d] = depth[d]
  BY <1>1 DEF LeaderInv, Unlocked
<1>4. LeaderInv'
  BY <1>1, <1>2, <1>3 DEF LeaderInv, IsIdle
<1>5. \A q \in Passes : MayCommit(q)'
  BY <1>2 DEF CadenceInv, MayCommit, AnchorsOf, IsDue, Apart
<1>6. QED
  BY <1>2, <1>4, <1>5, CadenceStands

LEMMA DropElected ==
  ASSUME PassInv, PassInv', LeaderInv, CadenceInv, NEW c \in Connections, DropConnection(c)
  PROVE  LeaderInv' /\ CadenceInv'
<1> USE SchedulerAssumption
<1>1. /\ depth' = [depth EXCEPT ![c] = 0]
      /\ connection' = [p \in Passes |->
                          IF connection[p] = c THEN NoConnection ELSE connection[p]]
  BY DEF DropConnection
<1>2. /\ depth' \in [Connections -> Nat]
      /\ \A d \in Connections : depth'[d] > 0 => depth[d] > 0
      /\ \A d \in Connections : d # c => depth'[d] = depth[d]
  BY <1>1 DEF LeaderInv
<1>3. CASE IsIdle(c) /\ UNCHANGED anchorVars
  <2>1. \A p \in Passes : connection'[p] = connection[p]
    BY <1>1, <1>3 DEF IsIdle
  <2>2. UNCHANGED <<anchors, apc, passStarted, headsRead, unjudged, due, newAnchors>>
    BY <1>3 DEF anchorVars, anchorTables, passVars
  <2>3. LeaderInv'
    BY <1>1, <1>2, <1>3, <2>1, <2>2 DEF LeaderInv, IsIdle
  <2>4. \A q \in Passes : MayCommit(q)'
    BY <2>2 DEF CadenceInv, MayCommit, AnchorsOf, IsDue, Apart
  <2>5. QED
    BY <2>2, <2>3, <2>4, CadenceStands
<1>4. ASSUME NEW p \in Passes, connection[p] = c, AbortPass(p)
      PROVE LeaderInv' /\ CadenceInv'
  <2>1. HandBack(p)
    BY <1>1, <1>4 DEF LeaderInv, HandBack
  <2>2. QED
    BY <1>2, <1>4, <2>1, EndLeaderElected
<1>5. QED
  BY <1>3, <1>4 DEF DropConnection

LEMMA SchedulerStepElected ==
  ASSUME PassInv, PassInv', ElectedInv, SchedulerStep
  PROVE  ElectedInv'
<1> SUFFICES ASSUME ~unelected' PROVE LeaderInv' /\ CadenceInv'
  BY DEF ElectedInv
<1>1. ~unelected
  BY DEF SchedulerStep, leaderVars, RunUnelected, EndUnelected, CommitLeader, StopLeader,
         FailLeader, BecomeLeader, ReleaseLeadership, DropConnection
<1>2. LeaderInv /\ CadenceInv
  BY <1>1 DEF ElectedInv
<1>3. ASSUME NEW p \in Passes, WorkOn(p) /\ UNCHANGED leaderVars
      PROVE LeaderInv' /\ CadenceInv'
  BY <1>2, <1>3, WorkOnElected
<1>4. ASSUME NEW p \in Passes, RunUnelected(p) \/ EndUnelected(p) PROVE FALSE
  \* A pass that nobody elected is not to be begun, and there is none to end.
  BY <1>2, <1>4 DEF RunUnelected, EndUnelected, LeaderInv, CommitPass, AbortPass
<1>5. ASSUME NEW p \in Passes, CommitLeader(p) PROVE LeaderInv' /\ CadenceInv'
  BY <1>2, <1>5, EndLeaderElected DEF CommitLeader, LeaderInv
<1>6. ASSUME NEW p \in Passes, StopLeader(p) PROVE LeaderInv' /\ CadenceInv'
  <2>1. connection[p] \in Connections /\ depth' = Unlocked(connection[p])
    BY <1>2, <1>6 DEF StopLeader, LeaderInv
  <2>2. /\ depth' \in [Connections -> Nat]
        /\ \A d \in Connections : depth'[d] > 0 => depth[d] > 0
        /\ \A d \in Connections : d # connection[p] => depth'[d] = depth[d]
    BY <1>2, <2>1 DEF LeaderInv, Unlocked
  <2>3. QED
    BY <1>2, <1>6, <2>2, EndLeaderElected DEF StopLeader
<1>7. ASSUME NEW p \in Passes, FailLeader(p) PROVE LeaderInv' /\ CadenceInv'
  BY <1>2, <1>7, EndLeaderElected DEF FailLeader, LeaderInv
<1>8. QED
  BY <1>2, <1>3, <1>4, <1>5, <1>6, <1>7, BecomeLeaderElected, ReleaseElected, DropElected
  DEF SchedulerStep

LEMMA NextElectedInv == PassInv /\ PassInv' /\ ElectedInv /\ [ScheduledNext]_schedulerVars => ElectedInv'
<1> SUFFICES ASSUME PassInv, PassInv', ElectedInv, [ScheduledNext]_schedulerVars PROVE ElectedInv'
  OBVIOUS
<1>1. CASE SchedulerStep
  BY <1>1, SchedulerStepElected
<1>2. CASE UNCHANGED <<anchorVars, leaderVars>>
  <2>1. UNCHANGED <<anchors, apc, passStarted, headsRead, unjudged, due, newAnchors, depth,
                    connection, unelected>>
    BY <1>2 DEF anchorVars, anchorTables, passVars, leaderVars
  <2>2. LeaderInv => LeaderInv'
    BY <2>1 DEF LeaderInv
  <2>3. CadenceInv => CadenceInv'
    BY <2>1, CadenceStands DEF CadenceInv, MayCommit, AnchorsOf, IsDue, Apart
  <2>4. QED
    BY <2>1, <2>2, <2>3 DEF ElectedInv
<1>3. QED
  BY <1>1, <1>2 DEF ScheduledNext, schedulerVars, anchoringVars

\* While every pass is run by an elected leader, a tenant is not anchored again before
\* RecordsPerAnchor records or TicksPerAnchor of time: whatever connection the counted
\* advisory lock is left on, taken again on or lost with, two passes are never under way.
THEOREM ElectedLeadersKeepCadence == ScheduledSpec => []AnchorCadence
<1>1. ElectedInv => AnchorCadence
  BY DEF ElectedInv, CadenceInv, AnchorCadence
<1>2. ScheduledSpec => []PassInv
  BY ScheduledPassesArePasses, PassInvariant, PTL
<1>3. QED
  BY <1>1, <1>2, InitElectedInv, NextElectedInv, PTL DEF ScheduledSpec

-----------------------------------------------------------------------------
(* Verification. *)

\* While no row is lost, a verifier holds anchors of its subject only, and nothing has
\* raised an alarm but the check of a chain that changed while it was read.
VerifyInv ==
  /\ losses \in Nat
  /\ vpc \in [Verifiers -> {"idle", "loaded", "verified", "comparing", "compared"}]
  /\ subject \in [Verifiers -> Tenants]
  /\ DOMAIN recordsRead = Verifiers
  /\ DOMAIN anchorsLeft = Verifiers
  /\ verdict \in [Verifiers -> {"ok", "alarm"}]
  /\ \A v \in Verifiers : vpc[v] = "idle" => anchorsLeft[v] = {}
  /\ losses = 0 =>
       /\ PassInv
       /\ \A v \in Verifiers : /\ anchorsLeft[v] \subseteq AnchorsOf(subject[v])
                               /\ vpc[v] # "verified" => verdict[v] = "ok"

LEMMA InitVerifyInv == VerifyInit => VerifyInv
BY InitPassInv, AuditChainAssumption DEF VerifyInit, VerifyInv

\* An anchor stays.
LEMMA AnchorsStay == [Next]_anchoringVars => anchors \subseteq anchors'
BY DEF Next, anchoringVars, anchorVars, anchorTables, PassStep, BeginPass, ReadHeads, JudgeTenant,
       AnchorTenant, EndJudging, LockAnchorHead, CommitPass, AbortPass

\* A whole chain passes verify_chain and agrees with its head.
LEMMA WholeChainVerifies ==
  ASSUME PassInv, NEW t \in Tenants
  PROVE  VerifyChain(records[t]) /\ HeadAgrees(records[t], head[t])
<1>1. /\ IsChain(t, records[t], head[t]) /\ HeadRow(head[t])
      /\ \A r \in records[t] : SealedRecord(r)
  BY DEF PassInv, ChainInv, TypeInv, AuditTypeOK, ChainsIntact
<1>2. ASSUME NEW r \in records[t] PROVE FollowsPredecessor(r, records[t])
  <2>1. r.seq \in 1 .. Length(head[t]) /\ Length(head[t]) \in Nat
    BY <1>1 DEF IsChain, Length, HeadRow
  <2>2. CASE r.seq = 1
    BY <1>1, <2>1, <2>2 DEF IsChain, FollowsPredecessor, First
  <2>3. CASE r.seq # 1
    <3>1. \E s \in records[t] : s.tenant = r.tenant /\ s.seq = r.seq - 1 /\ r.prev = s.hash
      BY <1>1, <2>3 DEF IsChain
    <3>2. QED
      BY <2>3, <3>1 DEF FollowsPredecessor
  <2>4. QED
    BY <2>2, <2>3
<1>3. VerifyChain(records[t])
  BY <1>1, <1>2 DEF VerifyChain, SealedRecord
<1>4. HeadAgrees(records[t], head[t])
  <2>1. CASE head[t] = NoHead
    BY <1>1, <2>1 DEF IsChain, Length, HeadAgrees
  <2>2. CASE head[t] # NoHead
    <3>1. PICK last \in records[t] : head[t] = HeadAfter(last)
      BY <1>1, <2>2 DEF IsChain
    <3>2. head[t].seq = last.seq /\ head[t].hash = last.hash
      BY <3>1 DEF HeadAfter
    <3>3. \A s \in records[t] : s.seq <= last.seq
      BY <1>1, <2>2, <3>2 DEF IsChain, Length
    <3>4. QED
      BY <2>2, <3>2, <3>3 DEF HeadAgrees
  <2>3. QED
    BY <2>1, <2>2
<1>5. QED
  BY <1>3, <1>4

\* A record behind the first whose predecessor is missing fails verify_chain.
LEMMA GapFails ==
  ASSUME NEW S, NEW r \in S, ~First(r, S), \A p \in S : p.seq # r.seq - 1
  PROVE  ~VerifyChain(S)
BY DEF VerifyChain, FollowsPredecessor

LEMMA VerifierStepKeeps ==
  ASSUME VerifyInv, NEW v \in Verifiers, VerifierStep(v), UNCHANGED <<anchoringVars, losses>>
  PROVE  VerifyInv'
<1> USE DEF VerifyInv
<1>1. /\ PassInv => PassInv'
      /\ UNCHANGED <<anchors, records, losses>>
  BY NextPassInv DEF anchoringVars, anchorVars, anchorTables, auditVars, tableVars
<1>2. \A t \in Tenants : AnchorsOf(t)' = AnchorsOf(t)
  BY <1>1 DEF AnchorsOf
<1>3. ASSUME NEW t \in Tenants, LoadChain(v, t) PROVE VerifyInv'
  BY <1>1, <1>2, <1>3 DEF LoadChain
<1>4. ASSUME NEW t \in Tenants, LoadAnchors(v, t) PROVE VerifyInv'
  BY <1>1, <1>2, <1>4 DEF LoadAnchors
<1>5. CASE CheckChain(v)
  BY <1>1, <1>2, <1>5 DEF CheckChain, Verdict
<1>6. CASE CompareAnchor(v)
  <2>1. PICK a \in anchorsLeft[v] :
          /\ anchorsLeft' = [anchorsLeft EXCEPT ![v] = @ \ {a}]
          /\ IF \E r \in records[subject[v]] : Covers(a, r)
             THEN UNCHANGED <<vpc, verdict>>
             ELSE /\ verdict' = [verdict EXCEPT ![v] = "alarm"]
                  /\ vpc' = [vpc EXCEPT ![v] = "compared"]
    BY <1>6 DEF CompareAnchor
  <2>2. vpc[v] = "comparing" /\ UNCHANGED <<subject, recordsRead>>
    BY <1>6 DEF CompareAnchor
  <2>3. losses = 0 => \E r \in records[subject[v]] : Covers(a, r)
    BY <2>1 DEF AnchorsOf, PassInv, AnchorsMatchChain, Covers
  <2>4. \A u \in Verifiers : anchorsLeft'[u] \subseteq anchorsLeft[u]
    BY <2>1
  <2>5. vpc'[v] # "idle" /\ \A u \in Verifiers \ {v} : vpc'[u] = vpc[u]
    BY <2>1, <2>2
  <2>6. QED
    BY <1>1, <1>2, <2>1, <2>2, <2>3, <2>4, <2>5
<1>7. CASE EndComparing(v)
  BY <1>1, <1>2, <1>7 DEF EndComparing
<1>8. QED
  BY <1>3, <1>4, <1>5, <1>6, <1>7 DEF VerifierStep

LEMMA NextVerifyInv == VerifyInv /\ [VerifyNext]_vars => VerifyInv'
<1> SUFFICES ASSUME VerifyInv, [VerifyNext]_vars PROVE VerifyInv'
  OBVIOUS
<1>1. CASE [Next]_anchoringVars /\ UNCHANGED <<verifierVars, losses>>
  <2>1. UNCHANGED <<vpc, subject, recordsRead, anchorsLeft, verdict, losses>>
    BY <1>1 DEF verifierVars
  <2>2. PassInv => PassInv'
    BY <1>1, NextPassInv
  <2>3. \A t \in Tenants : AnchorsOf(t) \subseteq AnchorsOf(t)'
    BY <1>1, AnchorsStay DEF AnchorsOf
  <2>4. QED
    BY <2>1, <2>2, <2>3 DEF VerifyInv
<1>2. CASE \E v \in Verifiers : VerifierStep(v) /\ UNCHANGED <<anchoringVars, losses>>
  BY <1>2, VerifierStepKeeps
<1>3. ASSUME NEW t \in Tenants, LoseRows(t) PROVE VerifyInv'
  <2>1. losses' = losses + 1 /\ UNCHANGED <<vpc, subject, recordsRead, anchorsLeft, verdict>>
    BY <1>3 DEF LoseRows, verifierVars
  <2>2. QED
    BY <2>1 DEF VerifyInv
<1>4. QED
  BY <1>1, <1>2, <1>3 DEF VerifyNext, vars

\* Comparing a chain with its anchors raises no false alarm, however both grow between
\* the SELECTs: the anchors are read before the records they name.
THEOREM AnchorsRaiseNoFalseAlarm == VerifySpec => []NoFalseAnchorAlarm
<1>1. VerifyInv => NoFalseAnchorAlarm
  BY DEF VerifyInv, NoFalseAnchorAlarm
<1>2. QED
  BY <1>1, InitVerifyInv, NextVerifyInv, PTL DEF VerifySpec

\* Verifying a chain that does not change meanwhile raises an alarm only if rows are
\* missing, and always if one is missing behind the first.
THEOREM ChainAlarmIsRight == VerifySpec => AlarmMeansChange
<1>1. ASSUME VerifyInv, NEW v \in Verifiers, CheckChain(v) PROVE VerdictIsRight(v)
  <2>1. verdict'[v] = Verdict(/\ VerifyChain(recordsRead[v])
                              /\ HeadAgrees(recordsRead[v], head[subject[v]]))
    BY <1>1 DEF CheckChain, VerifyInv
  <2>2. ASSUME recordsRead[v] = records[subject[v]], losses = 0 PROVE verdict'[v] = "ok"
    BY <1>1, <2>1, <2>2, WholeChainVerifies DEF VerifyInv, Verdict
  <2>3. ASSUME NEW r \in recordsRead[v], ~First(r, recordsRead[v]),
               \A p \in recordsRead[v] : p.seq # r.seq - 1
        PROVE verdict'[v] = "alarm"
    BY <2>1, <2>3, GapFails DEF Verdict
  <2>4. QED
    BY <2>2, <2>3 DEF VerdictIsRight
<1>2. VerifyInv /\ [VerifyNext]_vars => [\A v \in Verifiers : CheckChain(v) => VerdictIsRight(v)]_vars
  BY <1>1
<1>3. QED
  BY <1>2, InitVerifyInv, NextVerifyInv, PTL DEF VerifySpec, AlarmMeansChange
=============================================================================
