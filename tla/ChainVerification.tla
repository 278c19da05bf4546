-------------------------- MODULE ChainVerification --------------------------
(***************************************************************************)
(* The verifiers, running beside the writers and the anchoring pass:       *)
(* src/adw/verification/chain_verifier.py and anchor_verifier.py, with     *)
(* verify_chain of src/adw/domain/chain.py.                                *)
(*                                                                         *)
(* A verification is several SELECTs at READ COMMITTED, each of which sees *)
(* what was committed when it ran: the records and then the head row; or   *)
(* the tenant's anchors and then, anchor by anchor, the record it covers.  *)
(***************************************************************************)
EXTENDS Anchoring

CONSTANTS Verifiers,
          MaxLosses      \* bound: times rows of a chain are lost

ASSUME VerificationAssumption == MaxLosses \in Nat

VARIABLES vpc,
          subject,       \* the tenant whose chain is verified
          recordsRead,   \* load_chain
          anchorsLeft,   \* anchors of the tenant still to be compared
          verdict,       \* "ok", or "alarm" when ChainIntegrityError is raised
          losses

verifierVars == <<vpc, subject, recordsRead, anchorsLeft, verdict>>
vars == <<anchoringVars, verifierVars, losses>>


VerifyInit ==
  /\ Init
  /\ vpc         = [v \in Verifiers |-> "idle"]
  /\ subject     = [v \in Verifiers |-> PlatformTenant]
  /\ recordsRead = [v \in Verifiers |-> {}]
  /\ anchorsLeft = [v \in Verifiers |-> {}]
  /\ verdict     = [v \in Verifiers |-> "ok"]
  /\ losses      = 0

-----------------------------------------------------------------------------
(* verify_chain: what it asks of the records it is given in order of seq. *)

First(r, S) == \A s \in S : r.seq <= s.seq

FollowsPredecessorOrAnything(r, S) == r.seq = 1 => r.prev = NoHash
FollowsPredecessor(r, S) ==
  IF First(r, S)
  THEN r.seq = 1 => r.prev = NoHash
  ELSE \E p \in S : p.tenant = r.tenant /\ p.seq = r.seq - 1 /\ r.prev = p.hash

VerifyChain(S) ==
  \A r \in S : /\ r.hash = Hash(r.tenant, r.seq, r.prev, r.kind, r.time)
               /\ FollowsPredecessor(r, S)

\* _verify_head_agrees
HeadAgrees(S, h) ==
  IF h = NoHead THEN S = {}
  ELSE \E last \in S : /\ \A s \in S : s.seq <= last.seq
                       /\ h.seq = last.seq
                       /\ h.hash = last.hash

Verdict(b) == IF b THEN "ok" ELSE "alarm"

-----------------------------------------------------------------------------
(* verify_tenant_chain *)

LoadChain(v, t) ==
  /\ vpc[v] = "idle"
  /\ subject' = [subject EXCEPT ![v] = t]
  /\ recordsRead' = [recordsRead EXCEPT ![v] = records[t]]
  /\ vpc' = [vpc EXCEPT ![v] = "loaded"]
  /\ UNCHANGED <<anchorsLeft, verdict>>

\* verify_chain on the records loaded, then the head row as it is now.
CheckChain(v) ==
  /\ vpc[v] = "loaded"
  /\ verdict' = [verdict EXCEPT ![v] =
       Verdict(VerifyChain(recordsRead[v]) /\ HeadAgrees(recordsRead[v], head[subject[v]]))]
  /\ vpc' = [vpc EXCEPT ![v] = "verified"]
  /\ UNCHANGED <<subject, recordsRead, anchorsLeft>>

-----------------------------------------------------------------------------
(* verify_tenant_against_anchors *)

LoadAnchors(v, t) ==
  /\ vpc[v] = "idle"
  /\ subject' = [subject EXCEPT ![v] = t]
  /\ anchorsLeft' = [anchorsLeft EXCEPT ![v] = AnchorsOf(t)]
  /\ vpc' = [vpc EXCEPT ![v] = "comparing"]
  /\ UNCHANGED <<recordsRead, verdict>>

CoversByOwnHash(a, r) == r.seq = a.tenantSeq /\ r.hash = a.hash
Covers(a, r) == r.seq = a.tenantSeq /\ r.hash = a.tenantHash

\* The next anchor, by tenant_seq, against the record it covers; the first that
\* does not match ends the comparison.
CompareAnchor(v) ==
  /\ vpc[v] = "comparing"
  /\ \E a \in anchorsLeft[v] :
       /\ \A b \in anchorsLeft[v] : a.tenantSeq <= b.tenantSeq
       /\ anchorsLeft' = [anchorsLeft EXCEPT ![v] = @ \ {a}]
       /\ IF \E r \in records[subject[v]] : Covers(a, r)
          THEN UNCHANGED <<vpc, verdict>>
          ELSE /\ verdict' = [verdict EXCEPT ![v] = "alarm"]
               /\ vpc' = [vpc EXCEPT ![v] = "compared"]
  /\ UNCHANGED <<subject, recordsRead>>

EndComparing(v) ==
  /\ vpc[v] = "comparing"
  /\ anchorsLeft[v] = {}
  /\ vpc' = [vpc EXCEPT ![v] = "compared"]
  /\ UNCHANGED <<subject, recordsRead, anchorsLeft, verdict>>

-----------------------------------------------------------------------------

VerifierStep(v) ==
  \/ \E t \in Tenants : LoadChain(v, t) \/ LoadAnchors(v, t)
  \/ CheckChain(v) \/ CompareAnchor(v) \/ EndComparing(v)

\* What verification is for: rows of a chain are gone (a partial restore, a row
\* deleted by hand), while the head row still counts them.
LoseRows(t) ==
  /\ losses < MaxLosses
  /\ losses' = losses + 1
  /\ \E S \in SUBSET records[t] \ {{}} : records' = [records EXCEPT ![t] = @ \ S]
  /\ UNCHANGED <<head, lock, clockVars, writerVars, anchorVars, verifierVars>>

VerifyNext ==
  \/ Next /\ UNCHANGED <<verifierVars, losses>>
  \/ (\E v \in Verifiers : VerifierStep(v)) /\ UNCHANGED <<anchoringVars, losses>>
  \/ \E t \in Tenants : LoseRows(t)

VerifySpec == VerifyInit /\ [][VerifyNext]_vars
-----------------------------------------------------------------------------
(* What must hold. *)

\* What a verification that no commit falls into says of the rows the database has lost.
VerdictIsRight(v) ==
  LET whole == recordsRead[v] = records[subject[v]] /\ losses = 0
      gap   == \E r \in recordsRead[v] :
                 /\ ~First(r, recordsRead[v])
                 /\ \A p \in recordsRead[v] : p.seq # r.seq - 1
  IN  /\ whole => verdict'[v] = "ok"
      /\ gap => verdict'[v] = "alarm"

\* Such a verification is right: an alarm is raised only if rows are missing or the
\* chain changed while it was read, and a gap behind the first row is never missed.
AlarmMeansChange == [][\A v \in Verifiers : CheckChain(v) => VerdictIsRight(v)]_vars

\* Comparing with the anchors raises no false alarm, however the chain and the
\* anchors grow in between: anchors are read before the records they cover.
NoFalseAnchorAlarm ==
  losses = 0 => \A v \in Verifiers : vpc[v] = "compared" => verdict[v] = "ok"
=============================================================================
