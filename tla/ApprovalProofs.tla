---------------------------- MODULE ApprovalProofs ----------------------------
(***************************************************************************)
(* Theorems about Approval, for any items, people, sessions and bounds.    *)
(***************************************************************************)
EXTENDS Approval, FiniteSetTheorems, TLAPS

-----------------------------------------------------------------------------
(* What a session holds at each stage of its work. *)

Untouched(s) == newEvents[s] = <<>> /\ \A i \in Items : itemLock[i] # s

AtRest(s) ==
  /\ pc[s] \in {"idle", "open"}
  /\ Untouched(s) /\ newDecisions[s] = {} /\ todo[s] = {}

\* Of a decision: the item is one, and the person may decide it.
Chosen(s, i) ==
  /\ todo[s] = {i} /\ item[i] # NoItem
  /\ intent[s].who \in People /\ IsEligible(i, intent[s].who)

AboutToDecide(s) ==
  /\ pc[s] = "deciding"
  /\ Untouched(s) /\ newDecisions[s] = {}
  /\ \E i \in Items : Chosen(s, i)

\* The verdict row is the next one, and stays that: its session has the head.
NextDecision(s, i, d) ==
  /\ headLock = s
  /\ newDecisions[s] = {d}
  /\ d.id = DecisionId /\ d.item = i /\ IsEligible(i, d.by)

HasRecorded(s) ==
  /\ pc[s] = "recorded"
  /\ Untouched(s)
  /\ \E i \in Items, d \in newDecisions[s] : Chosen(s, i) /\ NextDecision(s, i, d)

Decided(s, i, d) ==
  /\ NextDecision(s, i, d)
  /\ \A j \in Items : itemLock[j] = s <=> j = i
  /\ newItem[s][i] = DecidedRow(item[i], d)
  /\ newEvents[s] = <<Event(newItem[s][i].state, i, d.id)>>

HasDecided(s) ==
  /\ pc[s] = "writing" /\ todo[s] = {}
  /\ \E i \in Items, d \in newDecisions[s] : Decided(s, i, d)

\* Of expiry and escalation: every event is about an item the session has locked, and
\* every item it has written and audited has its event.
Sweeping(s, kind) ==
  /\ pc[s] \in {"writing", "sealing"}
  /\ newDecisions[s] = {}
  /\ \A k \in DOMAIN newEvents[s] :
       newEvents[s][k].kind = kind /\ itemLock[newEvents[s][k].item] = s
  /\ \A i \in Items :
       itemLock[i] = s /\ i \notin todo[s] =>
         \E k \in DOMAIN newEvents[s] : newEvents[s][k].item = i

Expiring(s) ==
  /\ intent[s].kind = "expire"
  /\ Sweeping(s, "expired")
  /\ \A i \in Items : itemLock[i] = s => newItem[s][i] = ExpiredRow(item[i], started[s])

Escalating(s) ==
  /\ intent[s].kind = "escalate"
  /\ Sweeping(s, "escalated")
  /\ \A i \in Items : itemLock[i] = s => newItem[s][i] = [item[i] EXCEPT !.escalated = TRUE]

Stage(s) ==
  \/ AtRest(s) \/ AboutToDecide(s) \/ HasRecorded(s) \/ HasDecided(s)
  \/ Expiring(s) \/ Escalating(s)

\* What is locked or about to be written exists.
TouchesRows ==
  \A i \in Items, s \in Sessions : itemLock[i] = s \/ i \in todo[s] => item[i] # NoItem

\* Decisions are numbered one after the other.
DecisionsNumbered ==
  /\ IsFiniteSet(decisions)
  /\ \A d \in decisions : d.id \in 1 .. Cardinality(decisions)
  /\ \A d, e \in decisions : d.id = e.id => d = e

SessionInv ==
  /\ ApprovalTypeOK
  /\ TouchesRows
  /\ DecisionsNumbered
  /\ \A s \in Sessions : Stage(s)

-----------------------------------------------------------------------------
(* SessionInv is inductive. *)

LEMMA RowFacts ==
  /\ NoItem \in Row
  /\ \A row \in Row : ([row EXCEPT !.escalated = TRUE]) \in Row
  /\ \A row \in Row, now \in Nat : ExpiredRow(row, now) \in Row /\ ExpiredRow(row, now) # NoItem
  /\ \A row \in Row, d \in Decision : DecidedRow(row, d) \in Row /\ DecidedRow(row, d) # NoItem
<1>1. NoItem \in Row
  BY DEF Row, NoItem
<1>2. ASSUME NEW row \in Row PROVE [row EXCEPT !.escalated = TRUE] \in Row
  BY DEF Row
<1>3. ASSUME NEW row \in Row, NEW now \in Nat
      PROVE  ExpiredRow(row, now) \in Row /\ ExpiredRow(row, now) # NoItem
  <2>1. ExpiredRow(row, now) \in Row
    BY DEF Row, ExpiredRow
  <2>2. ExpiredRow(row, now).state = "expired"
    BY DEF Row, ExpiredRow
  <2>3. QED
    BY <2>1, <2>2 DEF NoItem
<1>4. ASSUME NEW row \in Row, NEW d \in Decision
      PROVE  DecidedRow(row, d) \in Row /\ DecidedRow(row, d) # NoItem
  <2>1. DecidedRow(row, d) \in Row
    BY DEF Row, Decision, DecidedRow
  <2>2. DecidedRow(row, d).state \in {"approved", "rejected"}
    BY DEF Row, DecidedRow
  <2>3. QED
    BY <2>1, <2>2 DEF NoItem
<1>5. QED
  BY <1>1, <1>2, <1>3, <1>4

LEMMA EscalatedIsSome ==
  ASSUME NEW row \in Row PROVE [row EXCEPT !.escalated = TRUE] # NoItem
BY DEF Row, NoItem

LEMMA AppendFacts ==
  ASSUME NEW S, NEW q \in Seq(S), NEW e \in S
  PROVE  /\ Append(q, e) \in Seq(S)
         /\ DOMAIN q = 1 .. Len(q) /\ Len(q) \in Nat
         /\ DOMAIN Append(q, e) = 1 .. Len(q) + 1
         /\ \A k \in DOMAIN q : Append(q, e)[k] = q[k]
         /\ Append(q, e)[Len(q) + 1] = e
OBVIOUS

LEMMA ConcatFacts ==
  ASSUME NEW S, NEW p \in Seq(S), NEW q \in Seq(S)
  PROVE  /\ p \o q \in Seq(S)
         /\ DOMAIN p = 1 .. Len(p) /\ Len(p) \in Nat
         /\ DOMAIN q = 1 .. Len(q) /\ Len(q) \in Nat
         /\ DOMAIN (p \o q) = 1 .. Len(p) + Len(q)
         /\ \A k \in DOMAIN p : (p \o q)[k] = p[k]
         /\ \A k \in DOMAIN q : (p \o q)[Len(p) + k] = q[k]
OBVIOUS

LEMMA EventFacts ==
  ASSUME ApprovalTypeOK, NEW s \in Sessions, NEW k \in DOMAIN newEvents[s]
  PROVE  newEvents[s][k] \in Events /\ newEvents[s][k].item \in Items
<1>1. newEvents[s] \in Seq(Events)
  BY DEF ApprovalTypeOK
<1>2. newEvents[s][k] \in Events
  BY <1>1
<1>3. QED
  BY <1>2 DEF Events

LEMMA InitSessionInv == Init => SessionInv
<1> SUFFICES ASSUME Init PROVE SessionInv
  OBVIOUS
<1> USE ApprovalAssumption
<1>1. ApprovalTypeOK
  <2>1. <<>> \in Seq(Events)
    OBVIOUS
  <2>2. NoIntent \in [kind : {"none", "decide", "expire", "escalate"},
                      who : People \union {Nobody}, approved : BOOLEAN]
    BY DEF NoIntent
  <2>3. NoneWritten \in [Items -> Row] /\ \A i \in Items : NoneWritten[i] = NoItem
    BY RowFacts DEF NoneWritten
  <2>4. QED
    BY <2>1, <2>2, <2>3 DEF Init, ApprovalTypeOK, PC
<1>2. ASSUME NEW s \in Sessions PROVE AtRest(s) /\ todo[s] = {}
  BY DEF Init, AtRest, Untouched
<1>3. TouchesRows
  BY <1>2 DEF TouchesRows, AtRest, Untouched
<1>4. DecisionsNumbered
  BY FS_EmptySet DEF Init, DecisionsNumbered
<1>5. QED
  BY <1>1, <1>2, <1>3, <1>4 DEF SessionInv, Stage

\* What the others do to the rows and the locks does not concern a session: the rows
\* it has locked stay as they are, and no decision is committed while it has the head.
LEMMA OthersKeepStage ==
  ASSUME SessionInv, NEW v \in Sessions,
         pc'[v] = pc[v], started'[v] = started[v], intent'[v] = intent[v], todo'[v] = todo[v],
         newItem'[v] = newItem[v], newDecisions'[v] = newDecisions[v],
         newEvents'[v] = newEvents[v],
         \A i \in Items : itemLock'[i] = v <=> itemLock[i] = v,
         \A i \in Items : itemLock[i] = v => item'[i] = item[i],
         \A i \in Items : item[i] # NoItem => item'[i] # NoItem,
         headLock = v => headLock' = v /\ decisions' = decisions
  PROVE  Stage(v)'
<1> USE DEF SessionInv, ApprovalTypeOK
<1>1. CASE AtRest(v)
  BY <1>1 DEF AtRest, Untouched, Stage
<1>2. CASE AboutToDecide(v)
  BY <1>2 DEF AboutToDecide, Untouched, Chosen, Stage
<1>3. CASE HasRecorded(v)
  BY <1>3 DEF HasRecorded, Untouched, Chosen, NextDecision, DecisionId, Stage
<1>4. CASE HasDecided(v)
  <2>1. PICK i \in Items, d \in newDecisions[v] : Decided(v, i, d)
    BY <1>4 DEF HasDecided
  <2>2. itemLock[i] = v
    BY <2>1 DEF Decided
  <2>3. NextDecision(v, i, d)' /\ item'[i] = item[i]
    BY <2>1, <2>2 DEF Decided, NextDecision, DecisionId
  <2>4. Decided(v, i, d)'
    BY <2>1, <2>3 DEF Decided
  <2>5. pc'[v] = "writing" /\ todo'[v] = {} /\ d \in newDecisions'[v]
    BY <1>4 DEF HasDecided
  <2>6. HasDecided(v)'
    BY <2>4, <2>5 DEF HasDecided
  <2>7. QED
    BY <2>6 DEF Stage
<1>5. ASSUME NEW kind, Sweeping(v, kind) PROVE Sweeping(v, kind)'
  <2>1. \A k \in DOMAIN newEvents[v] : newEvents[v][k].item \in Items
    BY EventFacts
  <2>2. QED
    BY <1>5, <2>1 DEF Sweeping
<1>6. CASE Expiring(v)
  BY <1>5, <1>6 DEF Expiring, Stage
<1>7. CASE Escalating(v)
  BY <1>5, <1>7 DEF Escalating, Stage
<1>8. QED
  BY <1>1, <1>2, <1>3, <1>4, <1>6, <1>7 DEF Stage

\* A step that writes no row keeps the numbering and what exists.
LEMMA RowsStand ==
  ASSUME SessionInv, UNCHANGED rowVars
  PROVE  DecisionsNumbered' /\ \A i \in Items : item[i] # NoItem => item'[i] # NoItem
BY DEF SessionInv, DecisionsNumbered, rowVars

LEMMA BeginKeeps ==
  ASSUME SessionInv, NEW s \in Sessions, Begin(s)
  PROVE  SessionInv'
<1> USE DEF SessionInv
<1>1. /\ pc[s] = "idle" /\ pc' = [pc EXCEPT ![s] = "open"]
      /\ started' = [started EXCEPT ![s] = clock]
      /\ begun' \in Nat
      /\ UNCHANGED <<rowVars, lockVars, clock, intent, todo, newItem, newDecisions,
                     newEvents, aborts>>
  BY DEF Begin, ApprovalTypeOK
<1>2. ApprovalTypeOK'
  BY <1>1 DEF ApprovalTypeOK, rowVars, lockVars, PC
<1>3. TouchesRows' /\ DecisionsNumbered'
  BY <1>1, RowsStand DEF TouchesRows, rowVars, lockVars
<1>4. Stage(s)'
  <2>1. AtRest(s)
    BY <1>1 DEF Stage, AtRest, AboutToDecide, HasRecorded, HasDecided, Expiring, Escalating,
                Sweeping
  <2>2. AtRest(s)'
    BY <1>1, <2>1 DEF AtRest, Untouched, lockVars, ApprovalTypeOK
  <2>3. QED
    BY <2>2 DEF Stage
<1>5. ASSUME NEW v \in Sessions \ {s} PROVE Stage(v)'
  BY <1>1, OthersKeepStage DEF rowVars, lockVars, ApprovalTypeOK
<1>6. QED
  BY <1>2, <1>3, <1>4, <1>5

\* A session that has just begun has nothing.
LEMMA OpenIsAtRest ==
  ASSUME SessionInv, NEW s \in Sessions, pc[s] = "open"
  PROVE  AtRest(s)
BY DEF SessionInv, Stage, AtRest, AboutToDecide, HasRecorded, HasDecided, Expiring, Escalating,
       Sweeping

LEMMA LoadToDecideKeeps ==
  ASSUME SessionInv, NEW s \in Sessions, NEW i \in Items, NEW p \in People,
         NEW approved \in BOOLEAN, LoadToDecide(s, i, p, approved)
  PROVE  SessionInv'
<1> DEFINE want == [kind |-> "decide", who |-> p, approved |-> approved]
<1> USE DEF SessionInv
<1>1. /\ pc[s] = "open" /\ item[i].state = "pending" /\ IsEligible(i, p)
      /\ todo' = [todo EXCEPT ![s] = {i}]
      /\ intent' = [intent EXCEPT ![s] = want]
      /\ pc' = [pc EXCEPT ![s] = "deciding"]
      /\ UNCHANGED <<rowVars, lockVars, clock, started, newItem, newDecisions, newEvents,
                     boundVars>>
  BY DEF LoadToDecide
<1>2. /\ want \in [kind : {"none", "decide", "expire", "escalate"},
                   who : People \union {Nobody}, approved : BOOLEAN]
      /\ want.who = p
  OBVIOUS
<1> HIDE DEF want
<1>3. ApprovalTypeOK'
  BY <1>1, <1>2 DEF ApprovalTypeOK, rowVars, lockVars, boundVars, PC
<1>4. item[i] # NoItem
  BY <1>1 DEF NoItem
<1>5. TouchesRows' /\ DecisionsNumbered'
  BY <1>1, <1>4, RowsStand DEF TouchesRows, rowVars, lockVars, ApprovalTypeOK
<1>6. Stage(s)'
  <2>1. AboutToDecide(s)'
    BY <1>1, <1>2, <1>4, OpenIsAtRest
       DEF AtRest, AboutToDecide, Chosen, Untouched, rowVars, lockVars, ApprovalTypeOK
  <2>2. QED
    BY <2>1 DEF Stage
<1>7. ASSUME NEW v \in Sessions \ {s} PROVE Stage(v)'
  BY <1>1, OthersKeepStage DEF rowVars, lockVars, ApprovalTypeOK
<1>8. QED
  BY <1>3, <1>5, <1>6, <1>7

LEMMA LoadOverdueKeeps ==
  ASSUME SessionInv, NEW s \in Sessions, LoadOverdue(s)
  PROVE  SessionInv'
<1> DEFINE late == {i \in Items : IsOverdue(item[i], started[s])}
           want == [NoIntent EXCEPT !.kind = "expire"]
<1> USE DEF SessionInv
<1>1. /\ pc[s] = "open"
      /\ todo' = [todo EXCEPT ![s] = late]
      /\ intent' = [intent EXCEPT ![s] = want]
      /\ pc' = [pc EXCEPT ![s] = "writing"]
      /\ UNCHANGED <<rowVars, lockVars, clock, started, newItem, newDecisions, newEvents,
                     boundVars>>
  BY DEF LoadOverdue
<1>2. /\ want \in [kind : {"none", "decide", "expire", "escalate"},
                   who : People \union {Nobody}, approved : BOOLEAN]
      /\ want.kind = "expire"
  BY DEF NoIntent
<1>3. late \subseteq Items /\ \A i \in late : item[i] # NoItem
  BY DEF IsOverdue, NoItem
<1> HIDE DEF want, late
<1>4. ApprovalTypeOK'
  BY <1>1, <1>2, <1>3 DEF ApprovalTypeOK, rowVars, lockVars, boundVars, PC
<1>5. TouchesRows' /\ DecisionsNumbered'
  BY <1>1, <1>3, RowsStand DEF TouchesRows, rowVars, lockVars, ApprovalTypeOK
<1>6. Stage(s)'
  <2>1. AtRest(s) /\ DOMAIN newEvents[s] = {}
    BY <1>1, OpenIsAtRest DEF AtRest, Untouched
  <2>2. Expiring(s)'
    BY <1>1, <1>2, <2>1
       DEF AtRest, Expiring, Sweeping, Untouched, rowVars, lockVars, ApprovalTypeOK
  <2>3. QED
    BY <2>2 DEF Stage
<1>7. ASSUME NEW v \in Sessions \ {s} PROVE Stage(v)'
  BY <1>1, OthersKeepStage DEF rowVars, lockVars, ApprovalTypeOK
<1>8. QED
  BY <1>4, <1>5, <1>6, <1>7

LEMMA LoadToEscalateKeeps ==
  ASSUME SessionInv, NEW s \in Sessions, NEW i \in Items, LoadToEscalate(s, i)
  PROVE  SessionInv'
<1> DEFINE want == [NoIntent EXCEPT !.kind = "escalate"]
<1> USE DEF SessionInv
<1>1. /\ pc[s] = "open" /\ item[i] # NoItem
      /\ todo' = [todo EXCEPT ![s] = {i}]
      /\ intent' = [intent EXCEPT ![s] = want]
      /\ pc' = [pc EXCEPT ![s] = "writing"]
      /\ UNCHANGED <<rowVars, lockVars, clock, started, newItem, newDecisions, newEvents,
                     boundVars>>
  BY DEF LoadToEscalate
<1>2. /\ want \in [kind : {"none", "decide", "expire", "escalate"},
                   who : People \union {Nobody}, approved : BOOLEAN]
      /\ want.kind = "escalate"
  BY DEF NoIntent
<1> HIDE DEF want
<1>3. ApprovalTypeOK'
  BY <1>1, <1>2 DEF ApprovalTypeOK, rowVars, lockVars, boundVars, PC
<1>4. TouchesRows' /\ DecisionsNumbered'
  BY <1>1, RowsStand DEF TouchesRows, rowVars, lockVars, ApprovalTypeOK
<1>5. Stage(s)'
  <2>1. AtRest(s) /\ DOMAIN newEvents[s] = {}
    BY <1>1, OpenIsAtRest DEF AtRest, Untouched
  <2>2. Escalating(s)'
    BY <1>1, <1>2, <2>1
       DEF AtRest, Escalating, Sweeping, Untouched, rowVars, lockVars, ApprovalTypeOK
  <2>3. QED
    BY <2>2 DEF Stage
<1>6. ASSUME NEW v \in Sessions \ {s} PROVE Stage(v)'
  BY <1>1, OthersKeepStage DEF rowVars, lockVars, ApprovalTypeOK
<1>7. QED
  BY <1>3, <1>4, <1>5, <1>6

LEMMA RecordDecisionKeeps ==
  ASSUME SessionInv, NEW s \in Sessions, RecordDecision(s)
  PROVE  SessionInv'
<1> USE DEF SessionInv
<1>0. PICK i \in todo[s] :
        newDecisions' = [newDecisions EXCEPT ![s] = {
          [id |-> DecisionId, item |-> i, by |-> intent[s].who, at |-> started[s],
           verdict |-> IF intent[s].approved THEN "pass" ELSE "fail"]}]
  BY DEF RecordDecision
<1>1. PICK d :
        /\ d = [id |-> DecisionId, item |-> i, by |-> intent[s].who, at |-> started[s],
                verdict |-> IF intent[s].approved THEN "pass" ELSE "fail"]
        /\ newDecisions' = [newDecisions EXCEPT ![s] = {d}]
  BY <1>0
<1>2. /\ pc[s] = "deciding" /\ HeadFree(s) /\ headLock' = s
      /\ newDecisions' = [newDecisions EXCEPT ![s] = {d}]
      /\ pc' = [pc EXCEPT ![s] = "recorded"]
      /\ UNCHANGED <<rowVars, itemLock, clock, started, intent, todo, newItem, newEvents,
                     boundVars>>
  BY <1>1 DEF RecordDecision
<1>3. AboutToDecide(s)
  BY <1>2 DEF Stage, AtRest, AboutToDecide, HasRecorded, HasDecided, Expiring, Escalating,
              Sweeping
<1>4. i \in Items /\ Chosen(s, i)
  BY <1>3 DEF AboutToDecide, Chosen
<1>5. DecisionId \in Nat
  BY FS_CardinalityType DEF DecisionId, DecisionsNumbered
<1>6. d \in Decision /\ d.id = DecisionId /\ d.item = i /\ d.by = intent[s].who
  BY <1>1, <1>4, <1>5 DEF Decision, Chosen, ApprovalTypeOK
<1>7. ApprovalTypeOK'
  BY <1>2, <1>6 DEF ApprovalTypeOK, rowVars, boundVars, PC
<1>8. TouchesRows' /\ DecisionsNumbered'
  BY <1>2, RowsStand DEF TouchesRows, rowVars
<1>9. Stage(s)'
  <2>1. newDecisions'[s] = {d} /\ pc'[s] = "recorded" /\ DecisionId' = DecisionId
    BY <1>2 DEF ApprovalTypeOK, DecisionId, rowVars
  <2>2. Chosen(s, i)' /\ Untouched(s)'
    BY <1>2, <1>3, <1>4 DEF Chosen, AboutToDecide, Untouched, rowVars
  <2>3. NextDecision(s, i, d)'
    BY <1>2, <1>4, <1>6, <2>1 DEF NextDecision, Chosen
  <2>4. HasRecorded(s)'
    BY <1>4, <2>1, <2>2, <2>3 DEF HasRecorded
  <2>5. QED
    BY <2>4 DEF Stage
<1>10. ASSUME NEW v \in Sessions \ {s} PROVE Stage(v)'
  BY <1>2, ApprovalAssumption, OthersKeepStage DEF rowVars, HeadFree, ApprovalTypeOK
<1>11. QED
  BY <1>7, <1>8, <1>9, <1>10

LEMMA WriteVerdictKeeps ==
  ASSUME SessionInv, NEW s \in Sessions, WriteVerdict(s)
  PROVE  SessionInv'
<1> USE DEF SessionInv
<1>1. PICK i \in todo[s], d \in newDecisions[s] :
        LET row == DecidedRow(item[i], d) IN
        /\ ItemFree(s, i)
        /\ itemLock' = [itemLock EXCEPT ![i] = s]
        /\ newItem' = [newItem EXCEPT ![s][i] = row]
        /\ newEvents' = [newEvents EXCEPT ![s] = Append(@, Event(row.state, i, d.id))]
  BY DEF WriteVerdict
<1> DEFINE row == DecidedRow(item[i], d)
           e   == Event(row.state, i, d.id)
<1>2. /\ pc[s] = "recorded" /\ ItemFree(s, i)
      /\ itemLock' = [itemLock EXCEPT ![i] = s]
      /\ newItem' = [newItem EXCEPT ![s][i] = row]
      /\ newEvents' = [newEvents EXCEPT ![s] = Append(newEvents[s], e)]
      /\ todo' = [todo EXCEPT ![s] = {}]
      /\ pc' = [pc EXCEPT ![s] = "writing"]
      /\ UNCHANGED <<rowVars, headLock, clock, started, intent, newDecisions, boundVars>>
  BY <1>1 DEF WriteVerdict, ApprovalTypeOK
<1>3. HasRecorded(s)
  BY <1>2 DEF Stage, AtRest, AboutToDecide, HasRecorded, HasDecided, Expiring, Escalating,
              Sweeping
<1>4. /\ i \in Items /\ item[i] # NoItem /\ NextDecision(s, i, d) /\ d \in Decision
      /\ newEvents[s] = <<>> /\ \A j \in Items : itemLock[j] # s
  BY <1>3 DEF HasRecorded, Chosen, NextDecision, ApprovalTypeOK, Untouched
<1>5. row \in Row /\ row # NoItem /\ row.state \in {"approved", "rejected"}
  <2>1. item[i] \in Row
    BY <1>4 DEF ApprovalTypeOK
  <2>2. row.state = IF d.verdict = "pass" THEN "approved" ELSE "rejected"
    BY <2>1 DEF DecidedRow, Row
  <2>3. QED
    BY <1>4, <2>1, <2>2, RowFacts
<1>6. e \in Events
  BY <1>4, <1>5 DEF Event, Events, Decision
<1>7. newEvents'[s] = <<e>> /\ <<e>> \in Seq(Events)
  BY <1>2, <1>4, <1>6 DEF ApprovalTypeOK
<1>8. newItem'[s][i] = row /\ itemLock'[i] = s
  BY <1>2, <1>4 DEF ApprovalTypeOK
<1> HIDE DEF row
<1>9. ApprovalTypeOK'
  <2>1. ASSUME NEW v \in Sessions, NEW j \in Items
        PROVE  newItem'[v][j] # NoItem <=> itemLock'[j] = v
    <3>1. CASE v = s /\ j = i
      BY <1>5, <1>8, <3>1
    <3>2. CASE v # s /\ j = i
      BY <1>2, <1>4, <1>8, <3>2, ApprovalAssumption DEF ApprovalTypeOK, ItemFree
    <3>3. CASE j # i
      BY <1>2, <1>4, <3>3 DEF ApprovalTypeOK
    <3>4. QED
      BY <3>1, <3>2, <3>3
  <2>2. newItem' \in [Sessions -> [Items -> Row]]
    BY <1>2, <1>4, <1>5 DEF ApprovalTypeOK
  <2>3. newEvents' \in [Sessions -> Seq(Events)]
    BY <1>2, <1>7 DEF ApprovalTypeOK
  <2>4. QED
    BY <1>2, <1>4, <2>1, <2>2, <2>3 DEF ApprovalTypeOK, rowVars, boundVars, PC
<1>10. TouchesRows' /\ DecisionsNumbered'
  BY <1>2, <1>4, RowsStand DEF TouchesRows, rowVars, ApprovalTypeOK
<1>11. Stage(s)'
  <2>1. pc'[s] = "writing" /\ todo'[s] = {} /\ d \in newDecisions'[s]
    BY <1>2 DEF ApprovalTypeOK
  <2>2. NextDecision(s, i, d)'
    BY <1>2, <1>4 DEF NextDecision, DecisionId, rowVars
  <2>3. \A j \in Items : itemLock'[j] = s <=> j = i
    BY <1>2, <1>4 DEF ApprovalTypeOK
  <2>4. newItem'[s][i] = DecidedRow(item'[i], d)
    BY <1>2, <1>8 DEF rowVars, row
  <2>5. newEvents'[s] = <<Event(newItem'[s][i].state, i, d.id)>>
    BY <1>7, <1>8
  <2>6. Decided(s, i, d)'
    BY <2>2, <2>3, <2>4, <2>5 DEF Decided
  <2>7. HasDecided(s)'
    BY <1>4, <2>1, <2>6 DEF HasDecided
  <2>8. QED
    BY <2>7 DEF Stage
<1>12. ASSUME NEW v \in Sessions \ {s} PROVE Stage(v)'
  <2>1. \A j \in Items : itemLock'[j] = v <=> itemLock[j] = v
    BY <1>2, ApprovalAssumption DEF ItemFree, ApprovalTypeOK
  <2>2. QED
    BY <1>2, <2>1, OthersKeepStage DEF rowVars, ApprovalTypeOK
<1>13. QED
  BY <1>9, <1>10, <1>11, <1>12

\* Expiry and escalation are the two transactions that write item by item.
LEMMA SweepWrites ==
  ASSUME SessionInv, NEW s \in Sessions, pc[s] \in {"writing", "sealing"}, todo[s] # {}
  PROVE  Expiring(s) \/ Escalating(s)
BY DEF SessionInv, Stage, AtRest, AboutToDecide, HasRecorded, HasDecided

LEMMA WriteItemKeeps ==
  ASSUME SessionInv, NEW s \in Sessions, NEW i \in Items, WriteItem(s, i)
  PROVE  SessionInv'
<1> DEFINE row == IF intent[s].kind = "expire" THEN ExpiredRow(item[i], started[s])
                  ELSE [item[i] EXCEPT !.escalated = TRUE]
<1> USE DEF SessionInv
<1>1. /\ pc[s] = "writing" /\ i \in todo[s] /\ ItemFree(s, i)
      /\ itemLock' = [itemLock EXCEPT ![i] = s]
      /\ newItem' = [newItem EXCEPT ![s][i] = row]
      /\ pc' = [pc EXCEPT ![s] = "sealing"]
      /\ UNCHANGED <<rowVars, headLock, clock, started, intent, todo, newDecisions,
                     newEvents, boundVars>>
  BY DEF WriteItem
<1>2. row \in Row /\ row # NoItem
  BY RowFacts, EscalatedIsSome DEF ApprovalTypeOK
<1>3. newItem'[s][i] = row /\ itemLock'[i] = s
  BY <1>1 DEF ApprovalTypeOK
<1>4. item[i] # NoItem
  BY <1>1 DEF TouchesRows
<1>5. ApprovalTypeOK'
  <2> HIDE DEF row
  <2>1. ASSUME NEW v \in Sessions, NEW j \in Items
        PROVE  newItem'[v][j] # NoItem <=> itemLock'[j] = v
    <3>1. CASE v = s /\ j = i
      BY <1>2, <1>3, <3>1
    <3>2. CASE v # s /\ j = i
      BY <1>1, <1>3, <3>2, ApprovalAssumption DEF ApprovalTypeOK, ItemFree
    <3>3. CASE j # i
      BY <1>1, <3>3 DEF ApprovalTypeOK
    <3>4. QED
      BY <3>1, <3>2, <3>3
  <2>2. newItem' \in [Sessions -> [Items -> Row]]
    BY <1>1, <1>2 DEF ApprovalTypeOK
  <2>3. QED
    BY <1>1, <2>1, <2>2 DEF ApprovalTypeOK, rowVars, boundVars, PC
<1>6. TouchesRows' /\ DecisionsNumbered'
  BY <1>1, <1>4, RowsStand DEF TouchesRows, rowVars, ApprovalTypeOK
<1>7. Stage(s)'
  <2>1. /\ pc'[s] = "sealing" /\ item' = item /\ started' = started /\ intent' = intent
        /\ todo' = todo /\ newDecisions' = newDecisions /\ newEvents' = newEvents
        /\ \A j \in Items : itemLock'[j] = s <=> itemLock[j] = s \/ j = i
        /\ \A j \in Items : j # i => newItem'[s][j] = newItem[s][j]
    BY <1>1 DEF ApprovalTypeOK, rowVars
  <2>2. \A k \in DOMAIN newEvents[s] : newEvents[s][k].item \in Items
    BY EventFacts
  <2>3. ASSUME NEW kind, Sweeping(s, kind) PROVE Sweeping(s, kind)'
    BY <1>1, <2>1, <2>2, <2>3 DEF Sweeping
  <2>4. Expiring(s) \/ Escalating(s)
    BY <1>1, SweepWrites
  <2>5. CASE Expiring(s)
    <3>1. \A j \in Items : itemLock'[j] = s => newItem'[s][j] = ExpiredRow(item'[j], started'[s])
      BY <1>3, <2>1, <2>5 DEF Expiring
    <3>2. QED
      BY <2>1, <2>3, <2>5, <3>1 DEF Expiring, Stage
  <2>6. CASE Escalating(s)
    <3>1. \A j \in Items : itemLock'[j] = s => newItem'[s][j] = [item'[j] EXCEPT !.escalated = TRUE]
      BY <1>3, <2>1, <2>6 DEF Escalating
    <3>2. QED
      BY <2>1, <2>3, <2>6, <3>1 DEF Escalating, Stage
  <2>7. QED
    BY <2>4, <2>5, <2>6
<1>8. ASSUME NEW v \in Sessions \ {s} PROVE Stage(v)'
  <2>1. \A j \in Items : itemLock'[j] = v <=> itemLock[j] = v
    BY <1>1, ApprovalAssumption DEF ItemFree, ApprovalTypeOK
  <2>2. QED
    BY <1>1, <2>1, OthersKeepStage DEF rowVars, ApprovalTypeOK
<1>9. QED
  BY <1>5, <1>6, <1>7, <1>8

LEMMA SealEventKeeps ==
  ASSUME SessionInv, NEW s \in Sessions, SealEvent(s)
  PROVE  SessionInv'
<1> USE DEF SessionInv
<1>0. PICK kind : kind = IF intent[s].kind = "expire" THEN "expired" ELSE "escalated"
  OBVIOUS
<1>1. PICK i \in todo[s] :
        /\ itemLock[i] = s
        /\ todo' = [todo EXCEPT ![s] = todo[s] \ {i}]
        /\ newEvents' = [newEvents EXCEPT ![s] = Append(newEvents[s], Event(kind, i, 0))]
  BY <1>0 DEF SealEvent, ApprovalTypeOK
<1> DEFINE e == Event(kind, i, 0)
<1>2. /\ pc[s] = "sealing" /\ HeadFree(s) /\ headLock' = s
      /\ pc' = [pc EXCEPT ![s] = "writing"]
      /\ UNCHANGED <<rowVars, itemLock, clock, started, intent, newItem, newDecisions,
                     boundVars>>
  BY DEF SealEvent
<1>3. i \in Items
  BY DEF ApprovalTypeOK
<1>4. e \in Events /\ e.kind = kind /\ e.item = i
  BY <1>0, <1>3 DEF Event, Events
<1> HIDE DEF e
<1>5. /\ newEvents'[s] \in Seq(Events)
      /\ DOMAIN newEvents[s] = 1 .. Len(newEvents[s]) /\ Len(newEvents[s]) \in Nat
      /\ DOMAIN newEvents'[s] = 1 .. Len(newEvents[s]) + 1
      /\ \A k \in DOMAIN newEvents[s] : newEvents'[s][k] = newEvents[s][k]
      /\ newEvents'[s][Len(newEvents[s]) + 1] = e
  <2>1. newEvents'[s] = Append(newEvents[s], e) /\ newEvents[s] \in Seq(Events)
    BY <1>1 DEF ApprovalTypeOK, e
  <2>2. QED
    BY <1>4, <2>1, AppendFacts
<1>6. ApprovalTypeOK'
  BY <1>1, <1>2, <1>5 DEF ApprovalTypeOK, rowVars, boundVars, PC
<1>7. TouchesRows' /\ DecisionsNumbered'
  BY <1>1, <1>2, RowsStand DEF TouchesRows, rowVars, ApprovalTypeOK
<1>8. Stage(s)'
  <2>1. Sweeping(s, kind)
    BY <1>0, <1>1, <1>2, SweepWrites DEF Expiring, Escalating
  <2>2. todo'[s] = todo[s] \ {i} /\ pc'[s] = "writing" /\ newDecisions'[s] = {}
    BY <1>1, <1>2, <2>1 DEF ApprovalTypeOK, Sweeping
  <2>3. ASSUME NEW k \in DOMAIN newEvents'[s]
        PROVE  newEvents'[s][k].kind = kind /\ itemLock'[newEvents'[s][k].item] = s
    <3>1. CASE k \in DOMAIN newEvents[s]
      BY <1>2, <1>5, <2>1, <3>1 DEF Sweeping
    <3>2. CASE k \notin DOMAIN newEvents[s]
      <4>1. newEvents'[s][k] = e
        BY <1>5, <3>2
      <4>2. QED
        BY <1>1, <1>2, <1>4, <4>1
    <3>3. QED
      BY <3>1, <3>2
  <2>4. ASSUME NEW j \in Items, itemLock'[j] = s, j \notin todo'[s]
        PROVE  \E k \in DOMAIN newEvents'[s] : newEvents'[s][k].item = j
    <3>1. CASE j = i
      <4>1. Len(newEvents[s]) + 1 \in DOMAIN newEvents'[s]
        BY <1>5
      <4>2. QED
        BY <1>4, <1>5, <3>1, <4>1
    <3>2. CASE j # i
      <4>1. PICK k \in DOMAIN newEvents[s] : newEvents[s][k].item = j
        BY <1>2, <2>1, <2>2, <2>4, <3>2 DEF Sweeping
      <4>2. k \in DOMAIN newEvents'[s]
        BY <1>5
      <4>3. QED
        BY <1>5, <4>1, <4>2
    <3>3. QED
      BY <3>1, <3>2
  <2>5. Sweeping(s, kind)'
    BY <2>2, <2>3, <2>4 DEF Sweeping
  <2>6. Expiring(s) \/ Escalating(s)
    BY <1>1, <1>2, SweepWrites
  <2>7. QED
    BY <1>0, <1>2, <2>5, <2>6 DEF Expiring, Escalating, Stage, rowVars
<1>9. ASSUME NEW v \in Sessions \ {s} PROVE Stage(v)'
  BY <1>1, <1>2, ApprovalAssumption, OthersKeepStage DEF rowVars, HeadFree, ApprovalTypeOK
<1>10. QED
  BY <1>6, <1>7, <1>8, <1>9

\* Closing, whether the rows have been committed or are dropped.
LEMMA CloseClears ==
  ASSUME SessionInv, NEW s \in Sessions, Close(s)
  PROVE  /\ Stage(s)'
         /\ \A v \in Sessions \ {s} :
              /\ pc'[v] = pc[v] /\ started'[v] = started[v] /\ intent'[v] = intent[v]
              /\ todo'[v] = todo[v] /\ newItem'[v] = newItem[v]
              /\ newDecisions'[v] = newDecisions[v] /\ newEvents'[v] = newEvents[v]
              /\ \A i \in Items : itemLock'[i] = v <=> itemLock[i] = v
              /\ headLock = v => headLock' = v
         /\ \A i \in Items : itemLock'[i] # s
         /\ todo'[s] = {}
<1> USE ApprovalAssumption DEF SessionInv, ApprovalTypeOK
<1>1. AtRest(s)'
  BY DEF Close, AtRest, Untouched
<1>2. QED
  BY <1>1 DEF Close, Stage

LEMMA CloseTypes ==
  ASSUME SessionInv, NEW s \in Sessions, Close(s), aborts' \in Nat,
         item' \in [Items -> Row], decisions' \subseteq Decision, trail' \in Seq(Events)
  PROVE  ApprovalTypeOK'
<1> USE ApprovalAssumption DEF SessionInv, ApprovalTypeOK
<1>1. /\ itemLock' = [i \in Items |-> IF itemLock[i] = s THEN NoSession ELSE itemLock[i]]
      /\ headLock' = IF headLock = s THEN NoSession ELSE headLock
      /\ pc' = [pc EXCEPT ![s] = "idle"]
      /\ started' = [started EXCEPT ![s] = 0]
      /\ intent' = [intent EXCEPT ![s] = NoIntent]
      /\ todo' = [todo EXCEPT ![s] = {}]
      /\ newItem' = [newItem EXCEPT ![s] = NoneWritten]
      /\ newDecisions' = [newDecisions EXCEPT ![s] = {}]
      /\ newEvents' = [newEvents EXCEPT ![s] = <<>>]
      /\ UNCHANGED <<clock, begun>>
  BY DEF Close
<1>2. NoIntent \in [kind : {"none", "decide", "expire", "escalate"},
                    who : People \union {Nobody}, approved : BOOLEAN]
  BY DEF NoIntent
<1>3. NoneWritten \in [Items -> Row] /\ \A i \in Items : NoneWritten[i] = NoItem
  BY RowFacts DEF NoneWritten
<1>4. ASSUME NEW v \in Sessions, NEW i \in Items
      PROVE  newItem'[v][i] # NoItem <=> itemLock'[i] = v
  <2>1. CASE v = s
    BY <1>1, <1>3, <2>1
  <2>2. CASE v # s
    BY <1>1, <2>2
  <2>3. QED
    BY <2>1, <2>2
<1>5. newEvents' \in [Sessions -> Seq(Events)]
  BY <1>1
<1>6. QED
  BY <1>1, <1>2, <1>3, <1>4, <1>5 DEF PC

LEMMA RollbackKeeps ==
  ASSUME SessionInv, NEW s \in Sessions, Close(s), UNCHANGED rowVars, aborts' \in Nat
  PROVE  SessionInv'
<1>1. ApprovalTypeOK'
  BY CloseTypes DEF SessionInv, ApprovalTypeOK, rowVars
<1>2. DecisionsNumbered' /\ \A i \in Items : item[i] # NoItem => item'[i] # NoItem
  BY RowsStand
<1>3. TouchesRows'
  BY <1>2, CloseClears DEF SessionInv, TouchesRows
<1>4. ASSUME NEW v \in Sessions \ {s} PROVE Stage(v)'
  BY CloseClears, OthersKeepStage DEF rowVars
<1>5. QED
  BY <1>1, <1>2, <1>3, <1>4, CloseClears DEF SessionInv

\* Of a session that commits.
LEMMA CommitStages ==
  ASSUME SessionInv, NEW s \in Sessions, Commit(s)
  PROVE  /\ HasDecided(s) \/ Expiring(s) \/ Escalating(s)
         /\ \A i \in Items : item'[i] = IF itemLock[i] = s THEN newItem[s][i] ELSE item[i]
         /\ decisions' = decisions \union newDecisions[s]
         /\ trail' = trail \o newEvents[s]
         /\ Close(s) /\ todo[s] = {} /\ UNCHANGED aborts
BY DEF Commit, SessionInv, Stage, AtRest, AboutToDecide, HasRecorded

LEMMA CommitNumbers ==
  ASSUME SessionInv, NEW s \in Sessions, Commit(s)
  PROVE  DecisionsNumbered'
<1> USE DEF SessionInv, DecisionsNumbered
<1>1. CASE newDecisions[s] = {}
  <2>1. decisions' = decisions
    BY <1>1, CommitStages
  <2>2. QED
    BY <2>1
<1>2. CASE newDecisions[s] # {}
  <2>1. PICK d : newDecisions[s] = {d} /\ d.id = Cardinality(decisions) + 1
    BY <1>2, CommitStages
       DEF HasDecided, Decided, NextDecision, DecisionId, Expiring, Escalating, Sweeping
  <2>2. Cardinality(decisions) \in Nat
    BY FS_CardinalityType
  <2>3. d \notin decisions /\ decisions' = decisions \union {d}
    BY <2>1, <2>2, CommitStages
  <2>4. IsFiniteSet(decisions') /\ Cardinality(decisions') = Cardinality(decisions) + 1
    BY <2>3, FS_AddElement
  <2>5. \A e \in decisions' : e \in decisions \/ e = d
    BY <2>3
  <2>6. \A e \in decisions' : e.id \in 1 .. Cardinality(decisions')
    BY <2>1, <2>2, <2>4, <2>5
  <2>7. \A e, f \in decisions' : e.id = f.id => e = f
    BY <2>1, <2>2, <2>5
  <2>8. QED
    BY <2>4, <2>6, <2>7
<1>3. QED
  BY <1>1, <1>2

LEMMA CommitKeeps ==
  ASSUME SessionInv, NEW s \in Sessions, Commit(s)
  PROVE  SessionInv'
<1> USE DEF SessionInv
<1>1. /\ newItem[s] \in [Items -> Row] /\ newDecisions[s] \subseteq Decision
      /\ newEvents[s] \in Seq(Events) /\ trail \in Seq(Events)
      /\ \A i \in Items : itemLock[i] = s => newItem[s][i] # NoItem
  BY DEF ApprovalTypeOK
<1>2. ApprovalTypeOK'
  <2>1. item' \in [Items -> Row]
    BY <1>1 DEF Commit, ApprovalTypeOK
  <2>2. trail' \in Seq(Events)
    <3>1. trail \o newEvents[s] \in Seq(Events)
      BY <1>1, ConcatFacts
    <3>2. QED
      BY <3>1, CommitStages
  <2>3. decisions' \subseteq Decision /\ aborts' \in Nat
    BY <1>1, CommitStages DEF ApprovalTypeOK
  <2>4. QED
    BY <2>1, <2>2, <2>3, CommitStages, CloseTypes
<1>3. \A i \in Items : item[i] # NoItem => item'[i] # NoItem
  BY <1>1, CommitStages
<1>4. TouchesRows'
  BY <1>3, CommitStages, CloseClears DEF TouchesRows
<1>5. ASSUME NEW v \in Sessions \ {s} PROVE Stage(v)'
  <2>1. headLock = v => decisions' = decisions
    <3>1. headLock = s \/ newDecisions[s] = {}
      BY CommitStages DEF HasDecided, Decided, NextDecision, Expiring, Escalating, Sweeping
    <3>2. newDecisions[s] = {} => decisions' = decisions
      BY CommitStages
    <3>3. QED
      BY <3>1, <3>2
  <2>2. \A i \in Items : itemLock[i] = v => item'[i] = item[i]
    BY CommitStages
  <2>3. QED
    BY <1>3, <2>1, <2>2, CommitStages, CloseClears, OthersKeepStage
<1>6. QED
  BY <1>2, <1>4, <1>5, CommitNumbers, CommitStages, CloseClears

LEMMA RequestKeeps ==
  ASSUME SessionInv, NEW i \in Items, RequestApproval(i)
  PROVE  SessionInv'
<1> USE DEF SessionInv
<1>1. PICK now \in 0 .. clock :
        item' = [item EXCEPT ![i] = [NoItem EXCEPT !.state = "pending", !.deadline = now + Sla]]
  BY DEF RequestApproval
<1> DEFINE row == [NoItem EXCEPT !.state = "pending", !.deadline = now + Sla]
<1>2. /\ item[i] = NoItem
      /\ item' = [item EXCEPT ![i] = row]
      /\ trail' = Append(trail, Event("pending", i, 0))
      /\ UNCHANGED <<decisions, lockVars, clock, sessionVars, boundVars>>
  BY <1>1 DEF RequestApproval
<1>3. row \in Row /\ row # NoItem
  <2>1. now + Sla \in Nat
    BY ApprovalAssumption DEF ApprovalTypeOK
  <2>2. QED
    BY <2>1 DEF NoItem, Row
<1> HIDE DEF row
<1>4. Event("pending", i, 0) \in Events
  BY DEF Event, Events
<1>5. trail' \in Seq(Events)
  BY <1>2, <1>4, AppendFacts DEF ApprovalTypeOK
<1>6. ApprovalTypeOK'
  BY <1>2, <1>3, <1>5 DEF ApprovalTypeOK, lockVars, sessionVars, boundVars
<1>7. \A j \in Items : item[j] # NoItem => item'[j] # NoItem /\ item'[j] = item[j]
  BY <1>2, <1>3 DEF ApprovalTypeOK
<1>8. TouchesRows' /\ DecisionsNumbered'
  BY <1>2, <1>7 DEF TouchesRows, DecisionsNumbered, lockVars, sessionVars
<1>9. ASSUME NEW v \in Sessions PROVE Stage(v)'
  <2>1. \A j \in Items : itemLock[j] = v => item'[j] = item[j]
    BY <1>7 DEF TouchesRows
  <2>2. QED
    BY <1>2, <1>7, <2>1, OthersKeepStage DEF lockVars, sessionVars
<1>10. QED
  BY <1>6, <1>8, <1>9

LEMMA NextSessionInv == SessionInv /\ [Next]_vars => SessionInv'
<1> SUFFICES ASSUME SessionInv, [Next]_vars PROVE SessionInv'
  OBVIOUS
<1>1. ASSUME UNCHANGED <<rowVars, lockVars, sessionVars, boundVars>>, clock' \in Nat
      PROVE  SessionInv'
  <2>1. ApprovalTypeOK'
    BY <1>1 DEF SessionInv, ApprovalTypeOK, rowVars, lockVars, sessionVars, boundVars
  <2>2. TouchesRows' /\ DecisionsNumbered'
    BY <1>1 DEF SessionInv, TouchesRows, DecisionsNumbered, rowVars, lockVars, sessionVars
  <2>3. ASSUME NEW v \in Sessions PROVE Stage(v)'
    BY <1>1, OthersKeepStage DEF rowVars, lockVars, sessionVars
  <2>4. QED
    BY <2>1, <2>2, <2>3 DEF SessionInv
<1>2. CASE Tick \/ UNCHANGED vars
  BY <1>1, <1>2 DEF Tick, vars, SessionInv, ApprovalTypeOK
<1>3. CASE \E i \in Items : RequestApproval(i)
  BY <1>3, RequestKeeps
<1>4. ASSUME NEW s \in Sessions, Begin(s) PROVE SessionInv'
  BY <1>4, BeginKeeps
<1>5. ASSUME NEW s \in Sessions, LoadItems(s) PROVE SessionInv'
  BY <1>5, LoadToDecideKeeps, LoadOverdueKeeps, LoadToEscalateKeeps DEF LoadItems
<1>6. ASSUME NEW s \in Sessions, LoseLockCycle(s) PROVE SessionInv'
  <2>1. Close(s) /\ UNCHANGED rowVars /\ aborts' = aborts
    BY <1>6 DEF LoseLockCycle
  <2>2. aborts' \in Nat
    BY <2>1 DEF SessionInv, ApprovalTypeOK
  <2>3. QED
    BY <2>1, <2>2, RollbackKeeps
<1>7. ASSUME NEW s \in Sessions, Abort(s) PROVE SessionInv'
  <2>1. Close(s) /\ UNCHANGED rowVars /\ aborts' \in Nat
    BY <1>7 DEF Abort, SessionInv, ApprovalTypeOK
  <2>2. QED
    BY <2>1, RollbackKeeps
<1>8. ASSUME NEW s \in Sessions, Proceed(s) PROVE SessionInv'
  BY <1>6, <1>8, RecordDecisionKeeps, WriteVerdictKeeps, WriteItemKeeps, SealEventKeeps,
     CommitKeeps DEF Proceed
<1>9. QED
  BY <1>2, <1>3, <1>4, <1>5, <1>7, <1>8 DEF Next

LEMMA SessionInvHolds == Spec => []SessionInv
BY InitSessionInv, NextSessionInv, PTL DEF Spec

\* Rows and sessions hold values of the right kind, and only the session that holds an
\* item's row lock has a version of the item of its own.
THEOREM ApprovalTypeCorrect == Spec => []ApprovalTypeOK
<1>1. SessionInv => ApprovalTypeOK
  BY DEF SessionInv
<1>2. QED
  BY <1>1, SessionInvHolds, PTL

\* The verdict rows are numbered one after the other, also when decisions race for the
\* next number: the chain's head lock, taken for the audit record, serialises them.
THEOREM DecisionsAreNumbered == Spec => []DecisionsNumbered
<1>1. SessionInv => DecisionsNumbered
  BY DEF SessionInv
<1>2. QED
  BY <1>1, SessionInvHolds, PTL

-----------------------------------------------------------------------------
(* Every verdict is backed. *)

Backed(i) ==
  item[i].state \in {"approved", "rejected"} =>
    \E d \in decisions :
      /\ d.id = item[i].decision /\ d.item = i
      /\ d.by = item[i].by /\ d.at = item[i].at
      /\ d.verdict = IF item[i].state = "approved" THEN "pass" ELSE "fail"
      /\ IsEligible(i, d.by)

LEMMA DecidedRowFields ==
  ASSUME NEW row \in Row, NEW d \in Decision
  PROVE  /\ DecidedRow(row, d).by = d.by /\ DecidedRow(row, d).at = d.at
         /\ DecidedRow(row, d).decision = d.id
         /\ DecidedRow(row, d).state = IF d.verdict = "pass" THEN "approved" ELSE "rejected"
         /\ d.verdict \in {"pass", "fail"}
BY DEF DecidedRow, Row, Decision

LEMMA ExpiredRowState ==
  ASSUME NEW row \in Row, NEW now PROVE ExpiredRow(row, now).state = "expired"
BY DEF ExpiredRow, Row

LEMMA CommitBacks ==
  ASSUME SessionInv, VerdictIsBacked, NEW s \in Sessions, Commit(s), NEW i \in Items
  PROVE  Backed(i)'
<1> USE DEF SessionInv, ApprovalTypeOK
<1>1. /\ item'[i] = IF itemLock[i] = s THEN newItem[s][i] ELSE item[i]
      /\ decisions' = decisions \union newDecisions[s]
      /\ HasDecided(s) \/ Expiring(s) \/ Escalating(s)
  BY CommitStages
<1>2. Backed(i)
  BY DEF VerdictIsBacked, Backed
<1>3. ASSUME item'[i].state = item[i].state, item'[i].by = item[i].by,
             item'[i].at = item[i].at, item'[i].decision = item[i].decision
      PROVE  Backed(i)'
  BY <1>1, <1>2, <1>3 DEF Backed
<1>4. CASE itemLock[i] # s
  BY <1>1, <1>3, <1>4
<1>5. CASE itemLock[i] = s /\ HasDecided(s)
  <2>1. PICK j \in Items, d \in newDecisions[s] : Decided(s, j, d)
    BY <1>5 DEF HasDecided
  <2>2. j = i /\ d \in Decision /\ item'[i] = DecidedRow(item[i], d) /\ item[i] \in Row
    BY <1>1, <1>5, <2>1 DEF Decided
  <2>3. d \in decisions' /\ d.item = i /\ IsEligible(i, d.by)
    BY <1>1, <2>1, <2>2 DEF Decided, NextDecision
  <2>4. /\ d.id = item'[i].decision /\ d.by = item'[i].by /\ d.at = item'[i].at
        /\ d.verdict = IF item'[i].state = "approved" THEN "pass" ELSE "fail"
    BY <2>2, DecidedRowFields
  <2>5. QED
    BY <2>3, <2>4 DEF Backed
<1>6. CASE itemLock[i] = s /\ Expiring(s)
  <2>1. item'[i] = ExpiredRow(item[i], started[s]) /\ item[i] \in Row
    BY <1>1, <1>6 DEF Expiring
  <2>2. item'[i].state = "expired"
    BY <2>1, ExpiredRowState
  <2>3. QED
    BY <2>2 DEF Backed
<1>7. CASE itemLock[i] = s /\ Escalating(s)
  <2>1. item'[i] = [item[i] EXCEPT !.escalated = TRUE] /\ item[i] \in Row
    BY <1>1, <1>7 DEF Escalating
  <2>2. QED
    BY <1>3, <2>1 DEF Row
<1>8. QED
  BY <1>1, <1>4, <1>5, <1>6, <1>7

\* Only a commit and a request change a row.
LEMMA RowsChange ==
  ASSUME [Next]_vars
  PROVE  \/ UNCHANGED rowVars
         \/ \E i \in Items : RequestApproval(i)
         \/ \E s \in Sessions : Commit(s)
BY DEF Next, Tick, Begin, LoadItems, LoadToDecide, LoadOverdue, LoadToEscalate, Proceed,
       RecordDecision, WriteVerdict, WriteItem, SealEvent, LoseLockCycle, Abort, vars

LEMMA RequestedRow ==
  ASSUME SessionInv, NEW i \in Items, RequestApproval(i)
  PROVE  /\ item'[i].state = "pending"
         /\ \A j \in Items : j # i => item'[j] = item[j]
         /\ trail' = Append(trail, Event("pending", i, 0))
         /\ UNCHANGED decisions
BY DEF SessionInv, ApprovalTypeOK, RequestApproval, NoItem

LEMMA NextVerdictIsBacked ==
  SessionInv /\ VerdictIsBacked /\ [Next]_vars => VerdictIsBacked'
<1> SUFFICES ASSUME SessionInv, VerdictIsBacked, [Next]_vars, NEW i \in Items PROVE Backed(i)'
  BY DEF VerdictIsBacked, Backed
<1>1. CASE UNCHANGED rowVars
  BY <1>1 DEF VerdictIsBacked, Backed, rowVars
<1>2. ASSUME NEW j \in Items, RequestApproval(j) PROVE Backed(i)'
  BY <1>2, RequestedRow DEF VerdictIsBacked, Backed
<1>3. ASSUME NEW s \in Sessions, Commit(s) PROVE Backed(i)'
  BY <1>3, CommitBacks
<1>4. QED
  BY <1>1, <1>2, <1>3, RowsChange

\* A gate is approved or rejected by somebody: behind every verdict on a row stands a
\* committed decision of that verdict, time and person, who may decide the item.
THEOREM VerdictsAreBacked == Spec => []VerdictIsBacked
<1>1. Init => VerdictIsBacked
  BY DEF Init, NoneWritten, NoItem, VerdictIsBacked
<1>2. QED
  BY <1>1, SessionInvHolds, NextVerdictIsBacked, PTL DEF Spec

-----------------------------------------------------------------------------
(* The trail tells the state. *)

StateEventsIn(q, i) == {k \in DOMAIN q : q[k].item = i /\ q[k].kind # "escalated"}

\* The last event of a sequence about an item's state agrees with the row.
Tells(q, i, row) ==
  \A k \in StateEventsIn(q, i) :
    (\A n \in StateEventsIn(q, i) : n <= k) =>
      /\ q[k].kind = row.state
      /\ row.state \in {"approved", "rejected"} => q[k].decision = row.decision

LEMMA TellsStill ==
  ASSUME NEW p \in Seq(Events), NEW q \in Seq(Events), NEW i, NEW row,
         Tells(p, i, row), StateEventsIn(q, i) = {}
  PROVE  Tells(p \o q, i, row)
<1>1. /\ DOMAIN p = 1 .. Len(p) /\ Len(p) \in Nat
      /\ DOMAIN q = 1 .. Len(q) /\ Len(q) \in Nat
      /\ DOMAIN (p \o q) = 1 .. Len(p) + Len(q)
      /\ \A k \in DOMAIN p : (p \o q)[k] = p[k]
      /\ \A k \in DOMAIN q : (p \o q)[Len(p) + k] = q[k]
  BY ConcatFacts
<1> DEFINE pq == p \o q
<1> HIDE DEF pq
<1>2. ASSUME NEW k \in DOMAIN pq, k \notin DOMAIN p PROVE k \notin StateEventsIn(pq, i)
  <2>1. k - Len(p) \in DOMAIN q /\ pq[k] = q[k - Len(p)]
    BY <1>1, <1>2 DEF pq
  <2>2. QED
    BY <2>1 DEF StateEventsIn
<1>3. StateEventsIn(pq, i) = StateEventsIn(p, i)
  BY <1>1, <1>2 DEF StateEventsIn, pq
<1>4. \A k \in StateEventsIn(p, i) : pq[k] = p[k]
  BY <1>1 DEF StateEventsIn, pq
<1>5. Tells(pq, i, row)
  BY <1>3, <1>4 DEF Tells
<1>6. QED
  BY <1>5 DEF pq

LEMMA TellsAnew ==
  ASSUME NEW p \in Seq(Events), NEW q \in Seq(Events), NEW i, NEW row,
         Tells(q, i, row), StateEventsIn(q, i) # {}
  PROVE  Tells(p \o q, i, row)
<1>1. /\ DOMAIN p = 1 .. Len(p) /\ Len(p) \in Nat
      /\ DOMAIN q = 1 .. Len(q) /\ Len(q) \in Nat
      /\ DOMAIN (p \o q) = 1 .. Len(p) + Len(q)
      /\ \A k \in DOMAIN q : (p \o q)[Len(p) + k] = q[k]
  BY ConcatFacts
<1> DEFINE pq == p \o q
<1> HIDE DEF pq
<1>2. \A n \in StateEventsIn(q, i) : n \in Nat \ {0} /\ Len(p) + n \in StateEventsIn(pq, i)
  BY <1>1 DEF StateEventsIn, pq
<1>3. ASSUME NEW k \in StateEventsIn(pq, i), \A n \in StateEventsIn(pq, i) : n <= k
      PROVE  /\ pq[k].kind = row.state
             /\ row.state \in {"approved", "rejected"} => pq[k].decision = row.decision
  <2>1. PICK m \in StateEventsIn(q, i) : TRUE
    OBVIOUS
  <2>2. k \in DOMAIN pq /\ pq[k].item = i /\ pq[k].kind # "escalated"
    BY DEF StateEventsIn
  <2>3. k - Len(p) \in DOMAIN q /\ pq[k] = q[k - Len(p)]
    BY <1>1, <1>2, <1>3, <2>1, <2>2 DEF pq
  <2>4. k - Len(p) \in StateEventsIn(q, i)
    BY <2>2, <2>3 DEF StateEventsIn
  <2>5. ASSUME NEW n \in StateEventsIn(q, i) PROVE n <= k - Len(p)
    <3>1. Len(p) + n <= k /\ n \in Nat
      BY <1>2, <1>3
    <3>2. QED
      BY <1>1, <2>2, <3>1 DEF pq
  <2>6. QED
    BY <2>3, <2>4, <2>5 DEF Tells
<1>4. Tells(pq, i, row)
  BY <1>3 DEF Tells
<1>5. QED
  BY <1>4 DEF pq

LEMMA CommitTells ==
  ASSUME SessionInv, NEW s \in Sessions, Commit(s), NEW i \in Items, Tells(trail, i, item[i])
  PROVE  Tells(trail', i, item'[i])
<1> DEFINE q == newEvents[s]
<1> USE DEF SessionInv
<1>1. /\ item'[i] = IF itemLock[i] = s THEN newItem[s][i] ELSE item[i]
      /\ trail' = trail \o q
      /\ HasDecided(s) \/ Expiring(s) \/ Escalating(s)
      /\ todo[s] = {}
  BY CommitStages
<1>2. trail \in Seq(Events) /\ q \in Seq(Events) /\ item[i] \in Row
  BY DEF ApprovalTypeOK
<1> HIDE DEF q
<1>3. CASE HasDecided(s)
  <2>1. PICK j \in Items, d \in newDecisions[s] : Decided(s, j, d)
    BY <1>3 DEF HasDecided
  <2>2. d \in Decision /\ q = <<Event(newItem[s][j].state, j, d.id)>>
    BY <2>1 DEF Decided, ApprovalTypeOK, q
  <2>3. /\ DOMAIN q = {1} /\ q[1].kind = newItem[s][j].state /\ q[1].item = j
        /\ q[1].decision = d.id
    BY <2>2 DEF Event
  <2>4. CASE i = j
    <3>1. item'[i] = DecidedRow(item[i], d) /\ q[1].kind = item'[i].state
      BY <1>1, <2>1, <2>3, <2>4 DEF Decided
    <3>2. item'[i].decision = d.id /\ item'[i].state \in {"approved", "rejected"}
      BY <1>2, <2>2, <3>1, DecidedRowFields
    <3>3. 1 \in StateEventsIn(q, i) /\ \A k \in StateEventsIn(q, i) : k = 1
      BY <2>3, <2>4, <3>1, <3>2 DEF StateEventsIn
    <3>4. Tells(q, i, item'[i])
      BY <2>3, <3>1, <3>2, <3>3 DEF Tells
    <3>5. QED
      BY <1>1, <1>2, <3>3, <3>4, TellsAnew
  <2>5. CASE i # j
    <3>1. StateEventsIn(q, i) = {}
      BY <2>3, <2>5 DEF StateEventsIn
    <3>2. item'[i] = item[i]
      BY <1>1, <2>1, <2>5 DEF Decided
    <3>3. QED
      BY <1>1, <1>2, <3>1, <3>2, TellsStill
  <2>6. QED
    BY <2>4, <2>5
<1>4. CASE Expiring(s)
  <2>1. \A k \in DOMAIN q : q[k].kind = "expired" /\ itemLock[q[k].item] = s
    BY <1>4 DEF Expiring, Sweeping, q
  <2>2. CASE itemLock[i] = s
    <3>1. item'[i] = ExpiredRow(item[i], started[s])
      BY <1>1, <1>4, <2>2 DEF Expiring
    <3>2. item'[i].state = "expired"
      BY <1>2, <3>1, ExpiredRowState
    <3>3. PICK k \in DOMAIN q : q[k].item = i
      BY <1>1, <1>4, <2>2 DEF Expiring, Sweeping, q
    <3>4. StateEventsIn(q, i) # {}
      BY <2>1, <3>3 DEF StateEventsIn
    <3>5. Tells(q, i, item'[i])
      BY <2>1, <3>2 DEF Tells, StateEventsIn
    <3>6. QED
      BY <1>1, <1>2, <3>4, <3>5, TellsAnew
  <2>3. CASE itemLock[i] # s
    <3>1. StateEventsIn(q, i) = {}
      BY <2>1, <2>3 DEF StateEventsIn
    <3>2. QED
      BY <1>1, <1>2, <2>3, <3>1, TellsStill
  <2>4. QED
    BY <2>2, <2>3
<1>5. CASE Escalating(s)
  <2>1. StateEventsIn(q, i) = {}
    BY <1>5 DEF Escalating, Sweeping, StateEventsIn, q
  <2>2. item'[i].state = item[i].state /\ item'[i].decision = item[i].decision
    <3>1. item'[i] \in {item[i], [item[i] EXCEPT !.escalated = TRUE]}
      BY <1>1, <1>5 DEF Escalating
    <3>2. QED
      BY <1>2, <3>1 DEF Row
  <2>3. Tells(trail, i, item'[i])
    BY <2>2 DEF Tells
  <2>4. QED
    BY <1>1, <1>2, <2>1, <2>3, TellsStill
<1>6. QED
  BY <1>1, <1>3, <1>4, <1>5

LEMMA RequestTells ==
  ASSUME SessionInv, NEW j \in Items, RequestApproval(j), NEW i \in Items,
         Tells(trail, i, item[i])
  PROVE  Tells(trail', i, item'[i])
<1> DEFINE e == Event("pending", j, 0)
           q == <<e>>
<1>1. e \in Events /\ e.kind = "pending" /\ e.item = j
  BY DEF Event, Events
<1>2. trail \in Seq(Events)
  BY DEF SessionInv, ApprovalTypeOK
<1> HIDE DEF e
<1>3. q \in Seq(Events) /\ DOMAIN q = {1} /\ q[1] = e /\ Append(trail, e) = trail \o q
  BY <1>1, <1>2
<1>4. /\ item'[j].state = "pending" /\ (j # i => item'[i] = item[i])
      /\ trail' = trail \o q
  BY <1>3, RequestedRow DEF e
<1> HIDE DEF q
<1>5. CASE i = j
  <2>1. StateEventsIn(q, i) = {1}
    BY <1>1, <1>3, <1>5 DEF StateEventsIn
  <2>2. Tells(q, i, item'[i])
    BY <1>1, <1>3, <1>4, <1>5, <2>1 DEF Tells
  <2>3. QED
    BY <1>2, <1>3, <1>4, <2>1, <2>2, TellsAnew
<1>6. CASE i # j
  <2>1. StateEventsIn(q, i) = {}
    BY <1>1, <1>3, <1>6 DEF StateEventsIn
  <2>2. QED
    BY <1>2, <1>3, <1>4, <1>6, <2>1, TellsStill
<1>7. QED
  BY <1>5, <1>6

LEMMA TrailTells == TrailTellsState <=> \A i \in Items : Tells(trail, i, item[i])
BY DEF TrailTellsState, Tells, StateEvents, StateEventsIn

LEMMA NextTrailTells ==
  SessionInv /\ TrailTellsState /\ [Next]_vars => TrailTellsState'
<1> SUFFICES ASSUME SessionInv, TrailTellsState, [Next]_vars, NEW i \in Items
             PROVE  Tells(trail', i, item'[i])
  BY DEF TrailTellsState, Tells, StateEvents, StateEventsIn
<1>1. Tells(trail, i, item[i])
  BY TrailTells
<1>2. CASE UNCHANGED rowVars
  BY <1>1, <1>2 DEF rowVars
<1>3. ASSUME NEW j \in Items, RequestApproval(j) PROVE Tells(trail', i, item'[i])
  BY <1>1, <1>3, RequestTells
<1>4. ASSUME NEW s \in Sessions, Commit(s) PROVE Tells(trail', i, item'[i])
  BY <1>1, <1>4, CommitTells
<1>5. QED
  BY <1>2, <1>3, <1>4, RowsChange

\* The audit trail and the row never disagree about how a gate stands, whatever order
\* a decision, an escalation and an expiry pass reach the row and the chain in.
THEOREM TrailAlwaysTells == Spec => []TrailTellsState
<1>1. Init => TrailTellsState
  BY DEF Init, TrailTellsState, StateEvents
<1>2. QED
  BY <1>1, SessionInvHolds, NextTrailTells, PTL DEF Spec
=============================================================================
