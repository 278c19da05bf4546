------------------------------ MODULE Approval ------------------------------
(***************************************************************************)
(* The human gates of one tenant: src/adw/services/approval_service.py     *)
(* over approval_item and gate_decision, with the record_decision of       *)
(* gate_engine.py and the audit records of each operation.                 *)
(*                                                                         *)
(* A session is one transaction: of a person who decides, of someone who   *)
(* escalates, or of the scheduler's expiry pass.  Each reads its items     *)
(* without a lock, checks them in memory, and writes them with an UPDATE   *)
(* that waits for the row lock only.  An audit append takes the lock of    *)
(* the tenant's chain head, which is held to the end of the transaction.   *)
(* A decision takes the head first and the item second, expiry and         *)
(* escalation the item first: they can wait for each other, and the        *)
(* database then aborts one of them.                                       *)
(*                                                                         *)
(* Definitions named after another with a suffix are that one with a       *)
(* plausible bug in it (see README.md).                                    *)
(***************************************************************************)
EXTENDS Integers, Sequences, FiniteSets

CONSTANTS Items,         \* approval items that may be requested
          People,        \* identities
          Producer,      \* producer_identity of each item
          Requester,     \* requester_identity of each item
          Persons,       \* sessions of people, who decide and escalate
          Passes,        \* sessions of expiry passes
          NoSession,     \* nobody holds a lock
          Nobody,        \* decided_by_identity IS NULL
          Sla,           \* sla_hours, in ticks of the clock
          MaxClock,      \* bound: the clock's last tick
          MaxSessions,   \* bound: transactions of people
          MaxAborts      \* bound: transactions aborted from outside

Sessions == Persons \union Passes

ASSUME ApprovalAssumption ==
  /\ Producer \in [Items -> People]
  /\ Requester \in [Items -> People]
  /\ NoSession \notin Sessions
  /\ Persons \intersect Passes = {}
  /\ Nobody \notin People
  /\ Sla \in Nat
  /\ MaxClock \in Nat
  /\ MaxSessions \in Nat
  /\ MaxAborts \in Nat

VARIABLES
  (* committed rows *)
  item,       \* approval_item
  decisions,  \* gate_decision
  trail,      \* the tenant's audit records about approvals, in the order of the chain
  (* locks *)
  itemLock,   \* the session that has updated the item's row
  headLock,   \* the session that has appended to the tenant's chain
  clock,
  (* one session each *)
  pc,
  started,    \* transaction_timestamp()
  intent,     \* what the session was opened for
  todo,       \* items it has still to write
  newItem,    \* its uncommitted versions of the rows it has locked
  newDecisions,
  newEvents,  \* its audit records
  (* bounds *)
  begun, aborts

rowVars     == <<item, decisions, trail>>
lockVars    == <<itemLock, headLock>>
sessionVars == <<pc, started, intent, todo, newItem, newDecisions, newEvents>>
boundVars   == <<begun, aborts>>
vars == <<rowVars, lockVars, clock, sessionVars, boundVars>>

PC == {"idle", "open", "deciding", "recorded", "writing", "sealing"}

\* The row before request_approval inserts it.
NoItem == [state |-> "absent", by |-> Nobody, at |-> 0, decision |-> 0, deadline |-> 0,
           escalated |-> FALSE]
NoIntent == [kind |-> "none", who |-> Nobody, approved |-> FALSE]
NoneWritten == [i \in Items |-> NoItem]

Init ==
  /\ item         = NoneWritten
  /\ decisions    = {}
  /\ trail        = <<>>
  /\ itemLock     = [i \in Items |-> NoSession]
  /\ headLock     = NoSession
  /\ clock        = 0
  /\ pc           = [s \in Sessions |-> "idle"]
  /\ started      = [s \in Sessions |-> 0]
  /\ intent       = [s \in Sessions |-> NoIntent]
  /\ todo         = [s \in Sessions |-> {}]
  /\ newItem      = [s \in Sessions |-> NoneWritten]
  /\ newDecisions = [s \in Sessions |-> {}]
  /\ newEvents    = [s \in Sessions |-> <<>>]
  /\ begun        = 0
  /\ aborts       = 0

-----------------------------------------------------------------------------
(* Time, and transactions that begin. *)

Tick ==
  /\ clock < MaxClock
  /\ clock' = clock + 1
  /\ UNCHANGED <<rowVars, lockVars, sessionVars, boundVars>>

Begin(s) ==
  /\ pc[s] = "idle"
  /\ s \in Persons => begun < MaxSessions
  /\ begun' = IF s \in Persons THEN begun + 1 ELSE begun
  /\ started' = [started EXCEPT ![s] = clock]
  /\ pc' = [pc EXCEPT ![s] = "open"]
  /\ UNCHANGED <<rowVars, lockVars, clock, intent, todo, newItem, newDecisions,
                 newEvents, aborts>>

Event(kind, i, decision) == [kind |-> kind, item |-> i, decision |-> decision]

HeadFree(s) == headLock \in {NoSession, s}
ItemFreeAlways(s, i) == TRUE
ItemFree(s, i) == itemLock[i] \in {NoSession, s}

\* request_approval, by a session that does nothing else: before its commit nobody
\* sees the item, so only the start of its transaction matters.
RequestApproval(i) ==
  /\ item[i] = NoItem
  /\ headLock = NoSession
  /\ \E now \in 0 .. clock :
       item' = [item EXCEPT ![i] = [NoItem EXCEPT !.state = "pending", !.deadline = now + Sla]]
  /\ trail' = Append(trail, Event("pending", i, 0))
  /\ UNCHANGED <<decisions, lockVars, clock, sessionVars, boundVars>>

-----------------------------------------------------------------------------
(* decide *)

IsEligible(i, p) == p \notin {Producer[i], Requester[i]}

\* The item is loaded, and judged pending from what was loaded.
LoadToDecide(s, i, p, approved) ==
  /\ pc[s] = "open"
  /\ s \in Persons
  /\ item[i].state = "pending"
  /\ IsEligible(i, p)
  /\ todo' = [todo EXCEPT ![s] = {i}]
  /\ intent' = [intent EXCEPT ![s] = [kind |-> "decide", who |-> p, approved |-> approved]]
  /\ pc' = [pc EXCEPT ![s] = "deciding"]
  /\ UNCHANGED <<rowVars, lockVars, clock, started, newItem, newDecisions, newEvents, boundVars>>

\* A primary key: the head lock admits one uncommitted decision.
DecisionId == Cardinality(decisions) + 1

\* record_decision: the verdict row, and its audit record under the head lock.
RecordDecision(s) ==
  /\ pc[s] = "deciding"
  /\ HeadFree(s)
  /\ headLock' = s
  /\ \E i \in todo[s] :
       newDecisions' = [newDecisions EXCEPT ![s] =
         {[id |-> DecisionId, item |-> i, by |-> intent[s].who, at |-> started[s],
           verdict |-> IF intent[s].approved THEN "pass" ELSE "fail"]}]
  /\ pc' = [pc EXCEPT ![s] = "recorded"]
  /\ UNCHANGED <<rowVars, itemLock, clock, started, intent, todo, newItem, newEvents, boundVars>>

DecidedRowKeepingName(row, d) ==
  [row EXCEPT !.state = IF d.verdict = "pass" THEN "approved" ELSE "rejected",
              !.by = IF row.by = Nobody THEN d.by ELSE row.by, !.at = d.at, !.decision = d.id]
DecidedRow(row, d) ==
  [row EXCEPT !.state = IF d.verdict = "pass" THEN "approved" ELSE "rejected",
              !.by = d.by, !.at = d.at, !.decision = d.id]

\* The verdict is written to the item, and audited under the head lock it has.
WriteVerdict(s) ==
  /\ pc[s] = "recorded"
  /\ \E i \in todo[s], d \in newDecisions[s] :
       LET row == DecidedRow(item[i], d) IN
       /\ ItemFree(s, i)
       /\ itemLock' = [itemLock EXCEPT ![i] = s]
       /\ newItem' = [newItem EXCEPT ![s][i] = row]
       /\ newEvents' = [newEvents EXCEPT ![s] = Append(@, Event(row.state, i, d.id))]
  /\ todo' = [todo EXCEPT ![s] = {}]
  /\ pc' = [pc EXCEPT ![s] = "writing"]
  /\ UNCHANGED <<rowVars, headLock, clock, started, intent, newDecisions, boundVars>>

-----------------------------------------------------------------------------
(* run_expiry_pass and escalate: item by item, the row first. *)

IsOverdueAfterGrace(row, now) == row.state = "pending" /\ row.deadline + Sla < now
IsOverdue(row, now) == row.state = "pending" /\ row.deadline < now

\* overdue: the pending items whose deadline is before the pass began.
LoadOverdue(s) ==
  /\ pc[s] = "open"
  /\ s \in Passes
  /\ todo' = [todo EXCEPT ![s] = {i \in Items : IsOverdue(item[i], started[s])}]
  /\ intent' = [intent EXCEPT ![s] = [NoIntent EXCEPT !.kind = "expire"]]
  /\ pc' = [pc EXCEPT ![s] = "writing"]
  /\ UNCHANGED <<rowVars, lockVars, clock, started, newItem, newDecisions, newEvents, boundVars>>

\* escalate asks nothing of the item's state.
LoadToEscalate(s, i) ==
  /\ pc[s] = "open"
  /\ s \in Persons
  /\ item[i] # NoItem
  /\ todo' = [todo EXCEPT ![s] = {i}]
  /\ intent' = [intent EXCEPT ![s] = [NoIntent EXCEPT !.kind = "escalate"]]
  /\ pc' = [pc EXCEPT ![s] = "writing"]
  /\ UNCHANGED <<rowVars, lockVars, clock, started, newItem, newDecisions, newEvents, boundVars>>

\* expire sets these two columns of whatever the row has become.
ExpiredRowIfPending(row, now) ==
  IF row.state = "pending" THEN [row EXCEPT !.state = "expired", !.at = now] ELSE row
ExpiredRow(row, now) == [row EXCEPT !.state = "expired", !.at = now]

\* Items are taken in order of their deadlines.
WriteItem(s, i) ==
  /\ pc[s] = "writing"
  /\ i \in todo[s]
  /\ \A j \in todo[s] : item[i].deadline <= item[j].deadline
  /\ ItemFree(s, i)
  /\ itemLock' = [itemLock EXCEPT ![i] = s]
  /\ newItem' = [newItem EXCEPT ![s][i] =
       IF intent[s].kind = "expire" THEN ExpiredRow(item[i], started[s])
       ELSE [item[i] EXCEPT !.escalated = TRUE]]
  /\ pc' = [pc EXCEPT ![s] = "sealing"]
  /\ UNCHANGED <<rowVars, headLock, clock, started, intent, todo, newDecisions, newEvents,
                 boundVars>>

\* The audit record of the item just written.
SealEvent(s) ==
  /\ pc[s] = "sealing"
  /\ HeadFree(s)
  /\ headLock' = s
  /\ \E i \in todo[s] :
       /\ itemLock[i] = s
       /\ todo' = [todo EXCEPT ![s] = @ \ {i}]
       /\ newEvents' = [newEvents EXCEPT ![s] =
            Append(@, Event(IF intent[s].kind = "expire" THEN "expired" ELSE "escalated", i, 0))]
  /\ pc' = [pc EXCEPT ![s] = "writing"]
  /\ UNCHANGED <<rowVars, itemLock, clock, started, intent, newItem, newDecisions, boundVars>>

-----------------------------------------------------------------------------
(* The end of the transaction. *)

Close(s) ==
  /\ itemLock'     = [i \in Items |-> IF itemLock[i] = s THEN NoSession ELSE itemLock[i]]
  /\ headLock'     = IF headLock = s THEN NoSession ELSE headLock
  /\ pc'           = [pc EXCEPT ![s] = "idle"]
  /\ started'      = [started EXCEPT ![s] = 0]
  /\ intent'       = [intent EXCEPT ![s] = NoIntent]
  /\ todo'         = [todo EXCEPT ![s] = {}]
  /\ newItem'      = [newItem EXCEPT ![s] = NoneWritten]
  /\ newDecisions' = [newDecisions EXCEPT ![s] = {}]
  /\ newEvents'    = [newEvents EXCEPT ![s] = <<>>]
  /\ UNCHANGED <<clock, begun>>

Commit(s) ==
  /\ pc[s] = "writing"
  /\ todo[s] = {}
  /\ item'      = [i \in Items |-> IF itemLock[i] = s THEN newItem[s][i] ELSE item[i]]
  /\ decisions' = decisions \union newDecisions[s]
  /\ trail'     = trail \o newEvents[s]
  /\ Close(s)
  /\ UNCHANGED aborts

WaitsForHead(s, v) == pc[s] \in {"deciding", "sealing"} /\ headLock = v /\ v # s
WaitsForItem(s, v) ==
  pc[s] \in {"recorded", "writing"} /\ \E i \in todo[s] : itemLock[i] = v /\ v # s

\* The database aborts one transaction of a lock cycle: all its items are undone.
LoseLockCycle(s) ==
  /\ \E v \in Sessions : \/ WaitsForHead(s, v) /\ WaitsForItem(v, s)
                         \/ WaitsForItem(s, v) /\ WaitsForHead(v, s)
  /\ Close(s)
  /\ UNCHANGED <<rowVars, aborts>>

\* An exception or a dead process.
Abort(s) ==
  /\ pc[s] # "idle"
  /\ aborts < MaxAborts
  /\ aborts' = aborts + 1
  /\ Close(s)
  /\ UNCHANGED rowVars

-----------------------------------------------------------------------------

LoadItems(s) ==
  \/ \E i \in Items, p \in People, approved \in BOOLEAN : LoadToDecide(s, i, p, approved)
  \/ LoadOverdue(s)
  \/ \E i \in Items : LoadToEscalate(s, i)

Proceed(s) ==
  \/ RecordDecision(s) \/ WriteVerdict(s)
  \/ \E i \in Items : WriteItem(s, i)
  \/ SealEvent(s) \/ Commit(s) \/ LoseLockCycle(s)

Next ==
  \/ Tick
  \/ \E i \in Items : RequestApproval(i)
  \/ \E s \in Sessions : Begin(s) \/ LoadItems(s) \/ Proceed(s) \/ Abort(s)

Spec == Init /\ [][Next]_vars

\* The clock advances, the scheduler runs its pass again and again, and a session
\* with items in hand goes on when it can.  Nobody has to request, decide or
\* escalate anything.
Fairness ==
  /\ WF_vars(Tick)
  /\ \A x \in Passes : WF_vars(Begin(x) \/ LoadItems(x))
  /\ \A s \in Sessions : WF_vars(Proceed(s))

FairSpec == Spec /\ Fairness
-----------------------------------------------------------------------------
(* What must hold. *)

Row == [state : {"absent", "pending", "approved", "rejected", "expired"},
        by : People \union {Nobody}, at : Nat, decision : Nat, deadline : Nat,
        escalated : BOOLEAN]
Decision == [id : Nat, item : Items, by : People, at : Nat, verdict : {"pass", "fail"}]
Events == [kind : {"pending", "approved", "rejected", "expired", "escalated"},
           item : Items, decision : Nat]

\* Rows and sessions hold values of the right kind, and only the session that holds
\* an item's row lock has an uncommitted version of it.
ApprovalTypeOK ==
  /\ item \in [Items -> Row]
  /\ decisions \subseteq Decision
  /\ trail \in Seq(Events)
  /\ itemLock \in [Items -> Sessions \union {NoSession}]
  /\ headLock \in Sessions \union {NoSession}
  /\ clock \in Nat
  /\ pc \in [Sessions -> PC]
  /\ started \in [Sessions -> Nat]
  /\ intent \in [Sessions -> [kind : {"none", "decide", "expire", "escalate"},
                              who : People \union {Nobody}, approved : BOOLEAN]]
  /\ todo \in [Sessions -> SUBSET Items]
  /\ newItem \in [Sessions -> [Items -> Row]]
  /\ newDecisions \in [Sessions -> SUBSET Decision]
  /\ newEvents \in [Sessions -> Seq(Events)]
  /\ begun \in Nat /\ aborts \in Nat
  /\ \A s \in Sessions, i \in Items : newItem[s][i] # NoItem <=> itemLock[i] = s

\* A human gate is approved or rejected by somebody: the row names one committed
\* decision, of that verdict, at that time, by that person, who neither produced nor
\* requested the work, also when two decisions and an expiry race for the row.
VerdictIsBacked ==
  \A i \in Items : item[i].state \in {"approved", "rejected"} =>
    \E d \in decisions :
      /\ d.id = item[i].decision /\ d.item = i
      /\ d.by = item[i].by /\ d.at = item[i].at
      /\ d.verdict = IF item[i].state = "approved" THEN "pass" ELSE "fail"
      /\ IsEligible(i, d.by)

StateEvents(i) == {k \in DOMAIN trail : trail[k].item = i /\ trail[k].kind # "escalated"}

\* The audit trail and the row never disagree about how a gate stands: the last
\* record about the item's state names the state, and the decision, it is in.
TrailTellsState ==
  \A i \in Items : \A k \in StateEvents(i) :
    (\A n \in StateEvents(i) : n <= k) =>
      /\ trail[k].kind = item[i].state
      /\ item[i].state \in {"approved", "rejected"} => trail[k].decision = item[i].decision

\* An item past its deadline does not hang: it is decided or expired in the end,
\* however often the pass loses its items to a lock cycle or dies.
LateItemIsResolved ==
  \A i \in Items :
    item[i].state = "pending" /\ item[i].deadline < clock ~> item[i].state # "pending"
=============================================================================
