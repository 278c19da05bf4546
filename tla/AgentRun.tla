------------------------------ MODULE AgentRun ------------------------------
(***************************************************************************)
(* Agent runs against the budget of one execution: run_task of             *)
(* src/adw/runtime/agent_runtime.py with model_call.py, action_recorder.py *)
(* and evidence_recorder.py, and the budget operations of cost_service.py, *)
(* over the tables action, evidence, action_cost and execution_budget.     *)
(*                                                                         *)
(* A run is one transaction of one task: turn by turn it reads the budget, *)
(* records an action, calls the provider and records what came back.  Two  *)
(* things make it wait: the first audit record takes the tenant's chain    *)
(* head until the end of the transaction, and an action waits for an       *)
(* uncommitted action of the same task and sequence.  A decision sets or   *)
(* raises the ceiling: it reads the row, writes a number computed from     *)
(* what it read, and audits it.                                            *)
(*                                                                         *)
(* Definitions named after another with a suffix are that one with a       *)
(* plausible bug in it (see README.md).                                    *)
(***************************************************************************)
EXTENDS Integers, Sequences, FiniteSets, FiniteSetsExt

CONSTANTS Runs,          \* runs that may be open at once
          Deciders,      \* people who may decide about the budget at once
          NoSession,     \* nobody holds a lock
          Tasks,         \* tasks of the execution
          NoTask,        \* an idle run has no task
          Usages,        \* tokens a completion may use
          Raises,        \* tokens a decision may ask for
          FirstCeilings, \* ceilings the execution may start with
          WarnAtPercent, \* warn_at_ratio, in hundredths
          MaxTurns,      \* max_turns
          MaxRuns,       \* bound: runs begun
          MaxDecisions,  \* bound: decisions begun
          MaxAborts      \* bound: transactions aborted from outside

ASSUME AgentAssumption ==
  /\ Runs \intersect Deciders = {}
  /\ NoSession \notin Runs \union Deciders
  /\ NoTask \notin Tasks
  /\ Usages \subseteq Nat
  /\ Raises \subseteq Nat \ {0}
  /\ FirstCeilings \subseteq Nat
  /\ WarnAtPercent \in 1 .. 99
  /\ MaxTurns \in Nat \ {0}
  /\ MaxRuns \in Nat /\ MaxDecisions \in Nat /\ MaxAborts \in Nat

VARIABLES
  (* committed rows *)
  actions,     \* action, each with its evidence and its action_cost
  ceiling,     \* execution_budget.max_total_tokens, or NoBudget
  trail,       \* the audit records of the decisions, in the order of the chain
  (* locks *)
  headLock,    \* the run that has appended to the tenant's chain
  budgetLock,  \* the decider that has written the budget row
  (* one run each *)
  pc,
  task,
  sequence,    \* the last sequence number given
  turn,        \* turns completed
  seenSpend,   \* what spend_for_execution returned
  rows,        \* its uncommitted actions
  (* one decision each *)
  dpc,
  base,        \* the ceiling it read
  raise,       \* what it asks for
  (* bounds *)
  runsBegun, decisionsBegun, aborts

tableVars    == <<actions, ceiling, trail>>
lockVars     == <<headLock, budgetLock>>
runVars      == <<pc, task, sequence, turn, seenSpend, rows, runsBegun>>
decisionVars == <<dpc, base, raise, decisionsBegun>>
vars == <<tableVars, lockVars, runVars, decisionVars, aborts>>

NoBudget == 0
NoCost   == -1

PC  == {"idle", "checking", "weighing", "warning", "reporting", "planning", "attempting",
        "calling", "refusing"}
DPC == {"idle", "writing", "written"}

\* The audit records of a budget set, and of one raised.
Set(new) == [kind |-> "set", previous |-> NoBudget, ceiling |-> new]
Authorized(previous, new) == [kind |-> "authorized", previous |-> previous, ceiling |-> new]

Init ==
  /\ actions        = {}
  /\ ceiling        \in FirstCeilings
  /\ trail          = IF ceiling = NoBudget THEN <<>> ELSE <<Set(ceiling)>>
  /\ headLock       = NoSession
  /\ budgetLock     = NoSession
  /\ pc             = [r \in Runs |-> "idle"]
  /\ task           = [r \in Runs |-> NoTask]
  /\ sequence       = [r \in Runs |-> 0]
  /\ turn           = [r \in Runs |-> 0]
  /\ seenSpend      = [r \in Runs |-> 0]
  /\ rows           = [r \in Runs |-> {}]
  /\ dpc            = [d \in Deciders |-> "idle"]
  /\ base           = [d \in Deciders |-> NoBudget]
  /\ raise          = [d \in Deciders |-> 0]
  /\ runsBegun      = 0
  /\ decisionsBegun = 0
  /\ aborts         = 0

Goto(r, label) == pc' = [pc EXCEPT ![r] = label]
HeadFree(s) == headLock \in {NoSession, s}

-----------------------------------------------------------------------------
(* A run begins: next_sequence reads the task's committed actions. *)

Highest(t) == Max({a.sequence : a \in {b \in actions : b.task = t}} \union {0})

BeginRun(r, t) ==
  /\ pc[r] = "idle"
  /\ runsBegun < MaxRuns
  /\ runsBegun' = runsBegun + 1
  /\ task' = [task EXCEPT ![r] = t]
  /\ sequence' = [sequence EXCEPT ![r] = Highest(t)]
  /\ Goto(r, "checking")
  /\ UNCHANGED <<tableVars, lockVars, turn, seenSpend, rows, decisionVars, aborts>>

-----------------------------------------------------------------------------
(* The end of a run's transaction. *)

\* The transaction ends and its locks are released.
CloseKeepingHead(r) ==
  /\ headLock' = headLock
  /\ task' = [task EXCEPT ![r] = NoTask]
  /\ sequence' = [sequence EXCEPT ![r] = 0]
  /\ turn' = [turn EXCEPT ![r] = 0]
  /\ seenSpend' = [seenSpend EXCEPT ![r] = 0]
  /\ rows' = [rows EXCEPT ![r] = {}]
  /\ Goto(r, "idle")
  /\ UNCHANGED <<ceiling, trail, budgetLock, runsBegun, decisionVars>>
Close(r) ==
  /\ headLock' = IF headLock = r THEN NoSession ELSE headLock
  /\ task' = [task EXCEPT ![r] = NoTask]
  /\ sequence' = [sequence EXCEPT ![r] = 0]
  /\ turn' = [turn EXCEPT ![r] = 0]
  /\ seenSpend' = [seenSpend EXCEPT ![r] = 0]
  /\ rows' = [rows EXCEPT ![r] = {}]
  /\ Goto(r, "idle")
  /\ UNCHANGED <<ceiling, trail, budgetLock, runsBegun, decisionVars>>

\* run_task returns and its caller commits.  Since the run has the chain head, nothing
\* another transaction does in between could tell the two apart.
Finish(r, S) ==
  /\ actions' = actions \union S
  /\ Close(r)
  /\ UNCHANGED aborts

-----------------------------------------------------------------------------
(* check_before_spending *)

Spend(S) == MapThenSumSet(LAMBDA a : a.cost, {a \in S : a.cost # NoCost})

\* What a SELECT of the run sees: the committed rows and its own.
Visible(r) == actions \union rows[r]

\* spend_for_execution
ReadSpend(r) ==
  /\ pc[r] = "checking"
  /\ seenSpend' = [seenSpend EXCEPT ![r] = Spend(Visible(r))]
  /\ Goto(r, "weighing")
  /\ UNCHANGED <<tableVars, lockVars, task, sequence, turn, rows, runsBegun,
                 decisionVars, aborts>>

\* The statuses of read_budget; without a budget the status is UNLIMITED.
IsExhaustedPastCeiling(spent, limit) == limit # NoBudget /\ spent > limit
IsExhausted(spent, limit) == limit # NoBudget /\ spent >= limit
IsWarning(spent, limit) ==
  limit # NoBudget /\ spent < limit /\ 100 * spent >= WarnAtPercent * limit

\* get_budget, and the status.
WeighBudget(r) ==
  /\ pc[r] = "weighing"
  /\ \/ IsExhausted(seenSpend[r], ceiling) /\ Goto(r, "reporting")
     \/ IsWarning(seenSpend[r], ceiling) /\ Goto(r, "warning")
     \/ /\ ~IsExhausted(seenSpend[r], ceiling) /\ ~IsWarning(seenSpend[r], ceiling)
        /\ Goto(r, "planning")
  /\ UNCHANGED <<tableVars, lockVars, task, sequence, turn, seenSpend, rows, runsBegun,
                 decisionVars, aborts>>

\* The audit record budget.exhausted; the run stops without a call (BUDGET_EXHAUSTED).
ReportExhausted(r) ==
  /\ pc[r] = "reporting"
  /\ HeadFree(r)
  /\ Finish(r, rows[r])

\* The audit record budget.warning; the run goes on.
ReportWarning(r) ==
  /\ pc[r] = "warning"
  /\ HeadFree(r)
  /\ headLock' = r
  /\ Goto(r, "planning")
  /\ UNCHANGED <<tableVars, budgetLock, task, sequence, turn, seenSpend, rows, runsBegun,
                 decisionVars, aborts>>

-----------------------------------------------------------------------------
(* plan_action: the next action of the task, under UNIQUE (task_id, sequence). *)

HasKey(a, t, n) == a.task = t /\ a.sequence = n

KeyCommitted(r) == \E a \in actions : HasKey(a, task[r], sequence[r] + 1)

\* Run s has inserted, and not committed, the row that r is about to insert.
KeyHeldBy(r, s) == s # r /\ \E a \in rows[s] : HasKey(a, task[r], sequence[r] + 1)

KeyFreeAlways(r) == TRUE
KeyFree(r) == ~KeyCommitted(r) /\ ~\E s \in Runs : KeyHeldBy(r, s)

PlannedAction(r, k, evidence) ==
  [task |-> task[r], sequence |-> sequence[r] + 1, kind |-> k, state |-> "planned",
   evidence |-> evidence, cost |-> NoCost]

PlanAction(r, k, evidence) ==
  /\ KeyFree(r)
  /\ rows' = [rows EXCEPT ![r] = @ \union {PlannedAction(r, k, evidence)}]
  /\ sequence' = [sequence EXCEPT ![r] = @ + 1]

-----------------------------------------------------------------------------
(* model_call.invoke *)

PlanCall(r) ==
  /\ pc[r] = "planning"
  /\ PlanAction(r, "call", {})
  /\ Goto(r, "attempting")
  /\ UNCHANGED <<tableVars, lockVars, task, turn, seenSpend, runsBegun, decisionVars,
                 aborts>>

\* The row of the call in hand, and the run's rows with another in its place.
CallInHand(r) == CHOOSE a \in rows[r] : a.sequence = sequence[r]
Rewritten(r, row) == (rows[r] \ {CallInHand(r)}) \union {row}

\* attempted, audited, and the prompt recorded as evidence: then the call is made.
AttemptCall(r) ==
  /\ pc[r] = "attempting"
  /\ HeadFree(r)
  /\ headLock' = r
  /\ rows' = [rows EXCEPT ![r] =
                 Rewritten(r, [CallInHand(r) EXCEPT !.state = "attempted",
                                                    !.evidence = {"request"}])]
  /\ Goto(r, "calling")
  /\ UNCHANGED <<tableVars, budgetLock, task, sequence, turn, seenSpend, runsBegun,
                 decisionVars, aborts>>

\* The provider answers: executed, the response recorded as evidence, succeeded, and
\* record_usage.  A proposal is refused next; text or nothing at all ends the run
\* (COMPLETED, EMPTY_COMPLETION).
Succeeded(a, used) ==
  [a EXCEPT !.state = "succeeded", !.evidence = @ \union {"response"}, !.cost = used]

CallAnswers(r, used) ==
  /\ pc[r] = "calling"
  /\ LET answered == Rewritten(r, Succeeded(CallInHand(r), used)) IN
       \/ /\ rows' = [rows EXCEPT ![r] = answered]
          /\ Goto(r, "refusing")
          /\ UNCHANGED <<tableVars, lockVars, task, sequence, turn, seenSpend, runsBegun,
                         decisionVars, aborts>>
       \/ Finish(r, answered)

\* The provider raises an LLMError: recorded, and returned (PROVIDER_FAILED).
Failed(a) == [a EXCEPT !.state = "failed", !.evidence = @ \union {"failure"}]

CallFailsByRaising(r) ==
  /\ pc[r] = "calling"
  /\ Close(r)
  /\ UNCHANGED <<actions, aborts>>
CallFails(r) ==
  /\ pc[r] = "calling"
  /\ Finish(r, Rewritten(r, Failed(CallInHand(r))))

IsLastTurnOffByOne(n) == n > MaxTurns
IsLastTurn(n) == n >= MaxTurns

\* _record_refusal: an action that stays planned, its evidence and its audit record
\* (the head is held since the call).  Then the next turn, if there is one (TURN_LIMIT).
RecordRefusal(r) ==
  /\ pc[r] = "refusing"
  /\ \/ /\ ~IsLastTurn(turn[r] + 1)
        /\ PlanAction(r, "refusal", {"proposal"})
        /\ turn' = [turn EXCEPT ![r] = @ + 1]
        /\ Goto(r, "checking")
        /\ UNCHANGED <<tableVars, lockVars, task, seenSpend, runsBegun, decisionVars, aborts>>
     \/ /\ IsLastTurn(turn[r] + 1)
        /\ KeyFree(r)
        /\ Finish(r, rows[r] \union {PlannedAction(r, "refusal", {"proposal"})})

-----------------------------------------------------------------------------
(* Runs that fail. *)

\* The unique violation escapes from run_task and the caller rolls back.
FindKeyTaken(r) ==
  /\ pc[r] \in {"planning", "refusing"}
  /\ KeyCommitted(r)
  /\ Close(r)
  /\ UNCHANGED <<actions, aborts>>

\* An exception other than an LLMError, or a dead process: also in the midst of a call.
AbortRun(r) ==
  /\ pc[r] # "idle"
  /\ aborts < MaxAborts
  /\ aborts' = aborts + 1
  /\ Close(r)
  /\ UNCHANGED actions

WaitsForHead(r, s) == pc[r] \in {"reporting", "warning", "attempting"} /\ headLock = s /\ s # r
WaitsForKey(r, s) == pc[r] \in {"planning", "refusing"} /\ KeyHeldBy(r, s)

\* The database aborts one transaction of a lock cycle.
LoseLockCycle(r) ==
  /\ \E s \in Runs : \/ WaitsForHead(r, s) /\ WaitsForKey(s, r)
                     \/ WaitsForKey(r, s) /\ WaitsForHead(s, r)
  /\ Close(r)
  /\ UNCHANGED <<actions, aborts>>

-----------------------------------------------------------------------------
(* set_budget when there is no budget, authorize_additional when there is one. *)

ReadBudget(d, n) ==
  /\ dpc[d] = "idle"
  /\ decisionsBegun < MaxDecisions
  /\ decisionsBegun' = decisionsBegun + 1
  /\ base' = [base EXCEPT ![d] = ceiling]
  /\ raise' = [raise EXCEPT ![d] = n]
  /\ dpc' = [dpc EXCEPT ![d] = "writing"]
  /\ UNCHANGED <<tableVars, lockVars, runVars, aborts>>

\* The INSERT, under UNIQUE (execution_id), or the UPDATE of the row by its id: either
\* waits for a decision that has written and not committed.
WriteBudget(d) ==
  /\ dpc[d] = "writing"
  /\ budgetLock = NoSession
  /\ base[d] = NoBudget => ceiling = NoBudget
  /\ budgetLock' = d
  /\ dpc' = [dpc EXCEPT ![d] = "written"]
  /\ UNCHANGED <<tableVars, headLock, runVars, base, raise, decisionsBegun, aborts>>

CloseDecision(d) ==
  /\ budgetLock' = IF budgetLock = d THEN NoSession ELSE budgetLock
  /\ base' = [base EXCEPT ![d] = NoBudget]
  /\ raise' = [raise EXCEPT ![d] = 0]
  /\ dpc' = [dpc EXCEPT ![d] = "idle"]
  /\ UNCHANGED <<actions, headLock, runVars, decisionsBegun>>

NewCeilingFromRow(d) == ceiling + raise[d]
NewCeiling(d) == base[d] + raise[d]

Told(d) == IF base[d] = NoBudget THEN Set(raise[d])
                                 ELSE Authorized(base[d], base[d] + raise[d])

\* The audit record, for which it waits, and the commit: between the two it only holds
\* the head, and nothing it does shows.
CommitBudget(d) ==
  /\ dpc[d] = "written"
  /\ headLock = NoSession
  /\ ceiling' = NewCeiling(d)
  /\ trail' = Append(trail, Told(d))
  /\ CloseDecision(d)
  /\ UNCHANGED aborts

\* Another decision has set the budget first: a unique violation.
FindBudgetSet(d) ==
  /\ dpc[d] = "writing"
  /\ budgetLock = NoSession
  /\ base[d] = NoBudget /\ ceiling # NoBudget
  /\ CloseDecision(d)
  /\ UNCHANGED <<ceiling, trail, aborts>>

AbortDecision(d) ==
  /\ dpc[d] # "idle"
  /\ aborts < MaxAborts
  /\ aborts' = aborts + 1
  /\ CloseDecision(d)
  /\ UNCHANGED <<ceiling, trail>>

-----------------------------------------------------------------------------

Proceed(r) ==
  \/ ReadSpend(r) \/ WeighBudget(r) \/ ReportExhausted(r) \/ ReportWarning(r)
  \/ PlanCall(r) \/ AttemptCall(r) \/ (\E used \in Usages : CallAnswers(r, used))
  \/ CallFails(r) \/ RecordRefusal(r) \/ FindKeyTaken(r) \/ LoseLockCycle(r)

Decide(d) == WriteBudget(d) \/ CommitBudget(d) \/ FindBudgetSet(d)

Next ==
  \/ \E r \in Runs : (\E t \in Tasks : BeginRun(r, t)) \/ Proceed(r) \/ AbortRun(r)
  \/ \E d \in Deciders : (\E n \in Raises : ReadBudget(d, n)) \/ Decide(d) \/ AbortDecision(d)

Spec == Init /\ [][Next]_vars

\* What has begun goes on: the provider answers or fails (a timeout is an LLMError),
\* the lock queues of the database are served, and it resolves lock cycles.  While the
\* number of transactions is bounded, it is enough that one of them goes on.  Nobody
\* has to begin a run or a decision.
Fairness == WF_vars((\E r \in Runs : Proceed(r)) \/ (\E d \in Deciders : Decide(d)))

FairSpec == Spec /\ Fairness
-----------------------------------------------------------------------------
(* What must hold. *)

Action == [task : Tasks, sequence : Nat \ {0}, kind : {"call", "refusal"},
           state : {"planned", "attempted", "succeeded", "failed"},
           evidence : SUBSET {"request", "response", "failure", "proposal"},
           cost : Nat \union {NoCost}]
Decision == [kind : {"set", "authorized"}, previous : Nat, ceiling : Nat]

\* Tables, locks and sessions hold values of the right kind, no run takes more turns
\* than max_turns, and only an idle run has no task.
AgentTypeOK ==
  /\ actions \subseteq Action
  /\ ceiling \in Nat
  /\ trail \in Seq(Decision)
  /\ headLock \in Runs \union {NoSession}
  /\ budgetLock \in Deciders \union {NoSession}
  /\ pc \in [Runs -> PC]
  /\ task \in [Runs -> Tasks \union {NoTask}]
  /\ sequence \in [Runs -> Nat]
  /\ turn \in [Runs -> 0 .. MaxTurns - 1]
  /\ seenSpend \in [Runs -> Nat]
  /\ rows \in [Runs -> SUBSET Action]
  /\ dpc \in [Deciders -> DPC]
  /\ base \in [Deciders -> Nat]
  /\ raise \in [Deciders -> Nat]
  /\ runsBegun \in Nat /\ decisionsBegun \in Nat /\ aborts \in Nat
  /\ \A r \in Runs : task[r] = NoTask <=> pc[r] = "idle"

Calls(S) == {a \in S : a.kind = "call"}

\* "Hard stops, not alerts", as far as it goes: a run makes at most one call past the
\* ceiling, its first, which may rest on what it read before other runs' costs or a
\* decision were committed.  Whoever makes a second call has had the chain head since
\* the first, so nothing it read has changed.
OneCallPastCeiling ==
  \A r \in Runs :
    pc[r] = "calling" /\ Cardinality(Calls(rows[r])) > 1 /\ ceiling # NoBudget
      => Spend(Visible(r)) < ceiling

\* The committed actions of a task are numbered 1 .. n, each number once, whatever
\* runs of the same task overlap, fail or die.
SequencesGapless ==
  /\ \A a, b \in actions : a.task = b.task /\ a.sequence = b.sequence => a = b
  /\ \A a \in actions : \A n \in 1 .. a.sequence : \E b \in actions : HasKey(b, a.task, n)

\* The actions of a task are an append-only log: no commit of an overlapping run changes,
\* displaces or doubles an action that was committed before.
ActionsOf(t) == {a \in actions : a.task = t}
EntriesOf(t) == {[seq |-> a.sequence, action |-> a] : a \in ActionsOf(t)}
ActionLog == INSTANCE AppendOnlyLog
               WITH Owners <- Tasks,
                    log    <- [t \in Tasks |-> EntriesOf(t)],
                    length <- [t \in Tasks |-> Cardinality(ActionsOf(t))]
ActionsOnlyGrow == ActionLog!Spec

\* What has been asked of the provider is on record when its run ends, with the prompt and
\* whatever came back: when the provider fails, when the next turn is refused, when other
\* runs have taken the run's numbers or wait in a cycle with it.  Not when the run dies, or
\* raises something else than an LLMError: its records were never committed.
AskedIsOnRecord ==
  [][\A r \in Runs : \A a \in rows[r] :
       "request" \in a.evidence /\ pc'[r] = "idle" /\ aborts' = aborts =>
         \E b \in actions' : HasKey(b, a.task, a.sequence) /\ a.evidence \subseteq b.evidence]_vars

\* The ceiling in force is the one the last audited decision names, also when one
\* decision has overwritten another.
CeilingIsTold ==
  IF trail = <<>> THEN ceiling = NoBudget ELSE ceiling = trail[Len(trail)].ceiling

\* Every run comes to an end, whatever it waits for: the head, a key, a lock cycle.  Of
\* the bounded number that begin, none is left in the end.
RunsEnd == []<>(\A r \in Runs : pc[r] = "idle")

\* An authorization raises the ceiling, and nothing lowers it.
CeilingNeverFalls == [][ceiling' >= ceiling]_vars
=============================================================================
