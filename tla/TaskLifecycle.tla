---------------------------- MODULE TaskLifecycle ----------------------------
(***************************************************************************)
(* One task between its gates: task_service.transition over the machine of *)
(* domain/transitions.py, gate_engine's decisions and rework_controller's  *)
(* counted retries, over the rows of task, gate_decision, rework_attempt.  *)
(*                                                                         *)
(* A session is a transaction of one worker driving the task, as the       *)
(* scenario tests compose the services: it reads the task once, without a  *)
(* lock, and checks every later move against that copy.  Writes are ORM    *)
(* updates of the changed columns "WHERE id = ...", which wait for the row *)
(* lock and then apply to whatever was committed meanwhile (READ           *)
(* COMMITTED).  Each of these services also appends audit records, which   *)
(* AuditChain models; here that shows as Abort, the fate of the victim of  *)
(* a lock cycle among other failures.  A call that raises before it writes *)
(* (IllegalTransitionError, NotAFailureError) is an Abort too.             *)
(*                                                                         *)
(* Definitions named after another with a suffix are that one with a       *)
(* plausible bug in it (see README.md).                                    *)
(***************************************************************************)
EXTENDS Integers, Sequences

CONSTANTS Sessions,           \* transactions that may drive the task at once
          NoSession,          \* nobody holds the task's row
          MaxReworkAttempts,  \* MAX_REWORK_ATTEMPTS
          MaxDecisions,       \* bound: gate decisions made
          MaxSetbacks         \* bound: transactions aborted from outside, and returns to the
                              \* queue past the rework controller, together

ASSUME TaskAssumption ==
  /\ NoSession \notin Sessions
  /\ MaxReworkAttempts \in Nat \ {0}
  /\ MaxDecisions \in Nat /\ MaxSetbacks \in Nat

VARIABLES
  (* committed rows *)
  task,       \* state and attempt_no
  attempts,   \* rework_attempt, in order of commit: attempt_no, and the decision answered
  decisions,  \* gate_decision
  rowLock,    \* the session that has updated the task's row
  (* one session each *)
  pc,
  mem,        \* the task as the session has it in memory
  newTask,    \* its uncommitted version of the row, once it holds the row lock
  newAttempts,
  newDecisions,
  trigger,    \* the decision that open_rework was called with
  used,       \* attempts_used, as counted
  (* bounds *)
  decided, setbacks

rowVars     == <<task, attempts, decisions>>
sessionVars == <<pc, mem, newTask, newAttempts, newDecisions, trigger, used>>
boundVars   == <<decided, setbacks>>
vars == <<rowVars, rowLock, sessionVars, boundVars>>

TaskState == {"planned", "queued", "running", "producing", "awaiting_gate", "passed",
              "reworking", "blocked", "failed"}

\* TASK_TRANSITIONS
Allowed(s) ==
  CASE s = "planned"       -> {"queued"}
    [] s = "queued"        -> {"running"}
    [] s = "running"       -> {"producing", "failed"}
    [] s = "producing"     -> {"awaiting_gate"}
    [] s = "awaiting_gate" -> {"passed", "reworking"}
    [] s = "reworking"     -> {"queued", "blocked"}
    [] s = "failed"        -> {"blocked"}
    [] s = "blocked"       -> {"queued"}
    [] s = "passed"        -> {}

NewTask == [state |-> "planned", attemptNo |-> 1]
NoDecision == [id |-> 0, judged |-> 1, verdict |-> "none"]
PC == {"idle", "open", "counted"}

\* create_task
Init ==
  /\ task         = NewTask
  /\ attempts     = <<>>
  /\ decisions    = {}
  /\ rowLock      = NoSession
  /\ pc           = [s \in Sessions |-> "idle"]
  /\ mem          = [s \in Sessions |-> NewTask]
  /\ newTask      = [s \in Sessions |-> NewTask]
  /\ newAttempts  = [s \in Sessions |-> <<>>]
  /\ newDecisions = [s \in Sessions |-> {}]
  /\ trigger      = [s \in Sessions |-> NoDecision]
  /\ used         = [s \in Sessions |-> 0]
  /\ decided      = 0
  /\ setbacks     = 0

-----------------------------------------------------------------------------
(* A transaction begins: get_task. *)

Load(s) ==
  /\ pc[s] = "idle"
  /\ pc'  = [pc EXCEPT ![s] = "open"]
  /\ mem' = [mem EXCEPT ![s] = task]
  /\ UNCHANGED <<rowVars, rowLock, newTask, newAttempts, newDecisions, trigger, used,
                 boundVars>>

-----------------------------------------------------------------------------
(* Writing the row. *)

RowFreeAlways(s) == TRUE
RowFree(s) == rowLock \in {NoSession, s}

\* The row the session's next UPDATE applies to: its own version, or the latest one.
Base(s) == IF rowLock = s THEN newTask[s] ELSE task

\* A task that is put back in the queue by a plain transition, out of REWORKING or by
\* the human decision on a BLOCKED one: the rework controller does not count it.
Returns(s, proposed) == proposed = "queued" /\ mem[s].state \in {"reworking", "blocked"}

\* transition: any move that the machine allows from the copy in memory.
Move(s, proposed) ==
  /\ pc[s] = "open"
  /\ proposed \in Allowed(mem[s].state)
  /\ RowFree(s)
  /\ rowLock' = s
  /\ newTask' = [newTask EXCEPT ![s] = [Base(s) EXCEPT !.state = proposed]]
  /\ mem' = [mem EXCEPT ![s].state = proposed]
  /\ IF Returns(s, proposed) THEN setbacks < MaxSetbacks /\ setbacks' = setbacks + 1
                             ELSE UNCHANGED setbacks
  /\ UNCHANGED <<rowVars, pc, newAttempts, newDecisions, trigger, used, decided>>

-----------------------------------------------------------------------------
(* gate_engine.evaluate: a decision on what the attempt has produced, in any state of *)
(* the task.                                                                          *)

Evaluate(s, v) ==
  /\ pc[s] = "open"
  /\ decided < MaxDecisions
  /\ decided' = decided + 1
  /\ newDecisions' = [newDecisions EXCEPT ![s] =
        @ \union {[id |-> decided', judged |-> mem[s].attemptNo, verdict |-> v]}]
  /\ UNCHANGED <<rowVars, rowLock, pc, mem, newTask, newAttempts, trigger, used, setbacks>>

-----------------------------------------------------------------------------
(* rework_controller.open_rework: count, then write. *)

\* The decisions a session can have in hand: its own, and committed ones.
Visible(s) == decisions \union newDecisions[s]

CountAttemptsOfAnyVerdict(s, decision) ==
  /\ pc[s] = "open"
  /\ "reworking" \in Allowed(mem[s].state)
  /\ trigger' = [trigger EXCEPT ![s] = decision]
  /\ used' = [used EXCEPT ![s] = Len(attempts) + Len(newAttempts[s])]
  /\ pc' = [pc EXCEPT ![s] = "counted"]
  /\ UNCHANGED <<rowVars, rowLock, mem, newTask, newAttempts, newDecisions, boundVars>>

\* Called with a FAIL, for a copy that may go to REWORKING: the SELECT of attempts_used
\* sees committed rows, and the session's own.
CountAttempts(s, decision) ==
  /\ pc[s] = "open"
  /\ decision.verdict = "fail"
  /\ "reworking" \in Allowed(mem[s].state)
  /\ trigger' = [trigger EXCEPT ![s] = decision]
  /\ used' = [used EXCEPT ![s] = Len(attempts) + Len(newAttempts[s])]
  /\ pc' = [pc EXCEPT ![s] = "counted"]
  /\ UNCHANGED <<rowVars, rowLock, mem, newTask, newAttempts, newDecisions, boundVars>>

ExhaustedOneLate(n) == n > MaxReworkAttempts
Exhausted(n) == n >= MaxReworkAttempts

\* UNIQUE (task_id, attempt_no), CHECK (attempt_no BETWEEN 1 AND 3).
AttemptFitsAlways(n) == TRUE
AttemptFits(n) ==
  /\ n \in 1 .. MaxReworkAttempts
  /\ \A k \in DOMAIN attempts : attempts[k].no # n

\* task.attempt_no after rework n: the attempt that the rework opens.
AttemptNoAfter(n) == n + 1

\* open_rework ends with the task's row written, in memory and in the table.
ReturnTask(s, state, attemptNo) ==
  /\ RowFree(s)
  /\ rowLock' = s
  /\ mem'     = [mem EXCEPT ![s] = [state |-> state, attemptNo |-> attemptNo]]
  /\ trigger' = [trigger EXCEPT ![s] = NoDecision]
  /\ used'    = [used EXCEPT ![s] = 0]
  /\ pc'      = [pc EXCEPT ![s] = "open"]

\* Within the budget: a rework_attempt row, the attempt_no that mirrors it, and the
\* task by way of REWORKING to QUEUED.
OpenRework(s) ==
  LET n == used[s] + 1 IN
  /\ pc[s] = "counted"
  /\ ~Exhausted(used[s])
  /\ AttemptFits(n)
  /\ newAttempts' = [newAttempts EXCEPT ![s] = Append(@, [no |-> n, answers |-> trigger[s]])]
  /\ newTask' = [newTask EXCEPT ![s] = [state |-> "queued", attemptNo |-> AttemptNoAfter(n)]]
  /\ ReturnTask(s, "queued", AttemptNoAfter(n))
  /\ UNCHANGED <<rowVars, newDecisions, boundVars>>

\* Budget exhausted: by way of REWORKING to BLOCKED.
BlockTask(s) ==
  /\ pc[s] = "counted"
  /\ Exhausted(used[s])
  /\ newTask' = [newTask EXCEPT ![s] = [Base(s) EXCEPT !.state = "blocked"]]
  /\ ReturnTask(s, "blocked", mem[s].attemptNo)
  /\ UNCHANGED <<rowVars, newAttempts, newDecisions, boundVars>>

-----------------------------------------------------------------------------
(* The end of the transaction. *)

Close(s) ==
  /\ rowLock'      = IF rowLock = s THEN NoSession ELSE rowLock
  /\ pc'           = [pc EXCEPT ![s] = "idle"]
  /\ mem'          = [mem EXCEPT ![s] = NewTask]
  /\ newTask'      = [newTask EXCEPT ![s] = NewTask]
  /\ newAttempts'  = [newAttempts EXCEPT ![s] = <<>>]
  /\ newDecisions' = [newDecisions EXCEPT ![s] = {}]
  /\ trigger'      = [trigger EXCEPT ![s] = NoDecision]
  /\ used'         = [used EXCEPT ![s] = 0]
  /\ UNCHANGED decided

\* What the session has written, if it is only a decision.
Commit(s) ==
  /\ pc[s] = "open"
  /\ rowLock = s \/ newDecisions[s] # {}
  /\ task'      = Base(s)
  /\ attempts'  = attempts \o newAttempts[s]
  /\ decisions' = decisions \union newDecisions[s]
  /\ Close(s)
  /\ UNCHANGED setbacks

\* Nothing written, and nothing that has to be done: a task that has passed, or waits
\* for a human.
Leave(s) ==
  /\ pc[s] = "open"
  /\ rowLock # s /\ newDecisions[s] = {}
  /\ mem[s].state \in {"passed", "blocked"}
  /\ Close(s)
  /\ UNCHANGED <<rowVars, setbacks>>

\* The insert meets a constraint: IntegrityError, and nothing remains.
Refuse(s) ==
  /\ pc[s] = "counted"
  /\ ~Exhausted(used[s]) /\ ~AttemptFits(used[s] + 1)
  /\ RowFree(s)
  /\ Close(s)
  /\ UNCHANGED <<rowVars, setbacks>>

\* Another exception, the loss of a lock cycle, a dead process: nothing remains.
Abort(s) ==
  /\ pc[s] # "idle"
  /\ setbacks < MaxSetbacks
  /\ setbacks' = setbacks + 1
  /\ Close(s)
  /\ UNCHANGED rowVars

-----------------------------------------------------------------------------

Judge(s) == \E v \in {"pass", "fail"} : Evaluate(s, v)

Rework(s) ==
  \/ \E decision \in Visible(s) : CountAttempts(s, decision)
  \/ OpenRework(s) \/ BlockTask(s) \/ Refuse(s)

Drive(s) ==
  \/ Load(s)
  \/ \E proposed \in TaskState : Move(s, proposed)
  \/ Judge(s) \/ Rework(s)
  \/ Commit(s) \/ Leave(s)

Next == \E s \in Sessions : Drive(s) \/ Abort(s)

Spec == Init /\ [][Next]_vars

\* A session that can go on with the task does.  No particular decision is owed.
FairSpec == Spec /\ \A s \in Sessions : WF_vars(Drive(s))
-----------------------------------------------------------------------------
(* What must hold. *)

Row == [state : TaskState, attemptNo : 1 .. MaxReworkAttempts + 1]
Decision == [id : Nat \ {0}, judged : 1 .. MaxReworkAttempts + 1, verdict : {"pass", "fail"}]
Attempt == [no : 1 .. MaxReworkAttempts, answers : Decision]

\* Rows and sessions hold values of the right kind, and only the session that holds
\* the row lock has an uncommitted version of the task.
TaskTypeOK ==
  /\ task \in Row
  /\ attempts \in Seq(Attempt)
  /\ decisions \subseteq Decision
  /\ rowLock \in Sessions \union {NoSession}
  /\ pc \in [Sessions -> PC]
  /\ mem \in [Sessions -> Row]
  /\ newTask \in [Sessions -> Row]
  /\ newAttempts \in [Sessions -> Seq(Attempt)]
  /\ newDecisions \in [Sessions -> SUBSET Decision]
  /\ trigger \in [Sessions -> Decision \union {NoDecision}]
  /\ used \in [Sessions -> 0 .. MaxReworkAttempts]
  /\ decided \in Nat /\ setbacks \in Nat
  /\ \A s \in Sessions :
       /\ rowLock # s => newTask[s] = NewTask /\ newAttempts[s] = <<>>
       /\ trigger[s] = NoDecision <=> pc[s] # "counted"

\* D11, one budget and one authority: the rework rows are numbered 1, 2, ... without
\* a gap or a repetition and attempt_no mirrors their number, whatever sessions with
\* old copies of the task race to open the next one.
BudgetCounted ==
  /\ Len(attempts) <= MaxReworkAttempts
  /\ \A k \in DOMAIN attempts : attempts[k].no = k
  /\ task.attemptNo = Len(attempts) + 1

\* Each rework answers a FAIL that is on record, of an attempt no later than the one
\* that it closes, however old the copies and the decisions that sessions act on.
ReworksAnswerFailures ==
  \A k \in DOMAIN attempts :
    LET decision == attempts[k].answers
    IN  decision \in decisions /\ decision.verdict = "fail" /\ decision.judged <= k

\* Failure is bounded: a task taken up ends passed, or in front of a human, however its
\* gates decide, once it is no longer put back in the queue past the controller.
TaskSettles ==
  task.state = "queued" ~> task.state \in {"passed", "blocked", "failed"}
=============================================================================
