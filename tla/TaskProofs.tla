------------------------------ MODULE TaskProofs ------------------------------
(***************************************************************************)
(* Theorems about TaskLifecycle, for any sessions, budget and bound.       *)
(***************************************************************************)
EXTENDS TaskLifecycle, TLAPS

-----------------------------------------------------------------------------
(* The row lock, the count and the budget. *)

\* Rework rows, committed and of the session's own.
Counted(s) == Len(attempts) + Len(newAttempts[s])

\* The session that holds the row's lock continues the committed numbering, and its
\* version of the row mirrors it.
RowContinues(s) ==
  rowLock = s =>
    /\ Counted(s) <= MaxReworkAttempts
    /\ \A k \in DOMAIN newAttempts[s] : newAttempts[s][k].no = Len(attempts) + k
    /\ newTask[s].attemptNo = Counted(s) + 1

\* A copy of the task, and a count, may be old but never ahead of the rows; the count
\* of a session with rows of its own, which nobody can overtake, is exact.
CopiesLag(s) ==
  /\ mem[s].attemptNo <= Counted(s) + 1
  /\ pc[s] = "counted" =>
       /\ used[s] <= Counted(s)
       /\ newAttempts[s] # <<>> => used[s] = Counted(s)

\* An idle session has no lock.
IdleIsFree(s) == pc[s] = "idle" => rowLock # s

BudgetInv ==
  /\ TaskTypeOK
  /\ BudgetCounted
  /\ \A s \in Sessions : RowContinues(s) /\ CopiesLag(s) /\ IdleIsFree(s)

-----------------------------------------------------------------------------
(* Sequences. *)

LEMMA AppendFacts ==
  ASSUME NEW S, NEW q \in Seq(S), NEW e \in S
  PROVE  /\ Append(q, e) \in Seq(S) /\ Len(Append(q, e)) = Len(q) + 1
         /\ DOMAIN Append(q, e) = 1 .. Len(q) + 1
         /\ \A k \in DOMAIN q : Append(q, e)[k] = q[k]
         /\ Append(q, e)[Len(q) + 1] = e
OBVIOUS

LEMMA ConcatFacts ==
  ASSUME NEW S, NEW p \in Seq(S), NEW q \in Seq(S)
  PROVE  /\ p \o q \in Seq(S) /\ Len(p \o q) = Len(p) + Len(q)
         /\ DOMAIN (p \o q) = 1 .. Len(p) + Len(q)
         /\ \A k \in 1 .. Len(p) : (p \o q)[k] = p[k]
         /\ \A k \in 1 .. Len(q) : (p \o q)[Len(p) + k] = q[k]
OBVIOUS

LEMMA LengthFacts ==
  ASSUME NEW S, NEW q \in Seq(S)
  PROVE  /\ Len(q) \in Nat /\ DOMAIN q = 1 .. Len(q)
         /\ q = <<>> <=> Len(q) = 0
OBVIOUS

-----------------------------------------------------------------------------
(* BudgetInv is inductive. *)

LEMMA InitBudgetInv == Init => BudgetInv
<1> SUFFICES ASSUME Init PROVE BudgetInv
  OBVIOUS
<1> USE TaskAssumption DEF Init, NewTask, TaskState, PC
<1>1. TaskTypeOK
  <2>1. NewTask \in Row
    BY DEF Row
  <2>2. <<>> \in Seq(Attempt)
    OBVIOUS
  <2> HIDE DEF NewTask
  <2>3. QED
    BY <2>1, <2>2 DEF TaskTypeOK
<1>2. BudgetCounted
  BY DEF BudgetCounted
<1>3. ASSUME NEW s \in Sessions PROVE RowContinues(s) /\ CopiesLag(s) /\ IdleIsFree(s)
  <2>1. rowLock # s /\ pc[s] = "idle" /\ mem[s].attemptNo = 1
    OBVIOUS
  <2>2. newAttempts[s] = <<>> /\ attempts = <<>> /\ Len(<<>>) = 0
    OBVIOUS
  <2>3. QED
    BY <2>1, <2>2 DEF RowContinues, CopiesLag, IdleIsFree, Counted
<1>4. QED
  BY <1>1, <1>2, <1>3 DEF BudgetInv

\* The version of the row that a write starts from mirrors the rows behind it.
LEMMA BaseMirrors ==
  ASSUME BudgetInv, NEW s \in Sessions, RowFree(s)
  PROVE  /\ Base(s) \in Row
         /\ Base(s).attemptNo = Counted(s) + 1
         /\ Counted(s) \in 0 .. MaxReworkAttempts
         /\ \A k \in DOMAIN newAttempts[s] : newAttempts[s][k].no = Len(attempts) + k
<1> USE TaskAssumption DEF BudgetInv, TaskTypeOK
<1>1. Len(attempts) \in Nat /\ Len(newAttempts[s]) \in Nat
  BY LengthFacts
<1>2. CASE rowLock = s
  <2>1. Base(s) = newTask[s] /\ RowContinues(s)
    BY <1>2 DEF Base
  <2>2. QED
    BY <1>1, <1>2, <2>1 DEF RowContinues, Counted
<1>3. CASE rowLock # s
  <2>1. newAttempts[s] = <<>> /\ Len(newAttempts[s]) = 0
    BY <1>3, LengthFacts
  <2>2. Base(s) = task /\ Counted(s) = Len(attempts)
    BY <1>1, <1>3, <2>1 DEF Base, Counted
  <2>3. DOMAIN newAttempts[s] = {}
    BY <2>1, LengthFacts
  <2>4. QED
    BY <1>1, <2>2, <2>3 DEF BudgetCounted
<1>4. QED
  BY <1>2, <1>3

\* The number of the rework that a session with room in the budget opens is the next
\* one: the count may be old, and then the constraint refuses the row.
LEMMA NextReworkNumber ==
  ASSUME BudgetInv, NEW s \in Sessions, OpenRework(s)
  PROVE  used[s] = Counted(s) /\ Counted(s) + 1 \in 1 .. MaxReworkAttempts
<1> USE TaskAssumption DEF BudgetInv, TaskTypeOK
<1>1. /\ pc[s] = "counted" /\ RowFree(s)
      /\ used[s] + 1 \in 1 .. MaxReworkAttempts
      /\ \A k \in DOMAIN attempts : attempts[k].no # used[s] + 1
  BY DEF OpenRework, AttemptFits, ReturnTask
<1>2. Len(attempts) \in Nat /\ DOMAIN attempts = 1 .. Len(attempts)
  BY LengthFacts
<1>3. used[s] \in Nat /\ Counted(s) \in Nat /\ used[s] <= Counted(s)
  BY <1>1, BaseMirrors DEF CopiesLag
<1>4. CASE newAttempts[s] # <<>>
  BY <1>1, <1>3, <1>4 DEF CopiesLag
<1>5. CASE newAttempts[s] = <<>>
  <2>1. Counted(s) = Len(attempts)
    BY <1>2, <1>5, LengthFacts DEF Counted
  <2>2. ~ (used[s] + 1 \in DOMAIN attempts)
    BY <1>1 DEF BudgetCounted
  <2>3. QED
    BY <1>1, <1>2, <1>3, <2>1, <2>2
<1>6. QED
  BY <1>4, <1>5

\* A step of s that commits nothing leaves everybody else's promises alone.
LEMMA OthersKeepBudget ==
  ASSUME BudgetInv, NEW s \in Sessions, NEW v \in Sessions \ {s},
         UNCHANGED attempts, rowLock' \in {rowLock, s, NoSession},
         newTask'[v] = newTask[v], newAttempts'[v] = newAttempts[v],
         mem'[v] = mem[v], pc'[v] = pc[v], used'[v] = used[v]
  PROVE  RowContinues(v)' /\ CopiesLag(v)' /\ IdleIsFree(v)'
<1>1. RowContinues(v) /\ CopiesLag(v) /\ IdleIsFree(v)
  BY DEF BudgetInv
<1>2. rowLock' = v => rowLock = v
  BY TaskAssumption
<1>3. Counted(v)' = Counted(v)
  BY DEF Counted
<1>4. QED
  BY <1>1, <1>2, <1>3 DEF RowContinues, CopiesLag, IdleIsFree

LEMMA LoadKeepsBudget ==
  ASSUME BudgetInv, NEW s \in Sessions, Load(s)
  PROVE  BudgetInv'
<1> USE TaskAssumption DEF BudgetInv, TaskTypeOK, PC
<1>1. /\ pc[s] = "idle" /\ rowLock # s
      /\ pc' = [pc EXCEPT ![s] = "open"] /\ mem' = [mem EXCEPT ![s] = task]
      /\ UNCHANGED <<rowVars, rowLock, newTask, newAttempts, newDecisions, trigger, used, boundVars>>
  BY DEF Load, IdleIsFree
<1>2. TaskTypeOK' /\ BudgetCounted'
  BY <1>1 DEF rowVars, boundVars, BudgetCounted
<1>3. RowContinues(s)' /\ CopiesLag(s)' /\ IdleIsFree(s)'
  <2>1. mem'[s] = task /\ Counted(s)' = Len(attempts)
    <3>1. Len(newAttempts[s]) = 0 /\ Len(attempts) \in Nat
      BY <1>1, LengthFacts
    <3>2. QED
      BY <1>1, <3>1 DEF Counted, rowVars
  <2>2. Len(attempts) \in Nat
    BY LengthFacts
  <2>3. QED
    BY <1>1, <2>1, <2>2 DEF RowContinues, CopiesLag, IdleIsFree, BudgetCounted
<1>4. ASSUME NEW v \in Sessions \ {s} PROVE RowContinues(v)' /\ CopiesLag(v)' /\ IdleIsFree(v)'
  BY <1>1, OthersKeepBudget DEF rowVars
<1>5. QED
  BY <1>2, <1>3, <1>4

LEMMA MoveKeepsBudget ==
  ASSUME BudgetInv, NEW s \in Sessions, NEW proposed \in TaskState, Move(s, proposed)
  PROVE  BudgetInv'
<1> USE TaskAssumption DEF BudgetInv, TaskTypeOK, PC
<1>1. /\ pc[s] = "open" /\ RowFree(s) /\ rowLock' = s
      /\ newTask' = [newTask EXCEPT ![s] = [Base(s) EXCEPT !.state = proposed]]
      /\ mem' = [mem EXCEPT ![s].state = proposed]
      /\ setbacks' \in Nat
      /\ UNCHANGED <<rowVars, pc, newAttempts, newDecisions, trigger, used, decided>>
  BY DEF Move
<1>2. /\ Base(s) \in Row /\ Base(s).attemptNo = Counted(s) + 1
      /\ Counted(s) \in 0 .. MaxReworkAttempts
      /\ \A k \in DOMAIN newAttempts[s] : newAttempts[s][k].no = Len(attempts) + k
  BY <1>1, BaseMirrors
<1>3. /\ newTask'[s] \in Row /\ newTask'[s].attemptNo = Base(s).attemptNo
      /\ mem'[s] \in Row /\ mem'[s].attemptNo = mem[s].attemptNo
  BY <1>1, <1>2 DEF Row
<1>4. TaskTypeOK'
  BY <1>1, <1>3 DEF rowVars, RowFree
<1>5. BudgetCounted'
  BY <1>1 DEF rowVars, BudgetCounted
<1>6. RowContinues(s)' /\ CopiesLag(s)' /\ IdleIsFree(s)'
  <2>1. Counted(s)' = Counted(s) /\ attempts' = attempts /\ newAttempts' = newAttempts
    BY <1>1 DEF Counted, rowVars
  <2>2. QED
    BY <1>1, <1>2, <1>3, <2>1 DEF RowContinues, CopiesLag, IdleIsFree
<1>7. ASSUME NEW v \in Sessions \ {s} PROVE RowContinues(v)' /\ CopiesLag(v)' /\ IdleIsFree(v)'
  BY <1>1, OthersKeepBudget DEF rowVars
<1>8. QED
  BY <1>4, <1>5, <1>6, <1>7

LEMMA EvaluateKeepsBudget ==
  ASSUME BudgetInv, NEW s \in Sessions, NEW v \in {"pass", "fail"}, Evaluate(s, v)
  PROVE  BudgetInv'
<1> USE DEF BudgetInv, TaskTypeOK
<1>1. /\ newDecisions' = [newDecisions EXCEPT ![s] =
            @ \union {[id |-> decided', judged |-> mem[s].attemptNo, verdict |-> v]}]
      /\ decided' = decided + 1
      /\ UNCHANGED <<rowVars, rowLock, pc, mem, newTask, newAttempts, trigger, used, setbacks>>
  BY DEF Evaluate
<1>2. [id |-> decided', judged |-> mem[s].attemptNo, verdict |-> v] \in Decision
  BY <1>1 DEF Decision, Row
<1>3. TaskTypeOK' /\ BudgetCounted'
  BY <1>1, <1>2 DEF rowVars, BudgetCounted
<1>4. \A u \in Sessions : RowContinues(u)' /\ CopiesLag(u)' /\ IdleIsFree(u)'
  BY <1>1 DEF rowVars, RowContinues, CopiesLag, IdleIsFree, Counted
<1>5. QED
  BY <1>3, <1>4

LEMMA CountKeepsBudget ==
  ASSUME BudgetInv, NEW s \in Sessions, NEW decision \in Visible(s), CountAttempts(s, decision)
  PROVE  BudgetInv'
<1> USE DEF BudgetInv, TaskTypeOK, PC
<1>1. /\ pc[s] = "open"
      /\ trigger' = [trigger EXCEPT ![s] = decision]
      /\ used' = [used EXCEPT ![s] = Counted(s)]
      /\ pc' = [pc EXCEPT ![s] = "counted"]
      /\ UNCHANGED <<rowVars, rowLock, mem, newTask, newAttempts, newDecisions, boundVars>>
  BY DEF CountAttempts, Counted
<1>2. Counted(s) \in 0 .. MaxReworkAttempts
  <2>1. Len(attempts) \in Nat /\ Len(newAttempts[s]) \in Nat
    BY LengthFacts
  <2>2. CASE rowLock = s
    BY <2>1, <2>2 DEF RowContinues, Counted
  <2>3. CASE rowLock # s
    <3>1. Len(newAttempts[s]) = 0
      BY <2>3, LengthFacts
    <3>2. QED
      BY <2>1, <3>1 DEF Counted, BudgetCounted
  <2>4. QED
    BY <2>2, <2>3
<1>3. TaskTypeOK' /\ BudgetCounted'
  <2>1. decision \in Decision /\ decision # NoDecision
    BY DEF Visible, Decision, NoDecision
  <2>2. QED
    BY <1>1, <1>2, <2>1 DEF rowVars, boundVars, BudgetCounted
<1>4. RowContinues(s)' /\ CopiesLag(s)' /\ IdleIsFree(s)'
  <2>1. Counted(s)' = Counted(s) /\ attempts' = attempts
    BY <1>1 DEF Counted, rowVars
  <2>2. QED
    BY <1>1, <1>2, <2>1 DEF RowContinues, CopiesLag, IdleIsFree
<1>5. ASSUME NEW v \in Sessions \ {s} PROVE RowContinues(v)' /\ CopiesLag(v)' /\ IdleIsFree(v)'
  BY <1>1, OthersKeepBudget DEF rowVars
<1>6. QED
  BY <1>3, <1>4, <1>5

LEMMA OpenReworkKeepsBudget ==
  ASSUME BudgetInv, NEW s \in Sessions, OpenRework(s)
  PROVE  BudgetInv'
<1> DEFINE n     == Counted(s) + 1
           row   == [no |-> n, answers |-> trigger[s]]
           after == [state |-> "queued", attemptNo |-> n + 1]
<1> USE TaskAssumption DEF BudgetInv, TaskTypeOK, PC
<1>1. used[s] = Counted(s) /\ n \in 1 .. MaxReworkAttempts /\ Counted(s) \in Nat
  <2>1. used[s] = Counted(s) /\ n \in 1 .. MaxReworkAttempts
    BY NextReworkNumber
  <2>2. Counted(s) \in Nat
    BY LengthFacts DEF Counted
  <2>3. QED
    BY <2>1, <2>2
<1>2. /\ newAttempts' = [newAttempts EXCEPT ![s] = Append(newAttempts[s], row)]
      /\ newTask' = [newTask EXCEPT ![s] = after]
      /\ rowLock' = s /\ RowFree(s)
      /\ mem' = [mem EXCEPT ![s] = after]
      /\ trigger' = [trigger EXCEPT ![s] = NoDecision]
      /\ used' = [used EXCEPT ![s] = 0]
      /\ pc[s] = "counted" /\ pc' = [pc EXCEPT ![s] = "open"]
      /\ UNCHANGED <<rowVars, newDecisions, boundVars>>
  BY <1>1 DEF OpenRework, ReturnTask, AttemptNoAfter
<1>3. row \in Attempt /\ after \in Row
  BY <1>1, <1>2 DEF Attempt, Row, TaskState
<1>4. /\ newAttempts'[s] \in Seq(Attempt)
      /\ Len(newAttempts'[s]) = Len(newAttempts[s]) + 1
      /\ DOMAIN newAttempts'[s] = 1 .. Len(newAttempts[s]) + 1
      /\ \A k \in DOMAIN newAttempts[s] : newAttempts'[s][k] = newAttempts[s][k]
      /\ newAttempts'[s][Len(newAttempts[s]) + 1] = row
  <2>1. newAttempts'[s] = Append(newAttempts[s], row)
    BY <1>2
  <2> HIDE DEF row
  <2>2. QED
    BY <1>3, <2>1, AppendFacts
<1>5. /\ Len(attempts) \in Nat /\ Len(newAttempts[s]) \in Nat
      /\ DOMAIN newAttempts[s] = 1 .. Len(newAttempts[s])
  BY LengthFacts
<1>6. Counted(s)' = n /\ row.no = n /\ after.attemptNo = n + 1 /\ attempts' = attempts
  BY <1>2, <1>4, <1>5 DEF Counted, rowVars
<1>7. TaskTypeOK'
  BY <1>2, <1>3, <1>4 DEF rowVars, boundVars, RowFree
<1>8. BudgetCounted'
  BY <1>2 DEF rowVars, BudgetCounted
<1>9. RowContinues(s)' /\ CopiesLag(s)' /\ IdleIsFree(s)'
  <2>1. \A k \in DOMAIN newAttempts'[s] : newAttempts'[s][k].no = Len(attempts) + k
    <3> SUFFICES ASSUME NEW k \in DOMAIN newAttempts'[s]
                 PROVE  newAttempts'[s][k].no = Len(attempts) + k
      OBVIOUS
    <3>1. CASE k \in DOMAIN newAttempts[s]
      BY <1>2, <1>4, <3>1, BaseMirrors
    <3>2. CASE k = Len(newAttempts[s]) + 1
      BY <1>4, <1>5, <1>6, <3>2 DEF Counted
    <3>3. QED
      BY <1>4, <1>5, <3>1, <3>2
  <2>2. newTask'[s].attemptNo = n + 1 /\ mem'[s].attemptNo = n + 1 /\ pc'[s] = "open"
    BY <1>2, <1>6
  <2> HIDE DEF n
  <2>3. QED
    BY <1>1, <1>2, <1>6, <2>1, <2>2 DEF RowContinues, CopiesLag, IdleIsFree
<1>10. ASSUME NEW v \in Sessions \ {s} PROVE RowContinues(v)' /\ CopiesLag(v)' /\ IdleIsFree(v)'
  BY <1>2, OthersKeepBudget DEF rowVars
<1>11. QED
  BY <1>7, <1>8, <1>9, <1>10

LEMMA BlockTaskKeepsBudget ==
  ASSUME BudgetInv, NEW s \in Sessions, BlockTask(s)
  PROVE  BudgetInv'
<1> USE TaskAssumption DEF BudgetInv, TaskTypeOK, PC
<1>1. /\ newTask' = [newTask EXCEPT ![s] = [Base(s) EXCEPT !.state = "blocked"]]
      /\ rowLock' = s /\ RowFree(s)
      /\ mem' = [mem EXCEPT ![s] = [state |-> "blocked", attemptNo |-> mem[s].attemptNo]]
      /\ trigger' = [trigger EXCEPT ![s] = NoDecision]
      /\ used' = [used EXCEPT ![s] = 0]
      /\ pc' = [pc EXCEPT ![s] = "open"]
      /\ UNCHANGED <<rowVars, newAttempts, newDecisions, boundVars>>
  BY DEF BlockTask, ReturnTask
<1>2. /\ Base(s) \in Row /\ Base(s).attemptNo = Counted(s) + 1
      /\ Counted(s) \in 0 .. MaxReworkAttempts
      /\ \A k \in DOMAIN newAttempts[s] : newAttempts[s][k].no = Len(attempts) + k
  BY <1>1, BaseMirrors
<1>3. /\ newTask'[s] \in Row /\ newTask'[s].attemptNo = Base(s).attemptNo
      /\ mem'[s] \in Row /\ mem'[s].attemptNo = mem[s].attemptNo
  BY <1>1, <1>2 DEF Row, TaskState
<1>4. TaskTypeOK'
  BY <1>1, <1>3 DEF rowVars, boundVars, RowFree
<1>5. BudgetCounted'
  BY <1>1 DEF rowVars, BudgetCounted
<1>6. RowContinues(s)' /\ CopiesLag(s)' /\ IdleIsFree(s)'
  <2>1. Counted(s)' = Counted(s) /\ attempts' = attempts /\ newAttempts' = newAttempts
    BY <1>1 DEF Counted, rowVars
  <2>2. QED
    BY <1>1, <1>2, <1>3, <2>1 DEF RowContinues, CopiesLag, IdleIsFree
<1>7. ASSUME NEW v \in Sessions \ {s} PROVE RowContinues(v)' /\ CopiesLag(v)' /\ IdleIsFree(v)'
  BY <1>1, OthersKeepBudget DEF rowVars
<1>8. QED
  BY <1>4, <1>5, <1>6, <1>7

\* Closing with nothing but decisions to commit, or without a commit.
LEMMA CloseKeepsBudget ==
  ASSUME BudgetInv, NEW s \in Sessions, Close(s), UNCHANGED <<task, attempts>>,
         decisions' \subseteq Decision, setbacks' \in Nat
  PROVE  BudgetInv'
<1> USE TaskAssumption DEF BudgetInv, TaskTypeOK, PC
<1>1. /\ rowLock' = IF rowLock = s THEN NoSession ELSE rowLock
      /\ pc' = [pc EXCEPT ![s] = "idle"]
      /\ mem' = [mem EXCEPT ![s] = NewTask]
      /\ newTask' = [newTask EXCEPT ![s] = NewTask]
      /\ newAttempts' = [newAttempts EXCEPT ![s] = <<>>]
      /\ newDecisions' = [newDecisions EXCEPT ![s] = {}]
      /\ trigger' = [trigger EXCEPT ![s] = NoDecision]
      /\ used' = [used EXCEPT ![s] = 0]
      /\ UNCHANGED decided
  BY DEF Close
<1>2. NewTask \in Row /\ NewTask.attemptNo = 1
  BY DEF NewTask, Row, TaskState
<1>3. TaskTypeOK'
  BY <1>1, <1>2
<1>4. BudgetCounted'
  BY DEF BudgetCounted
<1>5. RowContinues(s)' /\ CopiesLag(s)' /\ IdleIsFree(s)'
  <2>1. rowLock' # s /\ pc'[s] = "idle" /\ mem'[s].attemptNo = 1 /\ newAttempts'[s] = <<>>
    BY <1>1, <1>2
  <2>2. Counted(s)' \in Nat
    BY <1>3, LengthFacts DEF Counted
  <2>3. QED
    BY <2>1, <2>2 DEF RowContinues, CopiesLag, IdleIsFree
<1>6. ASSUME NEW v \in Sessions \ {s} PROVE RowContinues(v)' /\ CopiesLag(v)' /\ IdleIsFree(v)'
  BY <1>1, OthersKeepBudget
<1>7. QED
  BY <1>3, <1>4, <1>5, <1>6

\* A commit of a session that has not written the row commits decisions only.
LEMMA DecisionsOnly ==
  ASSUME BudgetInv, NEW s \in Sessions, Commit(s), rowLock # s
  PROVE  UNCHANGED <<task, attempts>>
<1>1. newAttempts[s] = <<>> /\ attempts \in Seq(Attempt)
  BY DEF BudgetInv, TaskTypeOK
<1>2. attempts \o <<>> = attempts
  BY <1>1
<1>3. QED
  BY <1>1, <1>2 DEF Commit, Base

\* The committed numbering becomes what the session had made of it.
LEMMA CommitKeepsBudget ==
  ASSUME BudgetInv, NEW s \in Sessions, Commit(s), rowLock = s
  PROVE  BudgetInv'
<1> USE TaskAssumption DEF BudgetInv, TaskTypeOK, PC
<1>1. /\ rowLock = s /\ rowLock' = NoSession
      /\ task' = newTask[s]
      /\ attempts' = attempts \o newAttempts[s]
      /\ decisions' = decisions \union newDecisions[s]
      /\ pc' = [pc EXCEPT ![s] = "idle"]
      /\ mem' = [mem EXCEPT ![s] = NewTask]
      /\ newTask' = [newTask EXCEPT ![s] = NewTask]
      /\ newAttempts' = [newAttempts EXCEPT ![s] = <<>>]
      /\ newDecisions' = [newDecisions EXCEPT ![s] = {}]
      /\ trigger' = [trigger EXCEPT ![s] = NoDecision]
      /\ used' = [used EXCEPT ![s] = 0]
      /\ UNCHANGED boundVars
  BY DEF Commit, Close, Base, boundVars
<1>2. NewTask \in Row /\ NewTask.attemptNo = 1
  BY DEF NewTask, Row, TaskState
<1>3. /\ attempts' \in Seq(Attempt) /\ Len(attempts') = Counted(s)
      /\ Len(attempts) \in Nat /\ Len(newAttempts[s]) \in Nat
      /\ DOMAIN attempts' = 1 .. Len(attempts) + Len(newAttempts[s])
      /\ DOMAIN newAttempts[s] = 1 .. Len(newAttempts[s])
      /\ DOMAIN attempts = 1 .. Len(attempts)
      /\ \A k \in 1 .. Len(attempts) : attempts'[k] = attempts[k]
      /\ \A k \in 1 .. Len(newAttempts[s]) : attempts'[Len(attempts) + k] = newAttempts[s][k]
  BY <1>1, ConcatFacts, LengthFacts DEF Counted
<1>4. TaskTypeOK'
  BY <1>1, <1>2, <1>3 DEF boundVars
<1>5. BudgetCounted'
  <2>1. RowContinues(s)
    OBVIOUS
  <2>2. ASSUME NEW k \in DOMAIN attempts' PROVE attempts'[k].no = k
    <3>1. CASE k \in 1 .. Len(attempts)
      BY <1>3, <3>1 DEF BudgetCounted
    <3>2. CASE k \notin 1 .. Len(attempts)
      <4>1. k - Len(attempts) \in 1 .. Len(newAttempts[s])
        BY <1>3, <3>2
      <4>2. attempts'[k] = newAttempts[s][k - Len(attempts)]
        BY <1>3, <4>1
      <4>3. QED
        BY <1>1, <1>3, <2>1, <4>1, <4>2 DEF RowContinues
    <3>3. QED
      BY <3>1, <3>2
  <2>3. QED
    BY <1>1, <1>3, <2>1, <2>2 DEF RowContinues, BudgetCounted
<1>6. RowContinues(s)' /\ CopiesLag(s)' /\ IdleIsFree(s)'
  <2>1. rowLock' # s /\ pc'[s] = "idle" /\ mem'[s].attemptNo = 1
    BY <1>1, <1>2
  <2>2. Counted(s)' \in Nat
    BY <1>4, LengthFacts DEF Counted
  <2>3. QED
    BY <2>1, <2>2 DEF RowContinues, CopiesLag, IdleIsFree
<1>7. ASSUME NEW v \in Sessions \ {s} PROVE RowContinues(v)' /\ CopiesLag(v)' /\ IdleIsFree(v)'
  <2>1. newAttempts[v] = <<>> /\ newAttempts'[v] = <<>> /\ Len(<<>>) = 0
    BY <1>1
  <2>2. Counted(v) = Len(attempts) /\ Counted(v)' = Len(attempts) + Len(newAttempts[s])
    BY <1>3, <2>1 DEF Counted
  <2>3. /\ rowLock' # v /\ pc'[v] = pc[v] /\ mem'[v] = mem[v] /\ used'[v] = used[v]
        /\ mem[v].attemptNo \in Nat /\ used[v] \in Nat /\ CopiesLag(v)
    BY <1>1 DEF Row
  <2>4. QED
    BY <1>3, <2>1, <2>2, <2>3 DEF RowContinues, CopiesLag, IdleIsFree
<1>8. QED
  BY <1>4, <1>5, <1>6, <1>7

LEMMA NextBudgetInv == BudgetInv /\ [Next]_vars => BudgetInv'
<1> SUFFICES ASSUME BudgetInv, [Next]_vars PROVE BudgetInv'
  OBVIOUS
<1>1. ASSUME NEW s \in Sessions, Drive(s) PROVE BudgetInv'
  <2>1. CASE Load(s)
    BY <2>1, LoadKeepsBudget
  <2>2. ASSUME NEW proposed \in TaskState, Move(s, proposed) PROVE BudgetInv'
    BY <2>2, MoveKeepsBudget
  <2>3. CASE Judge(s)
    BY <2>3, EvaluateKeepsBudget DEF Judge
  <2>4. CASE Rework(s) /\ ~Refuse(s)
    BY <2>4, CountKeepsBudget, OpenReworkKeepsBudget, BlockTaskKeepsBudget DEF Rework
  <2>5. CASE Refuse(s) \/ Leave(s)
    BY <2>5, CloseKeepsBudget DEF Refuse, Leave, BudgetInv, TaskTypeOK, rowVars
  <2>6. CASE Commit(s)
    <3>1. CASE rowLock = s
      BY <2>6, <3>1, CommitKeepsBudget
    <3>2. CASE rowLock # s
      <4>1. Close(s) /\ decisions' \subseteq Decision /\ setbacks' \in Nat
        BY <2>6 DEF Commit, BudgetInv, TaskTypeOK
      <4>2. QED
        BY <2>6, <3>2, <4>1, DecisionsOnly, CloseKeepsBudget
    <3>3. QED
      BY <3>1, <3>2
  <2>7. QED
    BY <1>1, <2>1, <2>2, <2>3, <2>4, <2>5, <2>6 DEF Drive
<1>2. ASSUME NEW s \in Sessions, Abort(s) PROVE BudgetInv'
  <2>1. setbacks' \in Nat /\ UNCHANGED <<task, attempts>> /\ decisions' \subseteq Decision
    BY <1>2 DEF Abort, BudgetInv, TaskTypeOK, rowVars
  <2>2. QED
    BY <1>2, <2>1, CloseKeepsBudget DEF Abort
<1>3. CASE UNCHANGED vars
  BY <1>3 DEF vars, rowVars, sessionVars, boundVars, BudgetInv, TaskTypeOK, BudgetCounted,
              RowContinues, CopiesLag, IdleIsFree, Counted
<1>4. QED
  BY <1>1, <1>2, <1>3 DEF Next

LEMMA BudgetInvHolds == Spec => []BudgetInv
BY InitBudgetInv, NextBudgetInv, PTL DEF Spec

\* Rows and sessions hold values of the right kind, and only the session that has
\* updated the task's row holds a version of its own.
THEOREM TaskTypeCorrect == Spec => []TaskTypeOK
<1>1. BudgetInv => TaskTypeOK
  BY DEF BudgetInv
<1>2. QED
  BY <1>1, BudgetInvHolds, PTL

\* One budget: however many sessions race with old copies and old counts, the rework
\* rows are numbered without gap or repetition and attempt_no mirrors their number.
THEOREM BudgetIsCounted == Spec => []BudgetCounted
<1>1. BudgetInv => BudgetCounted
  BY DEF BudgetInv
<1>2. QED
  BY <1>1, BudgetInvHolds, PTL

-----------------------------------------------------------------------------
(* Reworks answer failures. *)

Answers(decision, n) == decision.verdict = "fail" /\ decision.judged <= n

\* What the session is about to commit rests on decisions that it commits with it, or
\* finds committed; a decision, like the copy it was made from, is never ahead of the
\* rows.
RestsOnDecisions(s) ==
  /\ \A k \in DOMAIN newAttempts[s] :
       /\ newAttempts[s][k].answers \in Visible(s)
       /\ Answers(newAttempts[s][k].answers, newAttempts[s][k].no)
  /\ pc[s] = "counted" => trigger[s] \in Visible(s) /\ trigger[s].verdict = "fail"
  /\ \A d \in newDecisions[s] : d.judged <= Counted(s) + 1

DecisionsLag == \A d \in decisions : d.judged <= Len(attempts) + 1

GatesInv ==
  /\ BudgetInv
  /\ ReworksAnswerFailures
  /\ DecisionsLag
  /\ \A s \in Sessions : RestsOnDecisions(s)

LEMMA InitGatesInv == Init => GatesInv
<1> SUFFICES ASSUME Init PROVE GatesInv
  OBVIOUS
<1>1. ReworksAnswerFailures /\ DecisionsLag
  BY DEF Init, ReworksAnswerFailures, DecisionsLag
<1>2. ASSUME NEW s \in Sessions PROVE RestsOnDecisions(s)
  <2>1. newAttempts[s] = <<>> /\ newDecisions[s] = {} /\ pc[s] = "idle"
    BY DEF Init
  <2>2. DOMAIN newAttempts[s] = {}
    BY <2>1
  <2>3. QED
    BY <2>1, <2>2 DEF RestsOnDecisions
<1>3. QED
  BY <1>1, <1>2, InitBudgetInv DEF GatesInv

\* Counts are numbers, and never fall for who keeps its rows.
LEMMA CountsGrow ==
  ASSUME BudgetInv, BudgetInv', NEW v \in Sessions,
         newAttempts'[v] = newAttempts[v], Len(attempts') >= Len(attempts)
  PROVE  Counted(v) \in Nat /\ Counted(v)' \in Nat /\ Counted(v)' >= Counted(v)
<1>1. /\ Len(attempts) \in Nat /\ Len(attempts') \in Nat
      /\ Len(newAttempts[v]) \in Nat
  BY LengthFacts DEF BudgetInv, TaskTypeOK
<1>2. QED
  BY <1>1 DEF Counted

\* A session that does nothing rests on what it did, when committed rows are added.
LEMMA OthersRest ==
  ASSUME GatesInv, BudgetInv', NEW v \in Sessions,
         newAttempts'[v] = newAttempts[v], newDecisions'[v] = newDecisions[v],
         trigger'[v] = trigger[v], pc'[v] = pc[v],
         Len(attempts') >= Len(attempts), decisions \subseteq decisions'
  PROVE  RestsOnDecisions(v)'
<1>1. RestsOnDecisions(v) /\ Visible(v) \subseteq Visible(v)'
  BY DEF GatesInv, Visible
<1>2. \A d \in newDecisions[v] : d.judged \in Nat
  BY DEF GatesInv, BudgetInv, TaskTypeOK, Decision
<1>3. Counted(v) \in Nat /\ Counted(v)' \in Nat /\ Counted(v)' >= Counted(v)
  BY CountsGrow DEF GatesInv
<1>4. QED
  BY <1>1, <1>2, <1>3 DEF RestsOnDecisions, Answers

\* A step that commits nothing keeps what is committed, and everybody else's promises.
LEMMA KeepsGates ==
  ASSUME GatesInv, [Next]_vars, NEW s \in Sessions, UNCHANGED rowVars,
         \A v \in Sessions \ {s} :
           /\ newAttempts'[v] = newAttempts[v] /\ newDecisions'[v] = newDecisions[v]
           /\ trigger'[v] = trigger[v] /\ pc'[v] = pc[v],
         RestsOnDecisions(s)'
  PROVE  GatesInv'
<1>1. BudgetInv'
  BY NextBudgetInv DEF GatesInv
<1>2. ReworksAnswerFailures' /\ DecisionsLag'
  BY DEF GatesInv, ReworksAnswerFailures, DecisionsLag, rowVars
<1>3. Len(attempts') >= Len(attempts) /\ decisions \subseteq decisions'
  BY LengthFacts DEF rowVars, GatesInv, BudgetInv, TaskTypeOK
<1>4. ASSUME NEW v \in Sessions \ {s} PROVE RestsOnDecisions(v)'
  BY <1>1, <1>3, OthersRest
<1>5. QED
  BY <1>1, <1>2, <1>4 DEF GatesInv

LEMMA EvaluateRests ==
  ASSUME GatesInv, NEW s \in Sessions, NEW v \in {"pass", "fail"}, Evaluate(s, v)
  PROVE  RestsOnDecisions(s)'
<1> DEFINE new == [id |-> decided', judged |-> mem[s].attemptNo, verdict |-> v]
<1> USE DEF GatesInv, BudgetInv, TaskTypeOK
<1>1. /\ newDecisions'[s] = newDecisions[s] \union {new}
      /\ UNCHANGED <<rowVars, pc, newAttempts, trigger>>
  BY DEF Evaluate
<1>2. Visible(s) \subseteq Visible(s)' /\ Counted(s)' = Counted(s)
  BY <1>1 DEF Visible, Counted, rowVars
<1>3. new.judged <= Counted(s) + 1
  BY DEF CopiesLag
<1> HIDE DEF new
<1>4. QED
  BY <1>1, <1>2, <1>3 DEF RestsOnDecisions

LEMMA OpenReworkRests ==
  ASSUME GatesInv, BudgetInv', NEW s \in Sessions, OpenRework(s)
  PROVE  RestsOnDecisions(s)'
<1> DEFINE row == [no |-> used[s] + 1, answers |-> trigger[s]]
<1> USE DEF GatesInv, BudgetInv, TaskTypeOK
<1>1. /\ pc[s] = "counted" /\ pc'[s] = "open"
      /\ newAttempts'[s] = Append(newAttempts[s], row)
      /\ UNCHANGED <<rowVars, newDecisions>>
  BY DEF OpenRework, ReturnTask
<1>2. used[s] = Counted(s) /\ Counted(s) \in Nat
  BY NextReworkNumber, LengthFacts DEF Counted
<1>3. Visible(s)' = Visible(s) /\ trigger[s] \in Visible(s) /\ trigger[s] \in Decision
  BY <1>1 DEF RestsOnDecisions, Visible, rowVars
<1>4. trigger[s].judged <= Counted(s) + 1
  <2>1. Len(attempts) \in Nat /\ Len(newAttempts[s]) \in Nat
    BY LengthFacts
  <2>2. CASE trigger[s] \in decisions
    BY <1>3, <2>1, <2>2 DEF DecisionsLag, Counted, Decision
  <2>3. CASE trigger[s] \in newDecisions[s]
    BY <2>3 DEF RestsOnDecisions
  <2>4. QED
    BY <1>3, <2>2, <2>3 DEF Visible
<1>5. Answers(row.answers, row.no)
  BY <1>1, <1>2, <1>4 DEF Answers, RestsOnDecisions
<1>6. row \in Attempt
  BY <1>3 DEF Attempt, OpenRework, AttemptFits
<1>7. row.answers = trigger[s]
  OBVIOUS
<1> HIDE DEF row
<1>8. /\ DOMAIN newAttempts[s] = 1 .. Len(newAttempts[s]) /\ Len(newAttempts[s]) \in Nat
      /\ DOMAIN newAttempts'[s] = 1 .. Len(newAttempts[s]) + 1
      /\ \A k \in DOMAIN newAttempts[s] : newAttempts'[s][k] = newAttempts[s][k]
      /\ newAttempts'[s][Len(newAttempts[s]) + 1] = row
      /\ Len(newAttempts'[s]) = Len(newAttempts[s]) + 1
  BY <1>1, <1>6, AppendFacts, LengthFacts
<1>9. Counted(s)' = Counted(s) + 1
  <2>1. Len(attempts) \in Nat /\ attempts' = attempts
    BY <1>1, LengthFacts DEF rowVars
  <2>2. QED
    BY <1>8, <2>1 DEF Counted
<1>10. ASSUME NEW k \in DOMAIN newAttempts'[s]
       PROVE  \/ newAttempts'[s][k] = row
              \/ k \in DOMAIN newAttempts[s] /\ newAttempts'[s][k] = newAttempts[s][k]
  BY <1>8
<1>11. \A d \in newDecisions[s] : d.judged <= Counted(s)' + 1
  BY <1>2, <1>9 DEF RestsOnDecisions, Decision
<1>12. QED
  BY <1>1, <1>3, <1>5, <1>7, <1>10, <1>11 DEF RestsOnDecisions

LEMMA CloseRests ==
  ASSUME GatesInv, NEW s \in Sessions, Close(s)
  PROVE  RestsOnDecisions(s)'
<1>1. pc'[s] = "idle" /\ newAttempts'[s] = <<>> /\ newDecisions'[s] = {}
  BY DEF GatesInv, BudgetInv, TaskTypeOK, Close
<1>2. DOMAIN newAttempts'[s] = {}
  BY <1>1
<1>3. QED
  BY <1>1, <1>2 DEF RestsOnDecisions

\* Rework rows are committed with the decisions that they answer, or after them.
LEMMA CommitAnswers ==
  ASSUME GatesInv, NEW s \in Sessions, Commit(s)
  PROVE  /\ ReworksAnswerFailures' /\ DecisionsLag'
         /\ Len(attempts') >= Len(attempts) /\ decisions \subseteq decisions'
<1> USE DEF GatesInv, BudgetInv, TaskTypeOK
<1>1. /\ attempts' = attempts \o newAttempts[s]
      /\ decisions' = decisions \union newDecisions[s]
  BY DEF Commit
<1>2. /\ Len(attempts) \in Nat /\ Len(newAttempts[s]) \in Nat
      /\ DOMAIN attempts' = 1 .. Len(attempts) + Len(newAttempts[s])
      /\ Len(attempts') = Counted(s)
      /\ DOMAIN newAttempts[s] = 1 .. Len(newAttempts[s])
      /\ DOMAIN attempts = 1 .. Len(attempts)
      /\ \A k \in 1 .. Len(attempts) : attempts'[k] = attempts[k]
      /\ \A k \in 1 .. Len(newAttempts[s]) : attempts'[Len(attempts) + k] = newAttempts[s][k]
  BY <1>1, ConcatFacts, LengthFacts DEF Counted
<1>3. \A k \in DOMAIN newAttempts[s] : newAttempts[s][k].no = Len(attempts) + k
  <2>1. CASE rowLock = s
    BY <2>1 DEF RowContinues
  <2>2. CASE rowLock # s
    BY <2>2
  <2>3. QED
    BY <2>1, <2>2
<1>4. ASSUME NEW k \in DOMAIN attempts'
      PROVE  attempts'[k].answers \in decisions' /\ Answers(attempts'[k].answers, k)
  <2>1. CASE k \in 1 .. Len(attempts)
    BY <1>1, <1>2, <2>1 DEF ReworksAnswerFailures, Answers
  <2>2. CASE k \notin 1 .. Len(attempts)
    <3> DEFINE j == k - Len(attempts)
    <3>1. j \in DOMAIN newAttempts[s] /\ k = Len(attempts) + j
      BY <1>2, <2>2
    <3>2. attempts'[k] = newAttempts[s][j] /\ newAttempts[s][j].no = k
      BY <1>2, <1>3, <3>1
    <3>3. QED
      BY <1>1, <3>1, <3>2 DEF RestsOnDecisions, Visible
  <2>3. QED
    BY <2>1, <2>2
<1>5. ReworksAnswerFailures'
  BY <1>4 DEF ReworksAnswerFailures, Answers
<1>6. DecisionsLag'
  <2> SUFFICES ASSUME NEW d \in decisions' PROVE d.judged <= Len(attempts') + 1
    BY DEF DecisionsLag
  <2>1. CASE d \in decisions
    BY <1>2, <2>1 DEF DecisionsLag, Counted, Decision
  <2>2. CASE d \in newDecisions[s]
    BY <1>2, <2>2 DEF RestsOnDecisions
  <2>3. QED
    BY <1>1, <2>1, <2>2
<1>7. QED
  BY <1>1, <1>2, <1>5, <1>6 DEF Counted

LEMMA NextGatesInv == GatesInv /\ [Next]_vars => GatesInv'
<1> SUFFICES ASSUME GatesInv, [Next]_vars PROVE GatesInv'
  OBVIOUS
<1> USE DEF GatesInv, BudgetInv, TaskTypeOK
<1>0. BudgetInv'
  BY NextBudgetInv
<1>1. ASSUME NEW s \in Sessions, Load(s) \/ (\E proposed \in TaskState : Move(s, proposed))
                                         \/ BlockTask(s)
      PROVE  GatesInv'
  <2>1. /\ pc'[s] = "open" /\ UNCHANGED <<rowVars, newAttempts, newDecisions>>
        /\ \A v \in Sessions \ {s} : trigger'[v] = trigger[v] /\ pc'[v] = pc[v]
    BY <1>1 DEF Load, Move, BlockTask, ReturnTask
  <2>2. RestsOnDecisions(s)'
    BY <2>1 DEF RestsOnDecisions, Visible, Counted, rowVars
  <2>3. QED
    BY <2>1, <2>2, KeepsGates
<1>2. ASSUME NEW s \in Sessions, NEW v \in {"pass", "fail"}, Evaluate(s, v) PROVE GatesInv'
  <2>1. RestsOnDecisions(s)'
    BY <1>2, EvaluateRests
  <2>2. QED
    BY <1>2, <2>1, KeepsGates DEF Evaluate
<1>3. ASSUME NEW s \in Sessions, NEW decision \in Visible(s), CountAttempts(s, decision)
      PROVE  GatesInv'
  <2>1. /\ decision.verdict = "fail" /\ pc'[s] = "counted" /\ trigger'[s] = decision
        /\ UNCHANGED <<rowVars, newAttempts, newDecisions>>
    BY <1>3 DEF CountAttempts
  <2>2. RestsOnDecisions(s)'
    BY <2>1 DEF RestsOnDecisions, Visible, Counted, rowVars
  <2>3. QED
    BY <1>3, <2>2, KeepsGates DEF CountAttempts
<1>4. ASSUME NEW s \in Sessions, OpenRework(s) PROVE GatesInv'
  <2>1. RestsOnDecisions(s)'
    BY <1>0, <1>4, OpenReworkRests
  <2>2. QED
    BY <1>4, <2>1, KeepsGates DEF OpenRework, ReturnTask
<1>5. ASSUME NEW s \in Sessions, Refuse(s) \/ Leave(s) \/ Abort(s) PROVE GatesInv'
  <2>1. Close(s) /\ UNCHANGED rowVars
    BY <1>5 DEF Refuse, Leave, Abort
  <2>2. RestsOnDecisions(s)'
    BY <2>1, CloseRests
  <2>3. QED
    BY <2>1, <2>2, KeepsGates DEF Close
<1>6. ASSUME NEW s \in Sessions, Commit(s) PROVE GatesInv'
  <2>1. /\ ReworksAnswerFailures' /\ DecisionsLag'
        /\ Len(attempts') >= Len(attempts) /\ decisions \subseteq decisions'
    BY <1>6, CommitAnswers
  <2>2. RestsOnDecisions(s)'
    BY <1>6, CloseRests DEF Commit
  <2>3. ASSUME NEW v \in Sessions \ {s} PROVE RestsOnDecisions(v)'
    <3>1. /\ newAttempts'[v] = newAttempts[v] /\ newDecisions'[v] = newDecisions[v]
          /\ trigger'[v] = trigger[v] /\ pc'[v] = pc[v]
      BY <1>6 DEF Commit, Close
    <3>2. QED
      BY <1>0, <2>1, <3>1, OthersRest
  <2>4. QED
    BY <1>0, <2>1, <2>2, <2>3
<1>7. CASE UNCHANGED vars
  BY <1>0, <1>7 DEF vars, rowVars, sessionVars, ReworksAnswerFailures, DecisionsLag,
                    RestsOnDecisions, Visible, Counted
<1>8. QED
  BY <1>1, <1>2, <1>3, <1>4, <1>5, <1>6, <1>7 DEF Next, Drive, Judge, Rework

\* Every rework answers a FAIL on record, of an attempt no later than the one it closes,
\* however old the copies of the task and the decisions that sessions act on.
THEOREM ReworksAlwaysAnswerFailures == Spec => []ReworksAnswerFailures
<1>1. GatesInv => ReworksAnswerFailures
  BY DEF GatesInv
<1>2. QED
  BY <1>1, InitGatesInv, NextGatesInv, PTL DEF Spec
=============================================================================
