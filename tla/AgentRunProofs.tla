--------------------------- MODULE AgentRunProofs ---------------------------
(***************************************************************************)
(* Theorems about AgentRun: for any runs, deciders, tasks and usages, any  *)
(* ceilings, and any bounds.                                               *)
(***************************************************************************)
EXTENDS AgentRun, FiniteSetTheorems, WellFoundedInduction, TLAPS

-----------------------------------------------------------------------------
(* The sum that Spend is. *)

Pick(s) == CHOOSE x \in s : TRUE

\* h adds up the costs of each subset of U: the function that MapThenSumSet defines.
Sums(h, U) ==
  h = [s \in SUBSET U |-> IF s = {} THEN 0 ELSE Pick(s).cost + h[s \ {Pick(s)}]]

\* A set of subsets of a finite set, if it is not empty, has a member without a smaller
\* one in it.
LEMMA SmallestSubset ==
  ASSUME NEW S, IsFiniteSet(S), NEW T, T \subseteq SUBSET S, T # {}
  PROVE  \E U \in T : \A V \in T : V \subseteq U => V = U
<1> DEFINE Less == StrictSubsetOrdering(S)
<1>1. T \subseteq FiniteSubsetsOf(S)
  BY FS_FiniteSubsetsOfFinite
<1>2. IsWellFoundedOn(Less, FiniteSubsetsOf(S))
  BY FS_StrictSubsetOrderingWellFounded
<1>3. PICK U \in T : \A V \in T : <<V, U>> \notin Less
  <2> HIDE DEF Less
  <2> QED
    BY <1>1, <1>2, WFMin
<1>4. ASSUME NEW V \in T, V \subseteq U, V # U PROVE FALSE
  <2>1. V \in SUBSET S /\ U \in SUBSET S
    OBVIOUS
  <2>2. <<V, U>> \in Less
    BY <1>4, <2>1 DEF StrictSubsetOrdering
  <2>3. QED
    BY <1>3, <2>2
<1>5. QED
  BY <1>4

LEMMA PickIsIn == ASSUME NEW s, s # {} PROVE Pick(s) \in s
BY DEF Pick

\* Two such functions agree where both are defined.
LEMMA SumsAgree ==
  ASSUME NEW U, IsFiniteSet(U), NEW V, NEW g, NEW h, Sums(g, U), Sums(h, V)
  PROVE  \A s \in SUBSET U : s \in SUBSET V => g[s] = h[s]
<1> DEFINE T == {s \in SUBSET U : s \in SUBSET V /\ g[s] # h[s]}
<1>1. SUFFICES ASSUME T # {} PROVE FALSE
  OBVIOUS
<1>2. T \subseteq SUBSET U
  OBVIOUS
<1>3. PICK s \in T : \A t \in T : t \subseteq s => t = s
  <2> HIDE DEF T
  <2> QED
    BY <1>1, <1>2, SmallestSubset
<1>4. s # {}
  BY DEF Sums
<1>5. PICK x : x = Pick(s)
  OBVIOUS
<1>6. x \in s
  BY <1>4, <1>5, PickIsIn
<1>7. g[s \ {x}] = h[s \ {x}]
  <2>1. s \ {x} \in SUBSET U /\ s \ {x} \in SUBSET V /\ s \ {x} \subseteq s /\ s \ {x} # s
    BY <1>6
  <2>2. s \ {x} \notin T
    BY <1>3, <2>1
  <2>3. QED
    BY <2>1, <2>2
<1>8. g[s] = x.cost + g[s \ {x}] /\ h[s] = x.cost + h[s \ {x}]
  BY <1>4, <1>5 DEF Sums
<1>9. QED
  BY <1>7, <1>8

\* There is one: the smallest subset without one would have one, put together from those
\* of its own subsets.
LEMMA SumsExist ==
  ASSUME NEW S, IsFiniteSet(S)
  PROVE  \E h : Sums(h, S)
<1> DEFINE T == {U \in SUBSET S : ~\E h : Sums(h, U)}
<1>1. SUFFICES ASSUME T # {} PROVE FALSE
  OBVIOUS
<1>2. T \subseteq SUBSET S
  OBVIOUS
<1>3. PICK U \in T : \A V \in T : V \subseteq U => V = U
  <2> HIDE DEF T
  <2> QED
    BY <1>1, <1>2, SmallestSubset
<1> DEFINE f(V) == CHOOSE h : Sums(h, V)
           Sum(s) == IF s = {} THEN 0 ELSE Pick(s).cost + f(s \ {Pick(s)})[s \ {Pick(s)}]
           g == [s \in SUBSET U |-> Sum(s)]
<1>4. \A V \in SUBSET U : V # U => Sums(f(V), V)
  <2>1. \A V \in SUBSET U : V # U => \E h : Sums(h, V)
    BY <1>3
  <2>2. QED
    BY <2>1
<1>5. \A s \in SUBSET U : IsFiniteSet(s)
  BY FS_Subset
<1>6. \A s \in SUBSET U : s # {} => /\ Pick(s) \in s /\ s \ {Pick(s)} \in SUBSET U
                                    /\ s \ {Pick(s)} # U
  BY PickIsIn
<1> HIDE DEF f
<1>7. \A s \in SUBSET U : s # U => f(s)[s] = g[s]
  <2> SUFFICES ASSUME NEW s \in SUBSET U, s # U PROVE f(s)[s] = g[s]
    OBVIOUS
  <2>1. Sums(f(s), s)
    BY <1>4
  <2>2. CASE s = {}
    <3>1. f(s)[s] = 0
      BY <2>1, <2>2 DEF Sums
    <3>2. QED
      BY <2>2, <3>1
  <2>3. CASE s # {}
    <3>1. PICK t : t = s \ {Pick(s)}
      OBVIOUS
    <3>2. t \in SUBSET U /\ t # U /\ t \in SUBSET s /\ IsFiniteSet(t) /\ t \in SUBSET t
      BY <1>5, <1>6, <2>3, <3>1
    <3>3. Sums(f(t), t)
      BY <1>4, <3>2
    <3>4. f(t)[t] = f(s)[t]
      BY <2>1, <3>2, <3>3, SumsAgree
    <3>5. f(s)[s] = Pick(s).cost + f(s)[t]
      BY <2>1, <2>3, <3>1 DEF Sums
    <3>6. g[s] = Pick(s).cost + f(t)[t]
      BY <2>3, <3>1
    <3>7. QED
      BY <3>4, <3>5, <3>6
  <2>4. QED
    BY <2>2, <2>3
<1>8. \A s \in SUBSET U : s # {} => f(s \ {Pick(s)})[s \ {Pick(s)}] = g[s \ {Pick(s)}]
  BY <1>6, <1>7
<1>9. Sums(g, U)
  BY <1>8 DEF Sums
<1>10. QED
  BY <1>3, <1>9

\* What a finite set of numbers of tokens adds up to is a number of tokens.
LEMMA SumIsNat ==
  ASSUME NEW S, IsFiniteSet(S), \A a \in S : a.cost \in Nat
  PROVE  MapThenSumSet(LAMBDA a : a.cost, S) \in Nat
<1>1. PICK h : Sums(h, S) /\ MapThenSumSet(LAMBDA a : a.cost, S) = h[S]
  BY SumsExist DEF MapThenSumSet, MapThenFoldSet, Sums, Pick
<1> DEFINE T == {s \in SUBSET S : h[s] \notin Nat}
<1>2. SUFFICES ASSUME T # {} PROVE FALSE
  BY <1>1
<1>3. T \subseteq SUBSET S
  OBVIOUS
<1>4. PICK s \in T : \A t \in T : t \subseteq s => t = s
  <2> HIDE DEF T
  <2> QED
    BY <1>2, <1>3, SmallestSubset
<1>5. s # {}
  BY <1>1 DEF Sums
<1>6. Pick(s) \in s /\ Pick(s).cost \in Nat
  BY <1>5, PickIsIn
<1>7. h[s \ {Pick(s)}] \in Nat
  <2>1. s \ {Pick(s)} \in SUBSET S /\ s \ {Pick(s)} \subseteq s /\ s \ {Pick(s)} # s
    BY <1>6
  <2>2. s \ {Pick(s)} \notin T
    BY <1>4, <2>1
  <2>3. QED
    BY <2>1, <2>2
<1>8. h[s] = Pick(s).cost + h[s \ {Pick(s)}]
  BY <1>1, <1>5 DEF Sums
<1>9. QED
  BY <1>6, <1>7, <1>8

\* What a run reads of the spending is a number of tokens.
LEMMA SpendIsNat ==
  ASSUME NEW S, IsFiniteSet(S), S \subseteq Action
  PROVE  Spend(S) \in Nat
<1>1. PICK C : C = {a \in S : a.cost # NoCost}
  OBVIOUS
<1>2. IsFiniteSet(C) /\ \A a \in C : a.cost \in Nat
  BY <1>1, FS_Subset DEF Action
<1>3. MapThenSumSet(LAMBDA a : a.cost, C) \in Nat
  BY <1>2, SumIsNat
<1>4. QED
  BY <1>1, <1>3 DEF Spend

\* A finite set of natural numbers that is not empty has a greatest element, and Max is it:
\* among the sets of what is greater than one element, take a smallest.
LEMMA SmallestAbove ==
  ASSUME NEW S, IsFiniteSet(S), S # {}
  PROVE  \E m \in S : \A x \in S :
           {y \in S : y > x} \subseteq {y \in S : y > m} => {y \in S : y > x} = {y \in S : y > m}
<1>1. PICK T : T = {{y \in S : y > x} : x \in S}
  OBVIOUS
<1>2. T \subseteq SUBSET S /\ T # {}
  BY <1>1
<1>3. PICK U \in T : \A V \in T : V \subseteq U => V = U
  BY <1>2, SmallestSubset
<1>4. PICK m \in S : U = {y \in S : y > m}
  BY <1>1
<1>5. \A x \in S : {y \in S : y > x} \in T
  BY <1>1
<1>6. ASSUME NEW x \in S PROVE {y \in S : y > x} \subseteq U => {y \in S : y > x} = U
  <2>1. PICK V \in T : V = {y \in S : y > x}
    BY <1>5
  <2>2. QED
    BY <1>3, <2>1
<1>7. QED
  BY <1>4, <1>6

LEMMA FiniteMax ==
  ASSUME NEW S, IsFiniteSet(S), S \subseteq Nat, S # {}
  PROVE  Max(S) \in S /\ \A x \in S : x <= Max(S)
<1>1. PICK m \in S : \A x \in S :
        {y \in S : y > x} \subseteq {y \in S : y > m} => {y \in S : y > x} = {y \in S : y > m}
  BY SmallestAbove
<1>2. ASSUME NEW x \in S, x > m PROVE FALSE
  <2>1. x \in Nat /\ m \in Nat /\ \A y \in S : y \in Nat
    OBVIOUS
  <2>2. {y \in S : y > x} \subseteq {y \in S : y > m}
    <3>1. \A y \in S : y > x => y > m
      BY <1>2, <2>1
    <3>2. QED
      BY <3>1, Zenon
  <2>3. x \in {y \in S : y > m} /\ x \notin {y \in S : y > x}
    BY <1>2, <2>1
  <2>4. QED
    BY <1>1, <2>2, <2>3
<1>3. \A x \in S : x <= m
  BY <1>2
<1>4. \E y \in S : \A x \in S : y >= x
  BY <1>3
<1>5. QED
  BY <1>4 DEF Max

-----------------------------------------------------------------------------
(* The inductive invariant. *)

SameKey(a, b) == a.task = b.task /\ a.sequence = b.sequence

\* The rows S of run r, for task t and numbered up to m: each number up to m is committed or
\* among them, and none of them has the key of another's or a committed row.
Fits(r, S, t, m) ==
  /\ IsFiniteSet(S)
  /\ \A a \in S : a.task = t /\ a.sequence <= m
  /\ \A a, b \in S : a.sequence = b.sequence => a = b
  /\ \A n \in 1 .. m : \E a \in actions \union S : HasKey(a, t, n)
  /\ \A a \in S, b \in actions : ~SameKey(a, b)
  /\ \A s \in Runs \ {r} : \A a \in S, b \in rows[s] : ~SameKey(a, b)

KeysInv ==
  /\ IsFiniteSet(actions)
  /\ SequencesGapless
  /\ \A r \in Runs : Fits(r, rows[r], task[r], sequence[r])

\* Row a is of a call that has been answered or has failed, with the evidence and the cost
\* that go with it, or of a refusal of a call that is in S.
Settled(a, S) ==
  \/ /\ a.kind = "call" /\ a.state = "succeeded"
     /\ a.evidence = {"request", "response"} /\ a.cost # NoCost
  \/ /\ a.kind = "call" /\ a.state = "failed"
     /\ a.evidence = {"request", "failure"} /\ a.cost = NoCost
  \/ /\ a.kind = "refusal" /\ a.state = "planned"
     /\ a.evidence = {"proposal"} /\ a.cost = NoCost
     /\ \E b \in S : HasKey(b, a.task, a.sequence - 1) /\ b.state = "succeeded"

HasCall(r) == pc[r] \in {"attempting", "calling"}

\* A run's rows are settled but for the call in hand, and a refusal follows a call.
CallInv(r) ==
  /\ HasCall(r) => \E a \in rows[r] :
       /\ a.sequence = sequence[r] /\ a.kind = "call" /\ a.cost = NoCost
       /\ a.evidence = IF pc[r] = "calling" THEN {"request"} ELSE {}
  /\ pc[r] = "refusing" => \E a \in rows[r] : a.sequence = sequence[r] /\ a.state = "succeeded"
  /\ \A a \in rows[r] : Settled(a, rows[r]) \/ (HasCall(r) /\ a.sequence = sequence[r])

\* No run that is in the midst of a call commits.
CallsAreSettled == \A a \in actions : Settled(a, actions)

CallsInv ==
  /\ CallsAreSettled
  /\ \A r \in Runs : CallInv(r)

\* Who has made a call has the chain head, and what it has read of the budget since still
\* stands.
TurnInv(r) ==
  /\ pc[r] \in {"calling", "refusing"} \/ turn[r] > 0 => headLock = r
  /\ turn[r] = 0 => /\ \A a, b \in rows[r] : a = b
                    /\ pc[r] \notin {"attempting", "calling", "refusing"} => rows[r] = {}
  /\ turn[r] > 0 /\ pc[r] = "weighing" => seenSpend[r] = Spend(Visible(r))
  /\ turn[r] > 0 /\ pc[r] \in {"warning", "planning", "attempting", "calling"}
       => ceiling = NoBudget \/ Spend(Visible(r)) < ceiling

TurnsInv == \A r \in Runs : TurnInv(r)


-----------------------------------------------------------------------------
(* Types. *)

\* The highest number of a task's committed actions is 0 or one of theirs.
LEMMA HighestIsCommitted ==
  ASSUME actions \subseteq Action, IsFiniteSet(actions), NEW t
  PROVE  /\ Highest(t) \in Nat
         /\ \A a \in actions : a.task = t => a.sequence <= Highest(t)
         /\ Highest(t) # 0 => \E a \in actions : HasKey(a, t, Highest(t))
<1> DEFINE B == {b \in actions : b.task = t}
           f == [b \in B |-> b.sequence]
           N == {a.sequence : a \in B}
<1>1. IsFiniteSet(B)
  BY FS_Subset
<1>2. f \in Surjection(B, N)
  BY DEF Surjection
<1>3. IsFiniteSet(N)
  <2> HIDE DEF B, N, f
  <2> QED
    BY <1>1, <1>2, FS_Surjection
<1>4. IsFiniteSet(N \union {0})
  BY <1>3, FS_AddElement
<1>5. N \union {0} \subseteq Nat
  BY DEF Action
<1>6. /\ Max(N \union {0}) \in N \union {0}
      /\ \A n \in N \union {0} : n <= Max(N \union {0})
  <2> HIDE DEF N
  <2> QED
    BY <1>4, <1>5, FiniteMax
<1>7. Highest(t) = Max(N \union {0})
  BY DEF Highest
<1>8. QED
  BY <1>5, <1>6, <1>7 DEF HasKey

\* The call in hand is the run's row of the last number given.
LEMMA CallInHandIsRow ==
  ASSUME NEW r, CallInv(r), HasCall(r), Fits(r, rows[r], task[r], sequence[r])
  PROVE  /\ CallInHand(r) \in rows[r] /\ CallInHand(r).sequence = sequence[r]
         /\ CallInHand(r).kind = "call" /\ CallInHand(r).cost = NoCost
         /\ CallInHand(r).task = task[r]
         /\ pc[r] = "calling" => CallInHand(r).evidence = {"request"}
         /\ \A a \in rows[r] : a.sequence = sequence[r] <=> a = CallInHand(r)
<1>1. PICK c : c = CallInHand(r)
  OBVIOUS
<1>2. \E a \in rows[r] : a.sequence = sequence[r]
  BY DEF CallInv
<1>3. c \in rows[r] /\ c.sequence = sequence[r]
  BY <1>1, <1>2 DEF CallInHand
<1>4. \A a \in rows[r] : a.sequence = sequence[r] <=> a = c
  BY <1>3 DEF Fits
<1>5. c.kind = "call" /\ c.cost = NoCost /\ (pc[r] = "calling" => c.evidence = {"request"})
  BY <1>4 DEF CallInv
<1>6. QED
  BY <1>1, <1>3, <1>4, <1>5 DEF Fits

\* What is made of a call, and what is planned, is a row of the same key.
LEMMA FailedRow ==
  ASSUME NEW c \in Action
  PROVE  /\ Failed(c) \in Action
         /\ Failed(c).task = c.task /\ Failed(c).sequence = c.sequence /\ Failed(c).kind = c.kind
         /\ Failed(c).state = "failed" /\ Failed(c).cost = c.cost
         /\ Failed(c).evidence = c.evidence \union {"failure"}
BY DEF Action, Failed

LEMMA SucceededRow ==
  ASSUME NEW c \in Action, NEW used \in Usages
  PROVE  /\ Succeeded(c, used) \in Action
         /\ Succeeded(c, used).task = c.task /\ Succeeded(c, used).sequence = c.sequence
         /\ Succeeded(c, used).kind = c.kind /\ Succeeded(c, used).state = "succeeded"
         /\ Succeeded(c, used).cost = used /\ used # NoCost
         /\ Succeeded(c, used).evidence = c.evidence \union {"response"}
<1>1. used \in Nat /\ used # NoCost
  BY AgentAssumption DEF NoCost
<1>2. QED
  BY <1>1 DEF Action, Succeeded

\* The row that AttemptCall makes of a planned call.
Attempted(c) == [c EXCEPT !.state = "attempted", !.evidence = {"request"}]

LEMMA AttemptedRow ==
  ASSUME NEW c \in Action
  PROVE  /\ Attempted(c) \in Action
         /\ Attempted(c).task = c.task /\ Attempted(c).sequence = c.sequence
         /\ Attempted(c).kind = c.kind /\ Attempted(c).cost = c.cost
         /\ Attempted(c).evidence = {"request"}
BY DEF Action, Attempted

LEMMA PlannedRow ==
  ASSUME AgentTypeOK, NEW r \in Runs, pc[r] # "idle",
         NEW k \in {"call", "refusal"}, NEW e \in SUBSET {"proposal"}
  PROVE  /\ PlannedAction(r, k, e) \in Action
         /\ PlannedAction(r, k, e).task = task[r]
         /\ PlannedAction(r, k, e).sequence = sequence[r] + 1
         /\ PlannedAction(r, k, e).kind = k /\ PlannedAction(r, k, e).state = "planned"
         /\ PlannedAction(r, k, e).evidence = e /\ PlannedAction(r, k, e).cost = NoCost
<1>1. task[r] \in Tasks /\ sequence[r] \in Nat
  BY DEF AgentTypeOK
<1>2. QED
  BY <1>1 DEF PlannedAction, Action

LEMMA InitType == Init => AgentTypeOK
<1> SUFFICES ASSUME Init PROVE AgentTypeOK
  OBVIOUS
<1> USE AgentAssumption DEF Init
<1>1. ceiling \in Nat /\ NoBudget \in Nat
  BY DEF NoBudget
<1>2. trail \in Seq(Decision)
  <2>1. Set(ceiling) \in Decision
    BY <1>1 DEF Set, Decision
  <2>2. QED
    BY <2>1
<1>3. 0 \in 0 .. MaxTurns - 1
  OBVIOUS
<1>4. QED
  BY <1>1, <1>2, <1>3 DEF AgentTypeOK, PC, DPC

\* The end of a run's transaction.
LEMMA CloseType ==
  ASSUME AgentTypeOK, NEW r \in Runs, Close(r), actions' \subseteq Action, aborts' \in Nat
  PROVE  AgentTypeOK'
<1>1. /\ headLock' \in {headLock, NoSession}
      /\ task' = [task EXCEPT ![r] = NoTask]
      /\ sequence' = [sequence EXCEPT ![r] = 0]
      /\ turn' = [turn EXCEPT ![r] = 0]
      /\ seenSpend' = [seenSpend EXCEPT ![r] = 0]
      /\ rows' = [rows EXCEPT ![r] = {}]
      /\ pc' = [pc EXCEPT ![r] = "idle"]
      /\ UNCHANGED <<ceiling, trail, budgetLock, runsBegun, dpc, base, raise, decisionsBegun>>
  BY DEF Close, Goto, decisionVars
<1>2. 0 \in 0 .. MaxTurns - 1
  BY AgentAssumption
<1>3. QED
  BY <1>1, <1>2, AgentAssumption DEF AgentTypeOK, PC

LEMMA RunType ==
  ASSUME AgentTypeOK, KeysInv, CallsInv, NEW r \in Runs,
         (\E t \in Tasks : BeginRun(r, t)) \/ ReadSpend(r) \/ WeighBudget(r)
           \/ ReportWarning(r) \/ PlanCall(r) \/ AttemptCall(r)
  PROVE  AgentTypeOK'
<1>1. UNCHANGED <<actions, ceiling, trail, budgetLock, dpc, base, raise, decisionsBegun, aborts>>
  BY DEF BeginRun, ReadSpend, WeighBudget, ReportWarning, PlanCall, PlanAction, AttemptCall,
         tableVars, lockVars, decisionVars
<1> USE DEF AgentTypeOK, Goto
<1>2. CASE \E t \in Tasks : BeginRun(r, t)
  <2>1. PICK t \in Tasks : BeginRun(r, t)
    BY <1>2
  <2>2. Highest(t) \in Nat
    BY HighestIsCommitted DEF KeysInv
  <2>3. /\ task' = [task EXCEPT ![r] = t] /\ sequence' = [sequence EXCEPT ![r] = Highest(t)]
        /\ pc[r] = "idle" /\ pc' = [pc EXCEPT ![r] = "checking"] /\ runsBegun' \in Nat
        /\ UNCHANGED <<headLock, turn, seenSpend, rows>>
    BY <2>1 DEF BeginRun, lockVars
  <2>4. pc' \in [Runs -> PC]
    BY <2>3 DEF PC
  <2>5. /\ task' \in [Runs -> Tasks \union {NoTask}] /\ sequence' \in [Runs -> Nat]
        /\ \A q \in Runs : task'[q] = NoTask <=> pc'[q] = "idle"
    BY <2>2, <2>3, AgentAssumption
  <2>6. QED
    BY <1>1, <2>3, <2>4, <2>5
<1>3. CASE ReadSpend(r)
  <2>1. IsFiniteSet(Visible(r)) /\ Visible(r) \subseteq Action
    BY FS_Union DEF Visible, KeysInv, Fits
  <2>2. Spend(Visible(r)) \in Nat
    BY <2>1, SpendIsNat
  <2>3. QED
    BY <1>1, <1>3, <2>2 DEF ReadSpend, lockVars, PC
<1>4. CASE WeighBudget(r)
  BY <1>1, <1>4 DEF WeighBudget, lockVars, PC
<1>5. CASE ReportWarning(r)
  BY <1>1, <1>5 DEF ReportWarning, PC
<1>6. CASE PlanCall(r)
  <2>1. PlannedAction(r, "call", {}) \in Action
    BY <1>6, PlannedRow DEF PlanCall
  <2>2. QED
    BY <1>1, <1>6, <2>1 DEF PlanCall, PlanAction, lockVars, PC
<1>7. CASE AttemptCall(r)
  <2>1. CallInHand(r) \in Action
    BY <1>7, CallInHandIsRow DEF AttemptCall, HasCall, KeysInv, CallsInv
  <2>2. Attempted(CallInHand(r)) \in Action
    BY <2>1, AttemptedRow
  <2>3. rows' = [rows EXCEPT ![r] = Rewritten(r, Attempted(CallInHand(r)))]
    BY <1>7 DEF AttemptCall, Attempted
  <2>4. Rewritten(r, Attempted(CallInHand(r))) \subseteq Action
    BY <2>2 DEF Rewritten
  <2>5. QED
    BY <1>1, <1>7, <2>3, <2>4 DEF AttemptCall, PC
<1>8. QED
  BY <1>2, <1>3, <1>4, <1>5, <1>6, <1>7

LEMMA AnswerType ==
  ASSUME AgentTypeOK, KeysInv, CallsInv, NEW r \in Runs,
         (\E used \in Usages : CallAnswers(r, used)) \/ CallFails(r)
  PROVE  AgentTypeOK'
<1>1. pc[r] = "calling" /\ aborts' = aborts
  BY DEF CallAnswers, CallFails, Finish
<1>2. CallInHand(r) \in Action
  BY <1>1, CallInHandIsRow DEF HasCall, KeysInv, CallsInv, AgentTypeOK
<1>3. CASE CallFails(r)
  <2>1. Rewritten(r, Failed(CallInHand(r))) \subseteq Action
    BY <1>2, FailedRow DEF Rewritten, AgentTypeOK
  <2>2. QED
    BY <1>1, <1>3, <2>1, CloseType DEF CallFails, Finish, AgentTypeOK
<1>4. CASE \E used \in Usages : CallAnswers(r, used)
  <2>1. PICK used \in Usages : CallAnswers(r, used)
    BY <1>4
  <2>2. PICK S : S = Rewritten(r, Succeeded(CallInHand(r), used))
    OBVIOUS
  <2>3. S \subseteq Action
    BY <1>2, <2>2, SucceededRow DEF Rewritten, AgentTypeOK
  <2>4. CASE Finish(r, S)
    BY <1>1, <2>3, <2>4, CloseType DEF Finish, AgentTypeOK
  <2>5. CASE ~Finish(r, S)
    <3>1. /\ rows' = [rows EXCEPT ![r] = S] /\ pc' = [pc EXCEPT ![r] = "refusing"]
          /\ UNCHANGED <<actions, ceiling, trail, headLock, budgetLock, task, sequence, turn,
                         seenSpend, runsBegun, dpc, base, raise, decisionsBegun, aborts>>
      BY <2>1, <2>2, <2>5 DEF CallAnswers, Goto, tableVars, lockVars, decisionVars
    <3>2. pc' \in [Runs -> PC] /\ \A s \in Runs : pc'[s] = "idle" <=> pc[s] = "idle"
      BY <1>1, <3>1 DEF AgentTypeOK, PC
    <3>3. rows' \in [Runs -> SUBSET Action]
      BY <2>3, <3>1 DEF AgentTypeOK
    <3>4. QED
      BY <3>1, <3>2, <3>3 DEF AgentTypeOK
  <2>6. QED
    BY <2>4, <2>5
<1>5. QED
  BY <1>3, <1>4

LEMMA RefusalType ==
  ASSUME AgentTypeOK, NEW r \in Runs, RecordRefusal(r)
  PROVE  AgentTypeOK'
<1>1. PICK row : row = PlannedAction(r, "refusal", {"proposal"})
  OBVIOUS
<1>2. pc[r] = "refusing"
  BY DEF RecordRefusal
<1>3. row \in Action
  BY <1>1, <1>2, PlannedRow
<1>4. CASE IsLastTurn(turn[r] + 1)
  BY <1>1, <1>3, <1>4, CloseType DEF RecordRefusal, Finish, AgentTypeOK
<1>5. CASE ~IsLastTurn(turn[r] + 1)
  <2>1. /\ rows' = [rows EXCEPT ![r] = @ \union {row}]
        /\ sequence' = [sequence EXCEPT ![r] = @ + 1]
        /\ turn' = [turn EXCEPT ![r] = @ + 1] /\ pc' = [pc EXCEPT ![r] = "checking"]
        /\ UNCHANGED <<actions, ceiling, trail, headLock, budgetLock, task, seenSpend,
                       runsBegun, dpc, base, raise, decisionsBegun, aborts>>
    BY <1>1, <1>5 DEF RecordRefusal, PlanAction, Goto, tableVars, lockVars, decisionVars
  <2>2. turn' \in [Runs -> 0 .. MaxTurns - 1]
    <3>1. turn[r] + 1 \in 0 .. MaxTurns - 1
      BY <1>5, AgentAssumption DEF IsLastTurn, AgentTypeOK
    <3>2. QED
      BY <2>1, <3>1 DEF AgentTypeOK
  <2>3. pc' \in [Runs -> PC] /\ \A s \in Runs : pc'[s] = "idle" <=> pc[s] = "idle"
    BY <1>2, <2>1 DEF AgentTypeOK, PC
  <2>4. rows' \in [Runs -> SUBSET Action] /\ sequence' \in [Runs -> Nat]
    BY <1>3, <2>1 DEF AgentTypeOK
  <2>5. QED
    BY <2>1, <2>2, <2>3, <2>4 DEF AgentTypeOK
<1>6. QED
  BY <1>4, <1>5

LEMMA EndType ==
  ASSUME AgentTypeOK, NEW r \in Runs,
         ReportExhausted(r) \/ FindKeyTaken(r) \/ AbortRun(r) \/ LoseLockCycle(r)
  PROVE  AgentTypeOK'
<1>1. Close(r) /\ (actions' = actions \/ actions' = actions \union rows[r])
  BY DEF ReportExhausted, FindKeyTaken, AbortRun, LoseLockCycle, Finish
<1>2. aborts' \in Nat
  BY DEF ReportExhausted, FindKeyTaken, AbortRun, LoseLockCycle, Finish, AgentTypeOK
<1>3. QED
  BY <1>1, <1>2, CloseType DEF AgentTypeOK

LEMMA DecisionType ==
  ASSUME AgentTypeOK, NEW d \in Deciders,
         (\E n \in Raises : ReadBudget(d, n)) \/ Decide(d) \/ AbortDecision(d)
  PROVE  AgentTypeOK'
<1>1. UNCHANGED <<actions, headLock, pc, task, sequence, turn, seenSpend, rows, runsBegun>>
  BY DEF ReadBudget, Decide, AbortDecision, WriteBudget, CommitBudget, FindBudgetSet,
         CloseDecision, tableVars, lockVars, runVars
<1>2. \A n \in Raises : n \in Nat
  BY AgentAssumption
<1>3. /\ budgetLock' \in Deciders \union {NoSession}
      /\ dpc' \in [Deciders -> DPC] /\ base' \in [Deciders -> Nat] /\ raise' \in [Deciders -> Nat]
      /\ decisionsBegun' \in Nat /\ aborts' \in Nat
  <2>1. CASE \E n \in Raises : ReadBudget(d, n)
    BY <1>2, <2>1 DEF ReadBudget, lockVars, AgentTypeOK, DPC
  <2>2. CASE WriteBudget(d)
    BY <2>2 DEF WriteBudget, AgentTypeOK, DPC
  <2>3. CASE CommitBudget(d) \/ FindBudgetSet(d) \/ AbortDecision(d)
    <3>1. /\ CloseDecision(d) /\ aborts' \in Nat
      BY <2>3 DEF CommitBudget, FindBudgetSet, AbortDecision, AgentTypeOK
    <3>2. QED
      BY <3>1 DEF CloseDecision, AgentTypeOK, DPC, NoBudget
  <2>4. QED
    BY <2>1, <2>2, <2>3 DEF Decide
<1>4. ceiling' \in Nat /\ trail' \in Seq(Decision)
  <2>1. CASE CommitBudget(d)
    <3>1. base[d] \in Nat /\ raise[d] \in Nat /\ NoBudget \in Nat
      BY DEF AgentTypeOK, NoBudget
    <3>2. Told(d) \in Decision
      BY <3>1 DEF Told, Set, Authorized, Decision
    <3>3. ceiling' = base[d] + raise[d] /\ trail' = Append(trail, Told(d))
      BY <2>1 DEF CommitBudget, NewCeiling
    <3>4. QED
      BY <3>1, <3>2, <3>3 DEF AgentTypeOK
  <2>2. CASE ~CommitBudget(d)
    BY <2>2
    DEF ReadBudget, Decide, AbortDecision, WriteBudget, FindBudgetSet, tableVars, AgentTypeOK
  <2>3. QED
    BY <2>1, <2>2
<1>5. QED
  BY <1>1, <1>3, <1>4 DEF AgentTypeOK

LEMMA NextType ==
  AgentTypeOK /\ KeysInv /\ CallsInv /\ [Next]_vars => AgentTypeOK'
<1> SUFFICES ASSUME AgentTypeOK, KeysInv, CallsInv, [Next]_vars PROVE AgentTypeOK'
  OBVIOUS
<1>1. CASE UNCHANGED vars
  BY <1>1 DEF vars, tableVars, lockVars, runVars, decisionVars, AgentTypeOK
<1>2. ASSUME NEW r \in Runs, (\E t \in Tasks : BeginRun(r, t)) \/ Proceed(r) \/ AbortRun(r)
      PROVE  AgentTypeOK'
  BY <1>2, RunType, AnswerType, RefusalType, EndType DEF Proceed
<1>3. ASSUME NEW d \in Deciders,
             (\E n \in Raises : ReadBudget(d, n)) \/ Decide(d) \/ AbortDecision(d)
      PROVE  AgentTypeOK'
  BY <1>3, DecisionType
<1>4. QED
  BY <1>1, <1>2, <1>3 DEF Next

-----------------------------------------------------------------------------
(* Keys. *)

\* A run's rows are replaced, and nothing is committed.
LEMMA RowsKeepKeys ==
  ASSUME KeysInv, NEW r \in Runs, NEW S, NEW t, NEW m, Fits(r, S, t, m),
         actions' = actions, rows'[r] = S, task'[r] = t, sequence'[r] = m,
         \A s \in Runs \ {r} :
           rows'[s] = rows[s] /\ task'[s] = task[s] /\ sequence'[s] = sequence[s]
  PROVE  KeysInv'
<1>1. SequencesGapless'
  BY DEF KeysInv, SequencesGapless
<1>2. Fits(r, S, t, m)'
  BY DEF Fits
<1>3. ASSUME NEW s \in Runs \ {r} PROVE Fits(s, rows[s], task[s], sequence[s])'
  <2>1. Fits(s, rows[s], task[s], sequence[s])
    BY DEF KeysInv
  <2>2. \A a \in rows[s], b \in S : ~SameKey(a, b)
    BY DEF Fits, SameKey
  <2>3. QED
    BY <2>1, <2>2 DEF Fits
<1>4. QED
  BY <1>1, <1>2, <1>3 DEF KeysInv

\* A run's rows are committed, all of them, or forgotten.
LEMMA CloseKeepsKeys ==
  ASSUME AgentTypeOK, KeysInv, NEW r \in Runs, NEW S, S \subseteq Action, NEW m \in Nat,
         Fits(r, S, task[r], m), Close(r), actions' = actions \union S \/ actions' = actions
  PROVE  KeysInv'
<1>1. /\ rows' = [rows EXCEPT ![r] = {}] /\ task' = [task EXCEPT ![r] = NoTask]
      /\ sequence' = [sequence EXCEPT ![r] = 0]
  BY DEF Close
<1>2. /\ rows'[r] = {} /\ sequence'[r] = 0
      /\ \A s \in Runs \ {r} :
           rows'[s] = rows[s] /\ task'[s] = task[s] /\ sequence'[s] = sequence[s]
  BY <1>1 DEF AgentTypeOK
<1>3. IsFiniteSet(actions')
  <2>1. IsFiniteSet(actions) /\ IsFiniteSet(S)
    BY DEF KeysInv, Fits
  <2>2. IsFiniteSet(actions \union S)
    BY <2>1, FS_Union
  <2>3. QED
    BY <2>1, <2>2
<1>4. ASSUME actions' = actions \union S PROVE SequencesGapless'
  <2>1. \A a, b \in actions' : a.task = b.task /\ a.sequence = b.sequence => a = b
    BY <1>4 DEF KeysInv, SequencesGapless, Fits, SameKey
  <2>2. ASSUME NEW a \in S, NEW n \in 1 .. a.sequence
        PROVE  \E b \in actions' : HasKey(b, a.task, n)
    <3>1. a.task = task[r] /\ a.sequence <= m /\ a.sequence \in Nat
      BY <2>2 DEF Fits, Action
    <3>2. n \in 1 .. m
      BY <2>2, <3>1
    <3>3. \E b \in actions \union S : HasKey(b, task[r], n)
      BY <3>2 DEF Fits
    <3>4. QED
      BY <1>4, <3>1, <3>3
  <2>3. \A a \in actions : \A n \in 1 .. a.sequence : \E b \in actions' : HasKey(b, a.task, n)
    BY <1>4 DEF KeysInv, SequencesGapless
  <2>4. QED
    BY <1>4, <2>1, <2>2, <2>3 DEF SequencesGapless, HasKey
<1>5. SequencesGapless'
  BY <1>4 DEF KeysInv, SequencesGapless, HasKey
<1>6. Fits(r, rows[r], task[r], sequence[r])'
  BY <1>2, FS_EmptySet DEF Fits
<1>7. ASSUME NEW s \in Runs \ {r} PROVE Fits(s, rows[s], task[s], sequence[s])'
  <2>1. Fits(s, rows[s], task[s], sequence[s])
    BY DEF KeysInv
  <2>2. \A a \in rows[s], b \in S : ~SameKey(a, b)
    BY DEF Fits, SameKey
  <2>3. \A a \in rows[s], b \in actions' : ~SameKey(a, b)
    BY <2>1, <2>2 DEF Fits
  <2>4. \A n \in 1 .. sequence[s] : \E a \in actions' \union rows[s] : HasKey(a, task[s], n)
    BY <2>1 DEF Fits
  <2>5. \A q \in Runs \ {s} : \A a \in rows[s], b \in rows'[q] : ~SameKey(a, b)
    BY <1>2, <2>1 DEF Fits
  <2>6. QED
    BY <1>2, <2>1, <2>3, <2>4, <2>5 DEF Fits, HasKey, SameKey
<1>8. QED
  BY <1>3, <1>5, <1>6, <1>7 DEF KeysInv

\* A row in the place of the call in hand, of the same key.
LEMMA RewrittenFits ==
  ASSUME KeysInv, CallsInv, NEW r \in Runs, HasCall(r), NEW row,
         row.task = CallInHand(r).task, row.sequence = CallInHand(r).sequence
  PROVE  Fits(r, Rewritten(r, row), task[r], sequence[r])
<1>1. PICK c : c = CallInHand(r)
  OBVIOUS
<1>2. Fits(r, rows[r], task[r], sequence[r])
  BY DEF KeysInv
<1>3. /\ c \in rows[r] /\ c.sequence = sequence[r] /\ c.task = task[r]
      /\ \A a \in rows[r] : a.sequence = sequence[r] <=> a = c
  BY <1>1, <1>2, CallInHandIsRow DEF CallsInv
<1>4. PICK S : S = Rewritten(r, row)
  OBVIOUS
<1>5. S = (rows[r] \ {c}) \union {row} /\ row.task = c.task /\ row.sequence = c.sequence
  BY <1>1, <1>4 DEF Rewritten
<1>6. IsFiniteSet(S)
  BY <1>2, <1>5, FS_RemoveElement, FS_AddElement DEF Fits
<1>7. \A a \in S : \E b \in rows[r] : SameKey(a, b)
  BY <1>3, <1>5 DEF SameKey
<1>8. \A a \in S : a.task = task[r] /\ a.sequence <= sequence[r]
  BY <1>2, <1>7 DEF Fits, SameKey
<1>9. \A a, b \in S : a.sequence = b.sequence => a = b
  BY <1>2, <1>3, <1>5 DEF Fits
<1>10. \A n \in 1 .. sequence[r] : \E a \in actions \union S : HasKey(a, task[r], n)
  <2>1. \A b \in rows[r] : b \in S \/ (b = c /\ SameKey(b, row))
    BY <1>5 DEF SameKey
  <2>2. \A n \in 1 .. sequence[r] : \E a \in actions \union rows[r] : HasKey(a, task[r], n)
    BY <1>2 DEF Fits
  <2>3. QED
    BY <1>5, <2>1, <2>2 DEF HasKey, SameKey
<1>11. /\ \A a \in S, b \in actions : ~SameKey(a, b)
       /\ \A s \in Runs \ {r} : \A a \in S, b \in rows[s] : ~SameKey(a, b)
  BY <1>2, <1>7 DEF Fits, SameKey
<1>12. QED
  BY <1>4, <1>6, <1>8, <1>9, <1>10, <1>11 DEF Fits

\* A row of the next number, which is free.
LEMMA PlannedFits ==
  ASSUME AgentTypeOK, KeysInv, NEW r \in Runs, KeyFree(r), NEW row,
         row.task = task[r], row.sequence = sequence[r] + 1
  PROVE  Fits(r, rows[r] \union {row}, task[r], sequence[r] + 1)
<1>1. Fits(r, rows[r], task[r], sequence[r]) /\ sequence[r] \in Nat
  BY DEF KeysInv, AgentTypeOK
<1>2. PICK S : S = rows[r] \union {row}
  OBVIOUS
<1>3. IsFiniteSet(S)
  BY <1>1, <1>2, FS_AddElement DEF Fits
<1>4. \A a \in rows[r] : a.sequence \in Nat /\ a.sequence <= sequence[r]
  BY <1>1 DEF Fits, AgentTypeOK, Action
<1>5. \A a \in S : a.task = task[r] /\ a.sequence <= sequence[r] + 1
  BY <1>1, <1>2, <1>4 DEF Fits
<1>6. \A a, b \in S : a.sequence = b.sequence => a = b
  BY <1>1, <1>2, <1>4 DEF Fits
<1>7. \A n \in 1 .. sequence[r] + 1 : \E a \in actions \union S : HasKey(a, task[r], n)
  <2>1. HasKey(row, task[r], sequence[r] + 1)
    BY DEF HasKey
  <2>2. \A n \in 1 .. sequence[r] + 1 : n \in 1 .. sequence[r] \/ n = sequence[r] + 1
    BY <1>1
  <2>3. QED
    BY <1>1, <1>2, <2>1, <2>2 DEF Fits
<1>8. \A a \in S, b \in actions : ~SameKey(a, b)
  BY <1>1, <1>2 DEF Fits, KeyFree, KeyCommitted, HasKey, SameKey
<1>9. \A s \in Runs \ {r} : \A a \in S, b \in rows[s] : ~SameKey(a, b)
  BY <1>1, <1>2 DEF Fits, KeyFree, KeyHeldBy, HasKey, SameKey
<1>10. QED
  BY <1>2, <1>3, <1>5, <1>6, <1>7, <1>8, <1>9 DEF Fits

\* A step that leaves the tables and the rows alone.
LEMMA RowsAloneKeepKeys ==
  ASSUME KeysInv, UNCHANGED <<actions, rows, task, sequence>>
  PROVE  KeysInv'
<1>1. actions' = actions /\ rows' = rows /\ task' = task /\ sequence' = sequence
  OBVIOUS
<1>2. QED
  BY <1>1 DEF KeysInv, Fits, SequencesGapless, SameKey, HasKey

\* A run begins at the task's highest committed number, up to which there is every number.
LEMMA BeginKeepsKeys ==
  ASSUME AgentTypeOK, KeysInv, NEW r \in Runs, NEW t \in Tasks, BeginRun(r, t)
  PROVE  KeysInv'
<1>1. /\ pc[r] = "idle" /\ task' = [task EXCEPT ![r] = t]
      /\ sequence' = [sequence EXCEPT ![r] = Highest(t)]
      /\ actions' = actions /\ rows' = rows
  BY DEF BeginRun, tableVars
<1>2. rows[r] = {}
  <2>1. \A a \in rows[r] : a.task \in Tasks /\ a.task = task[r]
    BY DEF KeysInv, Fits, AgentTypeOK, Action
  <2>2. task[r] \notin Tasks
    BY <1>1, AgentAssumption DEF AgentTypeOK
  <2>3. QED
    BY <2>1, <2>2
<1>3. PICK m : m = Highest(t)
  OBVIOUS
<1>4. /\ m \in Nat
      /\ m # 0 => \E a \in actions : HasKey(a, t, m)
  <2>1. actions \subseteq Action /\ IsFiniteSet(actions)
    BY DEF AgentTypeOK, KeysInv
  <2>2. QED
    BY <1>3, <2>1, HighestIsCommitted
<1>5. \A n \in 1 .. m : \E a \in actions : HasKey(a, t, n)
  <2> SUFFICES ASSUME NEW n \in 1 .. m PROVE \E a \in actions : HasKey(a, t, n)
    OBVIOUS
  <2>1. m # 0
    BY <1>4
  <2>2. PICK a \in actions : a.task = t /\ a.sequence = m
    BY <1>4, <2>1 DEF HasKey
  <2>3. QED
    BY <2>2 DEF KeysInv, SequencesGapless
<1>6. Fits(r, {}, t, m)
  BY <1>5, FS_EmptySet DEF Fits
<1>7. QED
  <2>1. rows'[r] = {} /\ task'[r] = t /\ sequence'[r] = m
    BY <1>1, <1>2, <1>3 DEF AgentTypeOK
  <2>2. \A s \in Runs \ {r} :
          rows'[s] = rows[s] /\ task'[s] = task[s] /\ sequence'[s] = sequence[s]
    BY <1>1 DEF AgentTypeOK
  <2>3. QED
    BY <1>1, <1>6, <2>1, <2>2, RowsKeepKeys

\* plan_action: a row of the next number.
LEMMA PlanKeepsKeys ==
  ASSUME AgentTypeOK, KeysInv, NEW r \in Runs, pc[r] # "idle",
         NEW k \in {"call", "refusal"}, NEW e \in SUBSET {"proposal"}, PlanAction(r, k, e),
         actions' = actions, task' = task
  PROVE  KeysInv'
<1>1. PICK row : row = PlannedAction(r, k, e)
  OBVIOUS
<1>2. row.task = task[r] /\ row.sequence = sequence[r] + 1
  BY <1>1, PlannedRow
<1>3. /\ KeyFree(r) /\ rows' = [rows EXCEPT ![r] = @ \union {row}]
      /\ sequence' = [sequence EXCEPT ![r] = @ + 1]
  BY <1>1 DEF PlanAction
<1>4. Fits(r, rows[r] \union {row}, task[r], sequence[r] + 1)
  BY <1>2, <1>3, PlannedFits
<1>5. rows'[r] = rows[r] \union {row} /\ task'[r] = task[r] /\ sequence'[r] = sequence[r] + 1
  BY <1>3 DEF AgentTypeOK
<1>6. \A s \in Runs \ {r} :
        rows'[s] = rows[s] /\ task'[s] = task[s] /\ sequence'[s] = sequence[s]
  BY <1>3 DEF AgentTypeOK
<1>7. QED
  BY <1>4, <1>5, <1>6, RowsKeepKeys

\* A row takes the place of the call in hand.
LEMMA RewriteKeepsKeys ==
  ASSUME AgentTypeOK, KeysInv, CallsInv, NEW r \in Runs, HasCall(r), NEW row,
         row.task = CallInHand(r).task, row.sequence = CallInHand(r).sequence,
         rows' = [rows EXCEPT ![r] = Rewritten(r, row)],
         actions' = actions, task' = task, sequence' = sequence
  PROVE  KeysInv'
<1>1. Fits(r, Rewritten(r, row), task[r], sequence[r])
  BY RewrittenFits
<1>2. rows'[r] = Rewritten(r, row) /\ task'[r] = task[r] /\ sequence'[r] = sequence[r]
  BY DEF AgentTypeOK
<1>3. \A s \in Runs \ {r} :
        rows'[s] = rows[s] /\ task'[s] = task[s] /\ sequence'[s] = sequence[s]
  BY DEF AgentTypeOK
<1>4. QED
  BY <1>1, <1>2, <1>3, RowsKeepKeys

\* A run that ends and commits what it has, or nothing.
LEMMA EndKeepsKeys ==
  ASSUME AgentTypeOK, KeysInv, NEW r \in Runs,
         ReportExhausted(r) \/ FindKeyTaken(r) \/ AbortRun(r) \/ LoseLockCycle(r)
  PROVE  KeysInv'
<1>1. Close(r) /\ (actions' = actions \union rows[r] \/ actions' = actions)
  BY DEF ReportExhausted, FindKeyTaken, AbortRun, LoseLockCycle, Finish
<1>2. Fits(r, rows[r], task[r], sequence[r]) /\ rows[r] \subseteq Action /\ sequence[r] \in Nat
  BY DEF KeysInv, AgentTypeOK
<1>3. QED
  BY <1>1, <1>2, CloseKeepsKeys

\* The provider answers, or fails.
LEMMA AnswerKeepsKeys ==
  ASSUME AgentTypeOK, KeysInv, CallsInv, NEW r \in Runs,
         (\E used \in Usages : CallAnswers(r, used)) \/ CallFails(r)
  PROVE  KeysInv'
<1>1. HasCall(r) /\ sequence[r] \in Nat
  BY DEF CallAnswers, CallFails, HasCall, AgentTypeOK
<1>2. CallInHand(r) \in Action
  BY <1>1, CallInHandIsRow DEF KeysInv, CallsInv, AgentTypeOK
<1>3. CASE CallFails(r)
  <2>1. PICK row : row = Failed(CallInHand(r))
    OBVIOUS
  <2>2. row \in Action /\ row.task = CallInHand(r).task /\ row.sequence = CallInHand(r).sequence
    BY <1>2, <2>1, FailedRow
  <2>3. Fits(r, Rewritten(r, row), task[r], sequence[r])
    BY <1>1, <2>2, RewrittenFits
  <2>4. Rewritten(r, row) \subseteq Action
    BY <2>2 DEF Rewritten, AgentTypeOK
  <2>5. Close(r) /\ actions' = actions \union Rewritten(r, row)
    BY <1>3, <2>1 DEF CallFails, Finish
  <2>6. QED
    BY <1>1, <2>3, <2>4, <2>5, CloseKeepsKeys
<1>4. CASE \E used \in Usages : CallAnswers(r, used)
  <2>1. PICK used \in Usages : CallAnswers(r, used)
    BY <1>4
  <2>2. PICK row : row = Succeeded(CallInHand(r), used)
    OBVIOUS
  <2>3. row \in Action /\ row.task = CallInHand(r).task /\ row.sequence = CallInHand(r).sequence
    BY <1>2, <2>2, SucceededRow
  <2>4. Rewritten(r, row) \subseteq Action
    BY <2>3 DEF Rewritten, AgentTypeOK
  <2>5. CASE Finish(r, Rewritten(r, row))
    <3>1. Fits(r, Rewritten(r, row), task[r], sequence[r])
      BY <1>1, <2>3, RewrittenFits
    <3>2. Close(r) /\ actions' = actions \union Rewritten(r, row)
      BY <2>5 DEF Finish
    <3>3. QED
      BY <1>1, <2>4, <3>1, <3>2, CloseKeepsKeys
  <2>6. CASE ~Finish(r, Rewritten(r, row))
    <3>1. /\ rows' = [rows EXCEPT ![r] = Rewritten(r, row)]
          /\ actions' = actions /\ task' = task /\ sequence' = sequence
      BY <2>1, <2>2, <2>6 DEF CallAnswers, tableVars
    <3>2. QED
      BY <1>1, <2>3, <3>1, RewriteKeepsKeys
  <2>7. QED
    BY <2>5, <2>6
<1>5. QED
  BY <1>3, <1>4

\* A refusal is recorded, and the run goes on or ends with it.
LEMMA RefusalKeepsKeys ==
  ASSUME AgentTypeOK, KeysInv, NEW r \in Runs, RecordRefusal(r)
  PROVE  KeysInv'
<1>1. pc[r] # "idle" /\ sequence[r] + 1 \in Nat
  BY DEF RecordRefusal, AgentTypeOK
<1>2. PICK row : row = PlannedAction(r, "refusal", {"proposal"})
  OBVIOUS
<1>3. row \in Action /\ row.task = task[r] /\ row.sequence = sequence[r] + 1
  BY <1>1, <1>2, PlannedRow
<1>4. CASE IsLastTurn(turn[r] + 1)
  <2>1. KeyFree(r) /\ Close(r) /\ actions' = actions \union (rows[r] \union {row})
    BY <1>2, <1>4 DEF RecordRefusal, Finish
  <2>2. Fits(r, rows[r] \union {row}, task[r], sequence[r] + 1)
    BY <1>3, <2>1, PlannedFits
  <2>3. rows[r] \union {row} \subseteq Action
    BY <1>3 DEF AgentTypeOK
  <2>4. QED
    BY <1>1, <2>1, <2>2, <2>3, CloseKeepsKeys
<1>5. CASE ~IsLastTurn(turn[r] + 1)
  BY <1>1, <1>5, PlanKeepsKeys DEF RecordRefusal, tableVars
<1>6. QED
  BY <1>4, <1>5

LEMMA NextKeepsKeys ==
  AgentTypeOK /\ KeysInv /\ CallsInv /\ [Next]_vars => KeysInv'
<1> SUFFICES ASSUME AgentTypeOK, KeysInv, CallsInv, [Next]_vars PROVE KeysInv'
  OBVIOUS
<1>1. CASE UNCHANGED vars
  BY <1>1, RowsAloneKeepKeys DEF vars, tableVars, runVars
<1>2. ASSUME NEW r \in Runs, (\E t \in Tasks : BeginRun(r, t)) \/ Proceed(r) \/ AbortRun(r)
      PROVE  KeysInv'
  <2>1. CASE \E t \in Tasks : BeginRun(r, t)
    BY <2>1, BeginKeepsKeys
  <2>2. CASE ReadSpend(r) \/ WeighBudget(r) \/ ReportWarning(r)
    <3>1. UNCHANGED <<actions, rows, task, sequence>>
      BY <2>2 DEF ReadSpend, WeighBudget, ReportWarning, tableVars
    <3>2. QED
      BY <3>1, RowsAloneKeepKeys
  <2>3. CASE PlanCall(r)
    <3>1. pc[r] # "idle" /\ PlanAction(r, "call", {}) /\ actions' = actions /\ task' = task
      BY <2>3 DEF PlanCall, tableVars
    <3>2. QED
      BY <3>1, PlanKeepsKeys
  <2>4. CASE AttemptCall(r)
    <3>1. HasCall(r)
      BY <2>4 DEF AttemptCall, HasCall
    <3>2. CallInHand(r) \in Action
      BY <3>1, CallInHandIsRow DEF KeysInv, CallsInv, AgentTypeOK
    <3>3. PICK row : row = Attempted(CallInHand(r))
      OBVIOUS
    <3>4. row.task = CallInHand(r).task /\ row.sequence = CallInHand(r).sequence
      BY <3>2, <3>3, AttemptedRow
    <3>5. /\ rows' = [rows EXCEPT ![r] = Rewritten(r, row)]
          /\ actions' = actions /\ task' = task /\ sequence' = sequence
      BY <2>4, <3>3 DEF AttemptCall, Attempted, tableVars
    <3>6. QED
      BY <3>1, <3>4, <3>5, RewriteKeepsKeys
  <2>5. CASE (\E used \in Usages : CallAnswers(r, used)) \/ CallFails(r)
    BY <2>5, AnswerKeepsKeys
  <2>6. CASE RecordRefusal(r)
    BY <2>6, RefusalKeepsKeys
  <2>7. CASE ReportExhausted(r) \/ FindKeyTaken(r) \/ AbortRun(r) \/ LoseLockCycle(r)
    BY <2>7, EndKeepsKeys
  <2>8. QED
    BY <1>2, <2>1, <2>2, <2>3, <2>4, <2>5, <2>6, <2>7 DEF Proceed
<1>3. ASSUME NEW d \in Deciders,
             (\E n \in Raises : ReadBudget(d, n)) \/ Decide(d) \/ AbortDecision(d)
      PROVE  KeysInv'
  <2>1. UNCHANGED <<actions, rows, task, sequence>>
    BY <1>3 DEF ReadBudget, Decide, AbortDecision, WriteBudget, CommitBudget, FindBudgetSet,
                CloseDecision, tableVars, runVars
  <2>2. QED
    BY <2>1, RowsAloneKeepKeys
<1>4. QED
  BY <1>1, <1>2, <1>3 DEF Next

-----------------------------------------------------------------------------
(* Calls. *)

LEMMA SettledInMore ==
  ASSUME NEW S, NEW T, S \subseteq T, NEW a, Settled(a, S)
  PROVE  Settled(a, T)
BY DEF Settled

\* A step of one run, its commit aside.
LEMMA RunKeepsCalls ==
  ASSUME CallsInv, NEW r \in Runs, actions' = actions, CallInv(r)',
         \A s \in Runs \ {r} :
           rows'[s] = rows[s] /\ pc'[s] = pc[s] /\ sequence'[s] = sequence[s]
  PROVE  CallsInv'
<1>1. CallsAreSettled'
  BY DEF CallsInv, CallsAreSettled
<1>2. ASSUME NEW s \in Runs \ {r} PROVE CallInv(s)'
  <2>1. CallInv(s) /\ rows'[s] = rows[s] /\ pc'[s] = pc[s] /\ sequence'[s] = sequence[s]
    BY DEF CallsInv
  <2>2. QED
    BY <2>1 DEF CallInv, HasCall, Settled
<1>3. QED
  BY <1>1, <1>2 DEF CallsInv

\* A step that leaves the actions, the runs and where they are alone.
LEMMA RowsAloneKeepCalls ==
  ASSUME CallsInv, actions' = actions, rows' = rows, pc' = pc, sequence' = sequence
  PROVE  CallsInv'
BY DEF CallsInv, CallsAreSettled, CallInv, HasCall, Settled

\* A run ends with rows that are settled among themselves, and they are committed, or it
\* ends and they are not.
LEMMA CloseKeepsCalls ==
  ASSUME AgentTypeOK, CallsInv, NEW r \in Runs, Close(r), NEW S,
         actions' = actions \/ (actions' = actions \union S /\ \A a \in S : Settled(a, S))
  PROVE  CallsInv'
<1>1. /\ rows' = [rows EXCEPT ![r] = {}] /\ pc' = [pc EXCEPT ![r] = "idle"]
      /\ sequence' = [sequence EXCEPT ![r] = 0]
  BY DEF Close, Goto
<1>2. CallsAreSettled'
  <2>1. \A a \in actions : Settled(a, actions)
    BY DEF CallsInv, CallsAreSettled, Settled
  <2>2. \A a \in actions' : Settled(a, actions')
    <3>1. CASE actions' = actions
      BY <2>1, <3>1
    <3>2. CASE actions' = actions \union S /\ \A a \in S : Settled(a, S)
      <4>1. actions \subseteq actions' /\ S \subseteq actions'
        BY <3>2
      <4>2. \A a \in actions : Settled(a, actions')
        BY <2>1, <4>1, SettledInMore
      <4>3. \A a \in S : Settled(a, actions')
        BY <3>2, <4>1, SettledInMore
      <4>4. QED
        BY <3>2, <4>2, <4>3
    <3>3. QED
      BY <3>1, <3>2
  <2>3. QED
    BY <2>2 DEF CallsAreSettled, Settled
<1>3. CallInv(r)'
  <2>1. rows'[r] = {} /\ pc'[r] = "idle"
    BY <1>1 DEF AgentTypeOK
  <2>2. QED
    BY <2>1 DEF CallInv, HasCall
<1>4. ASSUME NEW s \in Runs \ {r} PROVE CallInv(s)'
  <2>1. CallInv(s) /\ rows'[s] = rows[s] /\ pc'[s] = pc[s] /\ sequence'[s] = sequence[s]
    BY <1>1 DEF CallsInv, AgentTypeOK
  <2>2. QED
    BY <2>1 DEF CallInv, HasCall, Settled
<1>5. QED
  BY <1>2, <1>3, <1>4 DEF CallsInv

\* With another row in the place of the call in hand, the others stay settled: no refusal
\* follows the last row.
LEMMA RewrittenSettles ==
  ASSUME AgentTypeOK, KeysInv, CallsInv, NEW r \in Runs, HasCall(r), NEW row
  PROVE  \A a \in Rewritten(r, row) : Settled(a, Rewritten(r, row)) \/ a = row
<1>1. PICK c : c = CallInHand(r)
  OBVIOUS
<1>2. Fits(r, rows[r], task[r], sequence[r]) /\ CallInv(r)
  BY DEF KeysInv, CallsInv
<1>3. /\ c \in rows[r] /\ c.sequence = sequence[r]
      /\ \A a \in rows[r] : a.sequence = sequence[r] <=> a = c
  BY <1>1, <1>2, CallInHandIsRow
<1>4. PICK S : S = Rewritten(r, row)
  OBVIOUS
<1>5. S = (rows[r] \ {c}) \union {row}
  BY <1>1, <1>4 DEF Rewritten
<1>6. ASSUME NEW a \in S, a # row PROVE Settled(a, S)
  <2>1. a \in rows[r] /\ a.sequence # sequence[r]
    BY <1>3, <1>5, <1>6
  <2>2. Settled(a, rows[r])
    BY <1>2, <2>1 DEF CallInv
  <2>3. a.sequence \in Nat /\ sequence[r] \in Nat /\ a.sequence <= sequence[r]
    BY <1>2, <2>1 DEF AgentTypeOK, Action, Fits
  <2>4. \A b \in rows[r] : HasKey(b, a.task, a.sequence - 1) => b \in S
    <3>1. a.sequence - 1 # sequence[r]
      BY <2>3
    <3>2. QED
      BY <1>3, <1>5, <3>1 DEF HasKey
  <2>5. QED
    BY <2>2, <2>4 DEF Settled
<1>7. QED
  BY <1>4, <1>6

\* The rows of a run that has no call in hand are settled.
LEMMA PlanCallKeepsCalls ==
  ASSUME AgentTypeOK, KeysInv, CallsInv, NEW r \in Runs, PlanCall(r)
  PROVE  CallsInv'
<1>1. PICK row : row = PlannedAction(r, "call", {})
  OBVIOUS
<1>2. /\ pc[r] = "planning" /\ pc' = [pc EXCEPT ![r] = "attempting"]
      /\ rows' = [rows EXCEPT ![r] = @ \union {row}]
      /\ sequence' = [sequence EXCEPT ![r] = @ + 1] /\ actions' = actions
  BY <1>1 DEF PlanCall, PlanAction, Goto, tableVars
<1>3. /\ rows'[r] = rows[r] \union {row} /\ sequence'[r] = sequence[r] + 1
      /\ pc'[r] = "attempting"
  BY <1>2 DEF AgentTypeOK
<1>4. /\ row.sequence = sequence[r] + 1 /\ row.kind = "call" /\ row.cost = NoCost
      /\ row.evidence = {}
  BY <1>1, <1>2, PlannedRow
<1>5. \A a \in rows[r] : Settled(a, rows'[r])
  <2>1. \A a \in rows[r] : Settled(a, rows[r])
    BY <1>2 DEF CallsInv, CallInv, HasCall
  <2>2. rows[r] \subseteq rows'[r]
    BY <1>3
  <2>3. QED
    BY <2>1, <2>2, SettledInMore
<1>6. CallInv(r)'
  BY <1>3, <1>4, <1>5 DEF CallInv, HasCall
<1>7. QED
  BY <1>2, <1>6, RunKeepsCalls DEF AgentTypeOK

LEMMA AttemptKeepsCalls ==
  ASSUME AgentTypeOK, KeysInv, CallsInv, NEW r \in Runs, AttemptCall(r)
  PROVE  CallsInv'
<1>1. HasCall(r)
  BY DEF AttemptCall, HasCall
<1>2. PICK c \in Action : /\ c = CallInHand(r) /\ c.sequence = sequence[r]
                          /\ c.kind = "call" /\ c.cost = NoCost
  BY <1>1, CallInHandIsRow DEF KeysInv, CallsInv, AgentTypeOK
<1>3. PICK row : row = Attempted(c)
  OBVIOUS
<1>4. /\ row.sequence = sequence[r] /\ row.kind = "call" /\ row.cost = NoCost
      /\ row.evidence = {"request"}
  BY <1>2, <1>3, AttemptedRow
<1>5. /\ pc' = [pc EXCEPT ![r] = "calling"] /\ rows' = [rows EXCEPT ![r] = Rewritten(r, row)]
      /\ sequence' = sequence /\ actions' = actions
  BY <1>2, <1>3 DEF AttemptCall, Attempted, Goto, tableVars
<1>6. /\ rows'[r] = Rewritten(r, row) /\ sequence'[r] = sequence[r] /\ pc'[r] = "calling"
  BY <1>5 DEF AgentTypeOK
<1>7. \A a \in rows'[r] : Settled(a, rows'[r]) \/ a = row
  BY <1>1, <1>6, RewrittenSettles
<1>8. row \in rows'[r]
  BY <1>6 DEF Rewritten
<1>9. CallInv(r)'
  BY <1>4, <1>6, <1>7, <1>8 DEF CallInv, HasCall
<1>10. QED
  BY <1>5, <1>9, RunKeepsCalls DEF AgentTypeOK

\* A call that has been answered or has failed is settled.
LEMMA AnswerKeepsCalls ==
  ASSUME AgentTypeOK, KeysInv, CallsInv, NEW r \in Runs,
         (\E used \in Usages : CallAnswers(r, used)) \/ CallFails(r)
  PROVE  CallsInv'
<1>1. HasCall(r) /\ pc[r] = "calling"
  BY DEF CallAnswers, CallFails, HasCall
<1>2. PICK c \in Action : /\ c = CallInHand(r) /\ c.sequence = sequence[r]
                          /\ c.kind = "call" /\ c.cost = NoCost /\ c.evidence = {"request"}
  BY <1>1, CallInHandIsRow DEF KeysInv, CallsInv, AgentTypeOK
<1>3. CASE CallFails(r)
  <2>1. PICK row : row = Failed(c)
    OBVIOUS
  <2>2. \A S : Settled(row, S)
    <3>1. row.kind = "call" /\ row.state = "failed" /\ row.cost = NoCost
      BY <1>2, <2>1, FailedRow
    <3>2. row.evidence = {"request", "failure"}
      BY <1>2, <2>1, FailedRow
    <3>3. QED
      BY <3>1, <3>2 DEF Settled
  <2>3. \A a \in Rewritten(r, row) : Settled(a, Rewritten(r, row))
    BY <1>1, <2>2, RewrittenSettles
  <2>4. Close(r) /\ actions' = actions \union Rewritten(r, row)
    BY <1>2, <1>3, <2>1 DEF CallFails, Finish
  <2>5. QED
    BY <2>3, <2>4, CloseKeepsCalls
<1>4. CASE \E used \in Usages : CallAnswers(r, used)
  <2>1. PICK used \in Usages : CallAnswers(r, used)
    BY <1>4
  <2>2. PICK row : row = Succeeded(c, used)
    OBVIOUS
  <2>3. row.state = "succeeded" /\ row.sequence = sequence[r] /\ \A S : Settled(row, S)
    <3>1. /\ row.kind = "call" /\ row.state = "succeeded" /\ row.cost # NoCost
          /\ row.sequence = sequence[r]
      BY <1>2, <2>2, SucceededRow
    <3>2. row.evidence = {"request", "response"}
      BY <1>2, <2>2, SucceededRow
    <3>3. QED
      BY <3>1, <3>2 DEF Settled
  <2>4. \A a \in Rewritten(r, row) : Settled(a, Rewritten(r, row))
    BY <1>1, <2>3, RewrittenSettles
  <2>5. CASE Finish(r, Rewritten(r, row))
    BY <2>4, <2>5, CloseKeepsCalls DEF Finish
  <2>6. CASE ~Finish(r, Rewritten(r, row))
    <3>1. /\ rows' = [rows EXCEPT ![r] = Rewritten(r, row)]
          /\ pc' = [pc EXCEPT ![r] = "refusing"]
          /\ actions' = actions /\ sequence' = sequence
      BY <1>2, <2>1, <2>2, <2>6 DEF CallAnswers, Goto, tableVars
    <3>2. rows'[r] = Rewritten(r, row) /\ sequence'[r] = sequence[r] /\ pc'[r] = "refusing"
      BY <3>1 DEF AgentTypeOK
    <3>3. row \in rows'[r] /\ \A a \in rows'[r] : Settled(a, rows'[r])
      BY <2>4, <3>2 DEF Rewritten
    <3>4. CallInv(r)'
      BY <2>3, <3>2, <3>3 DEF CallInv, HasCall
    <3>5. QED
      BY <3>1, <3>4, RunKeepsCalls DEF AgentTypeOK
  <2>7. QED
    BY <2>5, <2>6
<1>5. QED
  BY <1>3, <1>4

\* A refusal follows the call that made the proposal, which is the run's last row.
LEMMA RefusalKeepsCalls ==
  ASSUME AgentTypeOK, KeysInv, CallsInv, NEW r \in Runs, RecordRefusal(r)
  PROVE  CallsInv'
<1>1. pc[r] = "refusing"
  BY DEF RecordRefusal
<1>2. PICK row : row = PlannedAction(r, "refusal", {"proposal"})
  OBVIOUS
<1>3. PICK S : S = rows[r] \union {row}
  OBVIOUS
<1>4. \A a \in S : Settled(a, S)
  <2>1. rows[r] \subseteq S /\ row \in S
    BY <1>3
  <2>2. \A a \in rows[r] : Settled(a, S)
    <3>1. \A a \in rows[r] : Settled(a, rows[r])
      BY <1>1 DEF CallsInv, CallInv, HasCall
    <3>2. QED
      BY <2>1, <3>1, SettledInMore
  <2>3. Settled(row, S)
    <3>1. /\ row.task = task[r] /\ row.sequence = sequence[r] + 1 /\ row.kind = "refusal"
          /\ row.state = "planned" /\ row.evidence = {"proposal"} /\ row.cost = NoCost
      BY <1>1, <1>2, PlannedRow
    <3>2. PICK b \in rows[r] : b.sequence = sequence[r] /\ b.state = "succeeded"
      BY <1>1 DEF CallsInv, CallInv
    <3>3. b.task = task[r] /\ sequence[r] \in Nat
      BY DEF KeysInv, Fits, AgentTypeOK
    <3>4. HasKey(b, row.task, row.sequence - 1)
      BY <3>1, <3>2, <3>3 DEF HasKey
    <3>5. QED
      BY <2>1, <3>1, <3>2, <3>4 DEF Settled
  <2>4. QED
    BY <1>3, <2>2, <2>3
<1>5. CASE IsLastTurn(turn[r] + 1)
  <2>1. Close(r) /\ actions' = actions \union S
    BY <1>2, <1>3, <1>5 DEF RecordRefusal, Finish
  <2>2. QED
    BY <1>4, <2>1, CloseKeepsCalls
<1>6. CASE ~IsLastTurn(turn[r] + 1)
  <2>1. /\ rows' = [rows EXCEPT ![r] = @ \union {row}]
        /\ sequence' = [sequence EXCEPT ![r] = @ + 1]
        /\ pc' = [pc EXCEPT ![r] = "checking"] /\ actions' = actions
    BY <1>2, <1>6 DEF RecordRefusal, PlanAction, Goto, tableVars
  <2>2. rows'[r] = S /\ pc'[r] = "checking"
    BY <1>3, <2>1 DEF AgentTypeOK
  <2>3. CallInv(r)'
    BY <1>4, <2>2 DEF CallInv, HasCall
  <2>4. QED
    BY <2>1, <2>3, RunKeepsCalls DEF AgentTypeOK
<1>7. QED
  BY <1>5, <1>6

\* A run begins, reads, or warns.
LEMMA ReadKeepsCalls ==
  ASSUME AgentTypeOK, KeysInv, CallsInv, NEW r \in Runs,
         (\E t \in Tasks : BeginRun(r, t)) \/ ReadSpend(r) \/ WeighBudget(r)
           \/ ReportWarning(r)
  PROVE  CallsInv'
<1>1. actions' = actions /\ rows' = rows
  BY DEF BeginRun, ReadSpend, WeighBudget, ReportWarning, tableVars
<1>2. pc[r] \in {"idle", "checking", "weighing", "warning"}
  BY DEF BeginRun, ReadSpend, WeighBudget, ReportWarning
<1>3. pc'[r] \in {"checking", "weighing", "reporting", "warning", "planning"}
  BY DEF BeginRun, ReadSpend, WeighBudget, ReportWarning, Goto, AgentTypeOK
<1>4. \A s \in Runs \ {r} : pc'[s] = pc[s] /\ sequence'[s] = sequence[s]
  BY DEF BeginRun, ReadSpend, WeighBudget, ReportWarning, Goto, AgentTypeOK
<1>5. CallInv(r)'
  <2>1. \A a \in rows[r] : Settled(a, rows[r])
    BY <1>2 DEF CallsInv, CallInv, HasCall
  <2>2. \A a \in rows'[r] : Settled(a, rows'[r])
    BY <1>1, <2>1
  <2>3. QED
    BY <1>3, <2>2 DEF CallInv, HasCall
<1>6. QED
  BY <1>1, <1>4, <1>5, RunKeepsCalls

LEMMA EndKeepsCalls ==
  ASSUME AgentTypeOK, CallsInv, NEW r \in Runs,
         ReportExhausted(r) \/ FindKeyTaken(r) \/ AbortRun(r) \/ LoseLockCycle(r)
  PROVE  CallsInv'
<1>1. CASE ReportExhausted(r)
  <2>1. \A a \in rows[r] : Settled(a, rows[r])
    BY <1>1 DEF ReportExhausted, CallsInv, CallInv, HasCall
  <2>2. QED
    BY <1>1, <2>1, CloseKeepsCalls DEF ReportExhausted, Finish
<1>2. CASE FindKeyTaken(r) \/ AbortRun(r) \/ LoseLockCycle(r)
  <2>1. Close(r) /\ actions' = actions
    BY <1>2 DEF FindKeyTaken, AbortRun, LoseLockCycle
  <2>2. QED
    BY <2>1, CloseKeepsCalls
<1>3. QED
  BY <1>1, <1>2

LEMMA NextKeepsCalls ==
  AgentTypeOK /\ KeysInv /\ CallsInv /\ [Next]_vars => CallsInv'
<1> SUFFICES ASSUME AgentTypeOK, KeysInv, CallsInv, [Next]_vars PROVE CallsInv'
  OBVIOUS
<1>1. CASE UNCHANGED vars
  BY <1>1, RowsAloneKeepCalls DEF vars, tableVars, runVars
<1>2. ASSUME NEW r \in Runs, (\E t \in Tasks : BeginRun(r, t)) \/ Proceed(r) \/ AbortRun(r)
      PROVE  CallsInv'
  BY <1>2, ReadKeepsCalls, PlanCallKeepsCalls, AttemptKeepsCalls, AnswerKeepsCalls,
     RefusalKeepsCalls, EndKeepsCalls DEF Proceed
<1>3. ASSUME NEW d \in Deciders,
             (\E n \in Raises : ReadBudget(d, n)) \/ Decide(d) \/ AbortDecision(d)
      PROVE  CallsInv'
  <2>1. actions' = actions /\ rows' = rows /\ pc' = pc /\ sequence' = sequence
    BY <1>3 DEF ReadBudget, Decide, AbortDecision, WriteBudget, CommitBudget, FindBudgetSet,
                CloseDecision, tableVars, runVars
  <2>2. QED
    BY <2>1, RowsAloneKeepCalls
<1>4. QED
  BY <1>1, <1>2, <1>3 DEF Next

-----------------------------------------------------------------------------
(* Turns. *)

\* A row without a cost adds nothing.
LEMMA SpendOfCosts ==
  ASSUME NEW S, NEW T, {a \in S : a.cost # NoCost} = {a \in T : a.cost # NoCost}
  PROVE  Spend(S) = Spend(T)
BY DEF Spend

\* A step of others, who commit nothing while the run has the chain head.
LEMMA OthersKeepTurn ==
  ASSUME NEW r \in Runs, TurnInv(r),
         pc'[r] = pc[r], turn'[r] = turn[r], rows'[r] = rows[r], seenSpend'[r] = seenSpend[r],
         headLock = r => headLock' = r /\ actions' = actions /\ ceiling' = ceiling
  PROVE  TurnInv(r)'
<1>1. Visible(r)' = actions' \union rows[r]
  BY DEF Visible
<1>2. CASE headLock = r
  BY <1>1, <1>2 DEF TurnInv, Visible
<1>3. CASE headLock # r
  BY <1>3 DEF TurnInv
<1>4. QED
  BY <1>2, <1>3

\* A run that has ended.
LEMMA CloseKeepsTurn ==
  ASSUME AgentTypeOK, NEW r \in Runs, Close(r)
  PROVE  /\ TurnInv(r)'
         /\ ceiling' = ceiling
         /\ \A s \in Runs \ {r} : /\ headLock = s => headLock' = s
                                  /\ pc'[s] = pc[s] /\ turn'[s] = turn[s]
                                  /\ rows'[s] = rows[s] /\ seenSpend'[s] = seenSpend[s]
<1>1. /\ headLock' = IF headLock = r THEN NoSession ELSE headLock
      /\ turn' = [turn EXCEPT ![r] = 0]
      /\ seenSpend' = [seenSpend EXCEPT ![r] = 0]
      /\ rows' = [rows EXCEPT ![r] = {}]
      /\ pc' = [pc EXCEPT ![r] = "idle"]
      /\ ceiling' = ceiling
  BY DEF Close, Goto
<1>2. turn'[r] = 0 /\ rows'[r] = {} /\ pc'[r] = "idle"
  BY <1>1 DEF AgentTypeOK
<1>3. TurnInv(r)'
  BY <1>2 DEF TurnInv
<1>4. QED
  BY <1>1, <1>3 DEF AgentTypeOK

\* The steps of a run that is not at its end.
LEMMA ReadKeepsTurn ==
  ASSUME AgentTypeOK, NEW r \in Runs, TurnInv(r),
         (\E t \in Tasks : BeginRun(r, t)) \/ ReadSpend(r) \/ WeighBudget(r)
           \/ ReportWarning(r)
  PROVE  TurnInv(r)'
<1>1. actions' = actions /\ ceiling' = ceiling /\ rows' = rows /\ turn' = turn
  BY DEF BeginRun, ReadSpend, WeighBudget, ReportWarning, tableVars
<1>2. Visible(r)' = Visible(r)
  BY <1>1 DEF Visible
<1>3. headLock = r => headLock' = r
  BY DEF BeginRun, ReadSpend, WeighBudget, ReportWarning, lockVars
<1>4. CASE \E t \in Tasks : BeginRun(r, t)
  <2>1. pc[r] = "idle" /\ pc'[r] = "checking"
    BY <1>4 DEF BeginRun, Goto, AgentTypeOK
  <2>2. QED
    BY <1>1, <1>3, <2>1 DEF TurnInv
<1>5. CASE ReadSpend(r)
  <2>1. pc[r] = "checking" /\ pc'[r] = "weighing" /\ seenSpend'[r] = Spend(Visible(r))
    BY <1>5 DEF ReadSpend, Goto, AgentTypeOK
  <2>2. QED
    BY <1>1, <1>2, <1>3, <2>1 DEF TurnInv
<1>6. CASE WeighBudget(r)
  <2>1. /\ pc[r] = "weighing" /\ seenSpend' = seenSpend
        /\ pc'[r] \in {"reporting", "warning", "planning"}
    BY <1>6 DEF WeighBudget, Goto, AgentTypeOK
  <2>2. ceiling \in Nat /\ seenSpend[r] \in Nat
    BY DEF AgentTypeOK
  <2>3. pc'[r] # "reporting" => ceiling = NoBudget \/ seenSpend[r] < ceiling
    BY <1>6, <2>2 DEF WeighBudget, Goto, AgentTypeOK, IsExhausted, IsWarning
  <2>4. QED
    BY <1>1, <1>2, <1>3, <2>1, <2>3 DEF TurnInv
<1>7. CASE ReportWarning(r)
  <2>1. pc[r] = "warning" /\ pc'[r] = "planning" /\ headLock' = r
    BY <1>7 DEF ReportWarning, Goto, AgentTypeOK
  <2>2. QED
    BY <1>1, <1>2, <2>1 DEF TurnInv
<1>8. QED
  BY <1>4, <1>5, <1>6, <1>7

LEMMA PlanCallKeepsTurn ==
  ASSUME AgentTypeOK, NEW r \in Runs, TurnInv(r), PlanCall(r)
  PROVE  TurnInv(r)'
<1>1. PICK row : row = PlannedAction(r, "call", {})
  OBVIOUS
<1>2. /\ pc[r] = "planning" /\ pc'[r] = "attempting" /\ rows'[r] = rows[r] \union {row}
      /\ actions' = actions /\ ceiling' = ceiling /\ headLock' = headLock /\ turn' = turn
  BY <1>1 DEF PlanCall, PlanAction, Goto, tableVars, lockVars, AgentTypeOK
<1>3. row.cost = NoCost
  BY <1>1, <1>2, PlannedRow
<1>4. Spend(Visible(r)') = Spend(Visible(r))
  <2>1. Visible(r)' = Visible(r) \union {row}
    BY <1>2 DEF Visible
  <2>2. {a \in Visible(r)' : a.cost # NoCost} = {a \in Visible(r) : a.cost # NoCost}
    BY <1>3, <2>1
  <2>3. QED
    BY <2>2, SpendOfCosts
<1>5. QED
  BY <1>2, <1>4 DEF TurnInv

LEMMA AttemptKeepsTurn ==
  ASSUME AgentTypeOK, KeysInv, CallsInv, NEW r \in Runs, TurnInv(r), AttemptCall(r)
  PROVE  TurnInv(r)'
<1>1. HasCall(r)
  BY DEF AttemptCall, HasCall
<1>2. PICK c \in Action : c = CallInHand(r) /\ c \in rows[r] /\ c.cost = NoCost
  BY <1>1, CallInHandIsRow DEF KeysInv, CallsInv, AgentTypeOK
<1>3. PICK row : row = Attempted(c)
  OBVIOUS
<1>4. row.cost = NoCost
  BY <1>2, <1>3, AttemptedRow
<1>5. /\ pc[r] = "attempting" /\ pc'[r] = "calling" /\ rows'[r] = (rows[r] \ {c}) \union {row}
      /\ actions' = actions /\ ceiling' = ceiling /\ headLock' = r /\ turn' = turn
  BY <1>2, <1>3 DEF AttemptCall, Attempted, Rewritten, Goto, tableVars, AgentTypeOK
<1>6. Spend(Visible(r)') = Spend(Visible(r))
  <2>1. /\ Visible(r) = actions \union rows[r]
        /\ Visible(r)' = actions \union ((rows[r] \ {c}) \union {row})
    BY <1>5 DEF Visible
  <2>2. {a \in Visible(r)' : a.cost # NoCost} = {a \in Visible(r) : a.cost # NoCost}
    BY <1>2, <1>4, <2>1
  <2>3. QED
    BY <2>2, SpendOfCosts
<1>7. turn[r] = 0 => \A a, b \in rows'[r] : a = b
  BY <1>2, <1>5 DEF TurnInv
<1>8. QED
  BY <1>5, <1>6, <1>7 DEF TurnInv

\* A proposal, and its refusal.
LEMMA ProposalKeepsTurn ==
  ASSUME AgentTypeOK, KeysInv, CallsInv, NEW r \in Runs, TurnInv(r), pc[r] = "calling",
         NEW row, rows' = [rows EXCEPT ![r] = Rewritten(r, row)],
         pc' = [pc EXCEPT ![r] = "refusing"], headLock' = headLock, turn' = turn
  PROVE  TurnInv(r)'
<1>1. PICK c : c = CallInHand(r) /\ c \in rows[r]
  BY CallInHandIsRow DEF HasCall, KeysInv, CallsInv
<1>2. rows'[r] = (rows[r] \ {c}) \union {row} /\ pc'[r] = "refusing"
  BY <1>1 DEF Rewritten, AgentTypeOK
<1>3. turn[r] = 0 => \A a, b \in rows'[r] : a = b
  BY <1>1, <1>2 DEF TurnInv
<1>4. headLock' = r
  BY DEF TurnInv
<1>5. QED
  BY <1>2, <1>3, <1>4 DEF TurnInv

\* What a step of one run does to the others, if it commits only with the head.
RunLeavesOthers(r) ==
  /\ ceiling' = ceiling
  /\ \A s \in Runs \ {r} : /\ headLock = s => headLock' = s /\ actions' = actions
                           /\ pc'[s] = pc[s] /\ turn'[s] = turn[s]
                           /\ rows'[s] = rows[s] /\ seenSpend'[s] = seenSpend[s]

LEMMA EndKeepsTurn ==
  ASSUME AgentTypeOK, NEW r \in Runs, Close(r), actions' = actions \/ HeadFree(r)
  PROVE  TurnInv(r)' /\ RunLeavesOthers(r)
<1>1. r # NoSession /\ \A s \in Runs : s # NoSession
  BY AgentAssumption
<1>2. \A s \in Runs \ {r} : headLock = s => actions' = actions
  BY <1>1 DEF HeadFree
<1>3. QED
  BY <1>2, CloseKeepsTurn DEF RunLeavesOthers

LEMMA RunKeepsTurns ==
  ASSUME AgentTypeOK, KeysInv, CallsInv, TurnsInv, NEW r \in Runs,
         (\E t \in Tasks : BeginRun(r, t)) \/ Proceed(r) \/ AbortRun(r)
  PROVE  TurnInv(r)' /\ RunLeavesOthers(r)
<1>1. TurnInv(r) /\ r # NoSession /\ \A s \in Runs : s # NoSession
  BY AgentAssumption DEF TurnsInv
<1>2. CASE (\E t \in Tasks : BeginRun(r, t)) \/ ReadSpend(r) \/ WeighBudget(r)
             \/ ReportWarning(r)
  <2>1. RunLeavesOthers(r)
    BY <1>1, <1>2 DEF BeginRun, ReadSpend, WeighBudget, ReportWarning, RunLeavesOthers, Goto,
                      HeadFree, tableVars, lockVars, AgentTypeOK
  <2>2. QED
    BY <1>1, <1>2, <2>1, ReadKeepsTurn
<1>3. CASE PlanCall(r)
  <2>1. RunLeavesOthers(r)
    BY <1>3 DEF PlanCall, PlanAction, RunLeavesOthers, Goto, tableVars, lockVars, AgentTypeOK
  <2>2. QED
    BY <1>1, <1>3, <2>1, PlanCallKeepsTurn
<1>4. CASE AttemptCall(r)
  <2>1. RunLeavesOthers(r)
    BY <1>1, <1>4 DEF AttemptCall, RunLeavesOthers, Goto, HeadFree, tableVars, AgentTypeOK
  <2>2. QED
    BY <1>1, <1>4, <2>1, AttemptKeepsTurn
<1>5. CASE ReportExhausted(r)
  BY <1>5, EndKeepsTurn DEF ReportExhausted, Finish
<1>6. CASE FindKeyTaken(r) \/ AbortRun(r) \/ LoseLockCycle(r)
  BY <1>6, EndKeepsTurn DEF FindKeyTaken, AbortRun, LoseLockCycle
<1>7. CASE CallFails(r)
  <2>1. HeadFree(r) /\ Close(r)
    BY <1>1, <1>7 DEF CallFails, Finish, TurnInv, HeadFree
  <2>2. QED
    BY <2>1, EndKeepsTurn
<1>8. CASE \E used \in Usages : CallAnswers(r, used)
  <2>1. pc[r] = "calling" /\ HeadFree(r)
    BY <1>1, <1>8 DEF CallAnswers, TurnInv, HeadFree
  <2>2. CASE Close(r)
    BY <2>1, <2>2, EndKeepsTurn
  <2>3. CASE ~Close(r)
    <3>1. PICK used \in Usages : CallAnswers(r, used)
      BY <1>8
    <3>2. PICK row : row = Succeeded(CallInHand(r), used)
      OBVIOUS
    <3>3. /\ rows' = [rows EXCEPT ![r] = Rewritten(r, row)]
          /\ pc' = [pc EXCEPT ![r] = "refusing"]
          /\ UNCHANGED <<actions, ceiling, headLock, turn, seenSpend>>
      BY <2>3, <3>1, <3>2 DEF CallAnswers, Finish, Goto, tableVars, lockVars
    <3>4. TurnInv(r)'
      BY <1>1, <2>1, <3>3, ProposalKeepsTurn
    <3>5. RunLeavesOthers(r)
      BY <3>3 DEF RunLeavesOthers, AgentTypeOK
    <3>6. QED
      BY <3>4, <3>5
  <2>4. QED
    BY <2>2, <2>3
<1>9. CASE RecordRefusal(r)
  <2>1. headLock = r /\ pc[r] = "refusing"
    BY <1>1, <1>9 DEF RecordRefusal, TurnInv
  <2>2. CASE Close(r)
    BY <2>1, <2>2, EndKeepsTurn DEF HeadFree
  <2>3. CASE ~Close(r)
    <3>1. PICK row : row = PlannedAction(r, "refusal", {"proposal"})
      OBVIOUS
    <3>2. /\ rows' = [rows EXCEPT ![r] = @ \union {row}]
          /\ turn' = [turn EXCEPT ![r] = @ + 1] /\ pc' = [pc EXCEPT ![r] = "checking"]
          /\ UNCHANGED <<actions, ceiling, headLock, seenSpend>>
      BY <1>9, <2>3, <3>1
      DEF RecordRefusal, Finish, PlanAction, Goto, tableVars, lockVars
    <3>3. turn'[r] = turn[r] + 1 /\ turn[r] \in Nat /\ pc'[r] = "checking"
      BY <3>2 DEF AgentTypeOK
    <3>4. TurnInv(r)'
      BY <2>1, <3>2, <3>3 DEF TurnInv
    <3>5. RunLeavesOthers(r)
      BY <3>2 DEF RunLeavesOthers, AgentTypeOK
    <3>6. QED
      BY <3>4, <3>5
  <2>4. QED
    BY <2>2, <2>3
<1>10. QED
  BY <1>2, <1>3, <1>4, <1>5, <1>6, <1>7, <1>8, <1>9 DEF Proceed

LEMMA NextKeepsTurns ==
  AgentTypeOK /\ KeysInv /\ CallsInv /\ TurnsInv /\ [Next]_vars => TurnsInv'
<1> SUFFICES ASSUME AgentTypeOK, KeysInv, CallsInv, TurnsInv, [Next]_vars PROVE TurnsInv'
  OBVIOUS
<1>1. CASE UNCHANGED vars
  BY <1>1, OthersKeepTurn DEF TurnsInv, vars, tableVars, lockVars, runVars
<1>2. ASSUME NEW r \in Runs, (\E t \in Tasks : BeginRun(r, t)) \/ Proceed(r) \/ AbortRun(r)
      PROVE  TurnsInv'
  <2>1. TurnInv(r)' /\ RunLeavesOthers(r)
    BY <1>2, RunKeepsTurns
  <2>2. ASSUME NEW s \in Runs \ {r} PROVE TurnInv(s)'
    <3>1. TurnInv(s)
      BY DEF TurnsInv
    <3>2. QED
      BY <2>1, <3>1, OthersKeepTurn DEF RunLeavesOthers
  <2>3. QED
    BY <2>1, <2>2 DEF TurnsInv
<1>3. ASSUME NEW d \in Deciders,
             (\E n \in Raises : ReadBudget(d, n)) \/ Decide(d) \/ AbortDecision(d)
      PROVE  TurnsInv'
  <2>1. UNCHANGED <<actions, pc, turn, rows, seenSpend, headLock>>
    BY <1>3 DEF ReadBudget, Decide, AbortDecision, WriteBudget, CommitBudget, FindBudgetSet,
                CloseDecision, tableVars, lockVars, runVars
  <2>2. headLock # NoSession => ceiling' = ceiling
    BY <1>3 DEF ReadBudget, Decide, AbortDecision, WriteBudget, CommitBudget, FindBudgetSet,
                tableVars
  <2>3. ASSUME NEW s \in Runs PROVE TurnInv(s)'
    <3>1. TurnInv(s) /\ s # NoSession
      BY AgentAssumption DEF TurnsInv
    <3>2. QED
      BY <2>1, <2>2, <3>1, OthersKeepTurn
  <2>4. QED
    BY <2>3 DEF TurnsInv
<1>4. QED
  BY <1>1, <1>2, <1>3 DEF Next

-----------------------------------------------------------------------------
(* The theorems. *)

AgentInv == AgentTypeOK /\ KeysInv /\ CallsInv /\ TurnsInv

LEMMA InitInv == Init => AgentInv
<1> SUFFICES ASSUME Init PROVE AgentInv
  OBVIOUS
<1>1. /\ actions = {}
      /\ \A r \in Runs : rows[r] = {} /\ sequence[r] = 0 /\ turn[r] = 0 /\ pc[r] = "idle"
  BY DEF Init
<1>2. AgentTypeOK
  BY InitType
<1>3. KeysInv
  <2>1. SequencesGapless
    BY <1>1 DEF SequencesGapless
  <2>2. \A r \in Runs : Fits(r, rows[r], task[r], sequence[r])
    BY <1>1, FS_EmptySet DEF Fits
  <2>3. QED
    BY <1>1, <2>1, <2>2, FS_EmptySet DEF KeysInv
<1>4. CallsInv
  BY <1>1 DEF CallsInv, CallsAreSettled, CallInv, HasCall
<1>5. TurnsInv
  BY <1>1 DEF TurnsInv, TurnInv
<1>6. QED
  BY <1>2, <1>3, <1>4, <1>5 DEF AgentInv

\* The inductive invariant: the types, the numbers that committed and uncommitted actions
\* have between them, the calls that are made and half made, and what a run knows of the
\* budget while it has the chain head.
THEOREM AgentInvariant == Spec => []AgentInv
<1>1. AgentInv /\ [Next]_vars => AgentInv'
  BY NextType, NextKeepsKeys, NextKeepsCalls, NextKeepsTurns DEF AgentInv
<1>2. QED
  BY InitInv, <1>1, PTL DEF Spec

\* Tables, locks, runs and decisions hold values of the right kind, and no run takes more
\* turns than max_turns (run_task, cost_service).
THEOREM AgentTypeCorrect == Spec => []AgentTypeOK
<1>1. AgentInv => AgentTypeOK
  BY DEF AgentInv
<1>2. QED
  BY <1>1, AgentInvariant, PTL

\* The committed actions of a task are numbered 1 .. n, each number once, however runs of
\* the task overlap, fail or die (next_sequence, plan_action and UNIQUE (task_id, sequence)).
THEOREM SequencesStayGapless == Spec => []SequencesGapless
<1>1. AgentInv => SequencesGapless
  BY DEF AgentInv, KeysInv
<1>2. QED
  BY <1>1, AgentInvariant, PTL

\* Finitely many rows that are numbered without repetition or gap are numbered by their
\* count.
LEMMA NumberedByCount ==
  ASSUME NEW B, IsFiniteSet(B), B \subseteq Action,
         \A a, b \in B : a.sequence = b.sequence => a = b,
         \A a \in B : \A n \in 1 .. a.sequence : \E b \in B : b.sequence = n
  PROVE  /\ Cardinality(B) \in Nat
         /\ \A a \in B : a.sequence \in 1 .. Cardinality(B)
         /\ \A n \in 1 .. Cardinality(B) : \E a \in B : a.sequence = n
<1> DEFINE N == {a.sequence : a \in B}
           f == [a \in B |-> a.sequence]
<1>1. \A a \in B : a.sequence \in Nat \ {0}
  BY DEF Action
<1>2. CASE B = {}
  BY <1>2, FS_EmptySet
<1>3. CASE B # {}
  <2>1. f \in Surjection(B, N)
    BY DEF Surjection
  <2>2. IsFiniteSet(N)
    <3> HIDE DEF N, f
    <3> QED
      BY <2>1, FS_Surjection
  <2>3. N \subseteq Nat /\ N # {}
    BY <1>1, <1>3
  <2>4. PICK m : m \in N /\ \A n \in N : n <= m
    <3> HIDE DEF N
    <3> QED
      BY <2>2, <2>3, FiniteMax
  <2>5. m \in Nat /\ \A a \in B : a.sequence \in 1 .. m
    BY <1>1, <2>3, <2>4
  <2>6. \A n \in 1 .. m : \E a \in B : a.sequence = n
    BY <2>4
  <2>7. f \in Bijection(B, 1 .. m)
    BY <2>5, <2>6 DEF Bijection, Injection, IsInjective, Surjection
  <2>8. Cardinality(1 .. m) = Cardinality(B)
    <3> HIDE DEF f
    <3> QED
      BY <2>7, FS_Bijection DEF ExistsBijection
  <2>9. Cardinality(1 .. m) = m
    BY <2>5, FS_Interval
  <2>10. QED
    BY <2>5, <2>6, <2>8, <2>9
<1>4. QED
  BY <1>2, <1>3

\* The committed actions of each task are numbered by their count.
ActionsNumbered ==
  \A t \in Tasks :
    /\ Cardinality(ActionsOf(t)) \in Nat
    /\ \A a \in ActionsOf(t) : a.sequence \in 1 .. Cardinality(ActionsOf(t))
    /\ \A n \in 1 .. Cardinality(ActionsOf(t)) : \E a \in ActionsOf(t) : a.sequence = n
    /\ \A a, b \in ActionsOf(t) : a.sequence = b.sequence => a = b

LEMMA InvNumbersActions == AgentInv => ActionsNumbered
<1> SUFFICES ASSUME AgentInv, NEW t \in Tasks
             PROVE  LET B == ActionsOf(t) IN
                    /\ Cardinality(B) \in Nat
                    /\ \A a \in B : a.sequence \in 1 .. Cardinality(B)
                    /\ \A n \in 1 .. Cardinality(B) : \E a \in B : a.sequence = n
                    /\ \A a, b \in B : a.sequence = b.sequence => a = b
  BY DEF ActionsNumbered
<1>1. ActionsOf(t) \subseteq Action /\ ActionsOf(t) \subseteq actions
  BY DEF AgentInv, AgentTypeOK, ActionsOf
<1>2. IsFiniteSet(ActionsOf(t))
  BY <1>1, FS_Subset DEF AgentInv, KeysInv
<1>3. \A a, b \in ActionsOf(t) : a.sequence = b.sequence => a = b
  BY DEF AgentInv, KeysInv, SequencesGapless, ActionsOf
<1>4. \A a \in ActionsOf(t) : \A n \in 1 .. a.sequence : \E b \in ActionsOf(t) : b.sequence = n
  BY DEF AgentInv, KeysInv, SequencesGapless, ActionsOf, HasKey
<1>5. QED
  BY <1>1, <1>2, <1>3, <1>4, NumberedByCount

\* A step commits actions of at most one task.
LEMMA CommitsOneTask ==
  ASSUME AgentInv, [Next]_vars
  PROVE  \/ actions' = actions
         \/ \E r \in Runs : /\ task[r] \in Tasks /\ actions \subseteq actions'
                            /\ \A a \in actions' \ actions : a.task = task[r]
<1> USE DEF AgentInv
<1>1. ASSUME NEW r \in Runs, NEW S, Finish(r, S), pc[r] # "idle",
             \A a \in S : a.task = task[r]
      PROVE  /\ task[r] \in Tasks /\ actions \subseteq actions'
             /\ \A a \in actions' \ actions : a.task = task[r]
  BY <1>1 DEF Finish, AgentTypeOK
<1>2. ASSUME NEW r \in Runs
      PROVE  /\ \A a \in rows[r] : a.task = task[r]
             /\ HasCall(r) => CallInHand(r) \in rows[r]
  BY CallInHandIsRow DEF KeysInv, CallsInv, Fits
<1>3. ASSUME NEW r \in Runs, ReportExhausted(r)
      PROVE  pc[r] # "idle" /\ Finish(r, rows[r])
  BY <1>3 DEF ReportExhausted
<1>4. ASSUME NEW r \in Runs, CallFails(r)
      PROVE  \E S : /\ pc[r] # "idle" /\ Finish(r, S)
                    /\ \A a \in S : a.task = task[r]
  <2>1. HasCall(r) /\ pc[r] # "idle" /\ Finish(r, Rewritten(r, Failed(CallInHand(r))))
    BY <1>4 DEF CallFails, HasCall
  <2>2. Failed(CallInHand(r)).task = task[r]
    BY <1>2, <2>1 DEF Failed, AgentTypeOK, Action
  <2>3. QED
    BY <1>2, <2>1, <2>2 DEF Rewritten
<1>5. ASSUME NEW r \in Runs, NEW used \in Usages, CallAnswers(r, used), actions' # actions
      PROVE  \E S : /\ pc[r] # "idle" /\ Finish(r, S)
                    /\ \A a \in S : a.task = task[r]
  <2>1. /\ HasCall(r) /\ pc[r] # "idle"
        /\ Finish(r, Rewritten(r, Succeeded(CallInHand(r), used)))
    BY <1>5 DEF CallAnswers, HasCall, tableVars
  <2>2. Succeeded(CallInHand(r), used).task = task[r]
    BY <1>2, <2>1 DEF Succeeded, AgentTypeOK, Action
  <2>3. QED
    BY <1>2, <2>1, <2>2 DEF Rewritten
<1>6. ASSUME NEW r \in Runs, RecordRefusal(r), actions' # actions
      PROVE  \E S : /\ pc[r] # "idle" /\ Finish(r, S)
                    /\ \A a \in S : a.task = task[r]
  <2>1. /\ pc[r] # "idle"
        /\ Finish(r, rows[r] \union {PlannedAction(r, "refusal", {"proposal"})})
    BY <1>6 DEF RecordRefusal, tableVars
  <2>2. PlannedAction(r, "refusal", {"proposal"}).task = task[r]
    BY DEF PlannedAction
  <2>3. QED
    BY <1>2, <2>1, <2>2
<1>7. ASSUME NEW r \in Runs, (\E t \in Tasks : BeginRun(r, t)) \/ Proceed(r) \/ AbortRun(r),
             actions' # actions
      PROVE  \E S : /\ pc[r] # "idle" /\ Finish(r, S)
                    /\ \A a \in S : a.task = task[r]
  <2>1. ~((\E t \in Tasks : BeginRun(r, t)) \/ ReadSpend(r) \/ WeighBudget(r)
            \/ ReportWarning(r) \/ PlanCall(r) \/ AttemptCall(r) \/ FindKeyTaken(r)
            \/ LoseLockCycle(r) \/ AbortRun(r))
    BY <1>7 DEF BeginRun, ReadSpend, WeighBudget, ReportWarning, PlanCall, AttemptCall,
                FindKeyTaken, LoseLockCycle, AbortRun, tableVars
  <2>2. QED
    BY <1>2, <1>3, <1>4, <1>5, <1>6, <1>7, <2>1 DEF Proceed
<1>8. ASSUME NEW d \in Deciders,
             (\E n \in Raises : ReadBudget(d, n)) \/ Decide(d) \/ AbortDecision(d)
      PROVE  actions' = actions
  BY <1>8 DEF ReadBudget, Decide, WriteBudget, CommitBudget, FindBudgetSet, AbortDecision,
              CloseDecision, tableVars
<1>9. CASE UNCHANGED vars
  BY <1>9 DEF vars, tableVars
<1>10. QED
  BY <1>1, <1>7, <1>8, <1>9 DEF Next

\* The actions of a task are an append-only log: AgentRun implements AppendOnlyLog
\* (action_recorder.py: plan_action inserts the next number, and nothing rewrites a
\* committed action).
THEOREM ActionsAreALog == Spec => ActionsOnlyGrow
<1> DEFINE log == [t \in Tasks |-> EntriesOf(t)]
           len == [t \in Tasks |-> Cardinality(ActionsOf(t))]
<1>1. Init => ActionLog!Init
  <2> SUFFICES ASSUME Init PROVE ActionLog!Init
    OBVIOUS
  <2>1. \A t : ActionsOf(t) = {}
    BY DEF Init, ActionsOf
  <2>2. QED
    BY <2>1, FS_EmptySet DEF ActionLog!Init, EntriesOf
<1>2. AgentInv /\ ActionsNumbered /\ ActionsNumbered' /\ [Next]_vars
        => [\E o \in Tasks : ActionLog!Append(o)]_
             <<[t \in Tasks |-> EntriesOf(t)], [t \in Tasks |-> Cardinality(ActionsOf(t))]>>
  <2> SUFFICES ASSUME AgentInv, ActionsNumbered, ActionsNumbered', [Next]_vars,
                      actions' # actions
               PROVE  (\E o \in Tasks : ActionLog!Append(o)) \/ UNCHANGED <<log, len>>
    BY DEF ActionsOf, EntriesOf
  <2>1. PICK r \in Runs : /\ task[r] \in Tasks /\ actions \subseteq actions'
                          /\ \A a \in actions' \ actions : a.task = task[r]
    BY CommitsOneTask
  <2>2. PICK t \in Tasks : t = task[r]
    BY <2>1
  <2>3. /\ \A u \in Tasks \ {t} : ActionsOf(u)' = ActionsOf(u)
        /\ ActionsOf(t) \subseteq ActionsOf(t)' /\ ActionsOf(t)' # ActionsOf(t)
    BY <2>1, <2>2 DEF ActionsOf
  <2>4. /\ log' = [log EXCEPT ![t] = log'[t]] /\ len' = [len EXCEPT ![t] = len'[t]]
        /\ log[t] \subseteq log'[t]
    <3>1. \A u \in Tasks \ {t} : log'[u] = log[u] /\ len'[u] = len[u]
      BY <2>3 DEF EntriesOf
    <3>2. log[t] \subseteq log'[t]
      BY <2>3 DEF EntriesOf
    <3>3. /\ log = [u \in Tasks |-> log[u]] /\ log' = [u \in Tasks |-> log'[u]]
          /\ len = [u \in Tasks |-> len[u]] /\ len' = [u \in Tasks |-> len'[u]]
      OBVIOUS
    <3> HIDE DEF log, len
    <3>4. QED
      BY <3>1, <3>2, <3>3
  <2>5. /\ len[t] \in Nat /\ len'[t] \in Nat
        /\ \A a \in ActionsOf(t) : a.sequence \in 1 .. len[t]
        /\ \A n \in 1 .. len[t] : \E a \in ActionsOf(t) : a.sequence = n
        /\ \A a \in ActionsOf(t)' : a.sequence \in 1 .. len'[t]
        /\ \A n \in 1 .. len'[t] : \E a \in ActionsOf(t)' : a.sequence = n
        /\ \A a, b \in ActionsOf(t)' : a.sequence = b.sequence => a = b
    BY DEF ActionsNumbered
  <2>6. \A a \in ActionsOf(t)' \ ActionsOf(t) : a.sequence \in len[t] + 1 .. len'[t]
    BY <2>3, <2>5
  <2>7. len'[t] > len[t]
    BY <2>3, <2>5, <2>6
  <2>8. \A e \in log'[t] \ log[t] : e.seq \in len[t] + 1 .. len'[t]
    BY <2>6 DEF EntriesOf
  <2>9. \A n \in len[t] + 1 .. len'[t] : \E e \in log'[t] : e.seq = n
    <3>1. ASSUME NEW a \in ActionsOf(t)' PROVE \E e \in log'[t] : e.seq = a.sequence
      <4>1. [seq |-> a.sequence, action |-> a] \in log'[t]
        BY DEF EntriesOf
      <4>2. QED
        BY <4>1
    <3>2. \A n \in len[t] + 1 .. len'[t] : n \in 1 .. len'[t]
      BY <2>5
    <3>3. QED
      BY <2>5, <3>1, <3>2
  <2>10. \A d, e \in log'[t] : d.seq = e.seq => d = e
    BY <2>5 DEF EntriesOf
  <2> HIDE DEF log, len
  <2>11. QED
    BY <2>4, <2>7, <2>8, <2>9, <2>10 DEF ActionLog!Append, log, len
<1>3. QED
  BY <1>1, <1>2, InvNumbersActions, AgentInvariant, PTL
     DEF Spec, ActionsOnlyGrow, ActionLog!Spec

\* A run that has lost its next number has no rows: whoever has the number has, or has
\* committed, all the numbers before it.
LEMMA KeyTakenLeavesNoRows ==
  ASSUME AgentTypeOK, KeysInv, NEW r \in Runs,
         KeyCommitted(r) \/ \E s \in Runs : KeyHeldBy(r, s)
  PROVE  rows[r] = {}
<1> SUFFICES ASSUME NEW a \in rows[r] PROVE FALSE
  OBVIOUS
<1>1. /\ Fits(r, rows[r], task[r], sequence[r]) /\ sequence[r] \in Nat
      /\ a.task = task[r] /\ a.sequence \in 1 .. sequence[r]
  BY DEF KeysInv, Fits, AgentTypeOK, Action
<1>2. CASE KeyCommitted(r)
  <2>1. PICK b \in actions : b.task = task[r] /\ b.sequence = sequence[r] + 1
    BY <1>2 DEF KeyCommitted, HasKey
  <2>2. a.sequence \in 1 .. b.sequence
    BY <1>1, <2>1
  <2>3. \E c \in actions : HasKey(c, b.task, a.sequence)
    BY <2>2 DEF KeysInv, SequencesGapless
  <2>4. QED
    BY <1>1, <2>1, <2>3 DEF Fits, HasKey, SameKey
<1>3. CASE \E s \in Runs : KeyHeldBy(r, s)
  <2>1. PICK s \in Runs \ {r} : \E b \in rows[s] : HasKey(b, task[r], sequence[r] + 1)
    BY <1>3 DEF KeyHeldBy
  <2>2. PICK b \in rows[s] : b.task = task[r] /\ b.sequence = sequence[r] + 1
    BY <2>1 DEF HasKey
  <2>3. /\ Fits(s, rows[s], task[s], sequence[s]) /\ sequence[s] \in Nat
        /\ b.task = task[s] /\ b.sequence <= sequence[s]
    BY <2>2 DEF KeysInv, Fits, AgentTypeOK
  <2>4. a.sequence \in 1 .. sequence[s]
    BY <1>1, <2>2, <2>3
  <2>5. \E c \in actions \union rows[s] : HasKey(c, task[s], a.sequence)
    BY <2>3, <2>4 DEF Fits
  <2>6. PICK c \in actions \union rows[s] : SameKey(a, c)
    BY <1>1, <2>2, <2>3, <2>5 DEF HasKey, SameKey
  <2>7. QED
    BY <1>1, <2>6 DEF Fits
<1>4. QED
  BY <1>2, <1>3

\* Nor has an idle run.
LEMMA IdleHasNoRows ==
  ASSUME AgentTypeOK, KeysInv, NEW r \in Runs, pc[r] = "idle"
  PROVE  rows[r] = {}
<1>1. \A a \in rows[r] : a.task \in Tasks /\ a.task = task[r]
  BY DEF KeysInv, Fits, AgentTypeOK, Action
<1>2. task[r] \notin Tasks
  BY AgentAssumption DEF AgentTypeOK
<1>3. QED
  BY <1>1, <1>2

\* Who loses a lock cycle has asked the provider for nothing: who has asked holds the head,
\* and waits for no number either.
LEMMA LoserHasNotAsked ==
  ASSUME AgentInv, NEW r \in Runs, LoseLockCycle(r), NEW a \in rows[r]
  PROVE  "request" \notin a.evidence
<1>1. CASE \E s \in Runs : WaitsForKey(r, s)
  BY <1>1, KeyTakenLeavesNoRows DEF WaitsForKey, AgentInv
<1>2. CASE \E s \in Runs : WaitsForHead(r, s)
  <2>1. pc[r] \in {"reporting", "warning", "attempting"} /\ headLock # r
    BY <1>2 DEF WaitsForHead
  <2>2. TurnInv(r) /\ CallInv(r) /\ turn[r] \in Nat
    BY AgentAssumption DEF AgentInv, TurnsInv, CallsInv, AgentTypeOK
  <2>3. turn[r] = 0
    BY <2>1, <2>2 DEF TurnInv
  <2>4. pc[r] = "attempting" /\ \A b \in rows[r] : a = b
    BY <2>1, <2>2, <2>3 DEF TurnInv
  <2>5. a.evidence = {}
    BY <2>2, <2>4 DEF CallInv, HasCall
  <2>6. QED
    BY <2>5
<1>3. QED
  BY <1>1, <1>2 DEF LoseLockCycle

\* With a row in the place of the call in hand that says no less, nothing is lost.
LEMMA RewrittenKeepsRecord ==
  ASSUME KeysInv, CallsInv, NEW r \in Runs, HasCall(r), NEW row, NEW a \in rows[r],
         row.task = CallInHand(r).task, row.sequence = CallInHand(r).sequence,
         CallInHand(r).evidence \subseteq row.evidence
  PROVE  \E b \in Rewritten(r, row) :
           HasKey(b, a.task, a.sequence) /\ a.evidence \subseteq b.evidence
BY DEF Rewritten, HasKey

\* What has been asked of the provider is on record when its run ends, unless the run is
\* aborted: when the provider fails, when a refusal is the last turn's, when other runs have
\* taken the run's numbers or wait in a cycle with it (invoke, plan_action, and the audit
\* writer's lock on the chain head, which whoever has asked has).
THEOREM AskedStaysOnRecord == Spec => AskedIsOnRecord
<1>1. AgentInv /\ [Next]_vars =>
        [\A r \in Runs : \A a \in rows[r] :
           "request" \in a.evidence /\ pc'[r] = "idle" /\ aborts' = aborts =>
             \E b \in actions' : HasKey(b, a.task, a.sequence) /\ a.evidence \subseteq b.evidence]_vars
  <2> SUFFICES ASSUME AgentInv, Next, NEW r \in Runs, NEW a \in rows[r],
                      "request" \in a.evidence, pc'[r] = "idle", aborts' = aborts
               PROVE  \E b \in actions' : HasKey(b, a.task, a.sequence)
                                           /\ a.evidence \subseteq b.evidence
    BY Zenon
  <2> USE DEF AgentInv
  <2>1. pc[r] # "idle"
    BY IdleHasNoRows
  <2>2. ASSUME rows[r] \subseteq actions'
        PROVE  \E b \in actions' : HasKey(b, a.task, a.sequence) /\ a.evidence \subseteq b.evidence
    BY <2>2 DEF HasKey
  <2>3. CASE ReportExhausted(r)
    BY <2>2, <2>3 DEF ReportExhausted, Finish
  <2>4. CASE RecordRefusal(r)
    <3>1. IsLastTurn(turn[r] + 1)
      BY <2>4 DEF RecordRefusal, Goto, AgentTypeOK
    <3>2. QED
      BY <2>2, <2>4, <3>1 DEF RecordRefusal, Finish
  <2>5. ASSUME pc[r] = "calling"
        PROVE  CallInHand(r) \in Action /\ HasCall(r)
    BY <2>5, CallInHandIsRow DEF HasCall, KeysInv, CallsInv, AgentTypeOK
  <2>6. CASE CallFails(r)
    <3>1. PICK row : row = Failed(CallInHand(r))
      OBVIOUS
    <3>2. HasCall(r) /\ CallInHand(r) \in Action /\ actions' = actions \union Rewritten(r, row)
      BY <2>5, <2>6, <3>1 DEF CallFails, Finish
    <3>3. /\ row.task = CallInHand(r).task /\ row.sequence = CallInHand(r).sequence
          /\ CallInHand(r).evidence \subseteq row.evidence
      BY <3>1, <3>2, FailedRow
    <3>4. QED
      BY <3>2, <3>3, RewrittenKeepsRecord
  <2>7. CASE \E used \in Usages : CallAnswers(r, used)
    <3>1. PICK used \in Usages : CallAnswers(r, used)
      BY <2>7
    <3>2. PICK row : row = Succeeded(CallInHand(r), used)
      OBVIOUS
    <3>3. pc[r] = "calling" /\ Finish(r, Rewritten(r, row))
      BY <3>1, <3>2 DEF CallAnswers, Goto, AgentTypeOK
    <3>4. HasCall(r) /\ CallInHand(r) \in Action /\ actions' = actions \union Rewritten(r, row)
      BY <2>5, <3>3 DEF Finish
    <3>5. /\ row.task = CallInHand(r).task /\ row.sequence = CallInHand(r).sequence
          /\ CallInHand(r).evidence \subseteq row.evidence
      BY <3>2, <3>4, SucceededRow
    <3>6. QED
      BY <3>4, <3>5, RewrittenKeepsRecord
  <2>8. ~FindKeyTaken(r) /\ ~LoseLockCycle(r)
    BY KeyTakenLeavesNoRows, LoserHasNotAsked DEF FindKeyTaken
  <2>9. ~AbortRun(r)
    BY DEF AbortRun, AgentTypeOK
  <2>10. ASSUME NEW q \in Runs \ {r}, (\E t \in Tasks : BeginRun(q, t)) \/ Proceed(q) \/ AbortRun(q)
         PROVE  pc'[r] = pc[r]
    <3>1. PICK label : pc' = [pc EXCEPT ![q] = label]
      BY <2>10 DEF BeginRun, Proceed, AbortRun, ReadSpend, WeighBudget, ReportExhausted,
                   ReportWarning, PlanCall, AttemptCall, CallAnswers, CallFails, RecordRefusal,
                   FindKeyTaken, LoseLockCycle, Finish, Close, Goto
    <3>2. QED
      BY <3>1 DEF AgentTypeOK
  <2>11. ASSUME NEW d \in Deciders,
                (\E n \in Raises : ReadBudget(d, n)) \/ Decide(d) \/ AbortDecision(d)
         PROVE  pc' = pc
    BY <2>11 DEF ReadBudget, Decide, AbortDecision, WriteBudget, CommitBudget, FindBudgetSet,
                 CloseDecision, runVars
  <2>12. ASSUME (\E t \in Tasks : BeginRun(r, t)) \/ ReadSpend(r) \/ WeighBudget(r)
                  \/ ReportWarning(r) \/ PlanCall(r) \/ AttemptCall(r)
         PROVE  pc'[r] # "idle"
    BY <2>12 DEF BeginRun, ReadSpend, WeighBudget, ReportWarning, PlanCall, AttemptCall, Goto,
                 AgentTypeOK
  <2>13. QED
    BY <2>1, <2>3, <2>4, <2>6, <2>7, <2>8, <2>9, <2>10, <2>11, <2>12 DEF Next, Proceed
<1>2. QED
  BY <1>1, AgentInvariant, PTL DEF Spec, AskedIsOnRecord

\* A run that makes a second call makes it below the ceiling in force: it has had the chain
\* head since its first, so neither other runs' costs nor a decision were committed after it
\* read the budget (check_before_spending in run_task, with the audit writer's lock).
THEOREM OneCallPastTheCeiling == Spec => []OneCallPastCeiling
<1>1. AgentInv => OneCallPastCeiling
  <2> SUFFICES ASSUME AgentInv, NEW r \in Runs, pc[r] = "calling",
                      Cardinality(Calls(rows[r])) > 1, ceiling # NoBudget
               PROVE  Spend(Visible(r)) < ceiling
    BY DEF OneCallPastCeiling
  <2>1. TurnInv(r) /\ turn[r] \in Nat
    BY AgentAssumption DEF AgentInv, TurnsInv, AgentTypeOK
  <2>2. CASE turn[r] = 0
    <3>1. \A a, b \in Calls(rows[r]) : a = b
      BY <2>1, <2>2 DEF TurnInv, Calls
    <3>2. PICK C : C = Calls(rows[r])
      OBVIOUS
    <3>3. CASE C = {}
      BY <3>2, <3>3, FS_EmptySet
    <3>4. CASE C # {}
      <4>1. PICK a : C = {a}
        BY <3>1, <3>2, <3>4
      <4>2. Cardinality(C) = 1
        BY <4>1, FS_Singleton
      <4>3. QED
        BY <3>2, <4>2
    <3>5. QED
      BY <3>3, <3>4
  <2>3. CASE turn[r] > 0
    BY <2>1, <2>3 DEF TurnInv
  <2>4. QED
    BY <2>1, <2>2, <2>3
<1>2. QED
  BY <1>1, AgentInvariant, PTL

\* The ceiling in force is the one the last audited decision names, also when one decision
\* has overwritten another (set_budget, authorize_additional).
THEOREM CeilingAlwaysTold == Spec => []CeilingIsTold
<1>1. Init => CeilingIsTold
  <2> SUFFICES ASSUME Init PROVE CeilingIsTold
    OBVIOUS
  <2>1. trail = IF ceiling = NoBudget THEN <<>> ELSE <<Set(ceiling)>>
    BY DEF Init
  <2>2. Len(<<Set(ceiling)>>) = 1 /\ <<Set(ceiling)>>[1].ceiling = ceiling
    BY DEF Set
  <2>3. QED
    BY <2>1, <2>2 DEF CeilingIsTold
<1>2. AgentTypeOK /\ CeilingIsTold /\ [Next]_vars => CeilingIsTold'
  <2> SUFFICES ASSUME AgentTypeOK, CeilingIsTold, [Next]_vars PROVE CeilingIsTold'
    OBVIOUS
  <2>1. ASSUME NEW d \in Deciders, CommitBudget(d) PROVE CeilingIsTold'
    <3>1. ceiling' = base[d] + raise[d] /\ trail' = Append(trail, Told(d))
      BY <2>1 DEF CommitBudget, NewCeiling
    <3>2. Told(d).ceiling = base[d] + raise[d]
      BY DEF Told, Set, Authorized, NoBudget, AgentTypeOK
    <3>3. /\ trail' # <<>> /\ Len(trail') = Len(trail) + 1
          /\ trail'[Len(trail) + 1] = Told(d)
      <4>1. trail \in Seq(Decision)
        BY DEF AgentTypeOK
      <4>2. QED
        BY <3>1, <4>1
    <3>4. QED
      BY <3>1, <3>2, <3>3 DEF CeilingIsTold
  <2>2. ASSUME ~\E d \in Deciders : CommitBudget(d) PROVE UNCHANGED <<ceiling, trail>>
    <3>1. CASE UNCHANGED vars
      BY <3>1 DEF vars, tableVars
    <3>2. ASSUME NEW r \in Runs, (\E t \in Tasks : BeginRun(r, t)) \/ Proceed(r) \/ AbortRun(r)
          PROVE  UNCHANGED <<ceiling, trail>>
      BY <3>2 DEF BeginRun, Proceed, AbortRun, ReadSpend, WeighBudget, ReportExhausted,
                  ReportWarning, PlanCall, AttemptCall, CallAnswers, CallFails, RecordRefusal,
                  FindKeyTaken, LoseLockCycle, Finish, Close, tableVars
    <3>3. ASSUME NEW d \in Deciders,
                 (\E n \in Raises : ReadBudget(d, n)) \/ Decide(d) \/ AbortDecision(d)
          PROVE  UNCHANGED <<ceiling, trail>>
      BY <2>2, <3>3 DEF ReadBudget, Decide, AbortDecision, WriteBudget, FindBudgetSet, tableVars
    <3>4. QED
      BY <3>1, <3>2, <3>3 DEF Next
  <2>3. QED
    BY <2>1, <2>2 DEF CeilingIsTold
<1>3. QED
  BY <1>1, <1>2, AgentTypeCorrect, PTL DEF Spec
=============================================================================
