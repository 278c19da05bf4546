--------------------------- MODULE DispatchProofs ---------------------------
(***************************************************************************)
(* Theorems about Dispatch, for every set of jobs, tenants and workers and *)
(* every bound.                                                            *)
(*                                                                         *)
(* TypeInv needs, beside TypeOK, that a worker inside an iteration has a   *)
(* job in hand.  LedgerInv adds what the ledger says of effects and of     *)
(* DONE rows.  HoldInv adds who may hold which row: it is what makes the   *)
(* exclusive claim inductive.  QueueInv adds what each claim under way may *)
(* still put in flight: it is what bounds the overrun of a limit.          *)
(***************************************************************************)
EXTENDS Dispatch, FiniteSetTheorems, WellFoundedInduction, TLAPS

InIteration == {"fetched", "duplicate", "unhandled", "running", "rolledback"}

HasJob == \A w \in Workers : pc[w] \in InIteration <=> current[w] \in Jobs

TypeInv == TypeOK /\ HasJob

-----------------------------------------------------------------------------
(* Facts about claim. *)

\* The number of rows in flight is a number.
LEMMA InFlightNat ==
  ASSUME NEW t \in Tenants
  PROVE  Cardinality(InFlight(t)) \in Nat
<1>1. InFlight(t) \subseteq Jobs
  BY DEF InFlight
<1>2. IsFiniteSet(InFlight(t))
  BY <1>1, FS_Subset, DispatchAssumption
<1>3. QED
  BY <1>2, FS_CardinalityType

\* Candidates are rows that are READY and that no claim holds.
LEMMA CandidatesAvailable ==
  /\ Candidates \subseteq Jobs
  /\ \A j \in Candidates : jobState[j] = "ready" /\ \A v \in Workers : j \notin locked[v]
BY DEF Candidates, FirstOf, Available, Unlocked

-----------------------------------------------------------------------------
(* Type correctness. *)

LEMMA InitTypeInv == Init => TypeInv
BY DispatchAssumption DEF Init, TypeInv, TypeOK, HasJob, InIteration, PC, NoneBusy, NotRun, JobState

LEMMA WriteStateType ==
  ASSUME TypeInv, NEW w \in Workers, current[w] \in Jobs, NEW s \in JobState, WriteState(w, s)
  PROVE  jobState' \in [Jobs -> JobState \union {"absent"}]
BY DEF WriteState, TypeInv, TypeOK

LEMMA NextJobType ==
  ASSUME TypeInv, NEW w \in Workers, NextJob(w)
  PROVE  /\ pc' \in [Workers -> PC]
         /\ batch' \in [Workers -> SUBSET Jobs]
         /\ current' \in [Workers -> Jobs \union {NoJob}]
         /\ seen' \in [Workers -> JobState \union {"absent"}]
         /\ prior' \in [Workers -> Nat \union {NotRun}]
         /\ HasJob'
BY DispatchAssumption DEF NextJob, Continue, TypeInv, TypeOK, HasJob, InIteration, PC, NotRun, JobState

LEMMA ForgetType ==
  ASSUME TypeInv, NEW w \in Workers, Forget(w)
  PROVE  /\ pc' \in [Workers -> PC]
         /\ busy' \in [Workers -> [Tenants -> Nat]]
         /\ batch' \in [Workers -> SUBSET Jobs]
         /\ current' \in [Workers -> Jobs \union {NoJob}]
         /\ seen' \in [Workers -> JobState \union {"absent"}]
         /\ prior' \in [Workers -> Nat \union {NotRun}]
         /\ HasJob'
BY DispatchAssumption
   DEF Forget, TypeInv, TypeOK, HasJob, InIteration, PC, NotRun, NoneBusy, JobState

LEMMA NextTypeInv == TypeInv /\ [Next]_vars => TypeInv'
<1> SUFFICES ASSUME TypeInv, [Next]_vars PROVE TypeInv'
  OBVIOUS
<1> USE DispatchAssumption DEF TypeInv, TypeOK, queueVars, workVars, localVars, boundVars
<1>1. ASSUME NEW j \in Jobs, Enqueue(j) PROVE TypeInv'
  BY <1>1 DEF Enqueue, HasJob, JobState
<1>2. ASSUME NEW j \in Jobs, Requeue(j) PROVE TypeInv'
  BY <1>2 DEF Requeue, HasJob, JobState
<1>3. CASE Tick
  BY <1>3 DEF Tick, HasJob
<1>4. ASSUME NEW w \in Workers, RunOnce(w) PROVE TypeInv'
  <2>1. CASE CountBusy(w)
    BY <2>1, InFlightNat DEF CountBusy, HasJob, PC, InIteration
  <2>2. CASE SelectJobs(w)
    BY <2>2, CandidatesAvailable DEF SelectJobs, HasJob, PC, InIteration, NoneBusy
  <2>3. CASE CommitClaim(w)
    BY <2>3 DEF CommitClaim, HasJob, PC, InIteration, Continue, JobState
  <2>4. CASE FetchJob(w)
    BY <2>4 DEF FetchJob, FirstOf, HasJob, PC, InIteration
  <2>5. CASE CheckLedger(w)
    BY <2>5 DEF CheckLedger, HasJob, PC, InIteration
  <2>6. CASE DismissDuplicate(w)
    <3>1. current[w] \in Jobs
      BY <2>6 DEF DismissDuplicate, HasJob, InIteration
    <3>2. prior[w] + 1 \in Nat
      <4>1. prior[w] \in Nat \/ prior[w] = -1
        BY DEF NotRun
      <4>2. QED
        BY <4>1
    <3>3. ledger' \in [Jobs -> Nat \union {NotRun}]
      BY <2>6, <3>1, <3>2 DEF DismissDuplicate
    <3>4. QED
      BY <2>6, <3>1, <3>3, WriteStateType, NextJobType DEF DismissDuplicate, JobState
  <2>7. CASE RefuseUnhandled(w)
    <3>1. current[w] \in Jobs
      BY <2>7 DEF RefuseUnhandled, HasJob, InIteration
    <3>2. QED
      BY <2>7, <3>1, WriteStateType, NextJobType DEF RefuseUnhandled, JobState
  <2>8. CASE CommitHandler(w)
    <3>1. current[w] \in Jobs
      BY <2>8 DEF CommitHandler, HasJob, InIteration
    <3>2. ledger' \in [Jobs -> Nat \union {NotRun}] /\ effects' \in [Jobs -> Nat]
      BY <2>8, <3>1 DEF CommitHandler, NotRun
    <3>3. QED
      BY <2>8, <3>1, <3>2, WriteStateType, NextJobType DEF CommitHandler, JobState
  <2>9. CASE RollBack(w)
    BY <2>9 DEF RollBack, HasJob, PC, InIteration
  <2>10. CASE MarkFailed(w)
    <3>1. current[w] \in Jobs
      BY <2>10 DEF MarkFailed, HasJob, InIteration
    <3>2. jobState' \in [Jobs -> JobState \union {"absent"}]
      BY <2>10, <3>1 DEF MarkFailed, JobState
    <3>3. QED
      BY <2>10, <3>2, ForgetType DEF MarkFailed
  <2>11. QED
    BY <1>4, <2>1, <2>2, <2>3, <2>4, <2>5, <2>6, <2>7, <2>8, <2>9, <2>10 DEF RunOnce, Claim, RunJob
<1>5. ASSUME NEW w \in Workers, Crash(w) PROVE TypeInv'
  BY <1>5, ForgetType DEF Crash
<1>6. CASE UNCHANGED vars
  BY <1>6 DEF vars, HasJob
<1>7. QED
  BY <1>1, <1>2, <1>3, <1>4, <1>5, <1>6 DEF Next

\* Every variable keeps its type, and a worker has a job in hand exactly inside an
\* iteration of run_once's loop.
THEOREM TypeCorrect == Spec => []TypeOK
<1>1. TypeInv => TypeOK
  BY DEF TypeInv
<1>2. QED
  BY <1>1, InitTypeInv, NextTypeInv, PTL DEF Spec

-----------------------------------------------------------------------------
(* Exactly once. *)

Present(j) == jobState[j] # "absent"

\* Jobs in hand were enqueued, and a delivery taken for a duplicate is one.
LedgerInv ==
  /\ TypeInv
  /\ EffectMatchesLedger
  /\ DoneOnlyIfRun
  /\ \A w \in Workers :
       /\ \A j \in batch[w] : Present(j)
       /\ current[w] \in Jobs => Present(current[w])
       /\ pc[w] = "duplicate" => ledger[current[w]] # NotRun

LEMMA InitLedgerInv == Init => LedgerInv
<1> SUFFICES ASSUME Init PROVE LedgerInv
  OBVIOUS
<1>1. TypeInv
  BY InitTypeInv
<1>2. QED
  BY <1>1, DispatchAssumption DEF Init, LedgerInv, EffectMatchesLedger, DoneOnlyIfRun, NotRun

LEMMA NextLedgerInv == LedgerInv /\ [Next]_vars => LedgerInv'
<1> SUFFICES ASSUME LedgerInv, [Next]_vars PROVE LedgerInv'
  OBVIOUS
<1>0. TypeInv'
  BY NextTypeInv DEF LedgerInv
<1> USE <1>0, DispatchAssumption
    DEF LedgerInv, TypeInv, TypeOK, EffectMatchesLedger, DoneOnlyIfRun, Present,
        queueVars, workVars, localVars, boundVars
<1>1. ASSUME NEW j \in Jobs, Enqueue(j) PROVE LedgerInv'
  BY <1>1 DEF Enqueue
<1>2. ASSUME NEW j \in Jobs, Requeue(j) PROVE LedgerInv'
  BY <1>2 DEF Requeue
<1>3. CASE Tick
  BY <1>3 DEF Tick
<1>4. ASSUME NEW w \in Workers, RunOnce(w) PROVE LedgerInv'
  <2>1. CASE CountBusy(w)
    BY <2>1 DEF CountBusy
  <2>2. CASE SelectJobs(w)
    BY <2>2, CandidatesAvailable DEF SelectJobs
  <2>3. CASE CommitClaim(w)
    BY <2>3 DEF CommitClaim, Continue
  <2>4. CASE FetchJob(w)
    BY <2>4 DEF FetchJob, FirstOf
  <2>5. CASE CheckLedger(w)
    BY <2>5 DEF CheckLedger
  <2>6. CASE DismissDuplicate(w)
    <3>1. current[w] \in Jobs /\ prior[w] + 1 # NotRun /\ ledger[current[w]] # NotRun
      <4>1. prior[w] \in Nat \/ prior[w] = -1
        BY DEF NotRun
      <4>2. prior[w] + 1 # -1
        BY <4>1
      <4>3. QED
        BY <4>2, <2>6 DEF DismissDuplicate, HasJob, InIteration, NotRun
    <3>2. QED
      BY <2>6, <3>1 DEF DismissDuplicate, WriteState, NextJob, Continue
  <2>7. CASE RefuseUnhandled(w)
    <3>1. current[w] \in Jobs
      BY <2>7 DEF RefuseUnhandled, HasJob, InIteration
    <3>2. QED
      BY <2>7, <3>1 DEF RefuseUnhandled, WriteState, NextJob, Continue
  <2>8. CASE CommitHandler(w)
    <3>1. current[w] \in Jobs
      BY <2>8 DEF CommitHandler, HasJob, InIteration
    <3>2. /\ ledger' = [ledger EXCEPT ![current[w]] = 0]
          /\ effects' = [effects EXCEPT ![current[w]] = 1]
      <4>1. effects[current[w]] = 0
        BY <2>8, <3>1 DEF CommitHandler, KeyFree
      <4>2. QED
        BY <2>8, <4>1 DEF CommitHandler
    <3>3. 0 # NotRun
      BY DEF NotRun
    <3>4. QED
      BY <2>8, <3>1, <3>2, <3>3 DEF CommitHandler, WriteState, NextJob, Continue
  <2>9. CASE RollBack(w)
    BY <2>9 DEF RollBack
  <2>10. CASE MarkFailed(w)
    <3>1. current[w] \in Jobs
      BY <2>10 DEF MarkFailed, HasJob, InIteration
    <3>2. QED
      BY <2>10, <3>1 DEF MarkFailed, Forget
  <2>11. QED
    BY <1>4, <2>1, <2>2, <2>3, <2>4, <2>5, <2>6, <2>7, <2>8, <2>9, <2>10 DEF RunOnce, Claim, RunJob
<1>5. ASSUME NEW w \in Workers, Crash(w) PROVE LedgerInv'
  BY <1>5 DEF Crash, Forget
<1>6. CASE UNCHANGED vars
  BY <1>6 DEF vars
<1>7. QED
  BY <1>1, <1>2, <1>3, <1>4, <1>5, <1>6 DEF Next

LEMMA LedgerInvHolds == Spec => []LedgerInv
BY InitLedgerInv, NextLedgerInv, PTL DEF Spec

\* A job's effects are committed exactly as often as the ledger says it ran, at
\* most once, through any number of redeliveries and crashes.
THEOREM EffectsMatchLedger == Spec => []EffectMatchesLedger
<1>1. LedgerInv => EffectMatchesLedger
  BY DEF LedgerInv
<1>2. QED
  BY <1>1, LedgerInvHolds, PTL

\* A row is DONE only if its handler committed.
THEOREM DoneIsRun == Spec => []DoneOnlyIfRun
<1>1. LedgerInv => DoneOnlyIfRun
  BY DEF LedgerInv
<1>2. QED
  BY <1>1, LedgerInvHolds, PTL

\* The queue implements its promise: every step of the queue and its workers is a
\* step of ExactlyOnce or leaves its variables alone.
THEOREM RefinesExactlyOnce == Spec => EachEffectAtMostOnce
<1> DEFINE Acc == {j \in Jobs : jobState[j] # "absent"}
<1>1. Init => Once!Init
  BY DEF Init, Once!Init
<1>2. LedgerInv /\ [Next]_vars => [Once!Next]_<<Acc, effects>>
  <2> SUFFICES ASSUME LedgerInv, [Next]_vars
               PROVE  Once!Next \/ UNCHANGED <<Acc, effects>>
    OBVIOUS
  <2> USE DispatchAssumption
      DEF LedgerInv, TypeInv, TypeOK, Present, queueVars, workVars, localVars, boundVars
  <2>1. ASSUME NEW j \in Jobs, Enqueue(j) PROVE Once!Accept(j)
    BY <2>1 DEF Enqueue, Once!Accept
  <2>2. ASSUME NEW j \in Jobs, Requeue(j) PROVE UNCHANGED <<Acc, effects>>
    BY <2>2 DEF Requeue
  <2>3. CASE Tick
    BY <2>3 DEF Tick
  <2>4. ASSUME NEW w \in Workers, RunOnce(w), ~CommitHandler(w)
        PROVE  UNCHANGED <<Acc, effects>>
    <3>1. pc[w] \in InIteration => current[w] \in Jobs /\ Present(current[w])
      BY DEF HasJob
    <3>2. CASE CountBusy(w) \/ SelectJobs(w) \/ FetchJob(w) \/ CheckLedger(w) \/ RollBack(w)
      BY <3>2 DEF CountBusy, SelectJobs, FetchJob, CheckLedger, RollBack
    <3>3. CASE CommitClaim(w)
      BY <3>3 DEF CommitClaim
    <3>4. CASE DismissDuplicate(w) \/ RefuseUnhandled(w)
      BY <3>1, <3>4 DEF DismissDuplicate, RefuseUnhandled, WriteState, InIteration
    <3>5. CASE MarkFailed(w)
      BY <3>1, <3>5 DEF MarkFailed, InIteration
    <3>6. QED
      BY <2>4, <3>2, <3>3, <3>4, <3>5 DEF RunOnce, Claim, RunJob
  <2>5. ASSUME NEW w \in Workers, CommitHandler(w) PROVE Once!Apply(current[w])
    <3>1. current[w] \in Jobs /\ Present(current[w])
      BY <2>5 DEF CommitHandler, HasJob, InIteration
    <3>2. effects[current[w]] = 0
      BY <2>5, <3>1 DEF CommitHandler, KeyFree, EffectMatchesLedger
    <3>3. effects' = [effects EXCEPT ![current[w]] = 1]
      BY <2>5, <3>2 DEF CommitHandler
    <3>4. UNCHANGED Acc
      BY <2>5, <3>1 DEF CommitHandler, WriteState
    <3>5. QED
      BY <3>1, <3>2, <3>3, <3>4 DEF Once!Apply
  <2>6. ASSUME NEW w \in Workers, CommitHandler(w) PROVE current[w] \in Jobs
    BY <2>6 DEF CommitHandler, HasJob, InIteration
  <2>7. ASSUME NEW w \in Workers, Crash(w) PROVE UNCHANGED <<Acc, effects>>
    BY <2>7 DEF Crash
  <2>8. CASE UNCHANGED vars
    BY <2>8 DEF vars
  <2>9. QED
    BY <2>1, <2>2, <2>3, <2>4, <2>5, <2>6, <2>7, <2>8 DEF Next, Once!Next
<1>3. QED
  BY <1>1, <1>2, LedgerInvHolds, PTL DEF Spec, EachEffectAtMostOnce, Once!Spec

-----------------------------------------------------------------------------
(* Exclusive claims. *)

\* What each stage of run_once holds: a claim transaction's batch is among the rows
\* it has locked, those rows are READY and locked by nobody else, and only a
\* worker inside its loop has jobs otherwise.
Stages ==
  \A w \in Workers :
    /\ pc[w] \in {"idle", "counted"} => batch[w] = {}
    /\ pc[w] = "selected" => batch[w] \subseteq locked[w]
    /\ pc[w] # "selected" => locked[w] = {}
    /\ \A j \in locked[w] : jobState[j] = "ready" /\ \A v \in Workers \ {w} : j \notin locked[v]

\* Of a job that was never put back: while it is READY or CLAIMED it has left no
\* effect, and the row a worker read when it took the job said CLAIMED.
Fresh ==
  \A j \in Jobs : requeues[j] = 0 =>
    /\ jobState[j] # "done" => ledger[j] = NotRun
    /\ \A w \in Workers : current[w] = j => seen[w] = "claimed" /\ j \notin batch[w]

HoldInv == LedgerInv /\ Stages /\ ExclusiveClaim /\ Fresh

LEMMA InitHoldInv == Init => HoldInv
<1> SUFFICES ASSUME Init PROVE HoldInv
  OBVIOUS
<1>1. LedgerInv
  BY InitLedgerInv
<1>2. QED
  BY <1>1, DispatchAssumption DEF Init, HoldInv, Stages, ExclusiveClaim, Fresh, Holds

LEMMA NextHoldInv == HoldInv /\ [Next]_vars => HoldInv'
<1> SUFFICES ASSUME HoldInv, [Next]_vars PROVE Stages' /\ ExclusiveClaim' /\ Fresh'
  BY NextLedgerInv DEF HoldInv
<1> USE DispatchAssumption
    DEF HoldInv, LedgerInv, TypeInv, TypeOK, queueVars, workVars, localVars, boundVars
<1>1. ASSUME NEW j \in Jobs, Enqueue(j) PROVE Stages' /\ ExclusiveClaim' /\ Fresh'
  BY <1>1 DEF Enqueue, Stages, ExclusiveClaim, Fresh, Holds, Present
<1>2. ASSUME NEW j \in Jobs, Requeue(j) PROVE Stages' /\ ExclusiveClaim' /\ Fresh'
  BY <1>2 DEF Requeue, Stages, ExclusiveClaim, Fresh, Holds
<1>3. CASE Tick
  BY <1>3 DEF Tick, Stages, ExclusiveClaim, Fresh, Holds
<1>4. ASSUME NEW w \in Workers, RunOnce(w) PROVE Stages' /\ ExclusiveClaim' /\ Fresh'
  <2>0. pc[w] \in InIteration => current[w] \in Jobs
    BY DEF HasJob
  <2>1. CASE CountBusy(w)
    BY <2>1 DEF CountBusy, Stages, ExclusiveClaim, Fresh, Holds
  <2>2. CASE SelectJobs(w)
    <3>1. \A j \in Candidates : jobState[j] = "ready" /\ \A v \in Workers : j \notin locked[v]
      BY CandidatesAvailable
    <3>2. batch[w] = {} /\ current[w] = NoJob
      BY <2>2 DEF SelectJobs, Stages, HasJob, InIteration
    <3>3. \A j \in Candidates : requeues[j] = 0 => \A v \in Workers : ~Holds(v, j)
      <4> SUFFICES ASSUME NEW j \in Candidates, requeues[j] = 0, NEW v \in Workers, Holds(v, j)
                   PROVE  FALSE
        OBVIOUS
      <4>1. j \in Jobs /\ jobState[j] = "ready" /\ j \notin locked[v]
        BY CandidatesAvailable
      <4>2. pc[v] = "selected"
        BY <4>1 DEF ExclusiveClaim
      <4>3. current[v] # j
        BY <4>1, <4>2 DEF HasJob, InIteration
      <4>4. QED
        BY <4>1, <4>2, <4>3 DEF Stages, Holds
    <3>4. Stages'
      BY <2>2, <3>1, CandidatesAvailable DEF SelectJobs, Stages
    <3>5. ExclusiveClaim'
      BY <2>2, <3>2, <3>3, CandidatesAvailable DEF SelectJobs, ExclusiveClaim, Holds
    <3>6. Fresh'
      BY <2>2, <3>2 DEF SelectJobs, Fresh
    <3>7. QED
      BY <3>4, <3>5, <3>6
  <2>3. CASE CommitClaim(w)
    <3>1. current[w] = NoJob
      BY <2>3 DEF CommitClaim, HasJob, InIteration
    <3>2. QED
      BY <2>3, <3>1 DEF CommitClaim, Continue, Stages, ExclusiveClaim, Fresh, Holds
  <2>4. CASE FetchJob(w)
    <3>1. current[w] = NoJob
      BY <2>4 DEF FetchJob, HasJob, InIteration
    <3>2. QED
      BY <2>4, <3>1 DEF FetchJob, FirstOf, Stages, ExclusiveClaim, Fresh, Holds
  <2>5. CASE CheckLedger(w)
    BY <2>5 DEF CheckLedger, Stages, ExclusiveClaim, Fresh, Holds
  <2>6. CASE DismissDuplicate(w)
    <3>1. current[w] \in Jobs /\ requeues[current[w]] # 0
      BY <2>0, <2>6 DEF DismissDuplicate, InIteration, ExclusiveClaim, Fresh, Holds
    <3>2. QED
      BY <2>6, <3>1 DEF DismissDuplicate, WriteState, NextJob, Continue, Unlocked,
                        Stages, ExclusiveClaim, Fresh, Holds
  <2>7. CASE RefuseUnhandled(w)
    <3>1. current[w] \in Jobs
      BY <2>0, <2>7 DEF RefuseUnhandled, InIteration
    <3>2. QED
      BY <2>7, <3>1 DEF RefuseUnhandled, WriteState, NextJob, Continue, Unlocked,
                        Stages, ExclusiveClaim, Fresh, Holds
  <2>8. CASE CommitHandler(w)
    <3>1. current[w] \in Jobs
      BY <2>0, <2>8 DEF CommitHandler, InIteration
    <3>2. QED
      BY <2>8, <3>1 DEF CommitHandler, WriteState, NextJob, Continue, Unlocked,
                        Stages, ExclusiveClaim, Fresh, Holds
  <2>9. CASE RollBack(w)
    BY <2>9 DEF RollBack, Stages, ExclusiveClaim, Fresh, Holds
  <2>10. CASE MarkFailed(w)
    <3>1. current[w] \in Jobs
      BY <2>0, <2>10 DEF MarkFailed, InIteration
    <3>2. QED
      BY <2>10, <3>1 DEF MarkFailed, Forget, Unlocked, Stages, ExclusiveClaim, Fresh, Holds
  <2>11. QED
    BY <1>4, <2>1, <2>2, <2>3, <2>4, <2>5, <2>6, <2>7, <2>8, <2>9, <2>10 DEF RunOnce, Claim, RunJob
<1>5. ASSUME NEW w \in Workers, Crash(w) PROVE Stages' /\ ExclusiveClaim' /\ Fresh'
  BY <1>5 DEF Crash, Forget, Stages, ExclusiveClaim, Fresh, Holds
<1>6. CASE UNCHANGED vars
  BY <1>6 DEF vars, Stages, ExclusiveClaim, Fresh, Holds
<1>7. QED
  BY <1>1, <1>2, <1>3, <1>4, <1>5, <1>6 DEF Next

LEMMA HoldInvHolds == Spec => []HoldInv
BY InitHoldInv, NextHoldInv, PTL DEF Spec

\* No two workers ever hold the same job, and the one that does is the one named on
\* the row, until somebody puts the job back.
THEOREM ClaimsExclusive == Spec => []ExclusiveClaim
<1>1. HoldInv => ExclusiveClaim
  BY DEF HoldInv
<1>2. QED
  BY <1>1, HoldInvHolds, PTL

\* A FAILED row that was delivered once stands for a job that left no effect.
THEOREM FailedIsClean == Spec => []FailedLeftNoEffect
<1>1. HoldInv => FailedLeftNoEffect
  BY DEF HoldInv, LedgerInv, Fresh, EffectMatchesLedger, FailedLeftNoEffect
<1>2. QED
  BY <1>1, HoldInvHolds, PTL

\* DONE and FAILED rows that nobody put back never change.
THEOREM SettledStays == Spec => SettledIsFinal
<1> DEFINE Final == \A j \in Jobs :
                      jobState[j] \in {"done", "failed"} /\ requeues'[j] = 0
                        => jobState'[j] = jobState[j]
<1>1. HoldInv /\ [Next]_vars => [Final]_vars
  <2> SUFFICES ASSUME HoldInv, Next,
                      NEW j \in Jobs, jobState[j] \in {"done", "failed"}, requeues'[j] = 0
               PROVE  jobState'[j] = jobState[j]
    OBVIOUS
  <2> USE DispatchAssumption
      DEF HoldInv, LedgerInv, TypeInv, TypeOK, queueVars, workVars, localVars, boundVars
  <2>1. ASSUME NEW i \in Jobs, Enqueue(i) \/ Requeue(i) PROVE jobState'[j] = jobState[j]
    BY <2>1 DEF Enqueue, Requeue
  <2>2. CASE Tick
    BY <2>2 DEF Tick
  <2>3. ASSUME NEW w \in Workers, RunOnce(w) PROVE jobState'[j] = jobState[j]
    <3>1. requeues' = requeues
      BY <2>3 DEF RunOnce, Claim, RunJob, CountBusy, SelectJobs, CommitClaim, FetchJob,
                  CheckLedger, DismissDuplicate, RefuseUnhandled, CommitHandler, RollBack,
                  MarkFailed
    <3>2. ~Holds(w, j) \/ pc[w] = "selected"
      BY <3>1 DEF ExclusiveClaim
    <3>3. CASE CommitClaim(w)
      BY <3>3 DEF CommitClaim, Stages
    <3>4. CASE CountBusy(w) \/ SelectJobs(w) \/ FetchJob(w) \/ CheckLedger(w) \/ RollBack(w)
      BY <3>4 DEF CountBusy, SelectJobs, FetchJob, CheckLedger, RollBack
    <3>5. CASE DismissDuplicate(w) \/ RefuseUnhandled(w) \/ CommitHandler(w) \/ MarkFailed(w)
      <4>1. current[w] # j
        BY <3>2, <3>5 DEF Holds, DismissDuplicate, RefuseUnhandled, CommitHandler, MarkFailed
      <4>2. QED
        BY <3>5, <4>1 DEF DismissDuplicate, RefuseUnhandled, CommitHandler, MarkFailed, WriteState
    <3>6. QED
      BY <2>3, <3>3, <3>4, <3>5 DEF RunOnce, Claim, RunJob
  <2>4. ASSUME NEW w \in Workers, Crash(w) PROVE jobState'[j] = jobState[j]
    BY <2>4 DEF Crash
  <2>5. QED
    BY <2>1, <2>2, <2>3, <2>4 DEF Next
<1>2. QED
  BY <1>1, HoldInvHolds, PTL DEF Spec, SettledIsFinal

-----------------------------------------------------------------------------
(* The overrun of a tenant's limit. *)

Stale == IF BatchLimit < TenantConcurrency THEN BatchLimit ELSE TenantConcurrency

\* What a claim may take of a tenant that it has counted n rows of.
Room(n) ==
  IF n < TenantConcurrency
  THEN IF TenantConcurrency - n < BatchLimit THEN TenantConcurrency - n ELSE BatchLimit
  ELSE 0

\* The rows of a tenant that a claim under way is going to add.
Ours(w, t) == {j \in batch[w] : TenantOf[j] = t}
Owed(w, t) == IF pc[w] = "counted" THEN Room(busy[w][t])
              ELSE IF pc[w] = "selected" THEN Cardinality(Ours(w, t)) ELSE 0
Owing(t) == {w \in Workers : Owed(w, t) # 0}

\* No two rows have one place in the queue.
PlacesInv ==
  \A j \in Jobs : Present(j) =>
    /\ place[j] \in 1 .. Cardinality(Jobs)
    /\ \A i \in Jobs : Present(i) /\ place[i] = place[j] => i = j

\* Take the worker that counted last: what it adds stays within the limit that it saw, and
\* each of the others may still add a stale batch.
OverrunInv(t) ==
  /\ \A w \in Workers : Owed(w, t) \in 0 .. Stale
  /\ IF Workers = {} THEN InFlight(t) = {}
     ELSE \E w \in Workers :
            Cardinality(InFlight(t)) + Owed(w, t) + Cardinality(Owing(t) \ {w}) * Stale
              <= TenantConcurrency + (Cardinality(Workers) - 1) * Stale

QueueInv == HoldInv /\ PlacesInv /\ \A t \in Tenants : OverrunInv(t)

\* A claim takes at most a stale batch.
LEMMA StaleNat == Stale \in Nat /\ \A n \in Nat : Room(n) \in 0 .. Stale
BY DispatchAssumption DEF Stale, Room

\* A part of a finite set has no more members than the set.
LEMMA PartIsFewer ==
  ASSUME NEW S, IsFiniteSet(S), NEW T, T \subseteq S
  PROVE  IsFiniteSet(T) /\ Cardinality(T) \in Nat /\ Cardinality(T) <= Cardinality(S)
BY FS_Subset, FS_CardinalityType

\* No more batches make no more rows, and one batch more makes m more.
LEMMA FewerBatches ==
  ASSUME NEW m \in Nat, NEW a \in Nat, NEW b \in Nat, a <= b
  PROVE  a * m \in Nat /\ b * m \in Nat /\ a * m <= b * m /\ (a + 1) * m = a * m + m
<1>1. a * m \in Nat /\ b * m \in Nat /\ (b - a) * m \in Nat
  BY Z3
<1>2. b * m = a * m + (b - a) * m
  BY Z3
<1>3. (a + 1) * m = a * m + m
  BY Z3
<1>4. QED
  BY <1>1, <1>2, <1>3

\* Some rows of different places: one of them is the last in the queue.
LEMMA LastInQueue ==
  ASSUME TypeInv, PlacesInv, NEW T, T \subseteq Jobs, T # {}, \A j \in T : Present(j)
  PROVE  \E j \in T : \A i \in T \ {j} : Before(i, j)
<1>1. PICK N \in Nat : N = Cardinality(Jobs)
  BY FS_CardinalityType, DispatchAssumption
<1>2. \A j \in T : place[j] \in Nat /\ place[j] <= N
  BY <1>1 DEF PlacesInv
<1>3. PICK D : D = {N - place[j] : j \in T}
  OBVIOUS
<1>4. D \subseteq Nat /\ D # {}
  BY <1>2, <1>3
<1>5. PICK d \in D : \A e \in D : ~(<<e, d>> \in OpToRel(<, Nat))
  BY <1>4, NatLessThanWellFounded, WFMin, Zenon
<1>6. \A e \in D : ~(e < d)
  BY <1>4, <1>5 DEF OpToRel
<1>7. PICK j \in T : d = N - place[j]
  BY <1>3
<1>8. ASSUME NEW i \in T \ {j} PROVE Before(i, j)
  <2>1. N - place[i] \in D
    BY <1>3
  <2>2. ~(N - place[i] < N - place[j])
    BY <1>6, <1>7, <2>1
  <2>3. place[i] # place[j]
    BY DEF PlacesInv
  <2>4. QED
    BY <1>2, <2>2, <2>3 DEF Before
<1>9. QED
  BY <1>8

\* A claim takes no more of a tenant than there is room for, as it has counted.
LEMMA ClaimFitsRoom ==
  ASSUME TypeInv, PlacesInv, NEW S, S \subseteq Candidates, NEW b \in [Tenants -> Nat],
         IsClaim(S, Candidates, b), NEW t \in Tenants
  PROVE  Cardinality({j \in S : TenantOf[j] = t}) \in 0 .. Room(b[t])
<1>1. PICK T : T = {j \in S : TenantOf[j] = t}
  OBVIOUS
<1>2. T \subseteq Jobs /\ T \subseteq S /\ S \subseteq Jobs /\ \A j \in S : Present(j)
  BY <1>1, CandidatesAvailable DEF Present
<1>3. IsFiniteSet(T) /\ IsFiniteSet(S)
  BY <1>2, FS_Subset, DispatchAssumption
<1>4. b[t] \in Nat
  OBVIOUS
<1>5. CASE T = {}
  BY <1>1, <1>4, <1>5, FS_EmptySet, StaleNat
<1>6. CASE T # {}
  <2>1. PICK j \in T : \A i \in T \ {j} : Before(i, j)
    BY <1>2, <1>6, LastInQueue
  <2>2. PICK E : E = {i \in S : Before(i, j)}
    OBVIOUS
  <2>3. PICK F : F = {i \in E : TenantOf[i] = TenantOf[j]}
    OBVIOUS
  <2>4. Cardinality(E) < BatchLimit /\ BelowLimit(b[t] + Cardinality(F))
    BY <1>1, <2>2, <2>3 DEF IsClaim
  <2>5. F = T \ {j}
    <3>1. ~Before(j, j)
      BY <1>2 DEF Before, PlacesInv
    <3>2. QED
      BY <1>1, <2>1, <2>2, <2>3, <3>1
  <2>6. Cardinality(T) \in Nat /\ Cardinality(F) = Cardinality(T) - 1
    BY <1>3, <2>5, FS_CardinalityType, FS_RemoveElement
  <2>7. IsFiniteSet(E) /\ Cardinality(E) \in Nat
    BY <1>3, <2>2, PartIsFewer
  <2>8. F \subseteq E
    BY <2>3
  <2>9. Cardinality(F) \in Nat /\ Cardinality(F) <= Cardinality(E)
    BY <2>7, <2>8, PartIsFewer
  <2>10. QED
    BY <1>1, <1>4, <2>4, <2>6, <2>7, <2>9, DispatchAssumption DEF BelowLimit, Room
<1>7. QED
  BY <1>5, <1>6

\* A step after which no worker owes more and no more rows are in flight.
LEMMA LessOverrun ==
  ASSUME NEW t \in Tenants, OverrunInv(t), InFlight(t)' \subseteq InFlight(t),
         \A w \in Workers : Owed(w, t)' \in Nat /\ Owed(w, t)' <= Owed(w, t)
  PROVE  OverrunInv(t)'
<1>1. Cardinality(InFlight(t)) \in Nat /\ Cardinality(InFlight(t)') \in Nat
      /\ Cardinality(InFlight(t)') <= Cardinality(InFlight(t))
  <2>1. IsFiniteSet(InFlight(t))
    BY FS_Subset, DispatchAssumption DEF InFlight
  <2>2. QED
    BY <2>1, FS_CardinalityType, PartIsFewer
<1>2. \A w \in Workers : Owed(w, t)' \in 0 .. Stale
  BY StaleNat DEF OverrunInv
<1>3. Owing(t)' \subseteq Owing(t)
  BY DEF Owing, OverrunInv
<1>4. CASE Workers = {}
  BY <1>2, <1>4 DEF OverrunInv
<1>5. CASE Workers # {}
  <2>1. PICK w \in Workers :
          Cardinality(InFlight(t)) + Owed(w, t) + Cardinality(Owing(t) \ {w}) * Stale
            <= TenantConcurrency + (Cardinality(Workers) - 1) * Stale
    BY <1>5 DEF OverrunInv
  <2>2. PICK P : P = Owing(t) \ {w}
    OBVIOUS
  <2>3. PICK Q : Q = Owing(t)' \ {w}
    OBVIOUS
  <2>4. Q \subseteq P /\ P \subseteq Workers
    BY <1>3, <2>2, <2>3 DEF Owing
  <2>5. /\ Cardinality(P) \in Nat /\ Cardinality(Q) \in Nat
        /\ Cardinality(Q) <= Cardinality(P) /\ IsFiniteSet(P)
    BY <2>4, PartIsFewer, DispatchAssumption
  <2>6. /\ Cardinality(Q) * Stale \in Nat /\ Cardinality(P) * Stale \in Nat
        /\ Cardinality(Q) * Stale <= Cardinality(P) * Stale
    BY <2>5, FewerBatches, StaleNat
  <2>7. PICK K : K = TenantConcurrency + (Cardinality(Workers) - 1) * Stale
    OBVIOUS
  <2>8. K \in Int
    BY <2>7, StaleNat, FS_CardinalityType, DispatchAssumption
  <2>9. Cardinality(InFlight(t)') + Owed(w, t)' + Cardinality(Q) * Stale <= K
    <3>1. Cardinality(InFlight(t)) + Owed(w, t) + Cardinality(P) * Stale <= K
      BY <2>1, <2>2, <2>7
    <3>2. Owed(w, t) \in Nat /\ Owed(w, t)' \in Nat /\ Owed(w, t)' <= Owed(w, t)
      BY StaleNat DEF OverrunInv
    <3>3. PICK p, q \in Nat : p = Cardinality(P) * Stale /\ q = Cardinality(Q) * Stale
      BY <2>6
    <3>4. p >= q
      BY <2>6, <3>3
    <3>5. QED
      BY <1>1, <2>8, <3>1, <3>2, <3>3, <3>4
  <2>10. QED
    BY <1>2, <1>5, <2>3, <2>7, <2>9 DEF OverrunInv
<1>6. QED
  BY <1>4, <1>5

\* The count: with no room the worker owes nothing, and with room it is the last to count.
LEMMA CountKeepsOverrun ==
  ASSUME TypeInv, NEW t \in Tenants, OverrunInv(t), NEW w \in Workers, CountBusy(w)
  PROVE  OverrunInv(t)'
<1>1. PICK n \in Nat : n = Cardinality(InFlight(t))
  BY InFlightNat
<1>2. /\ pc[w] = "idle" /\ pc' = [pc EXCEPT ![w] = "counted"] /\ busy'[w][t] = n
      /\ jobState' = jobState /\ batch' = batch
      /\ \A v \in Workers \ {w} : busy'[v] = busy[v]
  BY <1>1 DEF CountBusy, queueVars, TypeInv, TypeOK
<1>3. pc'[w] = "counted" /\ \A v \in Workers \ {w} : pc'[v] = pc[v]
  BY <1>2 DEF TypeInv, TypeOK
<1>4. Owed(w, t)' = Room(n) /\ Owed(w, t) = 0
  BY <1>2, <1>3 DEF Owed
<1>5. \A v \in Workers \ {w} : Owed(v, t)' = Owed(v, t)
  BY <1>2, <1>3 DEF Owed, Ours
<1>6. InFlight(t)' = InFlight(t)
  BY <1>2 DEF InFlight
<1>7. \A v \in Workers : Owed(v, t)' \in 0 .. Stale
  BY <1>4, <1>5, StaleNat DEF OverrunInv
<1>8. CASE n >= TenantConcurrency
  <2>1. Room(n) = 0
    BY <1>8, DispatchAssumption DEF Room
  <2>2. \A v \in Workers : Owed(v, t)' \in Nat /\ Owed(v, t)' <= Owed(v, t)
    BY <1>4, <1>5, <1>7, <2>1, StaleNat
  <2>3. QED
    BY <1>6, <2>2, LessOverrun
<1>9. CASE n < TenantConcurrency
  <2>1. n + Room(n) <= TenantConcurrency /\ Room(n) \in Nat
    BY <1>9, DispatchAssumption DEF Room
  <2>2. PICK Q : Q = Owing(t)' \ {w}
    OBVIOUS
  <2>3. Q \subseteq Workers \ {w}
    BY <2>2 DEF Owing
  <2>4. /\ Cardinality(Workers \ {w}) = Cardinality(Workers) - 1
        /\ IsFiniteSet(Workers \ {w}) /\ Cardinality(Workers \ {w}) \in Nat
    BY FS_RemoveElement, FS_CardinalityType, DispatchAssumption
  <2>5. Cardinality(Q) \in Nat /\ Cardinality(Q) <= Cardinality(Workers \ {w})
    BY <2>3, <2>4, PartIsFewer
  <2>6. PICK p, q \in Nat : /\ p = Cardinality(Workers \ {w}) * Stale
                            /\ q = Cardinality(Q) * Stale /\ q <= p
    BY <2>4, <2>5, FewerBatches, StaleNat
  <2>7. n + Room(n) + q <= TenantConcurrency + p
    BY <2>1, <2>6, DispatchAssumption
  <2>8. Cardinality(InFlight(t)') + Owed(w, t)' + Cardinality(Q) * Stale
          <= TenantConcurrency + (Cardinality(Workers) - 1) * Stale
    BY <1>1, <1>4, <1>6, <2>4, <2>6, <2>7
  <2>9. QED
    BY <1>7, <2>2, <2>8 DEF OverrunInv
<1>10. QED
  BY <1>1, <1>8, <1>9, DispatchAssumption

\* The commit: what the worker owed is in flight.
LEMMA CommitKeepsOverrun ==
  ASSUME HoldInv, NEW t \in Tenants, OverrunInv(t), NEW w \in Workers, CommitClaim(w)
  PROVE  OverrunInv(t)'
<1>1. /\ pc[w] = "selected" /\ batch' = batch /\ busy' = busy
      /\ jobState' = [j \in Jobs |-> IF j \in batch[w] THEN "claimed" ELSE jobState[j]]
      /\ pc' = [pc EXCEPT ![w] = Continue(batch[w])]
  BY DEF CommitClaim, localVars
<1>2. batch[w] \subseteq Jobs /\ \A j \in batch[w] : jobState[j] = "ready"
  BY <1>1 DEF HoldInv, LedgerInv, TypeInv, TypeOK, Stages
<1>3. pc'[w] \in {"idle", "loop"} /\ \A v \in Workers \ {w} : pc'[v] = pc[v]
  BY <1>1 DEF Continue, HoldInv, LedgerInv, TypeInv, TypeOK
<1>4. Owed(w, t)' = 0 /\ Owed(w, t) = Cardinality(Ours(w, t))
  BY <1>1, <1>3 DEF Owed
<1>5. \A v \in Workers \ {w} : Owed(v, t)' = Owed(v, t)
  BY <1>1, <1>3 DEF Owed, Ours
<1>6. PICK n, m, k \in Nat : /\ n = Cardinality(InFlight(t)) /\ m = Cardinality(InFlight(t)')
                             /\ k = Owed(w, t) /\ m = n + k
  <2>1. PICK A : A = InFlight(t)
    OBVIOUS
  <2>2. PICK B : B = Ours(w, t)
    OBVIOUS
  <2>3. InFlight(t)' = A \union B /\ A \intersect B = {} /\ A \subseteq Jobs /\ B \subseteq Jobs
    BY <1>1, <1>2, <2>1, <2>2 DEF InFlight, Ours
  <2>4. IsFiniteSet(A) /\ IsFiniteSet(B)
    BY <2>3, FS_Subset, DispatchAssumption
  <2>5. Cardinality(A \union B) = Cardinality(A) + Cardinality(B) - Cardinality(A \intersect B)
    BY <2>4, FS_Union
  <2>6. Cardinality(A) \in Nat /\ Cardinality(B) \in Nat /\ Cardinality(A \intersect B) = 0
    BY <2>3, <2>4, FS_CardinalityType, FS_EmptySet
  <2>7. QED
    BY <1>4, <2>1, <2>2, <2>3, <2>5, <2>6
<1>7. \A v \in Workers : Owed(v, t)' \in 0 .. Stale
  BY <1>4, <1>5, StaleNat DEF OverrunInv
<1>8. PICK u \in Workers :
        n + Owed(u, t) + Cardinality(Owing(t) \ {u}) * Stale
          <= TenantConcurrency + (Cardinality(Workers) - 1) * Stale
  BY <1>6 DEF OverrunInv
<1>9. PICK K \in Int : K = TenantConcurrency + (Cardinality(Workers) - 1) * Stale
  BY StaleNat, FS_CardinalityType, DispatchAssumption
<1>10. PICK P : P = Owing(t) \ {u}
  OBVIOUS
<1>11. PICK Q : Q = Owing(t)' \ {u}
  OBVIOUS
<1>12. IsFiniteSet(P) /\ Q = P \ {w}
  <2>1. P \subseteq Workers
    BY <1>10 DEF Owing
  <2>2. IsFiniteSet(P)
    BY <2>1, FS_Subset, DispatchAssumption
  <2>3. Owing(t)' = Owing(t) \ {w}
    BY <1>4, <1>5 DEF Owing
  <2>4. QED
    BY <1>10, <1>11, <2>2, <2>3
<1>13. Cardinality(P) \in Nat /\ Cardinality(Q) \in Nat
       /\ Cardinality(Q) = IF w \in P THEN Cardinality(P) - 1 ELSE Cardinality(P)
  BY <1>12, FS_RemoveElement, FS_CardinalityType
<1>14. m + Owed(u, t)' + Cardinality(Q) * Stale <= K
  <2>1. PICK p, q \in Nat :
          /\ p = Cardinality(P) * Stale /\ q = Cardinality(Q) * Stale
          /\ w \in P => p = q + Stale
          /\ w \notin P => p = q
    <3>1. Cardinality(P) * Stale \in Nat /\ Cardinality(Q) * Stale \in Nat
      BY <1>13, FewerBatches, StaleNat
    <3>2. CASE w \in P
      <4>1. Cardinality(P) = Cardinality(Q) + 1
        BY <1>13, <3>2
      <4>2. (Cardinality(Q) + 1) * Stale = Cardinality(Q) * Stale + Stale
        BY <1>13, FewerBatches, StaleNat
      <4>3. QED
        BY <3>1, <3>2, <4>1, <4>2
    <3>3. CASE w \notin P
      BY <1>13, <3>1, <3>3
    <3>4. QED
      BY <3>2, <3>3
  <2>2. n + Owed(u, t) + p <= K
    BY <1>8, <1>9, <1>10, <2>1
  <2>3. CASE u = w
    <3>1. w \notin P /\ Owed(u, t)' = 0 /\ Owed(u, t) = k
      BY <1>4, <1>6, <1>10, <2>3
    <3>2. QED
      BY <1>6, <2>1, <2>2, <3>1
  <2>4. CASE u # w
    <3>1. Owed(u, t)' = Owed(u, t) /\ Owed(u, t) \in Nat /\ k <= Stale
      BY <1>5, <1>6, <2>4, StaleNat DEF OverrunInv
    <3>2. w \notin P => k = 0
      BY <1>6, <1>10, <2>4 DEF Owing
    <3>3. PICK o \in Nat : o = Owed(u, t) /\ o = Owed(u, t)'
      BY <3>1
    <3>4. PICK s \in Nat : s = Stale
      BY StaleNat
    <3>5. m + o + q <= K
      <4>1. CASE w \in P
        BY <1>6, <2>1, <2>2, <3>1, <3>3, <3>4, <4>1
      <4>2. CASE w \notin P
        BY <1>6, <2>1, <2>2, <3>2, <3>3, <4>2
      <4>3. QED
        BY <4>1, <4>2
    <3>6. QED
      BY <2>1, <3>3, <3>5
  <2>5. QED
    BY <2>3, <2>4
<1>15. QED
  BY <1>6, <1>7, <1>9, <1>11, <1>14 DEF OverrunInv

\* The selection: the worker owes what it takes, for which it had room.
LEMMA SelectKeepsOverrun ==
  ASSUME TypeInv, PlacesInv, NEW t \in Tenants, OverrunInv(t), NEW w \in Workers, SelectJobs(w)
  PROVE  OverrunInv(t)'
<1>1. PICK S \in SUBSET Candidates :
        /\ IsClaim(S, Candidates, busy[w]) /\ batch' = [batch EXCEPT ![w] = S]
        /\ pc[w] = "counted" /\ pc' = [pc EXCEPT ![w] = "selected"]
        /\ busy' = [busy EXCEPT ![w] = NoneBusy] /\ jobState' = jobState
  BY DEF SelectJobs, queueVars
<1>2. /\ pc'[w] = "selected" /\ batch'[w] = S
      /\ \A v \in Workers \ {w} : /\ pc'[v] = pc[v] /\ batch'[v] = batch[v]
                                  /\ busy'[v] = busy[v]
  BY <1>1 DEF TypeInv, TypeOK
<1>3. Cardinality({j \in S : TenantOf[j] = t}) \in 0 .. Room(busy[w][t])
  <2>1. busy[w] \in [Tenants -> Nat]
    BY DEF TypeInv, TypeOK
  <2>2. QED
    BY <1>1, <2>1, ClaimFitsRoom
<1>4. Owed(w, t)' = Cardinality({j \in S : TenantOf[j] = t}) /\ Owed(w, t) = Room(busy[w][t])
  BY <1>1, <1>2 DEF Owed, Ours
<1>5. \A v \in Workers \ {w} : Owed(v, t)' = Owed(v, t)
  BY <1>2 DEF Owed, Ours
<1>6. InFlight(t)' = InFlight(t)
  BY <1>1 DEF InFlight
<1>7. \A v \in Workers : Owed(v, t)' \in Nat /\ Owed(v, t)' <= Owed(v, t)
  <2>1. \A v \in Workers : Owed(v, t) \in Nat
    BY StaleNat DEF OverrunInv
  <2>2. QED
    BY <1>3, <1>4, <1>5, <2>1
<1>8. QED
  BY <1>6, <1>7, LessOverrun

\* Every other step puts no row in flight, and ends a claim if it does anything to one.
LEMMA OtherKeepsOverrun ==
  ASSUME TypeInv, NEW t \in Tenants, OverrunInv(t), NEW w,
         \A j \in Jobs : jobState'[j] = "claimed" => jobState[j] = "claimed",
         \A v \in Workers \ {w} : UNCHANGED <<pc[v], batch[v], busy[v]>>,
         w \in Workers => pc'[w] \notin {"counted", "selected"}
  PROVE  OverrunInv(t)'
<1>1. InFlight(t)' \subseteq InFlight(t)
  BY DEF InFlight
<1>2. \A v \in Workers : Owed(v, t) \in Nat
  BY StaleNat DEF OverrunInv
<1>3. \A v \in Workers \ {w} : Owed(v, t)' = Owed(v, t)
  BY DEF Owed, Ours
<1>4. w \in Workers => Owed(w, t)' = 0
  BY DEF Owed
<1>5. \A v \in Workers : Owed(v, t)' \in Nat /\ Owed(v, t)' <= Owed(v, t)
  BY <1>2, <1>3, <1>4
<1>6. QED
  BY <1>1, <1>5, LessOverrun

\* The three steps of a claim, and all others.
LEMMA NextQueueInv == QueueInv /\ [Next]_vars => QueueInv'
<1> SUFFICES ASSUME QueueInv, [Next]_vars
             PROVE  PlacesInv' /\ \A t \in Tenants : OverrunInv(t)'
  BY NextHoldInv DEF QueueInv
<1>1. HoldInv /\ TypeInv /\ PlacesInv /\ \A t \in Tenants : OverrunInv(t)
  BY DEF QueueInv, HoldInv, LedgerInv
<1>2. \A w \in Workers : pc[w] \in InIteration => current[w] \in Jobs /\ Present(current[w])
  BY <1>1 DEF HoldInv, LedgerInv, TypeInv, HasJob
<1>3. ASSUME NEW j \in Jobs, Enqueue(j)
      PROVE  PlacesInv' /\ \A t \in Tenants : OverrunInv(t)'
  <2>1. PICK p \in 1 .. Cardinality(Jobs) :
          /\ \A i \in Jobs : Present(i) => place[i] # p
          /\ place' = [place EXCEPT ![j] = p]
          /\ jobState' = [jobState EXCEPT ![j] = "ready"]
    BY <1>3 DEF Enqueue, Present
  <2>2. PlacesInv'
    BY <1>1, <2>1 DEF PlacesInv, Present, TypeInv, TypeOK
  <2>3. UNCHANGED <<pc, batch, busy>>
    BY <1>3 DEF Enqueue, localVars
  <2>4. \A i \in Jobs : jobState'[i] = "claimed" => jobState[i] = "claimed"
    BY <1>1, <2>1 DEF TypeInv, TypeOK
  <2>5. QED
    BY <1>1, <2>2, <2>3, <2>4, OtherKeepsOverrun, DispatchAssumption
<1>4. ASSUME NEW j \in Jobs, Requeue(j)
      PROVE  PlacesInv' /\ \A t \in Tenants : OverrunInv(t)'
  <2>1. /\ jobState[j] \in {"claimed", "done", "failed"}
        /\ jobState' = [jobState EXCEPT ![j] = "ready"] /\ place' = place
        /\ UNCHANGED <<pc, batch, busy>>
    BY <1>4 DEF Requeue, localVars
  <2>2. PlacesInv'
    BY <1>1, <2>1 DEF PlacesInv, Present, TypeInv, TypeOK
  <2>3. \A i \in Jobs : jobState'[i] = "claimed" => jobState[i] = "claimed"
    BY <1>1, <2>1 DEF TypeInv, TypeOK
  <2>4. QED
    BY <1>1, <2>1, <2>2, <2>3, OtherKeepsOverrun, DispatchAssumption
<1>5. CASE Tick \/ UNCHANGED vars
  <2>1. UNCHANGED <<jobState, place, pc, batch, busy>>
    BY <1>5 DEF Tick, vars, queueVars, localVars
  <2>2. QED
    BY <1>1, <2>1, OtherKeepsOverrun, DispatchAssumption DEF PlacesInv, Present
<1>6. ASSUME NEW w \in Workers, RunOnce(w) \/ Crash(w)
      PROVE  PlacesInv' /\ \A t \in Tenants : OverrunInv(t)'
  <2>1. place' = place
    BY <1>6 DEF RunOnce, Claim, RunJob, CountBusy, SelectJobs, CommitClaim, FetchJob,
                CheckLedger, DismissDuplicate, RefuseUnhandled, CommitHandler, RollBack,
                MarkFailed, Crash, queueVars
  <2>2. CASE CountBusy(w)
    <3>1. jobState' = jobState
      BY <2>2 DEF CountBusy, queueVars
    <3>2. QED
      BY <1>1, <2>1, <2>2, <3>1, CountKeepsOverrun DEF PlacesInv, Present
  <2>3. CASE SelectJobs(w)
    <3>1. jobState' = jobState
      BY <2>3 DEF SelectJobs, queueVars
    <3>2. QED
      BY <1>1, <2>1, <2>3, <3>1, SelectKeepsOverrun DEF PlacesInv, Present
  <2>4. CASE CommitClaim(w)
    <3>1. \A j \in Jobs : Present(j)' => Present(j)
      BY <1>1, <2>4 DEF CommitClaim, Present, HoldInv, LedgerInv
    <3>2. QED
      BY <1>1, <2>1, <2>4, <3>1, CommitKeepsOverrun DEF PlacesInv
  <2>5. CASE RunJob(w) \/ Crash(w)
    <3>1. \A v \in Workers \ {w} : UNCHANGED <<pc[v], batch[v], busy[v]>>
      BY <1>1, <2>5
      DEF RunJob, FetchJob, CheckLedger, DismissDuplicate, RefuseUnhandled, CommitHandler,
          RollBack, MarkFailed, Crash, NextJob, Forget, localVars, TypeInv, TypeOK
    <3>2. pc'[w] \notin {"counted", "selected"}
      BY <1>1, <2>5
      DEF RunJob, FetchJob, CheckLedger, DismissDuplicate, RefuseUnhandled, CommitHandler,
          RollBack, MarkFailed, Crash, NextJob, Forget, Continue, TypeInv, TypeOK
    <3>3. \A j \in Jobs : \/ jobState'[j] = jobState[j]
                          \/ jobState'[j] \in {"done", "failed"} /\ Present(j)
      <4>1. CASE DismissDuplicate(w) \/ RefuseUnhandled(w) \/ CommitHandler(w) \/ MarkFailed(w)
        <5>1. current[w] \in Jobs /\ Present(current[w])
          BY <1>2, <4>1
          DEF DismissDuplicate, RefuseUnhandled, CommitHandler, MarkFailed, InIteration
        <5>2. QED
          BY <1>1, <4>1, <5>1
          DEF DismissDuplicate, RefuseUnhandled, CommitHandler, MarkFailed, WriteState,
              TypeInv, TypeOK
      <4>2. CASE FetchJob(w) \/ CheckLedger(w) \/ RollBack(w) \/ Crash(w)
        BY <4>2 DEF FetchJob, CheckLedger, RollBack, Crash, queueVars
      <4>3. QED
        BY <2>5, <4>1, <4>2 DEF RunJob
    <3>4. PlacesInv'
      BY <1>1, <2>1, <3>3 DEF PlacesInv, Present
    <3>5. QED
      BY <1>1, <3>1, <3>2, <3>3, <3>4, OtherKeepsOverrun
  <2>6. QED
    BY <1>6, <2>2, <2>3, <2>4, <2>5 DEF RunOnce, Claim
<1>7. QED
  BY <1>3, <1>4, <1>5, <1>6 DEF Next

LEMMA InitQueueInv == Init => QueueInv
<1> SUFFICES ASSUME Init PROVE QueueInv
  OBVIOUS
<1>1. HoldInv
  BY InitHoldInv
<1>2. PlacesInv
  BY DEF Init, PlacesInv, Present
<1>3. ASSUME NEW t \in Tenants PROVE OverrunInv(t)
  <2>1. InFlight(t) = {} /\ Cardinality(InFlight(t)) = 0
    BY FS_EmptySet DEF Init, InFlight
  <2>2. \A w \in Workers : Owed(w, t) = 0
    BY DEF Init, Owed
  <2>3. Owing(t) = {} /\ \A w : Cardinality(Owing(t) \ {w}) = 0
    BY <2>2, FS_EmptySet DEF Owing
  <2>4. PICK n \in Nat : n = Cardinality(Workers) /\ (Workers # {} => n >= 1)
    BY FS_CardinalityType, FS_EmptySet, DispatchAssumption
  <2>5. Workers # {} => (n - 1) * Stale \in Nat
    <3>1. Workers # {} => n - 1 \in Nat
      BY <2>4
    <3>2. QED
      BY <3>1, FewerBatches, StaleNat
  <2>6. 0 * Stale = 0
    BY StaleNat
  <2>7. \A w \in Workers :
          Cardinality(InFlight(t)) + Owed(w, t) + Cardinality(Owing(t) \ {w}) * Stale
            <= TenantConcurrency + (Cardinality(Workers) - 1) * Stale
    BY <2>1, <2>2, <2>3, <2>4, <2>5, <2>6, DispatchAssumption
  <2>8. QED
    BY <2>1, <2>2, <2>7, StaleNat DEF OverrunInv
<1>4. QED
  BY <1>1, <1>2, <1>3 DEF QueueInv

\* A tenant's rows in flight exceed its limit by at most one batch, decided on before the
\* others' claims could be seen, of each other worker (claim, which counts without a lock).
THEOREM OverrunStaysBounded == Spec => []OverrunBounded
<1>1. QueueInv => OverrunBounded
  <2> SUFFICES ASSUME QueueInv, NEW t \in Tenants
               PROVE  Cardinality(InFlight(t))
                        <= TenantConcurrency + (Cardinality(Workers) - 1) * Stale
    BY DEF OverrunBounded, Stale
  <2>1. OverrunInv(t)
    BY DEF QueueInv
  <2>2. PICK n \in Nat : n = Cardinality(InFlight(t))
    BY InFlightNat
  <2>3. CASE Workers = {}
    <3>1. n = 0 /\ Cardinality(Workers) = 0
      BY <2>1, <2>2, <2>3, FS_EmptySet DEF OverrunInv
    <3>2. Stale <= TenantConcurrency /\ (0 - 1) * Stale = 0 - Stale
      BY StaleNat, DispatchAssumption DEF Stale
    <3>3. QED
      BY <2>2, <3>1, <3>2, StaleNat, DispatchAssumption
  <2>4. CASE Workers # {}
    <3>1. PICK w \in Workers :
            n + Owed(w, t) + Cardinality(Owing(t) \ {w}) * Stale
              <= TenantConcurrency + (Cardinality(Workers) - 1) * Stale
      BY <2>1, <2>2, <2>4 DEF OverrunInv
    <3>2. Owed(w, t) \in Nat
      BY <2>1, StaleNat DEF OverrunInv
    <3>3. Cardinality(Owing(t) \ {w}) * Stale \in Nat
      <4>1. Owing(t) \ {w} \subseteq Workers
        BY DEF Owing
      <4>2. Cardinality(Owing(t) \ {w}) \in Nat
        BY <4>1, PartIsFewer, DispatchAssumption
      <4>3. QED
        BY <4>2, FewerBatches, StaleNat
    <3>4. PICK K \in Int : K = TenantConcurrency + (Cardinality(Workers) - 1) * Stale
      BY StaleNat, FS_CardinalityType, DispatchAssumption
    <3>5. n <= K
      BY <3>1, <3>2, <3>3, <3>4
    <3>6. QED
      BY <2>2, <3>4, <3>5
  <2>5. QED
    BY <2>3, <2>4
<1>2. QED
  BY <1>1, InitQueueInv, NextQueueInv, PTL DEF Spec
=============================================================================
