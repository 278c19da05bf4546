------------------------------ MODULE Dispatch ------------------------------
(***************************************************************************)
(* The dispatch queue and the worker loop: src/adw/workers/dispatcher.py   *)
(* over the tables dispatch_queue and job_execution.                       *)
(*                                                                         *)
(* A job is identified with its (tenant_id, idempotency_key): the unique   *)
(* constraint on dispatch_queue makes a second enqueue of the same key an  *)
(* IntegrityError that leaves no row.  PostgreSQL runs at READ COMMITTED,  *)
(* so every SELECT of a transaction is a step of its own and sees what was *)
(* committed before it; the writes of a transaction appear at its commit.  *)
(*                                                                         *)
(* A worker is one process calling run_once again and again.  Its program  *)
(* counter walks                                                           *)
(*    idle -> counted -> selected -> loop -> fetched                       *)
(*         -> (duplicate | unhandled | running) -> loop ... -> idle        *)
(* and running -> rolledback -> idle when the handler raises.              *)
(*                                                                         *)
(* A definition named after another with a suffix (UnlockedWithoutForUpdate *)
(* beside Unlocked) is what that one would be with a plausible bug in it;  *)
(* no other definition uses it.  README.md says what each is for.          *)
(***************************************************************************)
EXTENDS Integers, FiniteSets

CONSTANTS Jobs,               \* the jobs that may be enqueued
          Tenants,            \* the tenants they belong to
          Workers,            \* worker processes
          TenantOf,           \* tenant_id of each job
          Handled,            \* jobs whose job_type has a registered handler
          BatchLimit,         \* run_once's limit
          TenantConcurrency,  \* claim's tenant_concurrency
          NoWorker,           \* claimed_by IS NULL
          NoJob,              \* no job in hand
          MaxCrashes,         \* bound: worker crashes
          MaxRequeues,        \* bound: times one job is put back by hand
          MaxRequeued         \* bound: jobs put back by hand

ASSUME DispatchAssumption ==
  /\ IsFiniteSet(Jobs)
  /\ IsFiniteSet(Workers)
  /\ TenantOf \in [Jobs -> Tenants]
  /\ Handled \subseteq Jobs
  /\ BatchLimit \in Nat \ {0}
  /\ TenantConcurrency \in Nat \ {0}
  /\ NoWorker \notin Workers
  /\ NoJob \notin Jobs
  /\ MaxCrashes \in Nat
  /\ MaxRequeues \in Nat
  /\ MaxRequeued \in Nat

VARIABLES
  (* dispatch_queue, one row per job *)
  jobState,   \* JobState, or "absent" while the job has not been enqueued
  place,      \* position of the row in ORDER BY available_at, created_at
  claimedBy,  \* claimed_by
  attempts,   \* attempts
  (* job_execution *)
  ledger,     \* NotRun, or duplicate_deliveries of the job's ledger entry
  (* what the handlers did, and when *)
  effects,    \* history: committed runs of the job's handler
  horizon,    \* rows at places up to here have available_at <= now
  (* one worker process each *)
  pc,
  busy,       \* claim's busy counts, as read
  locked,     \* rows its claim transaction holds FOR UPDATE
  batch,      \* the claimed jobs its loop has still to run
  current,    \* the job of the current iteration
  seen,       \* that row's state as session.get read it
  prior,      \* what already_done returned
  (* bounds *)
  crashes, requeues

queueVars  == <<jobState, place, claimedBy, attempts>>
workVars   == <<ledger, effects>>
localVars  == <<busy, batch, current, seen, prior>>
boundVars  == <<crashes, requeues>>
vars == <<queueVars, workVars, horizon, pc, locked, localVars, boundVars>>

NotRun   == -1
JobState == {"ready", "claimed", "done", "failed"}
PC == {"idle", "counted", "selected", "loop", "fetched", "duplicate", "unhandled",
       "running", "rolledback"}
NoneBusy == [t \in Tenants |-> 0]

Init ==
  /\ jobState  = [j \in Jobs |-> "absent"]
  /\ place     = [j \in Jobs |-> 0]
  /\ claimedBy = [j \in Jobs |-> NoWorker]
  /\ attempts  = [j \in Jobs |-> 0]
  /\ ledger    = [j \in Jobs |-> NotRun]
  /\ effects   = [j \in Jobs |-> 0]
  /\ horizon   = 0
  /\ pc        = [w \in Workers |-> "idle"]
  /\ busy      = [w \in Workers |-> NoneBusy]
  /\ locked    = [w \in Workers |-> {}]
  /\ batch     = [w \in Workers |-> {}]
  /\ current   = [w \in Workers |-> NoJob]
  /\ seen      = [w \in Workers |-> "absent"]
  /\ prior     = [w \in Workers |-> NotRun]
  /\ crashes   = 0
  /\ requeues  = [j \in Jobs |-> 0]

-----------------------------------------------------------------------------
(* Producers and time. *)

\* enqueue: a READY row.  available_at is the caller's choice (default: the
\* start of its transaction), so the row may sort anywhere among the others.
Enqueue(j) ==
  /\ jobState[j] = "absent"
  /\ \E p \in 1 .. Cardinality(Jobs) :
       /\ \A i \in Jobs : jobState[i] # "absent" => place[i] # p
       /\ place' = [place EXCEPT ![j] = p]
  /\ jobState' = [jobState EXCEPT ![j] = "ready"]
  /\ UNCHANGED <<claimedBy, attempts, workVars, horizon, pc, locked, localVars, boundVars>>

\* The database clock passes the available_at of one more row.
Tick ==
  /\ horizon < Cardinality(Jobs)
  /\ horizon' = horizon + 1
  /\ UNCHANGED <<queueVars, workVars, pc, locked, localVars, boundVars>>

-----------------------------------------------------------------------------
(* claim: three statements of one transaction. *)

InFlight(t) == {j \in Jobs : jobState[j] = "claimed" /\ TenantOf[j] = t}

\* The count of CLAIMED rows per tenant, which locks nothing.
CountBusy(w) ==
  /\ pc[w] = "idle"
  /\ busy' = [busy EXCEPT ![w] = [t \in Tenants |-> Cardinality(InFlight(t))]]
  /\ pc' = [pc EXCEPT ![w] = "counted"]
  /\ UNCHANGED <<queueVars, workVars, horizon, locked, batch, current, seen, prior, boundVars>>

Before(i, j) == place[i] < place[j]

FirstOf(S, n) == {j \in S : Cardinality({i \in S : Before(i, j)}) < n}

UnlockedWithoutForUpdate(j) == TRUE
Unlocked(j) == \A v \in Workers : j \notin locked[v]

AvailableAfterFailure ==
  {j \in Jobs : jobState[j] \in {"ready", "failed"} /\ place[j] <= horizon /\ Unlocked(j)}
Available == {j \in Jobs : jobState[j] = "ready" /\ place[j] <= horizon /\ Unlocked(j)}

\* SELECT ... LIMIT limit * 4 FOR UPDATE SKIP LOCKED
Candidates == FirstOf(Available, 4 * BatchLimit)

BelowLimitOffByOne(n)  == n <= TenantConcurrency
BelowLimitShortByOne(n) == n + 1 < TenantConcurrency
BelowLimit(n) == n < TenantConcurrency

\* S is what the loop over the candidates C claims, given the counts b: in queue
\* order, a row is taken iff the batch has room and its tenant is below the limit.
IsClaim(S, C, b) ==
  \A j \in C :
    LET earlier == {i \in S : Before(i, j)}
    IN  j \in S <=>
          /\ Cardinality(earlier) < BatchLimit
          /\ BelowLimit(b[TenantOf[j]]
                          + Cardinality({i \in earlier : TenantOf[i] = TenantOf[j]}))

SelectJobs(w) ==
  /\ pc[w] = "counted"
  /\ \E S \in SUBSET Candidates :
       /\ IsClaim(S, Candidates, busy[w])
       /\ batch' = [batch EXCEPT ![w] = S]
  /\ locked' = [locked EXCEPT ![w] = Candidates]
  /\ busy' = [busy EXCEPT ![w] = NoneBusy]
  /\ pc' = [pc EXCEPT ![w] = "selected"]
  /\ UNCHANGED <<queueVars, workVars, horizon, current, seen, prior, boundVars>>

Continue(jobs) == IF jobs = {} THEN "idle" ELSE "loop"

CommitClaimCountingDown(w) ==
  /\ pc[w] = "selected"
  /\ jobState'  = [j \in Jobs |-> IF j \in batch[w] THEN "claimed" ELSE jobState[j]]
  /\ claimedBy' = [j \in Jobs |-> IF j \in batch[w] THEN w ELSE claimedBy[j]]
  /\ attempts'  = [j \in Jobs |-> IF j \in batch[w] THEN attempts[j] - 1 ELSE attempts[j]]
  /\ locked' = [locked EXCEPT ![w] = {}]
  /\ pc' = [pc EXCEPT ![w] = Continue(batch[w])]
  /\ UNCHANGED <<place, workVars, horizon, localVars, boundVars>>

CommitClaim(w) ==
  /\ pc[w] = "selected"
  /\ jobState'  = [j \in Jobs |-> IF j \in batch[w] THEN "claimed" ELSE jobState[j]]
  /\ claimedBy' = [j \in Jobs |-> IF j \in batch[w] THEN w ELSE claimedBy[j]]
  /\ attempts'  = [j \in Jobs |-> IF j \in batch[w] THEN attempts[j] + 1 ELSE attempts[j]]
  /\ locked' = [locked EXCEPT ![w] = {}]
  /\ pc' = [pc EXCEPT ![w] = Continue(batch[w])]
  /\ UNCHANGED <<place, workVars, horizon, localVars, boundVars>>

-----------------------------------------------------------------------------
(* The loop of run_once: one tenant transaction per claimed job. *)

\* session.get: the next job of the batch, and its row as it is now.
FetchJob(w) ==
  /\ pc[w] = "loop"
  /\ \E j \in FirstOf(batch[w], 1) :
       /\ current' = [current EXCEPT ![w] = j]
       /\ batch' = [batch EXCEPT ![w] = @ \ {j}]
       /\ seen' = [seen EXCEPT ![w] = jobState[j]]
  /\ pc' = [pc EXCEPT ![w] = "fetched"]
  /\ UNCHANGED <<queueVars, workVars, horizon, locked, busy, prior, boundVars>>

\* already_done: a read of the ledger, and the branch it decides.
CheckLedger(w) ==
  /\ pc[w] = "fetched"
  /\ prior' = [prior EXCEPT ![w] = ledger[current[w]]]
  /\ pc' = [pc EXCEPT ![w] = IF ledger[current[w]] # NotRun THEN "duplicate"
                             ELSE IF current[w] \in Handled THEN "running"
                             ELSE "unhandled"]
  /\ UNCHANGED <<queueVars, workVars, horizon, locked, busy, batch, current, seen, boundVars>>

\* job.state = s at commit: the unit of work writes the row only if the value it
\* read differs, and the UPDATE waits for a claim that holds the row.
WriteState(w, s) ==
  /\ Unlocked(current[w])
  /\ jobState' = IF seen[w] = s THEN jobState ELSE [jobState EXCEPT ![current[w]] = s]

NextJob(w) ==
  /\ current' = [current EXCEPT ![w] = NoJob]
  /\ seen'    = [seen EXCEPT ![w] = "absent"]
  /\ prior'   = [prior EXCEPT ![w] = NotRun]
  /\ pc'      = [pc EXCEPT ![w] = Continue(batch[w])]
  /\ UNCHANGED batch

\* A redelivery: counted in the ledger entry, and the row is DONE.
DismissDuplicate(w) ==
  /\ pc[w] = "duplicate"
  /\ ledger' = [ledger EXCEPT ![current[w]] = prior[w] + 1]
  /\ WriteState(w, "done")
  /\ NextJob(w)
  /\ UNCHANGED <<place, claimedBy, attempts, effects, horizon, locked, busy, boundVars>>

RefuseUnhandledAsDone(w) ==
  /\ pc[w] = "unhandled"
  /\ WriteState(w, "done")
  /\ NextJob(w)
  /\ UNCHANGED <<place, claimedBy, attempts, workVars, horizon, locked, busy, boundVars>>

\* No handler for the job_type: FAILED.
RefuseUnhandled(w) ==
  /\ pc[w] = "unhandled"
  /\ WriteState(w, "failed")
  /\ NextJob(w)
  /\ UNCHANGED <<place, claimedBy, attempts, workVars, horizon, locked, busy, boundVars>>

\* UNIQUE (tenant_id, idempotency_key) on job_execution.
KeyFreeAlways(j) == TRUE
KeyFree(j) == ledger[j] = NotRun

\* The handler's effects, the ledger entry and DONE, in one commit.
CommitHandler(w) ==
  /\ pc[w] = "running"
  /\ KeyFree(current[w])
  /\ ledger'  = [ledger EXCEPT ![current[w]] = 0]
  /\ effects' = [effects EXCEPT ![current[w]] = @ + 1]
  /\ WriteState(w, "done")
  /\ NextJob(w)
  /\ UNCHANGED <<place, claimedBy, attempts, horizon, locked, busy, boundVars>>

\* The handler raises, or record_execution meets an entry another delivery has
\* committed: everything it did is rolled back.
RollBack(w) ==
  /\ pc[w] = "running"
  /\ pc' = [pc EXCEPT ![w] = "rolledback"]
  /\ UNCHANGED <<queueVars, workVars, horizon, locked, localVars, boundVars>>

Forget(w) ==
  /\ pc'      = [pc EXCEPT ![w] = "idle"]
  /\ busy'    = [busy EXCEPT ![w] = NoneBusy]
  /\ batch'   = [batch EXCEPT ![w] = {}]
  /\ current' = [current EXCEPT ![w] = NoJob]
  /\ seen'    = [seen EXCEPT ![w] = "absent"]
  /\ prior'   = [prior EXCEPT ![w] = NotRun]

\* The failure session marks the row FAILED, and the exception is re-raised: it
\* leaves run_once, and the rest of the batch with it.
MarkFailed(w) ==
  /\ pc[w] = "rolledback"
  /\ Unlocked(current[w])
  /\ jobState' = [jobState EXCEPT ![current[w]] = "failed"]
  /\ Forget(w)
  /\ UNCHANGED <<place, claimedBy, attempts, workVars, horizon, locked, boundVars>>

-----------------------------------------------------------------------------
(* The environment. *)

\* A worker process dies, or loses its connection: what it had not committed is
\* gone, and it comes back with nothing in memory.
Crash(w) ==
  /\ pc[w] # "idle"
  /\ crashes < MaxCrashes
  /\ crashes' = crashes + 1
  /\ locked' = [locked EXCEPT ![w] = {}]
  /\ Forget(w)
  /\ UNCHANGED <<queueVars, workVars, horizon, requeues>>

\* Redelivery.  Nothing under src/ returns a row to READY; the ledger exists for
\* the day something does, and here an operator does it by hand.
Requeue(j) ==
  /\ jobState[j] \in {"claimed", "done", "failed"}
  /\ requeues[j] < MaxRequeues
  /\ Cardinality({i \in Jobs : requeues[i] > 0} \union {j}) <= MaxRequeued
  /\ requeues' = [requeues EXCEPT ![j] = @ + 1]
  /\ jobState' = [jobState EXCEPT ![j] = "ready"]
  /\ UNCHANGED <<place, claimedBy, attempts, workVars, horizon, pc, locked, localVars, crashes>>

-----------------------------------------------------------------------------

\* One call of claim, and one iteration of the loop.
Claim(w) == CountBusy(w) \/ SelectJobs(w) \/ CommitClaim(w)

RunJob(w) ==
  \/ FetchJob(w) \/ CheckLedger(w)
  \/ DismissDuplicate(w) \/ RefuseUnhandled(w)
  \/ CommitHandler(w) \/ RollBack(w) \/ MarkFailed(w)

RunOnce(w) == Claim(w) \/ RunJob(w)

Next ==
  \/ \E j \in Jobs : Enqueue(j) \/ Requeue(j)
  \/ Tick
  \/ \E w \in Workers : RunOnce(w) \/ Crash(w)

Spec == Init /\ [][Next]_vars

\* A worker that can take a step of run_once eventually does, run_once is called
\* again when it returns, and the clock advances.  Nobody has to enqueue, crash
\* or redeliver anything.
Fairness == WF_vars(Tick) /\ \A w \in Workers : WF_vars(RunOnce(w))

FairSpec == Spec /\ Fairness
-----------------------------------------------------------------------------
(* What must hold. *)

\* The tables and each worker's memory hold values of the right kind; attempts in
\* particular only ever counts up from 0.
TypeOK ==
  /\ jobState  \in [Jobs -> JobState \union {"absent"}]
  /\ place     \in [Jobs -> Nat]
  /\ claimedBy \in [Jobs -> Workers \union {NoWorker}]
  /\ attempts  \in [Jobs -> Nat]
  /\ ledger    \in [Jobs -> Nat \union {NotRun}]
  /\ effects   \in [Jobs -> Nat]
  /\ horizon   \in Nat
  /\ pc        \in [Workers -> PC]
  /\ busy      \in [Workers -> [Tenants -> Nat]]
  /\ locked    \in [Workers -> SUBSET Jobs]
  /\ batch     \in [Workers -> SUBSET Jobs]
  /\ current   \in [Workers -> Jobs \union {NoJob}]
  /\ seen      \in [Workers -> JobState \union {"absent"}]
  /\ prior     \in [Workers -> Nat \union {NotRun}]
  /\ crashes   \in Nat
  /\ requeues  \in [Jobs -> Nat]

\* The effects of a job are committed exactly as often as the ledger says it
\* ran, and never twice: the ledger row and the effects share a transaction, and
\* the unique key stops the second of two deliveries that both read "not run".
EffectMatchesLedger ==
  \A j \in Jobs : effects[j] = IF ledger[j] = NotRun THEN 0 ELSE 1

\* A row says DONE only of a job whose handler committed, whichever of several
\* deliveries wrote the row last.
DoneOnlyIfRun ==
  \A j \in Jobs : jobState[j] = "done" => ledger[j] # NotRun

\* The queue keeps its promise to producers: each effect at most once, across
\* redelivery, crashes and two workers on one job.
Once == INSTANCE ExactlyOnce
          WITH accepted <- {j \in Jobs : jobState[j] # "absent"}, times <- effects
EachEffectAtMostOnce == Once!Spec

Holds(w, j) == j \in batch[w] \/ current[w] = j

\* SKIP LOCKED makes concurrent claims safe: unless a job is put back by hand,
\* two workers never both hold it, and the one that does is the one on its row.
ExclusiveClaim ==
  \A j \in Jobs : requeues[j] = 0 =>
    \A w \in Workers : Holds(w, j) =>
      /\ \A v \in Workers \ {w} : ~Holds(v, j)
      /\ pc[w] # "selected" => jobState[j] = "claimed" /\ claimedBy[j] = w

\* FAILED is said only of a job that left nothing behind: the failure session
\* never overwrites the row of a job that took effect (unless it was redelivered).
FailedLeftNoEffect ==
  \A j \in Jobs : requeues[j] = 0 /\ jobState[j] = "failed" => effects[j] = 0

\* DONE and FAILED are final: no late commit, failure session or claim of another
\* worker moves a settled row that nobody put back.
SettledIsFinal ==
  [][\A j \in Jobs :
       jobState[j] \in {"done", "failed"} /\ requeues'[j] = 0 => jobState'[j] = jobState[j]]_vars

\* The overrun of the limit is bounded: each other worker can add at most one
\* batch that it decided on before it could see the others' claims.
OverrunBounded ==
  LET stale == IF BatchLimit < TenantConcurrency THEN BatchLimit ELSE TenantConcurrency
  IN  \A t \in Tenants :
        Cardinality(InFlight(t)) <= TenantConcurrency + (Cardinality(Workers) - 1) * stale

\* Every job that is claimed is eventually settled.
ClaimedIsSettled ==
  \A j \in Jobs : jobState[j] = "claimed" ~> jobState[j] \in {"done", "failed"}

\* A claimed job that no worker has in hand: its worker died, or raised over another
\* job of the batch.  Only a redelivery by hand would move it on.
Stranded(j) == jobState[j] = "claimed" /\ \A w \in Workers : ~Holds(w, j)

\* Every job that is enqueued is eventually settled, unless it is stranded itself, or
\* stranded jobs have used up its tenant's limit.  Nothing else keeps a job waiting for
\* ever: not polling workers, rows held by each other's claims, a batch that another
\* job's exception cuts short, or a death elsewhere; as long as the backlog fits the
\* candidate window, which it does in the instances.
EnqueuedIsSettled ==
  \A j \in Jobs :
    jobState[j] = "ready" ~>
      \/ jobState[j] \in {"done", "failed"}
      \/ Stranded(j)
      \/ Cardinality({i \in Jobs : TenantOf[i] = TenantOf[j] /\ Stranded(i)})
           >= TenantConcurrency
=============================================================================
