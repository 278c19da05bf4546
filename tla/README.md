# Verification of the Phase 1 services

TLA+ modules, TLC instances and TLAPS proofs for the Python package under
`src/src/adw` (paths below are relative to it unless they start with `docs/` or
`migrations/`).  The package is a governed workforce of software agents: tasks are
run by workers, judged by gates, approved by people, and everything that happens is
written to a hash-linked audit chain per tenant.  All state is in PostgreSQL, and
what is hard about it is what several transactions do to the same rows at READ
COMMITTED; that is what most of the modules are about.

`tlasany M.tla` parses a module, `tlc -config X.cfg M` checks it, `tlapm M.tla`
proves it.  `PROJECT.json` maps every definition to the source lines it models, and
lists the runs, mutants, findings, hazards and theorems.

## 1. Inventory

| part | state | operations | modelled by |
|---|---|---|---|
| dispatch queue, worker loop: `workers/dispatcher.py`, `models/queue.py` | `dispatch_queue` rows, `job_execution` ledger; a worker's claimed batch | `enqueue`, `claim`, `already_done`, `record_execution`, `run_once` | Dispatch, ExactlyOnce |
| audit chain: `services/audit_writer.py`, `domain/chain.py`, `models/audit.py`, `db.py` | `chain_record`, `chain_head` per tenant | `append`, `append_platform`, the anomaly record, commit and rollback of `tenant_session` | AuditChain, AppendOnlyLog |
| anchoring: `services/anchor_writer.py`, `domain/anchor.py` | `anchor_record`, the one `anchor_head` row | `tenants_due`, `anchor_tenant`, `run_anchoring_pass` | Anchoring, Scheduler |
| verification: `verification/chain_verifier.py`, `anchor_verifier.py` | none; reads the above | `verify_chain`, `verify_tenant_chain`, `verify_tenant_against_anchors` | ChainVerification |
| tasks: `services/task_service.py`, `domain/transitions.py` | `task.state`, `task.attempt_no`, pins | `create_task`; `transition` | Grants; TaskLifecycle |
| gates: `services/gate_engine.py` | `gate_decision` | `evaluate`, `record_decision` | as decisions in TaskLifecycle and Approval |
| rework: `services/rework_controller.py` | `rework_attempt` | `attempts_used`, `open_rework` | TaskLifecycle |
| approval: `services/approval_service.py` | `approval_item` | `request_approval`, `decide`, `overdue`, `expire`, `run_expiry_pass`, `escalate` | Approval |
| scheduler: `workers/scheduler.py` | an advisory lock on a pooled connection | `try_become_leader`, `release_leadership`, `run_scheduled_pass` | Scheduler |
| agent runtime: `runtime/agent_runtime.py`, `model_call.py` | a run's turns; `action` and `evidence` rows | `run_task`, `_record_refusal`, `invoke`, with `services/action_recorder.py` and `evidence_recorder.py` | AgentRun |
| costs: `services/cost_service.py` | `action_cost`, `execution_budget` | `record_usage`, `check_before_spending`, `set_budget`, `authorize_additional` | AgentRun |
| definitions and tools: `services/definition_service.py`, `tool_registry.py` | identities, versions, deprecations | create, register, publish, `deprecate`, `resolve_*` | Definitions |
| grants: `services/grant_service.py` | `tool_grant` | `declare`, `find`, `is_live`, `revoke` | Grants |
| artifacts: `services/artifact_service.py`, `adapters/blobstore_local.py` | `artifact_version`; one blob per digest | `append_version`, `read_content`, `put`, `destroy_tenant` | Artifacts |
| key store: `adapters/keystore_local.py` | one JSON file | `encrypt`, `decrypt`, `destroy` | KeyStore |
| canonical bytes, hashing, ids, redaction, reconstruction, LLM adapters, config | none or text | pure functions and I/O | not modelled |

How they interact: there is no production code that composes the services.  Every
service takes the caller's session, so a caller's transaction spans several of them,
and each of them appends to the audit chain, whose head row it keeps locked until
the transaction ends.  The worker loop and the scheduler are the only code that opens
transactions of its own.  The intended composition of tasks, gates, rework and
approval is the one of the scenario tests (`test_e1042.py` and its neighbours).  Approval
follows it where a service leaves something to its caller; TaskLifecycle lets a session
call the services in any order that they accept.

What is hard: rows read into memory and acted on later (task, approval), counts taken
without a lock (dispatch, rework, budgets), a lock on a row that does not exist yet
(the first audit record), timestamps that are the start of a transaction, two lock
orders (item then head, head then item), work that is lost between two transactions
(claim and handler), a verifier that reads while writers write, a lock that stays
behind on a pooled connection, a file that several processes rewrite, and a chain head
that is held while a provider thinks.

## 2. Modules

**Dispatch** has one action per statement that another transaction can fall between:
`CountBusy`, `SelectJobs` and `CommitClaim` are the three steps of `claim` and its
commit; `FetchJob`, `CheckLedger` and then `DismissDuplicate`, `RefuseUnhandled`,
`CommitHandler` or `RollBack` + `MarkFailed` are one iteration of `run_once`'s loop.
`pc`, `busy`, `batch`, `current`, `seen` and `prior` are the worker's local variables,
`locked` the rows its claim holds FOR UPDATE.  `place` stands for ORDER BY
available_at, created_at, `horizon` for the clock.  `Crash` loses everything
uncommitted.  `Requeue` puts a row back by hand: nothing in the package does, but the
ledger and `duplicate_deliveries` exist for redelivery, so without it that code would
never be exercised.  `effects` is a history variable: how often the handler's own
writes have been committed.

**ExactlyOnce** is what the queue promises: each accepted job takes effect at most
once, and only once accepted.

**AuditChain** models `_append`: the lock of the head row (which locks nothing while
there is no row), the sealed record, the anomaly record behind one that is stamped
earlier than its predecessor, any number of appends per transaction, and commit or
rollback.  `records` and `head` are committed rows, `newRecords` and `newHead` what a
transaction has flushed, `view` the head its last locking read returned, `started` its
`transaction_timestamp()`.  A record keeps the fields its hash covers; payloads are
left out.  `Hash` is an operator constant: the instances use an injective one, the
proofs assume nothing of it.  **AppendOnlyLog** is the abstract log it implements; a
task's actions in AgentRun, the anchors in Anchoring and an artifact's versions in
Artifacts implement it too.

**Anchoring** extends AuditChain with passes: heads read without a lock, tenants judged
one SELECT at a time, anchors appended under the anchor head's lock, one commit.
**Scheduler** extends Anchoring with what decides who may run a pass: the advisory lock,
which belongs to a connection and counts how often it was taken, and the pool that hands
connections out.  `BecomeLeader` is `try_become_leader` on the connection the call's
session has checked out, `CommitLeader` the commit that returns that connection with the
lock still on it, `ReleaseLeadership` the `finally` clause on whatever connection is free
then, `StopLeader` and `FailLeader` its two outcomes when the pass raises, and
`DropConnection` what frees a lock that has leaked.  `RunUnelected` is a pass nobody was
elected for.  **ChainVerification** extends Anchoring with verifiers whose SELECTs interleave with
writers and passes, and with rows that are lost behind the program's back.

**TaskLifecycle** is one task driven by sessions with copies of it: `Move` is
`transition`, which asks nothing but the table, of the copy; `Evaluate` a gate's decision,
in any state of the task; `CountAttempts` / `OpenRework` / `BlockTask` / `Refuse` the
rework controller, called with any failed decision that the session can have in hand,
fresh or old, answered or not.  `mem` is the ORM copy that checks are made against,
`newTask` the uncommitted version of the row, which an UPDATE builds on what has been
committed meanwhile.  `Commit` writes what the session has, if it is a decision alone;
`Leave` ends a session that has nothing to do.  The table lets a caller put a REWORKING
or BLOCKED task back in the queue as often as it likes; `MaxSetbacks` bounds that and aborts together.

**Approval** is the same for approval items, with the item's row lock, the audit head's
lock (the two are taken in opposite orders by `decide` and `expire`), the clock, and
the trail of audit records about each item.  `run_expiry_pass` runs in a tenant's
session, as the tests run it.

**AgentRun** is `run_task` against the budget of one execution.  A run is one
transaction of one task; `pc` follows the loop: `checking` and `weighing` are the two
SELECTs of `read_budget`, `warning` and `reporting` the audit records they lead to,
`planning` the insert of an action, `attempting` the audit record and evidence before the
call, `calling` the provider's turn, `refusing` the record of a refused proposal.  Three
properties of PostgreSQL are in the guards: the first audit record keeps the tenant's
chain head until the end (`headLock`), a unique key waits for an uncommitted row
(`KeyHeldBy`), and a cycle of the two costs one run its transaction (`LoseLockCycle`).
`rows` are a run's uncommitted actions, each with its evidence and its cost.  A decider
reads the ceiling, writes a number computed from it, and audits it.

**KeyStore** has the file (`keys`, `length`, `whole`) and, per process, one operation in
progress: load, then `Truncate` (opening for writing empties the file) and `Save`
(closing writes the buffer).  `erased` and `raced` are history.  **Artifacts** extends it:
`BeginAppend` .. `CommitAppend` are the statements of `append_version` in order, with
blobs and keys written at once and rows at commit; `Die` is a process that dies
anywhere, `BeginErasure` and `DestroyTenant` the two ways to erase a tenant.  The latter
removes any of the tenant's blobs, as its process may die with the directory half removed.

**Definitions** has one row set for identities, versions and deprecations, because every
operation of `definition_service` and `tool_registry` treats them alike: read what the
row depends on (`Create`, `Publish`, `Deprecate`), insert it under a unique key
(`Insert`), commit.  **Grants** extends it with the sessions of a tenant: `Resolve` is
`resolve_agent_version` and its siblings, `InsertTask` and `CommitTask` are `create_task`
with `declare`, and `FindGrant`, `WriteRevocation`, `CommitRevocation` are `revoke`.
Skill versions are pinned as agent versions are, and have no pins of their own here.

A definition named after another with a suffix (`KeyFreeAlways` beside `KeyFree`) is
that one with a plausible bug in it.  Nothing uses it; PROJECT.json's mutants put it
in the other's place to show that a property notices.

## 3. Runs

| run | instance | shows |
|---|---|---|
| dispatch | 3 jobs of one tenant, 2 workers, batches of 2, limit 1, one crash, one job put back once, one job without handler; 757 518 states | well-typed state (`TypeOK`); effects exactly as the ledger says (`EffectMatchesLedger`); DONE only if run (`DoneOnlyIfRun`); the limit is overrun by at most one stale batch per other worker (`OverrunBounded`); ExactlyOnce (`EachEffectAtMostOnce`) |
| dispatch_live | 3 jobs of 2 tenants, 2 fair workers, batches of 2, limit 2, one crash, one job without handler; 156 634 states | two workers never hold one job and its row names the holder (`ExclusiveClaim`); FAILED rows left no effect (`FailedLeftNoEffect`); settled rows stay (`SettledIsFinal`); every enqueued job is settled, unless it is stranded by a death or by an exception over another job of its batch, or stranded jobs have used up the limit (`EnqueuedIsSettled`) |
| dispatch_stranded | 2 jobs, one worker, batches of 2, no crash | refutes `ClaimedIsSettled` |
| audit_chain | 2 tenants, 2 writers, 4 transactions of at most 2 appends, clock to 2, one step back | `AuditTypeOK`, `ChainsIntact`, `LockedAppendNeverCollides`, `AnomalyIffBackwards`, and the refinement `ChainsOnlyGrow` |
| scheduler | 2 tenants, 1 writer, 2 transactions of at most 2 appends, 2 calls over 2 pooled connections; 277 003 states | `AnchorChainIntact` and `AnchorsMatchChain` also when passes overlap, `AnchorCadence` as long as every pass was run by an elected leader |
| verification | 1 tenant, a writer, a pass, a verifier, one loss of rows; 345 788 states | `NoFalseAnchorAlarm`; `AlarmMeansChange`: an undisturbed check is right, and a gap is never missed |
| task | 2 fair sessions, budget 2, 2 decisions, one return past the controller or one abort; 635 016 states | `TaskTypeOK`; rework rows numbered without a gap and mirrored (`BudgetCounted`); each answers a failed decision on record, of no later attempt (`ReworksAnswerFailures`); `TaskSettles` under fairness |
| approval | 1 item, 4 people, 2 people's sessions, an expiry pass, one abort; 202 283 states | `ApprovalTypeOK`, `VerdictIsBacked`, `TrailTellsState`, and `LateItemIsResolved` under fairness |
| agent_run | 2 tasks, 2 runs open of 3, 2 deciders, 2 turns, one abort; 785 398 states | `AgentTypeOK`; at most one call past the ceiling (`OneCallPastCeiling`); the actions of a task are a gapless append-only log (`ActionsOnlyGrow`); what was asked of the provider is on record when a run ends that is not aborted (`AskedIsOnRecord`); `CeilingIsTold`; `RunsEnd` under fairness |
| agent_ceiling | 2 deciders, 3 decisions | refutes `CeilingNeverFalls` |
| artifacts | 2 processes, an artifact of each of 2 tenants, 3 appends, one erasure, one death; 1 070 262 states | `ArtifactTypeOK`; versions gapless and backed by their blobs (`VersionsStand`); while no two rewrites of the key file have overlapped and it is whole, readable exactly until erased (`KeysTellErasure`) |
| grants | 2 authors, 2 sessions, an agent and a tool, 3 authoring operations, 2 creations, 2 revocations; 1 205 942 states | `GrantTypeOK`; `DefinitionsComplete`; tasks stand on what was offered and declared (`TasksStand`); `RevocationTold` |

Bounds.  Every race in this code is between two actors, so two of a kind are used
everywhere.  Two workers with batches of two and three jobs: a batch can be abandoned half-way, by
an exception or a death, and the job that is left over finds the limit used up or not.
With a limit of two a worker claims both jobs of a tenant at once, so that an exception
over the first strands the second.  Two appends per transaction make a transaction build
on its own record; four transactions let two tenants and two writers race for a first and
a second record.  The clock needs
two ticks for a record that is earlier than its predecessor and one for an item past
its deadline.  A rework budget of 2 (the constant is 3 in the code) still has a first
retry, a last one and an exhausted one.  Two decisions let a session act on an old one
beside a new one, and each can be answered again.  A ceiling of two completions is warned about
after the first and exhausted by the second, and two turns let a run make a second call;
the third run finds committed actions of both others.  Three appends and three keys let
an erasure fall between two appends of one tenant.  One version of an agent stands from
the start, so that three authoring operations are a publication and a retirement beside
it, or a tool registered, published and retired.  Both connections of the scheduler
belong to one process: a second process differs only in that it can never release what
the first one holds, and a release on the wrong one of two connections already does
nothing.

Deadlock.  The dispatch, task and approval runs check it: those systems always have
something to do in the instances (a poll, a read, a pass).  It is off in the audit, scheduler,
verification, agent, artifacts and grants runs, which stop when their bounds are used up
(that no run is stuck before is `RunsEnd`).

Fairness.  Dispatch: a worker that can take a step of `run_once` takes it, `run_once`
is called again when it returns, and the clock advances; nothing is promised of an
abandoned row, as nothing in the package returns it.  The package has no loop
around `run_once`: the run says what holds once somebody writes one.  Nobody has to
enqueue, crash or redeliver.  TaskLifecycle: a session that can go on with the task
does; no decision is owed in particular; decisions, and aborts and returns together, are bounded.  Approval: the clock
advances, the scheduler starts its pass again and again, a session with items in hand
goes on when it can; nobody has to decide or escalate, and aborts are bounded (lock
cycles are not: each ends in `LoseLockCycle` as often as it occurs).  AgentRun: something
that has begun goes on, as providers answer or time out (`llm_ollama.py:68`)
and the database serves its lock queues; nobody has to begin a run or a decision.

### Divergences demonstrated by a run

1. `dispatch_stranded`: an exception in a handler abandons the rest of the claimed
   batch (`dispatcher.py:203`).  A worker that dies after `claim` committed has the
   same effect on its whole batch, and abandoned rows count against the tenant's limit.
2. `agent_ceiling`: two people who authorize more tokens at once each write the ceiling
   they read plus their own; one authorization is lost, and the ceiling may even fall
   (`cost_service.py:278`, against `cost_service.py:269` "a reduction is not an
   authorization").

### Divergences read in the code, without a run

The models contain the behaviour; no run refutes a property about it.

- The candidate query takes the first `limit * 4` rows of all tenants, so a backlog of a
  tenant whose limit stranded jobs have used up hides the work of the others from every
  claim (`dispatcher.py:101`, against `dispatcher.py:14` "so one tenant's close week cannot
  starve another").  It takes five jobs of one tenant beside one of another.
- A session with an old copy moves a PASSED task on, as the check reads memory and the
  UPDATE asks nothing of the row (`task_service.py:138`, against `docs/ARCHITECTURE.md:312`
  "Passed --> [*]").  `transition` does not look at gate decisions either: that a task
  passes only after a passing one is up to its callers.
- One failed decision may open two reworks, in one session or in two
  (`rework_controller.py:66`, against `docs/ARCHITECTURE.md:293` "Gate Decision → Rework
  attempt | 1 : 0..1"); `ReworksAnswerFailures` says what a rework may rest on.
- Each run may make its first call after other runs have reached the ceiling
  (`cost_service.py:218`, against `cost_service.py:60` "No further model call may start");
  `OneCallPastCeiling` says that only its first may.
- The prompt is flushed before the provider is called and committed only with the caller's
  transaction, so a process that dies during a call, or an exception other than LLMError,
  leaves no trace of it (`model_call.py:145`, against `model_call.py:14` "the record still
  shows what was attempted").  `AskedIsOnRecord` leaves out just these ends of a run: it
  would fail with them.
- A process that read the key file before a key was destroyed writes it back afterwards, and
  what was erased can be read again (`keystore_local.py:68`, against its line 34 "permanently
  unreadable").  `KeysTellErasure` is stated for histories without such an overlap.
- Two people revoke one grant from unrevoked copies; the later commit overwrites who and
  when (`grant_service.py:199`, against its line 196 "Revoking twice is not a second fact").
- A task is committed with a version as the latest whose retirement was committed after it
  was resolved (`definition_service.py:277`, against its line 203 "Retire a definition
  version from new pins").
- Two workers that count before either commits exceed a tenant's concurrency limit
  (`dispatcher.py:88`, against `docs/ARCHITECTURE.md:932` "respecting per-tenant
  concurrency limits"); `OverrunBounded` says by how much.
- A tenant's first append locks no row; the unique key decides between two of them
  (`audit_writer.py:54`, against "The lock is what serializes appends").
- Event times are transaction start times, so overlapping transactions give an anomaly
  record under a clock that never stepped back (`audit_writer.py:126`), and the
  anomaly goes to the tenant's chain, not to the platform chain that
  `docs/PHASE-1-IMPLEMENTATION-PLAN.md:487` names.
- `verify_chain` accepts any first record, so a missing prefix goes unnoticed
  (`domain/chain.py:131`).
- A commit between the two SELECTs of `verify_tenant_chain` fails a chain that is
  consistent (`chain_verifier.py:60`); `AlarmMeansChange` says what an alarm is worth.
- Two people who loaded a pending item both decide it, and two contradicting gate
  decisions stand (`approval_service.py:125`, against its `ApprovalNotPendingError`).
- A leader's commit returns its connection to the pool with the advisory lock on it; the
  unlock runs on any free connection, or in a transaction that refuses it
  (`scheduler.py:61`).  The lock then stays until that connection is lost, is given to the
  next leader of the same process, or keeps every other process from leading
  (`scheduler.py:27` "releases it by disconnecting").  Electing twice is never the result.
- The scheduled pass opens a plain session with no tenant: under row-level security the
  runtime role sees no approval items and no chain heads, and the anchoring role may not
  read approval items (`scheduler.py:52`).
- A run keeps its tenant's chain head from its first audit record to its end, so all
  other transactions of the tenant that audit anything wait for its provider calls
  (`model_call.py:145`).
- A process that dies between opening the key file and writing it loses every tenant's
  key, and two rewrites at once may lose a new key (`keystore_local.py:55`).  After
  `destroy`, `encrypt` makes another key under the same id.
- The time of a revocation is the start of its transaction, so it may lie before calls that
  were still made (`grant_service.py:203`).
- An expiry pass with an old copy turns a decided item into an expired one that keeps
  the decider's name (`approval_service.py:200`).

## 4. Proofs

Every safety invariant and every action property that a passing run checks is a theorem:
`Spec => []Inv`, `Spec => [][A]_vars` or `Spec => Abstract!Spec`, for every value of the
constants that the named assumptions allow.  Each rests on an inductive invariant,
checked with TLC on the instances above before it was proved.  What those invariants add
is the interesting part: it is what has to be true between two statements of a
transaction for the committed tables to come out right.

**DispatchProofs**, from `DispatchAssumption`: finite sets of jobs and workers, any
tenants, limits, crashes and redeliveries.

- `TypeCorrect`: by `TypeInv`, which adds that a worker inside the loop body has a job in
  hand (without it, `current[w]` is not known to be a job).
- `EffectsMatchLedger`, `DoneIsRun`: by `LedgerInv`.  "DONE only if run" is not
  inductive alone: a worker that dismisses a duplicate writes DONE on the strength of
  what it read before, so the invariant also says that such a worker's job still has its
  ledger entry, and that the jobs in workers' hands have rows.
- `RefinesExactlyOnce`: `Spec` implies `ExactlyOnce`, from the same invariant.
- `ClaimsExclusive`, `FailedIsClean`, `SettledStays`: by `HoldInv`.  Exclusive claims
  rest on `Stages` (what a claim has selected is READY and locked by it alone until it
  commits) and `Fresh` (a job never put back has no ledger entry before it is DONE, and
  the worker that has it in hand read its row as CLAIMED, so its write is not dropped).
- `OverrunStaysBounded`: by `QueueInv`.  What each claim under way may still put in
  flight (`Owed`) is at most one stale batch.  Take the worker that counted last: the jobs
  in flight, what it owes, and a stale batch for each other worker that owes anything are
  together at most the limit and a stale batch for each of the others (`OverrunInv`).  A
  worker that counts becomes the one to take.  `PlacesInv` (no two rows share a place in
  the queue) bounds what one SELECT takes.

**AuditChainProofs**, from `AuditChainAssumption`: any tenants and writers, and any hash
operator: nothing proved compares records by their digests.

- `AuditTypeCorrect`: by `TypeInv`, which adds that a transaction that is idle has
  nothing pending (`TidyWriters`).
- `ChainsStayIntact`: `ChainInv` adds that a transaction's new records continue the
  committed chain, that it is then the only one with new records there, and holds the
  lock or writes the first record (`ContinuesChain`); and that the head it is about to
  append to is still the head (`ViewIsCurrent`).  Without these a commit could not be
  shown to extend the chain; they say how the lock that locks nothing and the unique
  key share the work.
- `LockedAppendsSucceed`, `ImplementsAppendOnlyLog`: corollaries of it.
- `AnomaliesAreRecorded`: `AnomalyInv` adds that the committed chain together with any
  transaction's new records already has its anomalies.

**AnchoringProofs** extends it to Anchoring, Scheduler and ChainVerification, from
`AnchoringAssumption` and `SchedulerAssumption` besides.

- `AnchorChainStaysIntact`, `AnchorsAlwaysMatch`: by `PassInv`.  Heads are read without a
  lock, so `ReadsLast` says only that a head once read is the summary of a record that is
  still in the chain; `ContinuesAnchors` and `AnchorViewIsCurrent` are for the anchor
  head what `ContinuesChain` and `ViewIsCurrent` are for a chain head.
- `AnchorsAreALog`: Anchoring implements AppendOnlyLog, from `PassInv`.
- `ScheduledPassesArePasses`: every behaviour of Scheduler is one of Anchoring, so the
  theorems above hold there too (`ScheduledAnchorsHold`), elected or not.
- `ElectedLeadersKeepCadence`: by `ElectedInv`, which holds as long as nobody ran a pass
  without asking.  `LeaderInv`: at most one connection has the advisory lock, a leader's
  connection has it, no two leaders share a connection, and a pass under way has a leader;
  hence one pass at a time.  `MayCommit`: what a pass is about to commit is due after all
  anchors of its tenant, which stays true because nobody else is anchoring.
- `AnchorsRaiseNoFalseAlarm`, `ChainAlarmIsRight`: by `VerifyInv`.  As long as no rows
  were lost, what a verifier still has to compare are anchors that were committed and
  stay, and each names a record; a whole chain passes and one with a gap fails.

**TaskProofs**, from `TaskAssumption`: any sessions and budget.

- `TaskTypeCorrect`, `BudgetIsCounted`: by `BudgetInv`.  Who has the row's lock numbers on
  from what is committed and its version of the row says so (`RowContinues`); copies and
  counts may be old but are never ahead, and are exact for a session with rows of its own
  (`CopiesLag`).  The unique key does the rest.
- `ReworksAlwaysAnswerFailures`: `GatesInv` adds `RestsOnDecisions` (rework rows that are
  not committed yet, and the call of `open_rework` under way, rest on a decision that is
  committed or commits with them) and `DecisionsLag` (no decision judges an attempt later
  than the task's, as copies may be old but are never ahead).

**ApprovalProofs**, from `ApprovalAssumption`: any items, people, sessions and passes.

- `SessionInv` describes a session at each stage (at rest, about to decide, with a
  recorded decision, with the decided row, expiring, escalating): what it has locked,
  which event and which row version it holds for what it has locked, and that they are
  built on the committed row.  `ApprovalTypeCorrect`, `DecisionsAreNumbered` (verdict rows
  are numbered one after the other, also when decisions race) and `VerdictsAreBacked`
  follow from it; so does `TrailAlwaysTells`: the last event a commit adds about an item tells
  the row it leaves, and an item it adds no state event for it leaves as it was
  (`CommitTells`).

**GrantsProofs** on Grants and Definitions, from `GrantAssumption` and
`DefinitionAssumption`.

- `GrantInvariant` has three parts.  `DefinitionInv`: what an author sees (committed rows
  and its own) is complete, what it is about to insert rests on that, and no two authors
  hold rows of one key.  `TableInv`: one row for a task and for a grant, and each grant's
  revocation is the last thing told about it.  `SessionInv`: the pins in hand of a creator
  were published and not retired when it resolved them.
- `GrantTypeCorrect`, `DefinitionsStayComplete`, `TasksAlwaysStand`,
  `RevocationAlwaysTold` follow.

**ArtifactsProofs** on Artifacts and KeyStore, from `ArtifactAssumption` and
`KeyStoreAssumption`.

- `ArtifactTypeCorrect`: `TypeInv` ties the caller's step to the step of the key store's
  operation that it is in (`CallInv`).
- `VersionsAlwaysStand`: `NumberInv` (who has inserted a row has the next number, and no
  other has inserted one for that artifact) and `BlobInv` (a text in hand was put among the
  blobs and is there unless destroyed).
- `VersionsAreALog`: Artifacts implements AppendOnlyLog.  It needs that numbers 1 to n on n
  rows are no two alike, which `NumberInv` says through a cardinality.
- `KeysAlwaysTellErasure`: `FileInv`, for as long as no two rewrites of the file have
  overlapped.  A whole file opens exactly what is in use and not erased (`OpenAll`); who
  has decided to rewrite has the file's keys in hand, changed for one tenant (`ViewFits`);
  who has emptied the file is alone with it and holds the keys that restore it.

**AgentRunProofs**, from `AgentAssumption`: any tasks, runs, deciders, usages and ceilings.

- `AgentInvariant` is `AgentTypeOK`, `KeysInv`, `CallsInv` and `TurnsInv`.
- `SequencesStayGapless`: by `KeysInv`.  The uncommitted rows of a run fit on what is
  committed: together they have every number up to the run's, and no key twice, with the
  committed rows or those of other runs.
- `ActionsAreALog`: AgentRun implements AppendOnlyLog.  A step commits actions of one task
  only (`CommitsOneTask`), and gapless numbers without repetition before and after it leave
  new actions no place but the end.
- `AskedStaysOnRecord`: by `CallsInv` (the one row of a run that may be half made is the
  one it is working on), `KeysInv` and `TurnsInv`.  What ends a run without a commit, apart
  from an abort, finds it without rows that have been sent: whoever else has the run's next
  number has all the numbers before it (`KeyTakenLeavesNoRows`), and who has asked holds the
  head, so it neither waits for the head nor loses a cycle over it (`LoserHasNotAsked`).
- `OneCallPastTheCeiling`: by `TurnsInv`: a run that has made a call has the chain head, so
  that nobody else of the tenant commits spending or a decision, and what it read of the
  budget since still holds.
- `CeilingAlwaysTold`.

The proofs of `OverrunStaysBounded` and of AgentRun's theorems were also tried on models
with a planted bug (an off-by-one in `BelowLimit`; four in AgentRun's actions): the proof
of the property concerned then fails.

Finite data.  That a finite set of numbers has a greatest element (`FiniteMax`,
`LastInQueue`), and that the sum over a finite set is well defined and a number (`SumIsNat`,
`SpendIsNat`), are inductions over data, which the library's induction theorems state with
an operator as parameter.  They are proved by taking a minimal counterexample instead,
with `WFMin` on the subset ordering of a finite set or the order of the natural numbers.

**Only model-checked**: the liveness properties `EnqueuedIsSettled`, `TaskSettles`,
`LateItemIsResolved` and `RunsEnd`, as the prover reasons neither about fairness nor about
ENABLED; and the two properties that a run refutes.

## 5. Not modelled

Contents of records, prompts and artifacts; canonical bytes and hash functions (taken
as injective in the instances); redaction and reconstruction; prompt assembly and the
detection of tool proposals, of which AgentRun takes every outcome; the HTTP of provider
adapters, configuration, database roles and row-level security.  Of modelled parts:
`create_artifact` (one insert under a unique key), the scopes of grants and `covers`,
skill pins beside agent pins, `verify_anchor_chain`, and the expiry half of a scheduled
pass, which is in Approval instead.  Locks are the row locks the code takes;
serialization failures other than lock cycles do not occur at READ COMMITTED.  An
operator's manual changes to tables are left out except `Requeue` and `LoseRows`.

## 6. Plan

1. Abstract specifications of what single components promise, and their refinement: a
   register whose texts can be destroyed (Artifacts with KeyStore), a grant that ends once
   (Grants), an item that is requested, decided and closed (Approval).
2. `verify_chain`, `verify_anchor_chain` and the transition tables as pure functions
   against reference definitions over bounded inputs.
3. The state machines that are modelled in one instance only (one task, one item) with
   several rows at once, where a run can hold two locks of different rows.
