------------------------------- MODULE Grants -------------------------------
(***************************************************************************)
(* The creation of tasks with their pins and grants, and the revocation of *)
(* grants: create_task of task_service.py with declare and revoke of       *)
(* grant_service.py, over the tables task, task_skill_pin and tool_grant,  *)
(* beside authors who publish and retire definitions (Definitions).        *)
(*                                                                         *)
(* A creator resolves the versions its task will pin, one SELECT at a      *)
(* time, and writes task, pins and grants in one transaction.  A revoker   *)
(* checks its own copy of a grant and overwrites the row, which waits for  *)
(* another revoker's.  Both end with audit records, for which they wait    *)
(* for the tenant's chain head; as they commit next, that is one step.     *)
(*                                                                         *)
(* Definitions named after another with a suffix are that one with a       *)
(* plausible bug in it (see README.md).                                    *)
(***************************************************************************)
EXTENDS Definitions, Sequences

CONSTANTS Tools,          \* the definitions that are tools; the others are agents
          Tasks,          \* (execution, sequence) pairs a task may be created under
          Sessions,       \* sessions of the tenant
          NoTask, NoSession, NoTool,
          Lifetime,       \* ttl_seconds
          MaxClock,       \* bound: the database clock
          MaxTasks,       \* bound: tasks begun
          MaxRevocations  \* bound: revocations begun

ASSUME GrantAssumption ==
  /\ Tools \subseteq Definition
  /\ NoTask \notin Tasks /\ NoSession \notin Sessions /\ NoTool \notin Tools
  /\ Lifetime \in Nat \ {0}     \* declare refuses any other
  /\ MaxClock \in Nat /\ MaxTasks \in Nat /\ MaxRevocations \in Nat

VARIABLES
  tasks,      \* committed tasks with their pins
  grants,     \* committed rows of tool_grant
  trail,      \* audit records of grants, in the order of the chain
  clock,
  pc,
  started,    \* transaction_timestamp()
  task,       \* the task a creator writes, or the one whose grant a revoker holds
  pins,       \* the versions it has resolved
  retired,    \* history: versions whose retirement was committed when it began
  tool,       \* the tool of the revoker's grant
  tasksBegun, revocationsBegun

grantTables == <<tasks, grants, trail>>
sessionVars == <<pc, started, task, pins, retired, tool>>
beginVars   == <<tasksBegun, revocationsBegun>>
vars == <<definitionVars, aborts, grantTables, clock, sessionVars, beginVars>>

PC == {"idle", "resolving", "declaring", "revoking", "revoked"}

NotRevoked == [at |-> -1, by |-> NoSession]

Init ==
  /\ DefinitionInit
  /\ aborts  = 0
  /\ tasks   = {}
  /\ grants  = {}
  /\ trail   = <<>>
  /\ clock   = 0
  /\ pc      = [s \in Sessions |-> "idle"]
  /\ started = [s \in Sessions |-> 0]
  /\ task    = [s \in Sessions |-> NoTask]
  /\ pins    = [s \in Sessions |-> {}]
  /\ retired = [s \in Sessions |-> {}]
  /\ tool    = [s \in Sessions |-> NoTool]
  /\ tasksBegun = 0
  /\ revocationsBegun = 0

Goto(s, label) == pc' = [pc EXCEPT ![s] = label]

\* The transaction is over.
Close(s) ==
  /\ started' = [started EXCEPT ![s] = 0]
  /\ task' = [task EXCEPT ![s] = NoTask]
  /\ pins' = [pins EXCEPT ![s] = {}]
  /\ retired' = [retired EXCEPT ![s] = {}]
  /\ tool' = [tool EXCEPT ![s] = NoTool]
  /\ Goto(s, "idle")
  /\ UNCHANGED <<definitionVars, clock, beginVars>>

Tick ==
  /\ clock < MaxClock
  /\ clock' = clock + 1
  /\ UNCHANGED <<definitionVars, aborts, grantTables, sessionVars, beginVars>>

-----------------------------------------------------------------------------
(* create_task *)

Retired == {[definition |-> r.definition, number |-> r.number] :
              r \in {q \in rows : q.kind = "deprecation"}}

BeginTask(s, k) ==
  /\ pc[s] = "idle"
  /\ tasksBegun < MaxTasks
  /\ tasksBegun' = tasksBegun + 1
  /\ started' = [started EXCEPT ![s] = clock]
  /\ task' = [task EXCEPT ![s] = k]
  /\ retired' = [retired EXCEPT ![s] = Retired]
  /\ Goto(s, "resolving")
  /\ UNCHANGED <<definitionVars, aborts, grantTables, clock, pins, tool, revocationsBegun>>

\* A version named by its number, retired or not, or the latest one.
Resolve(s, d, n, named) ==
  /\ pc[s] = "resolving"
  /\ IF named THEN n \in Numbers(rows, d) ELSE IsLatest(rows, d, n)
  /\ LET pin == [definition |-> d, number |-> n, named |-> named] IN
       /\ pin \notin pins[s]
       /\ d \notin Tools => \A p \in pins[s] : p.definition \in Tools
       /\ pins' = [pins EXCEPT ![s] = @ \union {pin}]
  /\ UNCHANGED <<definitionVars, aborts, grantTables, clock, pc, started, task, retired, tool,
                 beginVars>>

HasAgent(s) == \E p \in pins[s] : p.definition \notin Tools

\* The INSERT of the task under UNIQUE (execution_id, sequence).
TaskTaken(s) == \E k \in tasks : k.task = task[s]
TaskHeld(s) == \E q \in Sessions \ {s} : pc[q] = "declaring" /\ task[q] = task[s]

InsertTask(s) ==
  /\ pc[s] = "resolving"
  /\ HasAgent(s)
  /\ ~TaskTaken(s) /\ ~TaskHeld(s)
  /\ Goto(s, "declaring")
  /\ UNCHANGED <<definitionVars, aborts, grantTables, clock, started, task, pins, retired, tool,
                 beginVars>>

FindTaskTaken(s) ==
  /\ pc[s] = "resolving"
  /\ HasAgent(s)
  /\ TaskTaken(s)
  /\ Close(s)
  /\ UNCHANGED <<grantTables, aborts>>

\* declare: the pins of tools become grants, one per tool.
ToolPins(s) == {p \in pins[s] : p.definition \in Tools}
OnePerToolUnchecked(S) == TRUE
OnePerTool(S) == \A p, q \in S : p.definition = q.definition => p = q

Grant(s, p) ==
  [task |-> task[s], tool |-> p.definition, number |-> p.number,
   expires |-> started[s] + Lifetime, revocation |-> NotRevoked]

\* A declaration that names no grant is not audited.
Declared(s) ==
  IF ToolPins(s) = {} THEN <<>>
  ELSE <<[event |-> "declared", task |-> task[s], by |-> s,
          tools |-> {[tool |-> p.definition, number |-> p.number] : p \in ToolPins(s)}]>>

CommitTask(s) ==
  /\ pc[s] = "declaring"
  /\ OnePerTool(ToolPins(s))
  /\ tasks' = tasks \union {[task |-> task[s], pins |-> pins[s], retired |-> retired[s]]}
  /\ grants' = grants \union {Grant(s, p) : p \in ToolPins(s)}
  /\ trail' = trail \o Declared(s)
  /\ Close(s)
  /\ UNCHANGED aborts

\* GrantError: the caller rolls back.
RefuseTask(s) ==
  /\ pc[s] = "declaring"
  /\ ~OnePerTool(ToolPins(s))
  /\ Close(s)
  /\ UNCHANGED <<grantTables, aborts>>

-----------------------------------------------------------------------------
(* revoke *)

HeldBy(k, d) == {g \in grants : g.task = k /\ g.tool = d}
InHand(s) == CHOOSE g \in HeldBy(task[s], tool[s]) : TRUE

\* find, and the check of the copy: only of an unrevoked one goes on.
FindGrant(s, g) ==
  /\ pc[s] = "idle"
  /\ g.revocation = NotRevoked
  /\ revocationsBegun < MaxRevocations
  /\ revocationsBegun' = revocationsBegun + 1
  /\ started' = [started EXCEPT ![s] = clock]
  /\ task' = [task EXCEPT ![s] = g.task]
  /\ tool' = [tool EXCEPT ![s] = g.tool]
  /\ Goto(s, "revoking")
  /\ UNCHANGED <<definitionVars, aborts, grantTables, clock, pins, retired, tasksBegun>>

\* The UPDATE waits for another revoker of the same row.
RowFree(s) ==
  ~\E q \in Sessions \ {s} : pc[q] = "revoked" /\ task[q] = task[s] /\ tool[q] = tool[s]

WriteRevocation(s) ==
  /\ pc[s] = "revoking"
  /\ RowFree(s)
  /\ Goto(s, "revoked")
  /\ UNCHANGED <<definitionVars, aborts, grantTables, clock, started, task, pins, retired, tool,
                 beginVars>>

RevokedRowIfLive(g, s) ==
  IF g.revocation = NotRevoked THEN [g EXCEPT !.revocation = [at |-> started[s], by |-> s]]
                               ELSE g
RevokedRow(g, s) == [g EXCEPT !.revocation = [at |-> started[s], by |-> s]]

CommitRevocation(s) ==
  /\ pc[s] = "revoked"
  /\ grants' = (grants \ {InHand(s)}) \union {RevokedRow(InHand(s), s)}
  /\ trail' = Append(trail, [event |-> "revoked", task |-> task[s], by |-> s,
                             tools |-> {[tool |-> tool[s], number |-> InHand(s).number]}])
  /\ Close(s)
  /\ UNCHANGED <<tasks, aborts>>

AbortSession(s) ==
  /\ pc[s] # "idle"
  /\ aborts < MaxAborts
  /\ aborts' = aborts + 1
  /\ Close(s)
  /\ UNCHANGED grantTables

IsLive(g, now) == g.revocation = NotRevoked /\ now < g.expires

-----------------------------------------------------------------------------

CreateTask(s) ==
  \/ \E k \in Tasks : BeginTask(s, k)
  \/ \E d \in Definition, named \in BOOLEAN :
       \E n \in Numbers(rows, d) : Resolve(s, d, n, named)
  \/ InsertTask(s) \/ FindTaskTaken(s) \/ CommitTask(s) \/ RefuseTask(s)

Revoke(s) == (\E g \in grants : FindGrant(s, g)) \/ WriteRevocation(s) \/ CommitRevocation(s)

Author(w) == AuthorStep(w) /\ UNCHANGED <<grantTables, clock, sessionVars, beginVars>>

Next ==
  \/ \E s \in Sessions : CreateTask(s) \/ Revoke(s) \/ AbortSession(s)
  \/ \E w \in Authors : Author(w)
  \/ Tick

Spec == Init /\ [][Next]_vars
-----------------------------------------------------------------------------
(* What must hold. *)

Pin == [definition : Definition, number : Nat \ {0}, named : BOOLEAN]

\* Tables and sessions hold values of the right kind, and a revoker's grant exists.
GrantTypeOK ==
  /\ DefinitionTypeOK
  /\ \A k \in tasks : k.task \in Tasks /\ k.pins \subseteq Pin
  /\ grants \subseteq [task : Tasks, tool : Tools, number : Nat \ {0}, expires : Nat,
                       revocation : [at : Nat, by : Sessions] \union {NotRevoked}]
  /\ \A i \in DOMAIN trail : /\ trail[i].event \in {"declared", "revoked"}
                             /\ trail[i].task \in Tasks /\ trail[i].by \in Sessions
  /\ clock \in Nat
  /\ pc \in [Sessions -> PC]
  /\ started \in [Sessions -> 0 .. clock]
  /\ task \in [Sessions -> Tasks \union {NoTask}]
  /\ pins \in [Sessions -> SUBSET Pin]
  /\ tool \in [Sessions -> Tools \union {NoTool}]
  /\ \A s \in Sessions :
       pc[s] \in {"revoking", "revoked"} => Cardinality(HeldBy(task[s], tool[s])) = 1

Told(event, k, d) ==
  {i \in DOMAIN trail : /\ trail[i].event = event /\ trail[i].task = k
                        /\ \E t \in trail[i].tools : t.tool = d}

\* A task stands on what was published, and on nothing that had been retired before its
\* transaction began unless that version was asked for by its number; its grants are its
\* tool pins, one per tool, and the declaration in the audit trail names them.
TasksStand ==
  \A k \in tasks :
    /\ \A p \in k.pins : p.number \in Numbers(rows, p.definition)
    /\ \A p \in k.pins :
         p.named \/ [definition |-> p.definition, number |-> p.number] \notin k.retired
    /\ {[tool |-> g.tool, number |-> g.number] : g \in {h \in grants : h.task = k.task}}
         = {[tool |-> p.definition, number |-> p.number] :
              p \in {q \in k.pins : q.definition \in Tools}}
    /\ \A p \in k.pins : p.definition \in Tools =>
         /\ Cardinality(HeldBy(k.task, p.definition)) = 1
         /\ \E i \in Told("declared", k.task, p.definition) :
              [tool |-> p.definition, number |-> p.number] \in trail[i].tools

\* A grant that nobody revoked is live until it expires; one that somebody revoked is
\* dead for good, and its row names the revoker of the last audit record, also when two
\* people have revoked it.
RevocationTold ==
  \A g \in grants :
    LET told == Told("revoked", g.task, g.tool) IN
      IF told = {} THEN IsLive(g, clock) <=> clock < g.expires
      ELSE ~IsLive(g, clock) /\ g.revocation.by = trail[Max(told)].by
=============================================================================
