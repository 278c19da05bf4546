------------------------------ MODULE Scheduler -----------------------------
(***************************************************************************)
(* Leader election: run_scheduled_pass of src/adw/workers/scheduler.py     *)
(* around the anchoring passes of Anchoring.                               *)
(*                                                                         *)
(* The advisory lock belongs to a database connection and counts: the same *)
(* connection may take it again.  A process keeps its connections in a     *)
(* pool.  A leader takes the lock on the connection its session has        *)
(* checked out; commit gives that connection back to the pool, lock and    *)
(* all; release_leadership then runs on whichever connection is free.      *)
(*                                                                         *)
(* A call that does not become the leader changes nothing and has no       *)
(* action.  The expiry pass of the same call is modelled in Approval.      *)
(***************************************************************************)
EXTENDS Anchoring

CONSTANTS Connections,   \* pooled database connections
          Processes,     \* worker processes
          ProcessOf,     \* the process each connection belongs to
          NoConnection,  \* a call has none
          NoProcess      \* a call has nothing to release

ASSUME SchedulerAssumption ==
  /\ ProcessOf \in [Connections -> Processes]
  /\ NoConnection \notin Connections
  /\ NoProcess \notin Processes

VARIABLES
  depth,       \* how many times each connection has taken the lock
  connection,  \* what the session of a leader's call has checked out
  releasing,   \* the process of a call that has still to release its leadership
  unelected    \* history: a pass was run without asking for the lock

leaderVars == <<depth, connection, releasing, unelected>>
schedulerVars == <<anchoringVars, leaderVars>>

SchedulerInit ==
  /\ depth      = [c \in Connections |-> 0]
  /\ connection = [p \in Passes |-> NoConnection]
  /\ releasing  = [p \in Passes |-> NoProcess]
  /\ unelected  = FALSE

IsIdle(c) == \A p \in Passes : connection[p] # c

\* pg_try_advisory_lock: held by no other connection.
LockIsFreeToAll(c) == TRUE
LockIsFree(c) == \A d \in Connections \ {c} : depth[d] = 0

BecomeLeader(p, c) ==
  /\ releasing[p] = NoProcess
  /\ IsIdle(c)
  /\ LockIsFree(c)
  /\ depth' = [depth EXCEPT ![c] = @ + 1]
  /\ connection' = [connection EXCEPT ![p] = c]
  /\ BeginPass(p)
  /\ UNCHANGED <<releasing, unelected>>

\* run_anchoring_pass called by itself, which nothing prevents.
RunUnelected(p) ==
  /\ releasing[p] = NoProcess
  /\ unelected' = TRUE
  /\ BeginPass(p)
  /\ UNCHANGED <<depth, connection, releasing>>

WorkOn(p) ==
  \/ ReadHeads(p)
  \/ \E t \in Tenants : JudgeTenant(p, t) \/ AnchorTenant(p, t)
  \/ EndJudging(p) \/ LockAnchorHead(p)

\* pg_advisory_unlock: only what this connection holds, otherwise a warning.
Unlocked(c) == [depth EXCEPT ![c] = IF @ = 0 THEN 0 ELSE @ - 1]

HandBack(p) == connection' = [connection EXCEPT ![p] = NoConnection]

\* session.commit(): the connection goes back to the pool.
CommitLeader(p) ==
  /\ connection[p] # NoConnection
  /\ CommitPass(p)
  /\ HandBack(p)
  /\ releasing' = [releasing EXCEPT ![p] = ProcessOf[connection[p]]]
  /\ UNCHANGED <<depth, unelected>>

\* finally: release_leadership(session), on any free connection of the process.
ReleaseLeadership(p, c) ==
  /\ releasing[p] = ProcessOf[c]
  /\ IsIdle(c)
  /\ depth' = Unlocked(c)
  /\ releasing' = [releasing EXCEPT ![p] = NoProcess]
  /\ UNCHANGED <<connection, unelected>>

\* The pass raises while its transaction can go on: unlocked on the same connection.
StopLeader(p) ==
  /\ connection[p] # NoConnection
  /\ AbortPass(p)
  /\ depth' = Unlocked(connection[p])
  /\ HandBack(p)
  /\ UNCHANGED <<releasing, unelected>>

\* A statement fails: the transaction refuses the unlock too, and the connection goes
\* back to the pool.
FailLeader(p) ==
  /\ connection[p] # NoConnection
  /\ AbortPass(p)
  /\ HandBack(p)
  /\ UNCHANGED <<depth, releasing, unelected>>

EndUnelected(p) ==
  /\ connection[p] = NoConnection
  /\ CommitPass(p) \/ AbortPass(p)
  /\ UNCHANGED leaderVars

\* A connection is lost, as all of a process are that dies: the server frees its locks
\* and undoes its transaction.
DropConnection(c) ==
  /\ depth' = [depth EXCEPT ![c] = 0]
  /\ connection' = [p \in Passes |-> IF connection[p] = c THEN NoConnection ELSE connection[p]]
  /\ \/ IsIdle(c) /\ UNCHANGED anchorVars
     \/ \E p \in Passes : connection[p] = c /\ AbortPass(p)
  /\ UNCHANGED <<releasing, unelected>>

SchedulerStep ==
  \/ \E p \in Passes :
       \/ WorkOn(p) /\ UNCHANGED leaderVars
       \/ RunUnelected(p) \/ EndUnelected(p)
       \/ CommitLeader(p) \/ StopLeader(p) \/ FailLeader(p)
       \/ \E c \in Connections :
            \/ BecomeLeader(p, c)
            \/ ReleaseLeadership(p, c) /\ UNCHANGED anchorVars
  \/ \E c \in Connections : DropConnection(c)

ScheduledInit == Init /\ SchedulerInit

ScheduledNext ==
  \/ AuditNext /\ UNCHANGED <<anchorVars, leaderVars>>
  \/ SchedulerStep /\ UNCHANGED auditVars

ScheduledSpec == ScheduledInit /\ [][ScheduledNext]_schedulerVars
-----------------------------------------------------------------------------
(* What must hold. *)

\* While passes are run by elected leaders, the cadence is kept: whatever connection the
\* lock is left on, taken again on or lost with, two passes never judge the same anchors.
AnchorCadence == ~unelected => Cadence
=============================================================================
