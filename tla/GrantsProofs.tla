---------------------------- MODULE GrantsProofs ----------------------------
(***************************************************************************)
(* Theorems about Definitions and Grants: for any definitions, authors,    *)
(* tasks and sessions, and any bounds.                                     *)
(***************************************************************************)
EXTENDS Grants, FiniteSetTheorems, WellFoundedInduction, SequenceTheorems, TLAPS

-----------------------------------------------------------------------------
(* Finite sets of numbers. *)

\* A finite set of integers that is not empty has a greatest element, and Max is it:
\* among the sets of what is greater than one element, take a smallest.
LEMMA FiniteMax ==
  ASSUME NEW S, IsFiniteSet(S), S \subseteq Int, S # {}
  PROVE  Max(S) \in S /\ \A x \in S : x <= Max(S)
<1> DEFINE Above(x) == {y \in S : y > x}
           Family   == {Above(x) : x \in S}
           Less     == StrictSubsetOrdering(S)
<1>1. Family \subseteq FiniteSubsetsOf(S) /\ Family # {}
  <2>1. Family \subseteq SUBSET S /\ Family # {}
    OBVIOUS
  <2>2. QED
    BY <2>1, FS_FiniteSubsetsOfFinite
<1>2. IsWellFoundedOn(Less, FiniteSubsetsOf(S))
  BY FS_StrictSubsetOrderingWellFounded
<1>3. PICK U \in Family : \A V \in Family : <<V, U>> \notin Less
  <2> HIDE DEF Family, Less
  <2> QED
    BY <1>1, <1>2, WFMin
<1>4. PICK m \in S : U = Above(m)
  OBVIOUS
<1>5. ASSUME NEW x \in S, x > m PROVE FALSE
  <2>1. x \in Int /\ m \in Int /\ \A y \in S : y > x => y > m
    BY <1>5
  <2>2. Above(x) \subseteq Above(m)
    BY <2>1
  <2>3. x \in Above(m) /\ x \notin Above(x)
    BY <1>5, <2>1
  <2>4. <<Above(x), U>> \in Less
    <3>1. Above(x) \in SUBSET S /\ U \in SUBSET S
      BY <1>4
    <3>2. QED
      BY <1>4, <2>2, <2>3, <3>1 DEF StrictSubsetOrdering
  <2>5. QED
    BY <1>3, <2>4
<1>6. \A x \in S : x <= m
  BY <1>5
<1>7. \E y \in S : \A x \in S : y >= x
  BY <1>6
<1>8. QED
  BY <1>7 DEF Max

\* The numbers of finitely many rows are finitely many.
LEMMA FiniteNumbers ==
  ASSUME NEW S, IsFiniteSet(S), NEW d
  PROVE  IsFiniteSet(Numbers(S, d))
<1> DEFINE V == {r \in S : r.kind = "version" /\ r.definition = d}
           f == [r \in V |-> r.number]
<1>1. IsFiniteSet(V)
  BY FS_Subset
<1>2. f \in Surjection(V, Numbers(S, d))
  BY DEF Surjection, Numbers
<1>3. QED
  BY <1>1, <1>2, FS_Surjection

-----------------------------------------------------------------------------
(* Definitions: what an author's transaction holds. *)

Numbered(S) == \A r \in S : r.kind = "version" => r.number > 0

\* What an author sees is complete, and what it is about to insert rests on that and
\* repeats nothing of its own; two authors hold no row of the same key.
DefinitionInv ==
  /\ DefinitionTypeOK
  /\ IsFiniteSet(rows) /\ Numbered(rows) /\ Complete(rows)
  /\ \A w \in Authors :
       /\ IsFiniteSet(pending[w]) /\ IsFiniteSet(next[w])
       /\ Numbered(pending[w]) /\ Numbered(next[w])
       /\ Complete(Seen(w))
       /\ \A m, n \in next[w] : m = n
       /\ \A n \in next[w] : RestsOn(n, Seen(w)) /\ \A r \in pending[w] : ~SameKey(n, r)
  /\ \A v, w \in Authors : v # w => \A r \in pending[v], s \in pending[w] : ~SameKey(r, s)

LEMMA RestsOnMore ==
  ASSUME NEW S, NEW T, S \subseteq T, NEW r, RestsOn(r, S)
  PROVE  RestsOn(r, T)
BY DEF RestsOn, Has

LEMMA InitDefinitionInv == DefinitionInit => DefinitionInv
BY DefinitionAssumption, FS_EmptySet
DEF DefinitionInit, DefinitionInv, DefinitionTypeOK, Numbered, Seen

\* The highest number of what an author sees, or 0, is that of a version it sees.
LEMMA HighestIsSeen ==
  ASSUME DefinitionInv, NEW w \in Authors, NEW d
  PROVE  /\ Highest(Seen(w), d) \in Nat
         /\ \A n \in Numbers(Seen(w), d) : n <= Highest(Seen(w), d)
         /\ Highest(Seen(w), d) > 0 => Highest(Seen(w), d) \in Numbers(Seen(w), d)
<1> DEFINE N == Numbers(Seen(w), d) \union {0}
<1>1. IsFiniteSet(Seen(w)) /\ Seen(w) \subseteq DefinitionRow
  BY FS_Union DEF DefinitionInv, DefinitionTypeOK, Seen
<1>2. IsFiniteSet(N)
  BY <1>1, FiniteNumbers, FS_AddElement
<1>3. N \subseteq Nat /\ N # {}
  BY <1>1 DEF Numbers, DefinitionRow
<1>4. Max(N) \in N /\ \A n \in N : n <= Max(N)
  BY <1>2, <1>3, FiniteMax
<1>5. QED
  BY <1>3, <1>4 DEF Highest

\* A row that rests on what an author sees and is new to it may be prepared.
LEMMA PrepareKeeps ==
  ASSUME DefinitionInv, NEW w \in Authors, NEW row \in DefinitionRow, Prepare(w, row),
         RestsOn(row, Seen(w)), \A r \in Seen(w) : ~SameKey(row, r), Numbered({row})
  PROVE  DefinitionInv'
<1>1. /\ next' = [next EXCEPT ![w] = {row}] /\ authored' = authored + 1
      /\ UNCHANGED <<rows, pending>>
  BY DEF Prepare
<1>2. DefinitionTypeOK'
  BY <1>1 DEF DefinitionInv, DefinitionTypeOK
<1>3. \A v \in Authors : Seen(v)' = Seen(v)
  BY <1>1 DEF Seen
<1>4. next'[w] = {row} /\ \A v \in Authors \ {w} : next'[v] = next[v]
  BY <1>1 DEF DefinitionInv, DefinitionTypeOK
<1>5. IsFiniteSet({row})
  BY FS_Singleton
<1>6. \A n \in next'[w] : RestsOn(n, Seen(w)') /\ \A r \in pending'[w] : ~SameKey(n, r)
  BY <1>1, <1>3, <1>4 DEF Seen
<1>7. \A v \in Authors :
        /\ IsFiniteSet(next'[v]) /\ Numbered(next'[v])
        /\ \A m, n \in next'[v] : m = n
        /\ \A n \in next'[v] : RestsOn(n, Seen(v)') /\ \A r \in pending'[v] : ~SameKey(n, r)
  BY <1>1, <1>3, <1>4, <1>5, <1>6 DEF DefinitionInv
<1>8. QED
  BY <1>1, <1>2, <1>3, <1>7 DEF DefinitionInv

LEMMA OperationsKeep ==
  ASSUME DefinitionInv, NEW w \in Authors,
         \/ \E d \in Definition : Create(w, d) \/ Publish(w, d)
         \/ \E r \in rows \union pending[w] :
              r.kind = "version" /\ Deprecate(w, r.definition, r.number)
  PROVE  DefinitionInv'
<1> USE DEF Row, Identity, Version, Deprecation
<1>1. ASSUME NEW d \in Definition, Create(w, d) PROVE DefinitionInv'
  <2>1. Identity(d, w) \in DefinitionRow /\ Numbered({Identity(d, w)})
    BY DEF DefinitionRow, Numbered
  <2>2. RestsOn(Identity(d, w), Seen(w)) /\ \A r \in Seen(w) : ~SameKey(Identity(d, w), r)
    BY <1>1 DEF Create, RestsOn, Has, SameKey
  <2>3. QED
    BY <1>1, <2>1, <2>2, PrepareKeeps DEF Create
<1>2. ASSUME NEW d \in Definition, Publish(w, d) PROVE DefinitionInv'
  <2>1. PICK n : n = Highest(Seen(w), d)
    OBVIOUS
  <2>2. /\ n \in Nat /\ \A m \in Numbers(Seen(w), d) : m <= n
        /\ n > 0 => n \in Numbers(Seen(w), d)
    BY <2>1, HighestIsSeen
  <2>3. PICK row : row = Version(d, n + 1, w)
    OBVIOUS
  <2>4. row \in DefinitionRow /\ Numbered({row})
    BY <2>2, <2>3 DEF DefinitionRow, Numbered
  <2>5. RestsOn(row, Seen(w))
    BY <1>2, <2>2, <2>3 DEF Publish, RestsOn, Has, Numbers
  <2>6. \A r \in Seen(w) : ~SameKey(row, r)
    BY <2>2, <2>3 DEF SameKey, Numbers
  <2>7. QED
    BY <1>2, <2>1, <2>3, <2>4, <2>5, <2>6, PrepareKeeps DEF Publish
<1>3. ASSUME NEW r \in rows \union pending[w], Deprecate(w, r.definition, r.number)
      PROVE DefinitionInv'
  <2>1. PICK row : row = Deprecation(r.definition, r.number, w)
    OBVIOUS
  <2>2. row \in DefinitionRow /\ Numbered({row})
    BY <2>1 DEF DefinitionInv, DefinitionTypeOK, DefinitionRow, Numbered
  <2>3. RestsOn(row, Seen(w)) /\ \A q \in Seen(w) : ~SameKey(row, q)
    BY <1>3, <2>1 DEF Deprecate, RestsOn, Has, SameKey
  <2>4. QED
    BY <1>3, <2>1, <2>2, <2>3, PrepareKeeps DEF Deprecate
<1>4. QED
  BY <1>1, <1>2, <1>3

LEMMA InsertKeeps ==
  ASSUME DefinitionInv, NEW w \in Authors, Insert(w)
  PROVE  DefinitionInv'
<1> USE DEF DefinitionInv
<1>1. /\ KeyFree(w)
      /\ pending' = [pending EXCEPT ![w] = @ \union next[w]]
      /\ next' = [next EXCEPT ![w] = {}]
      /\ UNCHANGED <<rows, authored>>
  BY DEF Insert
<1>2. DefinitionTypeOK'
  BY <1>1 DEF DefinitionTypeOK
<1>3. /\ pending'[w] = pending[w] \union next[w] /\ next'[w] = {}
      /\ \A v \in Authors \ {w} : pending'[v] = pending[v] /\ next'[v] = next[v]
  BY <1>1 DEF DefinitionTypeOK
<1>4. IsFiniteSet(pending'[w]) /\ IsFiniteSet(next'[w]) /\ Numbered(pending'[w])
  <2>1. IsFiniteSet(pending[w]) /\ IsFiniteSet(next[w])
    OBVIOUS
  <2>2. IsFiniteSet(pending[w] \union next[w]) /\ IsFiniteSet({})
    BY <2>1, FS_Union, FS_EmptySet
  <2>3. Numbered(pending[w] \union next[w])
    BY DEF Numbered
  <2>4. QED
    BY <1>3, <2>2, <2>3
<1>5. /\ \A n \in next[w], r \in rows : ~SameKey(n, r)
      /\ \A n \in next[w], v \in Authors \ {w} : \A r \in pending[v] : ~SameKey(n, r)
  BY <1>1 DEF KeyFree, KeyTaken, KeyHeldBy
<1>6. Complete(Seen(w))'
  <2>1. Seen(w)' = Seen(w) \union next[w]
    BY <1>1, <1>3 DEF Seen
  <2>2. \A r, s \in Seen(w) \union next[w] : SameKey(r, s) => r = s
    <3>1. \A r, s \in Seen(w) : SameKey(r, s) => r = s
      BY DEF Complete
    <3>2. \A n \in next[w], r \in Seen(w) : ~SameKey(n, r)
      BY <1>5 DEF Seen
    <3>3. \A n \in next[w], r \in Seen(w) : ~SameKey(r, n)
      BY <3>2 DEF SameKey
    <3>4. \A m, n \in next[w] : m = n
      OBVIOUS
    <3>5. QED
      BY <3>1, <3>2, <3>3, <3>4
  <2>3. \A r \in Seen(w) \union next[w] : RestsOn(r, Seen(w) \union next[w])
    BY RestsOnMore DEF Complete
  <2>4. QED
    BY <2>1, <2>2, <2>3 DEF Complete
<1>7. \A v \in Authors \ {w} : Seen(v)' = Seen(v)
  BY <1>1, <1>3 DEF Seen
<1>8. ASSUME NEW u \in Authors, NEW v \in Authors, u # v,
             NEW r \in pending'[u], NEW s \in pending'[v]
      PROVE ~SameKey(r, s)
  BY <1>3, <1>5, <1>8 DEF SameKey
<1>9. ASSUME NEW v \in Authors
      PROVE /\ IsFiniteSet(pending'[v]) /\ IsFiniteSet(next'[v])
            /\ Numbered(pending'[v]) /\ Numbered(next'[v])
            /\ Complete(Seen(v))'
            /\ \A m, n \in next'[v] : m = n
            /\ \A n \in next'[v] : RestsOn(n, Seen(v)') /\ \A r \in pending'[v] : ~SameKey(n, r)
  <2>1. CASE v = w
    BY <1>3, <1>4, <1>6, <2>1 DEF Numbered
  <2>2. CASE v # w
    BY <1>3, <1>7, <2>2
  <2>3. QED
    BY <2>1, <2>2
<1>10. QED
  BY <1>1, <1>2, <1>8, <1>9

\* The end of a transaction, whether or not its rows are committed.
LEMMA CloseAuthorKeeps ==
  ASSUME DefinitionInv, NEW w \in Authors, CloseAuthor(w), rows' \in {rows, Seen(w)}
  PROVE  DefinitionInv'
<1> USE DEF DefinitionInv
<1>1. /\ pending' = [pending EXCEPT ![w] = {}]
      /\ next' = [next EXCEPT ![w] = {}]
      /\ UNCHANGED authored
  BY DEF CloseAuthor
<1>2. DefinitionTypeOK'
  BY <1>1 DEF DefinitionTypeOK, Seen
<1>3. /\ pending'[w] = {} /\ next'[w] = {}
      /\ \A v \in Authors \ {w} : pending'[v] = pending[v] /\ next'[v] = next[v]
  BY <1>1 DEF DefinitionTypeOK
<1>4. IsFiniteSet(rows') /\ Numbered(rows') /\ Complete(rows')
  BY FS_Union DEF Seen, Numbered
<1>5. ASSUME NEW v \in Authors \ {w} PROVE Complete(rows' \union pending[v])
  <2>1. \A r, s \in rows' \union pending[v] : SameKey(r, s) => r = s
    <3>1. \A r, s \in rows' : SameKey(r, s) => r = s
      BY <1>4 DEF Complete
    <3>2. \A r, s \in rows \union pending[v] : SameKey(r, s) => r = s
      BY DEF Complete, Seen
    <3>3. \A r \in pending[w], s \in pending[v] : ~SameKey(r, s) /\ ~SameKey(s, r)
      OBVIOUS
    <3>4. rows' \subseteq rows \union pending[w]
      BY DEF Seen
    <3>5. QED
      BY <3>1, <3>2, <3>3, <3>4
  <2>2. Seen(v) \subseteq rows' \union pending[v]
    BY DEF Seen
  <2>3. \A r \in rows' \union pending[v] : RestsOn(r, rows' \union pending[v])
    BY <1>4, <2>2, RestsOnMore DEF Complete, Seen
  <2>4. QED
    BY <2>1, <2>3 DEF Complete
<1>6. ASSUME NEW v \in Authors
      PROVE /\ IsFiniteSet(pending'[v]) /\ IsFiniteSet(next'[v])
            /\ Numbered(pending'[v]) /\ Numbered(next'[v])
            /\ Complete(Seen(v))'
            /\ \A m, n \in next'[v] : m = n
            /\ \A n \in next'[v] : RestsOn(n, Seen(v)') /\ \A r \in pending'[v] : ~SameKey(n, r)
  <2>1. CASE v = w
    <3>1. Seen(v)' = rows'
      BY <1>3, <2>1 DEF Seen
    <3>2. QED
      BY <1>3, <1>4, <2>1, <3>1, FS_EmptySet DEF Numbered
  <2>2. CASE v # w
    <3>1. /\ Seen(v)' = rows' \union pending[v] /\ Seen(v) \subseteq Seen(v)'
          /\ pending'[v] = pending[v] /\ next'[v] = next[v]
      BY <1>3, <2>2 DEF Seen
    <3>2. \A n \in next[v] : RestsOn(n, Seen(v)')
      BY <3>1, RestsOnMore
    <3>3. Complete(Seen(v))'
      BY <1>5, <2>2, <3>1
    <3>4. QED
      BY <3>1, <3>2, <3>3
  <2>3. QED
    BY <2>1, <2>2
<1>7. \A u, v \in Authors : u # v => \A r \in pending'[u], s \in pending'[v] : ~SameKey(r, s)
  BY <1>3
<1>8. QED
  BY <1>2, <1>4, <1>6, <1>7

LEMMA AuthorStepKeeps ==
  ASSUME DefinitionInv, NEW w \in Authors, AuthorStep(w)
  PROVE  DefinitionInv'
<1>1. CASE CommitAuthor(w) \/ FailAuthor(w) \/ AbortAuthor(w)
  BY <1>1, CloseAuthorKeeps DEF CommitAuthor, FailAuthor, AbortAuthor, Seen
<1>2. QED
  BY <1>1, InsertKeeps, OperationsKeep DEF AuthorStep

LEMMA DefinitionsStand ==
  ASSUME DefinitionInv, UNCHANGED definitionVars
  PROVE  DefinitionInv'
BY DEF definitionVars, authorVars, DefinitionInv, DefinitionTypeOK, Seen

\* A step of an author adds rows, and the definitions stay complete.
LEMMA RowsStay ==
  ASSUME DefinitionInv, NEW w \in Authors, AuthorStep(w)
  PROVE  rows \subseteq rows'
BY DEF AuthorStep, Create, Publish, Deprecate, Prepare, Insert, CommitAuthor, FailAuthor, AbortAuthor

-----------------------------------------------------------------------------
(* Grants: the tables. *)

NamedVersion == [definition : Definition, number : Nat]
TaskRow  == [task : Tasks, pins : SUBSET Pin, retired : SUBSET NamedVersion]
GrantRow == [task : Tasks, tool : Tools, number : Nat \ {0}, expires : Nat,
             revocation : [at : Nat, by : Sessions] \union {NotRevoked}]
TrailRow == [event : {"declared", "revoked"}, task : Tasks, by : Sessions,
             tools : SUBSET [tool : Tools, number : Nat \ {0}]]

\* The pins P rest on published versions, none of them among R unless asked for.
PinsStand(P, R) ==
  \A p \in P : /\ p.number \in Numbers(rows, p.definition)
               /\ p.named \/ [definition |-> p.definition, number |-> p.number] \notin R

ToolsOf(P) == {[tool |-> p.definition, number |-> p.number] :
                 p \in {q \in P : q.definition \in Tools}}
GrantsOf(k) == {[tool |-> g.tool, number |-> g.number] : g \in {h \in grants : h.task = k}}

\* What the tables say of task k.
TaskStands(k) ==
  /\ PinsStand(k.pins, k.retired)
  /\ GrantsOf(k.task) = ToolsOf(k.pins)
  /\ \A t \in ToolsOf(k.pins) :
       \E i \in DOMAIN trail :
         trail[i].event = "declared" /\ trail[i].task = k.task /\ t \in trail[i].tools

\* The record in the trail that revokes grant g.
Revokes(i, g) ==
  trail[i].event = "revoked" /\ trail[i].task = g.task /\ \E t \in trail[i].tools : t.tool = g.tool

\* A grant has been revoked if and only if the trail tells, by whom it tells last.
GrantTold(g) ==
  /\ g.revocation = NotRevoked <=> \A i \in DOMAIN trail : ~Revokes(i, g)
  /\ \A i \in DOMAIN trail :
       Revokes(i, g) /\ (\A j \in DOMAIN trail : Revokes(j, g) => j <= i)
         => g.revocation.by = trail[i].by

TableInv ==
  /\ tasks \subseteq TaskRow /\ grants \subseteq GrantRow /\ trail \in Seq(TrailRow)
  /\ \A k, l \in tasks : k.task = l.task => k = l
  /\ \A g, h \in grants : g.task = h.task /\ g.tool = h.tool => g = h
  /\ \A k \in tasks : TaskStands(k)
  /\ \A g \in grants : GrantTold(g) /\ \E k \in tasks : k.task = g.task
  /\ \A i \in DOMAIN trail : \E k \in tasks : k.task = trail[i].task

-----------------------------------------------------------------------------
(* The sessions. *)

SessionTypes ==
  /\ clock \in Nat
  /\ pc \in [Sessions -> PC]
  /\ started \in [Sessions -> 0 .. clock]
  /\ task \in [Sessions -> Tasks \union {NoTask}]
  /\ pins \in [Sessions -> SUBSET Pin]
  /\ retired \in [Sessions -> SUBSET NamedVersion]
  /\ tool \in [Sessions -> Tools \union {NoTool}]

\* A creator's pins stand, and the task it has inserted is its own; the grant that a
\* revoker holds is there.
SessionInv(s) ==
  /\ pc[s] \notin {"resolving", "declaring"} => pins[s] = {}
  /\ pc[s] \in {"resolving", "declaring"} => task[s] \in Tasks
  /\ pc[s] = "declaring" => ~TaskTaken(s) /\ ~TaskHeld(s)
  /\ pc[s] \in {"revoking", "revoked"} => HeldBy(task[s], tool[s]) # {}
  /\ retired[s] \subseteq Retired
  /\ PinsStand(pins[s], retired[s])

GrantInv ==
  /\ DefinitionInv
  /\ TableInv
  /\ SessionTypes
  /\ \A s \in Sessions : SessionInv(s)

LEMMA InitGrantInv == Init => GrantInv
<1> SUFFICES ASSUME Init PROVE GrantInv
  OBVIOUS
<1> USE DEF Init
<1>1. DefinitionInv
  BY InitDefinitionInv
<1>2. TableInv
  BY DEF TableInv
<1>3. SessionTypes /\ \A s \in Sessions : SessionInv(s)
  BY DEF SessionTypes, SessionInv, PC, PinsStand
<1>4. QED
  BY <1>1, <1>2, <1>3 DEF GrantInv

-----------------------------------------------------------------------------
(* Steps that leave the tables alone. *)

\* Pins stand the better, the more is published.
LEMMA PinsStandLonger ==
  ASSUME rows \subseteq rows', NEW P, NEW R, PinsStand(P, R)
  PROVE  PinsStand(P, R)'
<1>1. \A d : Numbers(rows, d) \subseteq Numbers(rows', d)
  BY DEF Numbers
<1>2. QED
  BY <1>1 DEF PinsStand

LEMMA TablesStand ==
  ASSUME TableInv, UNCHANGED <<tasks, grants, trail>>, rows \subseteq rows'
  PROVE  TableInv'
<1>1. \A k \in tasks : TaskStands(k)'
  <2> SUFFICES ASSUME NEW k \in tasks PROVE TaskStands(k)'
    OBVIOUS
  <2>1. GrantsOf(k.task)' = GrantsOf(k.task)
    BY DEF GrantsOf
  <2>2. PinsStand(k.pins, k.retired)'
    BY PinsStandLonger DEF TableInv, TaskStands
  <2>3. QED
    BY <2>1, <2>2 DEF TableInv, TaskStands
<1>2. \A g \in grants : GrantTold(g)'
  BY DEF TableInv, GrantTold, Revokes
<1>3. QED
  BY <1>1, <1>2 DEF TableInv

\* Publishing and retiring does not touch what was built on it.
LEMMA AuthorKeepsGrants ==
  ASSUME GrantInv, NEW w \in Authors, Author(w)
  PROVE  GrantInv'
<1>1. /\ AuthorStep(w)
      /\ UNCHANGED <<tasks, grants, trail, clock, pc, started, task, pins, retired, tool>>
  BY DEF Author, grantTables, sessionVars
<1>2. DefinitionInv' /\ rows \subseteq rows'
  BY <1>1, AuthorStepKeeps, RowsStay DEF GrantInv
<1>3. TableInv'
  BY <1>1, <1>2, TablesStand DEF GrantInv
<1>4. SessionTypes'
  BY <1>1 DEF GrantInv, SessionTypes
<1>5. Retired \subseteq Retired'
  BY <1>2 DEF Retired
<1>6. \A s \in Sessions : SessionInv(s)'
  BY <1>1, <1>2, <1>5, PinsStandLonger DEF GrantInv, SessionInv, TaskTaken, TaskHeld, HeldBy
<1>7. QED
  BY <1>2, <1>3, <1>4, <1>6 DEF GrantInv

\* A step of one session that writes no table.
LEMMA SessionStep ==
  ASSUME GrantInv, UNCHANGED <<definitionVars, grantTables>>, NEW s \in Sessions, SessionTypes',
         \A q \in Sessions \ {s} :
           /\ pc'[q] = pc[q] /\ task'[q] = task[q] /\ tool'[q] = tool[q]
           /\ pins'[q] = pins[q] /\ retired'[q] = retired[q],
         SessionInv(s)'
  PROVE  GrantInv'
<1>1. DefinitionInv' /\ UNCHANGED <<rows, tasks, grants, trail>>
  BY DefinitionsStand DEF GrantInv, definitionVars, grantTables
<1>2. TableInv'
  BY <1>1, TablesStand DEF GrantInv
<1>3. ASSUME NEW q \in Sessions \ {s} PROVE SessionInv(q)'
  <2>1. SessionInv(q)
    BY DEF GrantInv
  <2>2. pc'[q] = "declaring" => ~TaskHeld(q)'
    BY <2>1 DEF SessionInv, TaskHeld
  <2>3. QED
    BY <1>1, <2>1, <2>2 DEF SessionInv, TaskTaken, HeldBy, Retired, PinsStand
<1>4. QED
  BY <1>1, <1>2, <1>3 DEF GrantInv

LEMMA TickKeeps == ASSUME GrantInv, Tick PROVE GrantInv'
<1>1. /\ clock' = clock + 1 /\ clock \in Nat
      /\ UNCHANGED <<rows, tasks, grants, trail, pc, started, task, pins, retired, tool>>
      /\ DefinitionInv'
  BY DefinitionsStand DEF Tick, GrantInv, SessionTypes, grantTables, sessionVars, definitionVars
<1>2. TableInv'
  BY <1>1, TablesStand DEF GrantInv
<1>3. SessionTypes'
  BY <1>1 DEF GrantInv, SessionTypes
<1>4. \A s \in Sessions : SessionInv(s)'
  BY <1>1 DEF GrantInv, SessionInv, TaskTaken, TaskHeld, HeldBy, Retired, PinsStand
<1>5. QED
  BY <1>1, <1>2, <1>3, <1>4 DEF GrantInv

\* The end of a transaction, as far as sessions go.
LEMMA CloseFrees ==
  ASSUME SessionTypes, NEW s \in Sessions, Close(s)
  PROVE  /\ SessionTypes'
         /\ pc'[s] = "idle" /\ pins'[s] = {} /\ retired'[s] = {}
         /\ \A q \in Sessions \ {s} :
              /\ pc'[q] = pc[q] /\ task'[q] = task[q] /\ tool'[q] = tool[q]
              /\ pins'[q] = pins[q] /\ retired'[q] = retired[q]
         /\ UNCHANGED definitionVars
BY DEF Close, Goto, SessionTypes, PC

LEMMA EmptyHandedKeeps ==
  ASSUME GrantInv, NEW s \in Sessions, Close(s), UNCHANGED grantTables
  PROVE  GrantInv'
<1>1. SessionInv(s)'
  BY CloseFrees DEF GrantInv, SessionInv, PinsStand
<1>2. QED
  BY <1>1, CloseFrees, SessionStep DEF GrantInv

LEMMA BeginTaskKeeps ==
  ASSUME GrantInv, NEW s \in Sessions, NEW k \in Tasks, BeginTask(s, k)
  PROVE  GrantInv'
<1> USE DEF GrantInv
<1>1. /\ pc[s] = "idle"
      /\ started' = [started EXCEPT ![s] = clock]
      /\ task' = [task EXCEPT ![s] = k]
      /\ retired' = [retired EXCEPT ![s] = Retired]
      /\ pc' = [pc EXCEPT ![s] = "resolving"]
      /\ UNCHANGED <<definitionVars, grantTables, rows, clock, pins, tool>>
  BY DEF BeginTask, Goto, definitionVars
<1>2. Retired \subseteq NamedVersion
  BY DEF Retired, NamedVersion, DefinitionInv, DefinitionTypeOK, DefinitionRow
<1>3. SessionTypes'
  BY <1>1, <1>2 DEF SessionTypes, PC
<1>4. pins[s] = {} /\ Retired' = Retired
  BY <1>1 DEF SessionInv, Retired
<1>5. SessionInv(s)'
  BY <1>1, <1>4 DEF SessionInv, SessionTypes, PinsStand
<1>6. QED
  BY <1>1, <1>3, <1>5, SessionStep DEF SessionTypes

\* The latest version of a definition is one that is not retired.
LEMMA LatestIsOffered ==
  ASSUME DefinitionInv, NEW d, NEW n, IsLatest(rows, d, n)
  PROVE  n \in Numbers(rows, d) /\ ~IsDeprecated(rows, d, n)
<1>1. IsFiniteSet(Offered(rows, d))
  BY FiniteNumbers, FS_Subset DEF DefinitionInv, Offered
<1>2. Offered(rows, d) \subseteq Int
  BY DEF DefinitionInv, DefinitionTypeOK, DefinitionRow, Offered, Numbers
<1>3. n \in Offered(rows, d)
  BY <1>1, <1>2, FiniteMax DEF IsLatest
<1>4. QED
  BY <1>3 DEF Offered

LEMMA ResolveKeeps ==
  ASSUME GrantInv, NEW s \in Sessions, NEW d \in Definition, NEW named \in BOOLEAN,
         NEW n \in Numbers(rows, d), Resolve(s, d, n, named)
  PROVE  GrantInv'
<1> USE DEF GrantInv
<1>1. PICK pin : pin = [definition |-> d, number |-> n, named |-> named]
  OBVIOUS
<1>2. /\ pc[s] = "resolving"
      /\ named \/ IsLatest(rows, d, n)
      /\ pins' = [pins EXCEPT ![s] = @ \union {pin}]
      /\ UNCHANGED <<definitionVars, grantTables, rows, clock, pc, started, task, retired, tool>>
  BY <1>1 DEF Resolve, definitionVars
<1>3. n \in Nat \ {0}
  BY DEF Numbers, DefinitionInv, DefinitionTypeOK, DefinitionRow, Numbered
<1>4. pin \in Pin
  BY <1>1, <1>3 DEF Pin
<1>5. SessionTypes'
  BY <1>2, <1>4 DEF SessionTypes
<1>6. pin.named \/ [definition |-> pin.definition, number |-> pin.number] \notin Retired
  <2>1. CASE IsLatest(rows, d, n)
    <3>1. ~IsDeprecated(rows, d, n)
      BY <2>1, LatestIsOffered
    <3>2. [definition |-> d, number |-> n] \notin Retired
      BY <3>1 DEF IsDeprecated, Has, Retired
    <3>3. QED
      BY <1>1, <3>2
  <2>2. QED
    BY <1>1, <1>2, <2>1
<1>7. PinsStand(pins'[s], retired[s])
  <2>1. PinsStand(pins[s], retired[s]) /\ retired[s] \subseteq Retired
    BY DEF SessionInv
  <2>2. pins'[s] = pins[s] \union {pin}
    BY <1>2 DEF SessionTypes
  <2>3. pin.number \in Numbers(rows, pin.definition)
    BY <1>1
  <2>4. QED
    BY <1>6, <2>1, <2>2, <2>3 DEF PinsStand
<1>8. SessionInv(s)'
  BY <1>2, <1>7 DEF SessionInv, Retired, PinsStand
<1>9. QED
  BY <1>2, <1>5, <1>8, SessionStep DEF SessionTypes

LEMMA InsertTaskKeeps ==
  ASSUME GrantInv, NEW s \in Sessions, InsertTask(s)
  PROVE  GrantInv'
<1> USE DEF GrantInv
<1>1. /\ pc[s] = "resolving" /\ ~TaskTaken(s) /\ ~TaskHeld(s)
      /\ pc' = [pc EXCEPT ![s] = "declaring"]
      /\ UNCHANGED <<definitionVars, grantTables, rows, tasks, clock, started, task, pins, retired,
                     tool>>
  BY DEF InsertTask, Goto, definitionVars, grantTables
<1>2. SessionTypes'
  BY <1>1 DEF SessionTypes, PC
<1>3. SessionInv(s)'
  BY <1>1 DEF SessionInv, SessionTypes, TaskTaken, TaskHeld, Retired, PinsStand
<1>4. QED
  BY <1>1, <1>2, <1>3, SessionStep DEF SessionTypes

LEMMA FindGrantKeeps ==
  ASSUME GrantInv, NEW s \in Sessions, NEW g \in grants, FindGrant(s, g)
  PROVE  GrantInv'
<1> USE DEF GrantInv
<1>1. /\ pc[s] = "idle"
      /\ started' = [started EXCEPT ![s] = clock]
      /\ task' = [task EXCEPT ![s] = g.task]
      /\ tool' = [tool EXCEPT ![s] = g.tool]
      /\ pc' = [pc EXCEPT ![s] = "revoking"]
      /\ UNCHANGED <<definitionVars, grantTables, rows, grants, clock, pins, retired>>
  BY DEF FindGrant, Goto, definitionVars, grantTables
<1>2. g.task \in Tasks /\ g.tool \in Tools
  BY DEF TableInv, GrantRow
<1>3. SessionTypes'
  BY <1>1, <1>2 DEF SessionTypes, PC
<1>4. SessionInv(s)'
  BY <1>1 DEF SessionInv, SessionTypes, HeldBy, Retired, PinsStand
<1>5. QED
  BY <1>1, <1>3, <1>4, SessionStep DEF SessionTypes

LEMMA WriteRevocationKeeps ==
  ASSUME GrantInv, NEW s \in Sessions, WriteRevocation(s)
  PROVE  GrantInv'
<1> USE DEF GrantInv
<1>1. /\ pc[s] = "revoking"
      /\ pc' = [pc EXCEPT ![s] = "revoked"]
      /\ UNCHANGED <<definitionVars, grantTables, rows, grants, clock, started, task, pins, retired,
                     tool>>
  BY DEF WriteRevocation, Goto, definitionVars, grantTables
<1>2. SessionTypes'
  BY <1>1 DEF SessionTypes, PC
<1>3. SessionInv(s)'
  BY <1>1 DEF SessionInv, SessionTypes, HeldBy, Retired, PinsStand
<1>4. QED
  BY <1>1, <1>2, <1>3, SessionStep DEF SessionTypes

-----------------------------------------------------------------------------
(* The commit of a task. *)

\* The record of a declaration, if there is one, is added to the trail.
LEMMA DeclarationAppended ==
  ASSUME GrantInv, NEW s \in Sessions, pc[s] = "declaring", trail' = trail \o Declared(s)
  PROVE  /\ trail' \in Seq(TrailRow)
         /\ \A i \in DOMAIN trail : i \in DOMAIN trail' /\ trail'[i] = trail[i]
         /\ \A i \in DOMAIN trail' \ DOMAIN trail :
              trail'[i].event = "declared" /\ trail'[i].task = task[s]
         /\ \A t \in ToolsOf(pins[s]) : \E i \in DOMAIN trail' :
              trail'[i].event = "declared" /\ trail'[i].task = task[s] /\ t \in trail'[i].tools
<1>1. trail \in Seq(TrailRow) /\ task[s] \in Tasks /\ pins[s] \subseteq Pin
  BY DEF GrantInv, TableInv, SessionInv, SessionTypes
<1>2. CASE ToolPins(s) = {}
  <2>1. trail' = trail
    BY <1>1, <1>2 DEF Declared
  <2>2. ToolsOf(pins[s]) = {}
    BY <1>2 DEF ToolPins, ToolsOf
  <2>3. QED
    BY <1>1, <2>1, <2>2
<1>3. CASE ToolPins(s) # {}
  <2>1. PICK r : r = [event |-> "declared", task |-> task[s], by |-> s, tools |-> ToolsOf(pins[s])]
    OBVIOUS
  <2>2. Declared(s) = <<r>>
    BY <1>3, <2>1 DEF Declared, ToolPins, ToolsOf
  <2>3. ToolsOf(pins[s]) \subseteq [tool : Tools, number : Nat \ {0}]
    BY <1>1 DEF ToolsOf, Pin
  <2>4. r \in TrailRow
    BY <1>1, <2>1, <2>3 DEF TrailRow
  <2>5. /\ trail' \in Seq(TrailRow) /\ Len(trail') = Len(trail) + 1
        /\ \A i \in 1 .. Len(trail) : trail'[i] = trail[i]
        /\ trail'[Len(trail) + 1] = r
    BY <1>1, <2>2, <2>4
  <2>6. DOMAIN trail = 1 .. Len(trail) /\ DOMAIN trail' = 1 .. Len(trail) + 1 /\ Len(trail) \in Nat
    BY <1>1, <2>5
  <2>7. \A i \in DOMAIN trail : i \in DOMAIN trail' /\ trail'[i] = trail[i]
    BY <2>5, <2>6
  <2>8. \A i \in DOMAIN trail' \ DOMAIN trail : trail'[i] = r
    BY <2>5, <2>6
  <2>9. Len(trail) + 1 \in DOMAIN trail'
    BY <2>6
  <2>10. r.event = "declared" /\ r.task = task[s] /\ r.tools = ToolsOf(pins[s])
    BY <2>1
  <2>11. \A i \in DOMAIN trail' \ DOMAIN trail :
           trail'[i].event = "declared" /\ trail'[i].task = task[s]
    BY <2>8, <2>10
  <2>12. ASSUME NEW t \in ToolsOf(pins[s])
         PROVE  \E i \in DOMAIN trail' :
                  trail'[i].event = "declared" /\ trail'[i].task = task[s] /\ t \in trail'[i].tools
    BY <2>5, <2>9, <2>10
  <2>13. QED
    BY <2>5, <2>7, <2>11, <2>12
<1>4. QED
  BY <1>2, <1>3

\* The grants of a task's tool pins.
LEMMA NewGrants ==
  ASSUME GrantInv, NEW s \in Sessions, pc[s] = "declaring", OnePerTool(ToolPins(s)),
         NEW G, G = {Grant(s, p) : p \in ToolPins(s)}
  PROVE  /\ G \subseteq GrantRow
         /\ \A g \in G : g.task = task[s] /\ g.revocation = NotRevoked
         /\ \A g, h \in G : g.tool = h.tool => g = h
         /\ {[tool |-> g.tool, number |-> g.number] : g \in G} = ToolsOf(pins[s])
<1>1. task[s] \in Tasks /\ pins[s] \subseteq Pin /\ started[s] + Lifetime \in Nat
  BY GrantAssumption DEF GrantInv, SessionInv, SessionTypes
<1>2. \A p \in ToolPins(s) : Grant(s, p) \in GrantRow
  BY <1>1 DEF ToolPins, Grant, GrantRow, Pin
<1>3. \A p \in ToolPins(s) : /\ Grant(s, p).task = task[s] /\ Grant(s, p).revocation = NotRevoked
                             /\ Grant(s, p).tool = p.definition /\ Grant(s, p).number = p.number
  BY DEF Grant
<1>4. \A g, h \in G : g.tool = h.tool => g = h
  BY <1>3 DEF OnePerTool
<1>5. {[tool |-> g.tool, number |-> g.number] : g \in G} = ToolsOf(pins[s])
  BY <1>3 DEF ToolsOf, ToolPins
<1>6. QED
  BY <1>2, <1>3, <1>4, <1>5

LEMMA CommitTaskKeeps ==
  ASSUME GrantInv, NEW s \in Sessions, CommitTask(s)
  PROVE  GrantInv'
<1>1. PICK k : k = [task |-> task[s], pins |-> pins[s], retired |-> retired[s]]
  OBVIOUS
<1>2. PICK G : G = {Grant(s, p) : p \in ToolPins(s)}
  OBVIOUS
<1>3. /\ pc[s] = "declaring" /\ OnePerTool(ToolPins(s)) /\ Close(s)
      /\ tasks' = tasks \union {k} /\ grants' = grants \union G
      /\ trail' = trail \o Declared(s)
  BY <1>1, <1>2 DEF CommitTask
<1>4. /\ SessionInv(s) /\ PinsStand(k.pins, k.retired)
      /\ k \in TaskRow /\ \A l \in tasks : l.task # k.task
  BY <1>1, <1>3 DEF GrantInv, SessionInv, SessionTypes, TaskTaken, TaskRow
<1>5. /\ G \subseteq GrantRow
      /\ \A g \in G : g.task = k.task /\ g.revocation = NotRevoked
      /\ \A g, h \in G : g.tool = h.tool => g = h
      /\ {[tool |-> g.tool, number |-> g.number] : g \in G} = ToolsOf(k.pins)
  <2>1. k.task = task[s] /\ k.pins = pins[s]
    BY <1>1
  <2>2. /\ G \subseteq GrantRow
        /\ \A g \in G : g.task = task[s] /\ g.revocation = NotRevoked
        /\ \A g, h \in G : g.tool = h.tool => g = h
        /\ {[tool |-> g.tool, number |-> g.number] : g \in G} = ToolsOf(pins[s])
    BY <1>2, <1>3, NewGrants
  <2>3. QED
    BY <2>1, <2>2
<1>6. /\ trail' \in Seq(TrailRow)
      /\ \A i \in DOMAIN trail : i \in DOMAIN trail' /\ trail'[i] = trail[i]
      /\ \A i \in DOMAIN trail' \ DOMAIN trail :
           trail'[i].event = "declared" /\ trail'[i].task = k.task
      /\ \A t \in ToolsOf(k.pins) : \E i \in DOMAIN trail' :
           trail'[i].event = "declared" /\ trail'[i].task = k.task /\ t \in trail'[i].tools
  BY <1>1, <1>3, DeclarationAppended
<1>7. DefinitionInv' /\ SessionTypes' /\ UNCHANGED rows
  BY <1>3, CloseFrees, DefinitionsStand DEF GrantInv, definitionVars
<1>8. \A g \in grants : g.task # k.task
  BY <1>4 DEF GrantInv, TableInv
<1>9. ASSUME NEW l \in tasks' PROVE TaskStands(l)'
  <2>1. CASE l \in tasks
    <3>1. TaskStands(l) /\ l.task # k.task
      BY <1>4, <2>1 DEF GrantInv, TableInv
    <3>2. {h \in grants' : h.task = l.task} = {h \in grants : h.task = l.task}
      BY <1>3, <1>5, <3>1
    <3>3. GrantsOf(l.task)' = GrantsOf(l.task)
      BY <3>2 DEF GrantsOf
    <3>4. PinsStand(l.pins, l.retired)'
      BY <1>7, <3>1 DEF TaskStands, PinsStand
    <3>5. QED
      BY <1>6, <3>1, <3>3, <3>4 DEF TaskStands
  <2>2. CASE l = k
    <3>1. {h \in grants' : h.task = k.task} = G
      BY <1>3, <1>5, <1>8
    <3>2. GrantsOf(k.task)' = ToolsOf(k.pins)
      BY <1>5, <3>1 DEF GrantsOf
    <3>3. PinsStand(k.pins, k.retired)'
      BY <1>4, <1>7 DEF PinsStand
    <3>4. QED
      BY <1>6, <2>2, <3>2, <3>3 DEF TaskStands
  <2>3. QED
    BY <1>3, <2>1, <2>2
<1>10. ASSUME NEW g \in grants' PROVE GrantTold(g)'
  <2>1. CASE g \in grants
    <3>1. \A i \in DOMAIN trail : Revokes(i, g)' <=> Revokes(i, g)
      BY <1>6 DEF Revokes
    <3>2. \A i \in DOMAIN trail' : Revokes(i, g)' => i \in DOMAIN trail
      BY <1>6 DEF Revokes
    <3>3. GrantTold(g)
      BY <2>1 DEF GrantInv, TableInv
    <3>4. QED
      BY <1>6, <3>1, <3>2, <3>3 DEF GrantTold
  <2>2. CASE g \in G
    <3>1. g.task = k.task /\ g.revocation = NotRevoked
      BY <1>5, <2>2
    <3>2. \A i \in DOMAIN trail : trail[i].task # k.task
      BY <1>4 DEF GrantInv, TableInv
    <3>3. \A i \in DOMAIN trail' : ~Revokes(i, g)'
      BY <1>6, <3>1, <3>2 DEF Revokes
    <3>4. QED
      BY <3>1, <3>3 DEF GrantTold
  <2>3. QED
    BY <1>3, <2>1, <2>2
<1>11. \A g, h \in grants' : g.task = h.task /\ g.tool = h.tool => g = h
  BY <1>3, <1>5, <1>8 DEF GrantInv, TableInv
<1>12. TableInv'
  <2>1. /\ tasks' \subseteq TaskRow /\ grants' \subseteq GrantRow
        /\ \A l, m \in tasks' : l.task = m.task => l = m
    BY <1>3, <1>4, <1>5 DEF GrantInv, TableInv
  <2>2. \A g \in grants' : \E l \in tasks' : l.task = g.task
    BY <1>3, <1>5 DEF GrantInv, TableInv
  <2>3. \A i \in DOMAIN trail' : \E l \in tasks' : l.task = trail'[i].task
    BY <1>3, <1>6 DEF GrantInv, TableInv
  <2>4. QED
    BY <1>6, <1>9, <1>10, <1>11, <2>1, <2>2, <2>3 DEF TableInv
<1>13. ASSUME NEW q \in Sessions PROVE SessionInv(q)'
  <2>1. CASE q = s
    BY <1>3, <2>1, CloseFrees DEF GrantInv, SessionInv, PinsStand
  <2>2. CASE q # s
    <3>1. /\ pc'[q] = pc[q] /\ task'[q] = task[q] /\ tool'[q] = tool[q]
          /\ pins'[q] = pins[q] /\ retired'[q] = retired[q]
          /\ pc'[s] = "idle" /\ SessionInv(q)
          /\ \A r \in Sessions \ {s} : pc'[r] = pc[r] /\ task'[r] = task[r]
      BY <1>3, <2>2, CloseFrees DEF GrantInv
    <3>2. pc[q] = "declaring" => task[q] # k.task /\ ~TaskTaken(q)' /\ ~TaskHeld(q)'
      BY <1>1, <1>3, <2>2, <3>1 DEF SessionInv, TaskTaken, TaskHeld
    <3>3. HeldBy(task[q], tool[q]) \subseteq HeldBy(task[q], tool[q])'
      BY <1>3, <3>1 DEF HeldBy
    <3>4. QED
      BY <1>7, <3>1, <3>2, <3>3 DEF SessionInv, Retired, PinsStand, HeldBy
  <2>3. QED
    BY <2>1, <2>2
<1>14. QED
  BY <1>7, <1>12, <1>13 DEF GrantInv

-----------------------------------------------------------------------------
(* The commit of a revocation. *)

LEMMA CommitRevocationKeeps ==
  ASSUME GrantInv, NEW s \in Sessions, CommitRevocation(s)
  PROVE  GrantInv'
<1>0. pc[s] = "revoked" /\ HeldBy(task[s], tool[s]) # {}
  BY DEF CommitRevocation, GrantInv, SessionInv
<1>1. PICK old : old = InHand(s) /\ old \in grants /\ old.task = task[s] /\ old.tool = tool[s]
  BY <1>0 DEF InHand, HeldBy
<1>2. PICK new : new = RevokedRow(old, s)
  OBVIOUS
<1>3. PICK r : r = [event |-> "revoked", task |-> task[s], by |-> s,
                    tools |-> {[tool |-> tool[s], number |-> old.number]}]
  OBVIOUS
<1>4. /\ grants' = (grants \ {old}) \union {new}
      /\ trail' = Append(trail, r)
      /\ Close(s) /\ UNCHANGED tasks
  BY <1>1, <1>2, <1>3 DEF CommitRevocation
<1>5. old \in GrantRow /\ started[s] \in Nat
  BY <1>1 DEF GrantInv, TableInv, SessionTypes
<1>6. /\ new \in GrantRow
      /\ new.task = old.task /\ new.tool = old.tool /\ new.number = old.number
      /\ new.revocation.by = s /\ new.revocation # NotRevoked
  BY <1>2, <1>5, GrantAssumption DEF RevokedRow, GrantRow, NotRevoked
<1>7. r \in TrailRow
  BY <1>1, <1>3, <1>5 DEF TrailRow, GrantRow
<1>8. PICK n : n = Len(trail) + 1
  OBVIOUS
<1>9. /\ trail' \in Seq(TrailRow) /\ n \in Nat
      /\ DOMAIN trail' = DOMAIN trail \union {n} /\ trail'[n] = r
      /\ \A i \in DOMAIN trail : i \in Nat /\ i < n /\ trail'[i] = trail[i]
  <2>1. trail \in Seq(TrailRow)
    BY DEF GrantInv, TableInv
  <2>2. /\ trail' \in Seq(TrailRow) /\ Len(trail') = n /\ n \in Nat /\ trail'[n] = r
        /\ \A i \in 1 .. Len(trail) : trail'[i] = trail[i]
    BY <1>4, <1>7, <1>8, <2>1
  <2>3. DOMAIN trail = 1 .. n - 1 /\ DOMAIN trail' = 1 .. n
    BY <1>8, <2>1, <2>2
  <2>4. QED
    BY <1>8, <2>2, <2>3
<1>10. /\ r.event = "revoked" /\ r.task = old.task /\ r.by = s
       /\ \A t \in r.tools : t.tool = old.tool
       /\ \E t \in r.tools : t.tool = old.tool
  <2>1. /\ r.event = "revoked" /\ r.task = task[s] /\ r.by = s
        /\ r.tools = {[tool |-> tool[s], number |-> old.number]}
    BY <1>3
  <2>2. \A t \in r.tools : t.tool = tool[s]
    BY <2>1
  <2>3. r.tools # {}
    BY <2>1
  <2>4. QED
    BY <1>1, <2>1, <2>2, <2>3
<1>11. DefinitionInv' /\ SessionTypes' /\ UNCHANGED rows
  BY <1>4, CloseFrees, DefinitionsStand DEF GrantInv, definitionVars
<1>12. ASSUME NEW k \in tasks PROVE TaskStands(k)'
  <2>1. TaskStands(k)
    BY DEF GrantInv, TableInv
  <2>2. GrantsOf(k.task)' = GrantsOf(k.task)
    <3>1. ASSUME NEW g \in grants, g.task = k.task
          PROVE \E h \in grants' : h.task = k.task /\ h.tool = g.tool /\ h.number = g.number
      BY <1>4, <1>6, <3>1
    <3>2. ASSUME NEW h \in grants', h.task = k.task
          PROVE \E g \in grants : g.task = k.task /\ h.tool = g.tool /\ h.number = g.number
      BY <1>1, <1>4, <1>6, <3>2
    <3>3. QED
      BY <3>1, <3>2 DEF GrantsOf
  <2>3. PinsStand(k.pins, k.retired)'
    BY <1>11, <2>1 DEF TaskStands, PinsStand
  <2>4. QED
    BY <1>9, <2>1, <2>2, <2>3 DEF TaskStands
<1>13. ASSUME NEW g \in grants \ {old} PROVE GrantTold(g)'
  <2>1. GrantTold(g) /\ (g.task # old.task \/ g.tool # old.tool)
    BY <1>1 DEF GrantInv, TableInv
  <2>2. \A i \in DOMAIN trail : Revokes(i, g)' <=> Revokes(i, g)
    BY <1>9 DEF Revokes
  <2>3. ~Revokes(n, g)'
    BY <1>9, <1>10, <2>1 DEF Revokes
  <2>4. QED
    BY <1>9, <2>1, <2>2, <2>3 DEF GrantTold
<1>14. GrantTold(new)'
  <2>1. Revokes(n, new)'
    BY <1>6, <1>9, <1>10 DEF Revokes
  <2>2. ASSUME NEW i \in DOMAIN trail',
               \A j \in DOMAIN trail' : Revokes(j, new)' => j <= i
        PROVE i = n
    BY <1>9, <2>1, <2>2
  <2>3. QED
    BY <1>6, <1>9, <1>10, <2>1, <2>2 DEF GrantTold
<1>15. \A g, h \in grants' : g.task = h.task /\ g.tool = h.tool => g = h
  BY <1>1, <1>4, <1>6 DEF GrantInv, TableInv
<1>16. /\ \A g \in grants' : \E k \in tasks : k.task = g.task
       /\ \A i \in DOMAIN trail' : \E k \in tasks : k.task = trail'[i].task
  BY <1>1, <1>4, <1>6, <1>9, <1>10 DEF GrantInv, TableInv
<1>17. TableInv'
  BY <1>4, <1>6, <1>9, <1>12, <1>13, <1>14, <1>15, <1>16 DEF GrantInv, TableInv
<1>18. ASSUME NEW q \in Sessions PROVE SessionInv(q)'
  <2>1. CASE q = s
    BY <1>4, <2>1, CloseFrees DEF GrantInv, SessionInv, PinsStand
  <2>2. CASE q # s
    <3>1. /\ pc'[q] = pc[q] /\ task'[q] = task[q] /\ tool'[q] = tool[q]
          /\ pins'[q] = pins[q] /\ retired'[q] = retired[q]
          /\ pc'[s] = "idle" /\ SessionInv(q)
          /\ \A p \in Sessions \ {s} : pc'[p] = pc[p] /\ task'[p] = task[p]
      BY <1>4, <2>2, CloseFrees DEF GrantInv
    <3>2. pc[q] = "declaring" => ~TaskTaken(q)' /\ ~TaskHeld(q)'
      BY <1>4, <2>2, <3>1 DEF SessionInv, TaskTaken, TaskHeld
    <3>3. HeldBy(task[q], tool[q]) # {} => HeldBy(task[q], tool[q])' # {}
      BY <1>4, <1>6, <3>1 DEF HeldBy
    <3>4. QED
      BY <1>11, <3>1, <3>2, <3>3 DEF SessionInv, Retired, PinsStand, HeldBy
  <2>3. QED
    BY <2>1, <2>2
<1>19. QED
  BY <1>11, <1>17, <1>18 DEF GrantInv

-----------------------------------------------------------------------------
(* The theorems. *)

LEMMA NextGrantInv == GrantInv /\ [Next]_vars => GrantInv'
<1> SUFFICES ASSUME GrantInv, [Next]_vars PROVE GrantInv'
  OBVIOUS
<1>1. ASSUME NEW s \in Sessions, CreateTask(s) PROVE GrantInv'
  <2>1. CASE FindTaskTaken(s) \/ RefuseTask(s)
    BY <2>1, EmptyHandedKeeps DEF FindTaskTaken, RefuseTask
  <2>2. QED
    BY <1>1, <2>1, BeginTaskKeeps, ResolveKeeps, InsertTaskKeeps, CommitTaskKeeps DEF CreateTask
<1>2. ASSUME NEW s \in Sessions, Revoke(s) PROVE GrantInv'
  BY <1>2, FindGrantKeeps, WriteRevocationKeeps, CommitRevocationKeeps DEF Revoke
<1>3. ASSUME NEW s \in Sessions, AbortSession(s) PROVE GrantInv'
  BY <1>3, EmptyHandedKeeps DEF AbortSession
<1>4. CASE UNCHANGED vars
  <2>1. /\ DefinitionInv'
        /\ UNCHANGED <<rows, tasks, grants, trail, clock, pc, started, task, pins, retired, tool>>
    BY <1>4, DefinitionsStand DEF vars, grantTables, sessionVars, definitionVars, GrantInv
  <2>2. TableInv' /\ SessionTypes'
    BY <2>1, TablesStand DEF GrantInv, SessionTypes
  <2>3. \A s \in Sessions : SessionInv(s)'
    BY <2>1 DEF GrantInv, SessionInv, TaskTaken, TaskHeld, HeldBy, Retired, PinsStand
  <2>4. QED
    BY <2>1, <2>2, <2>3 DEF GrantInv
<1>5. QED
  BY <1>1, <1>2, <1>3, <1>4, AuthorKeepsGrants, TickKeeps DEF Next

\* The inductive invariant of definitions, tasks and grants.
THEOREM GrantInvariant == Spec => []GrantInv
<1>1. QED
  BY InitGrantInv, NextGrantInv, PTL DEF Spec

\* Tables and sessions hold values of the right kind, and the grant that a revoker
\* holds is there, once.
THEOREM GrantTypeCorrect == Spec => []GrantTypeOK
<1>1. ASSUME GrantInv PROVE GrantTypeOK
  <2>1. ASSUME NEW s \in Sessions, pc[s] \in {"revoking", "revoked"}
        PROVE Cardinality(HeldBy(task[s], tool[s])) = 1
    <3>1. PICK g : g \in HeldBy(task[s], tool[s])
      BY <1>1, <2>1 DEF GrantInv, SessionInv
    <3>2. HeldBy(task[s], tool[s]) = {g}
      BY <1>1, <3>1 DEF GrantInv, TableInv, HeldBy
    <3>3. QED
      BY <3>2, FS_Singleton
  <2>2. \A k \in tasks : k.task \in Tasks /\ k.pins \subseteq Pin
    BY <1>1 DEF GrantInv, TableInv, TaskRow
  <2>3. \A i \in DOMAIN trail : trail[i] \in TrailRow
    BY <1>1 DEF GrantInv, TableInv
  <2>4. QED
    BY <1>1, <2>1, <2>2, <2>3
    DEF GrantInv, TableInv, SessionTypes, DefinitionInv, GrantRow, TrailRow, GrantTypeOK
<1>2. QED
  BY <1>1, GrantInvariant, PTL

\* Whatever authors overlap, collide or fail, the committed definitions are complete:
\* nothing twice, no gap in the versions, no retirement of what was never published.
THEOREM DefinitionsStayComplete == Spec => []DefinitionsComplete
<1>1. GrantInv => DefinitionsComplete
  BY DEF GrantInv, DefinitionInv, DefinitionsComplete
<1>2. QED
  BY <1>1, GrantInvariant, PTL

\* A task stands on published versions, none of them retired before it began unless it
\* asked for that one; its grants are its tool pins, and the trail declares them.
THEOREM TasksAlwaysStand == Spec => []TasksStand
<1>1. ASSUME GrantInv PROVE TasksStand
  <2> SUFFICES ASSUME NEW k \in tasks
               PROVE /\ \A p \in k.pins :
                          /\ p.number \in Numbers(rows, p.definition)
                          /\ \/ p.named
                             \/ [definition |-> p.definition, number |-> p.number] \notin k.retired
                     /\ GrantsOf(k.task) = ToolsOf(k.pins)
                     /\ \A p \in k.pins : p.definition \in Tools =>
                          /\ Cardinality(HeldBy(k.task, p.definition)) = 1
                          /\ \E i \in Told("declared", k.task, p.definition) :
                               [tool |-> p.definition, number |-> p.number] \in trail[i].tools
    BY DEF TasksStand, GrantsOf, ToolsOf
  <2>1. TaskStands(k)
    BY <1>1 DEF GrantInv, TableInv
  <2>2. ASSUME NEW p \in k.pins, p.definition \in Tools
        PROVE /\ Cardinality(HeldBy(k.task, p.definition)) = 1
              /\ \E i \in Told("declared", k.task, p.definition) :
                   [tool |-> p.definition, number |-> p.number] \in trail[i].tools
    <3>1. PICK t : t = [tool |-> p.definition, number |-> p.number]
      OBVIOUS
    <3>2. t \in ToolsOf(k.pins) /\ t.tool = p.definition
      BY <2>2, <3>1 DEF ToolsOf
    <3>3. \E i \in DOMAIN trail :
            trail[i].event = "declared" /\ trail[i].task = k.task /\ t \in trail[i].tools
      BY <2>1, <3>2 DEF TaskStands
    <3>4. PICK g \in grants : g.task = k.task /\ g.tool = p.definition
      BY <2>1, <3>1, <3>2 DEF TaskStands, GrantsOf
    <3>5. HeldBy(k.task, p.definition) = {g}
      BY <1>1, <3>4 DEF GrantInv, TableInv, HeldBy
    <3>6. Cardinality(HeldBy(k.task, p.definition)) = 1
      BY <3>5, FS_Singleton
    <3>7. QED
      BY <3>1, <3>2, <3>3, <3>6 DEF Told
  <2>3. QED
    BY <2>1, <2>2 DEF TaskStands, PinsStand
<1>2. QED
  BY <1>1, GrantInvariant, PTL

\* A grant that nobody revoked is live until it expires; one that somebody revoked is
\* dead, and its row names the revoker whom the audit trail names last.
THEOREM RevocationAlwaysTold == Spec => []RevocationTold
<1>1. ASSUME GrantInv PROVE RevocationTold
  <2> SUFFICES ASSUME NEW g \in grants
               PROVE LET told == Told("revoked", g.task, g.tool) IN
                       IF told = {} THEN IsLive(g, clock) <=> clock < g.expires
                       ELSE ~IsLive(g, clock) /\ g.revocation.by = trail[Max(told)].by
    BY DEF RevocationTold
  <2>1. PICK told : told = Told("revoked", g.task, g.tool)
    OBVIOUS
  <2>2. told = {i \in DOMAIN trail : Revokes(i, g)}
    BY <2>1 DEF Told, Revokes
  <2>3. GrantTold(g)
    BY <1>1 DEF GrantInv, TableInv
  <2>4. CASE told = {}
    BY <2>1, <2>2, <2>3, <2>4 DEF GrantTold, IsLive
  <2>5. CASE told # {}
    <3>1. trail \in Seq(TrailRow)
      BY <1>1 DEF GrantInv, TableInv
    <3>2. DOMAIN trail = 1 .. Len(trail) /\ Len(trail) \in Nat
      BY <3>1
    <3>3. IsFiniteSet(1 .. Len(trail))
      BY <3>2, FS_Interval
    <3>4. told \in SUBSET (1 .. Len(trail))
      BY <2>2, <3>2
    <3>5. IsFiniteSet(told) /\ told \subseteq Int
      <4>1. IsFiniteSet(told)
        BY <3>3, <3>4, FS_Subset
      <4>2. told \subseteq Int
        BY <3>2, <3>4
      <4>3. QED
        BY <4>1, <4>2
    <3>6. Max(told) \in told /\ \A i \in told : i <= Max(told)
      BY <2>5, <3>5, FiniteMax
    <3>7. g.revocation.by = trail[Max(told)].by /\ g.revocation # NotRevoked
      BY <2>2, <2>3, <3>6 DEF GrantTold
    <3>8. QED
      BY <2>1, <2>5, <3>7 DEF IsLive
  <2>6. QED
    BY <2>4, <2>5
<1>2. QED
  BY <1>1, GrantInvariant, PTL
=============================================================================
