---------------------------- MODULE Definitions -----------------------------
(***************************************************************************)
(* The platform's versioned definitions: definition_service.py and         *)
(* tool_registry.py over the tables of agent definitions, skills and       *)
(* tools, their versions, and definition_deprecation.                      *)
(*                                                                         *)
(* Every operation of an author reads what its row depends on and then     *)
(* inserts it, without a lock; the unique keys decide between two authors. *)
(* The rows of all the tables are one set here, because every operation    *)
(* treats them alike: an identity, a version of it, or the deprecation of  *)
(* a version.                                                              *)
(*                                                                         *)
(* Definitions named after another with a suffix are that one with a       *)
(* plausible bug in it (see README.md).                                    *)
(***************************************************************************)
EXTENDS Integers, FiniteSets, FiniteSetsExt

CONSTANTS Definition,   \* keys of definitions
          Authors,      \* owner sessions
          Someone,      \* who wrote the rows that are there from the start
          FirstRows,    \* rows that are there from the start
          MaxAuthored,  \* bound: operations of authors begun
          MaxAborts     \* bound: transactions aborted from outside

VARIABLES
  rows,      \* committed rows
  pending,   \* the rows an author's transaction has inserted
  next,      \* the row it is about to insert, as a set of at most one
  authored, aborts

authorVars == <<pending, next, authored>>
definitionVars == <<rows, authorVars>>

Row(kind, d, n, w) == [kind |-> kind, definition |-> d, number |-> n, by |-> w]
Identity(d, w)       == Row("identity", d, 0, w)
Version(d, n, w)     == Row("version", d, n, w)
Deprecation(d, n, w) == Row("deprecation", d, n, w)

SameKey(r, s) == r.kind = s.kind /\ r.definition = s.definition /\ r.number = s.number

\* Among the rows S there is one of this kind for d, or for version n of d.
Has(S, kind, d, n) == \E r \in S : r.kind = kind /\ r.definition = d /\ r.number = n

DefinitionRow ==
  [kind : {"identity", "version", "deprecation"}, definition : Definition, number : Nat,
   by : Authors \union {Someone}]

\* Row r rests on rows of S: a version on its identity and on the version before it, a
\* deprecation on its version.
RestsOn(r, S) ==
  /\ r.kind = "version" =>
       /\ Has(S, "identity", r.definition, 0)
       /\ r.number > 1 => Has(S, "version", r.definition, r.number - 1)
  /\ r.kind = "deprecation" => Has(S, "version", r.definition, r.number)

Complete(S) ==
  /\ \A r, s \in S : SameKey(r, s) => r = s
  /\ \A r \in S : RestsOn(r, S)

\* The rows from the start are ones that authors have committed before.
ASSUME DefinitionAssumption ==
  /\ FirstRows \subseteq DefinitionRow /\ IsFiniteSet(FirstRows) /\ Complete(FirstRows)
  /\ \A r \in FirstRows : r.kind = "version" => r.number > 0
  /\ MaxAuthored \in Nat /\ MaxAborts \in Nat

DefinitionInit ==
  /\ rows     = FirstRows
  /\ pending  = [w \in Authors |-> {}]
  /\ next     = [w \in Authors |-> {}]
  /\ authored = 0

\* What a SELECT of the author sees: the committed rows and its own.
Seen(w) == rows \union pending[w]

Numbers(S, d) == {r.number : r \in {s \in S : s.kind = "version" /\ s.definition = d}}
Highest(S, d) == Max(Numbers(S, d) \union {0})

-----------------------------------------------------------------------------
(* Operations, up to the row they insert. *)

Prepare(w, row) ==
  /\ next[w] = {}
  /\ authored < MaxAuthored
  /\ authored' = authored + 1
  /\ next' = [next EXCEPT ![w] = {row}]
  /\ UNCHANGED <<rows, pending, aborts>>

\* create_agent_definition, create_skill, register_tool
Create(w, d) ==
  /\ ~Has(Seen(w), "identity", d, 0)
  /\ Prepare(w, Identity(d, w))

\* publish_agent_version, publish_skill_version, publish_tool_version
Publish(w, d) ==
  /\ Has(Seen(w), "identity", d, 0)
  /\ Prepare(w, Version(d, Highest(Seen(w), d) + 1, w))

\* deprecate
Deprecate(w, d, n) ==
  /\ Has(Seen(w), "version", d, n)
  /\ ~Has(Seen(w), "deprecation", d, n)
  /\ Prepare(w, Deprecation(d, n, w))

-----------------------------------------------------------------------------
(* The INSERT waits for another author's uncommitted row of the same key. *)

KeyTaken(w) == \E n \in next[w] : \E r \in rows : SameKey(n, r)
KeyHeldBy(w, v) == v # w /\ \E n \in next[w] : \E r \in pending[v] : SameKey(n, r)

KeyFreeAlways(w) == TRUE
KeyFree(w) == ~KeyTaken(w) /\ ~\E v \in Authors : KeyHeldBy(w, v)

Insert(w) ==
  /\ next[w] # {}
  /\ KeyFree(w)
  /\ pending' = [pending EXCEPT ![w] = @ \union next[w]]
  /\ next' = [next EXCEPT ![w] = {}]
  /\ UNCHANGED <<rows, authored, aborts>>

\* The transaction is over.
CloseAuthor(w) ==
  /\ pending' = [pending EXCEPT ![w] = {}]
  /\ next' = [next EXCEPT ![w] = {}]
  /\ UNCHANGED authored

CommitAuthor(w) ==
  /\ pending[w] # {} /\ next[w] = {}
  /\ rows' = rows \union pending[w]
  /\ CloseAuthor(w)
  /\ UNCHANGED aborts

\* A unique violation rolls the transaction back, and the database aborts one of two
\* authors that wait for each other.
FailAuthor(w) ==
  /\ \/ KeyTaken(w)
     \/ \E v \in Authors : KeyHeldBy(w, v) /\ KeyHeldBy(v, w)
  /\ CloseAuthor(w)
  /\ UNCHANGED <<rows, aborts>>

AbortAuthor(w) ==
  /\ pending[w] \union next[w] # {}
  /\ aborts < MaxAborts
  /\ aborts' = aborts + 1
  /\ CloseAuthor(w)
  /\ UNCHANGED rows

AuthorStep(w) ==
  \/ \E d \in Definition : Create(w, d) \/ Publish(w, d)
  \/ \E r \in rows \union pending[w] :
       r.kind = "version" /\ Deprecate(w, r.definition, r.number)
  \/ Insert(w) \/ CommitAuthor(w) \/ FailAuthor(w) \/ AbortAuthor(w)

-----------------------------------------------------------------------------
(* resolve_agent_version, resolve_skill_version, resolve_tool_version *)

IsDeprecated(S, d, n) == Has(S, "deprecation", d, n)

OfferedEvenRetired(S, d) == Numbers(S, d)
Offered(S, d) == {n \in Numbers(S, d) : ~IsDeprecated(S, d, n)}

\* The version a caller gets that names none: the highest that is not retired.
IsLatest(S, d, n) == Offered(S, d) # {} /\ n = Max(Offered(S, d))

-----------------------------------------------------------------------------
(* What must hold. *)

DefinitionTypeOK ==
  /\ rows \subseteq DefinitionRow
  /\ pending \in [Authors -> SUBSET DefinitionRow]
  /\ next \in [Authors -> SUBSET DefinitionRow]
  /\ authored \in Nat

\* Whatever authors overlap, fail or collide: a definition, a version of it and a
\* deprecation are each committed once, versions are numbered 1 .. n behind their
\* identity, and only a committed version is retired.
DefinitionsComplete == Complete(rows)
=============================================================================
