---------------------------- MODULE MCScheduler -----------------------------
(* Instances of Scheduler for TLC. *)
EXTENDS Scheduler, TLC

CONSTANTS c1, c2, q1

\* One process with two connections: all that tells another process from this one is that
\* it cannot release what this one holds.
Pools == c1 :> q1 @@ c2 :> q1

\* Hashes without collisions: the digest of a header is the header, marked.
Digest(t, seq, prev, kind, time) == <<"digest", t, seq, prev, kind, time>>
AnchorDigest(seq, prev, t, tenantSeq, tenantHash, time) ==
  <<"anchor", seq, prev, t, tenantSeq, tenantHash, time>>

Symmetry == Permutations(Passes) \union Permutations({c1, c2})
=============================================================================
