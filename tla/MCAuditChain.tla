---------------------------- MODULE MCAuditChain ----------------------------
(* Instances of AuditChain for TLC. *)
EXTENDS AuditChain, TLC

\* A hash without collisions: the digest of a header is the header, marked.
Digest(t, seq, prev, kind, time) == <<"digest", t, seq, prev, kind, time>>

WriterSymmetry == Permutations(Writers)
=============================================================================
