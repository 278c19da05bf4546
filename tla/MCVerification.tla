---------------------------- MODULE MCVerification ----------------------------
(* Instances of ChainVerification for TLC. *)
EXTENDS ChainVerification, TLC

\* Hashes without collisions: the digest of a header is the header, marked.
Digest(t, seq, prev, kind, time) == <<"digest", t, seq, prev, kind, time>>
AnchorDigest(seq, prev, t, tenantSeq, tenantHash, time) ==
  <<"anchor", seq, prev, t, tenantSeq, tenantHash, time>>

=============================================================================
