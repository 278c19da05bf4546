----------------------------- MODULE MCApproval -----------------------------
(* Instances of Approval for TLC. *)
EXTENDS Approval, TLC

CONSTANTS producer, requester, reviewer, deputy

MadeByProducer == [i \in Items |-> producer]
AskedByRequester == [i \in Items |-> requester]

\* Sessions of a kind are interchangeable.
SessionSymmetry == Permutations(Persons) \union Permutations(Passes)
=============================================================================
