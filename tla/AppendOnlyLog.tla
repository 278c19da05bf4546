--------------------------- MODULE AppendOnlyLog ---------------------------
(***************************************************************************)
(* What a table of numbered rows promises to those who read it: one log    *)
(* for each owner (a tenant's audit chain, a task's actions, an artifact's *)
(* versions), whose entries keep their place and content for ever, and     *)
(* which grows at its end only, without a gap and without two entries in   *)
(* one place.                                                              *)
(***************************************************************************)
EXTENDS Integers

CONSTANT Owners

VARIABLES log,     \* the entries of each owner's log; entry e stands at e.seq
          length   \* how many there are

Init ==
  /\ log    = [o \in Owners |-> {}]
  /\ length = [o \in Owners |-> 0]

\* One or more entries of one owner, at the next places of its log.
Append(o) ==
  /\ length'[o] > length[o]
  /\ length' = [length EXCEPT ![o] = length'[o]]
  /\ log' = [log EXCEPT ![o] = log'[o]]
  /\ log[o] \subseteq log'[o]
  /\ \A e \in log'[o] \ log[o] : e.seq \in length[o] + 1 .. length'[o]
  /\ \A n \in length[o] + 1 .. length'[o] : \E e \in log'[o] : e.seq = n
  /\ \A d, e \in log'[o] : d.seq = e.seq => d = e

Spec == Init /\ [][\E o \in Owners : Append(o)]_<<log, length>>
=============================================================================
