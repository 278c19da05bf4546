---------------------------- MODULE ExactlyOnce ----------------------------
(***************************************************************************)
(* What the dispatch queue promises its producers: a job that was accepted *)
(* takes effect at most once, however often it is delivered.               *)
(***************************************************************************)
EXTENDS Naturals

CONSTANT Jobs

VARIABLES accepted,  \* jobs a producer has handed over
          times      \* how often each job's effect has been committed

Init ==
  /\ accepted = {}
  /\ times = [j \in Jobs |-> 0]

Accept(j) ==
  /\ accepted' = accepted \union {j}
  /\ UNCHANGED times

Apply(j) ==
  /\ j \in accepted
  /\ times[j] = 0
  /\ times' = [times EXCEPT ![j] = 1]
  /\ UNCHANGED accepted

Next == \E j \in Jobs : Accept(j) \/ Apply(j)

Spec == Init /\ [][Next]_<<accepted, times>>
=============================================================================
