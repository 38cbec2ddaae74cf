---------------------------- MODULE MCConfigWatch ---------------------------
(***************************************************************************)
(* ConfigWatch for TLC: the file, and what an operator may put.            *)
(***************************************************************************)
EXTENDS ConfigWatch, TLC

File == [limiter |-> 0, job |-> 1, redis |-> 1]

Whole == {[limiter |-> 2, job |-> 0, redis |-> 1],
          [limiter |-> 1, job |-> 1, redis |-> 2]}

WholeOrPartial == Whole \cup {[limiter |-> 2, job |-> 1]}

ReplicaSymmetry == Permutations(Replicas)
=============================================================================
