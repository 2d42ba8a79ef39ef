------------------------------- MODULE JobsMC -------------------------------
(* Instances of Jobs for TLC. *)
EXTENDS Jobs

Same == [m \in 1..3 |-> "p"]
Apart == [m \in 1..3 |-> IF m = 2 THEN "q" ELSE "p"]
Pairwise(c12, c13, c23) ==
  [s \in {{m, n} : m, n \in 1..3} |->
     IF s = {1, 2} THEN c12 ELSE IF s = {1, 3} THEN c13 ELSE IF s = {2, 3} THEN c23 ELSE "dup"]

\* A chain: the oldest memory resembles the second, the second the third.
Chain == {[project |-> Same, likeness |-> Pairwise("near", "far", "dup")]}

\* Two duplicates that slipped through.
Twins == {[project |-> [m \in 1..2 |-> "p"],
           likeness |-> [s \in {{m, n} : m, n \in 1..2} |-> "dup"]]}

\* One memory.
Single == {[project |-> [m \in 1..1 |-> "p"], likeness |-> [s \in {{1}} |-> "dup"]]}
=============================================================================
