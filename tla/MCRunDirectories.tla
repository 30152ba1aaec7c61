---------------------------- MODULE MCRunDirectories ----------------------------
(***************************************************************************)
(* Controllers of two repositories that share a directory of runs, for     *)
(* TLC.                                                                    *)
(***************************************************************************)
EXTENDS RunDirectories

CONSTANTS c1, c2, r1, A, B

TwoRepositories == [c \in Creators |-> IF c = c1 THEN A ELSE B]
=============================================================================
