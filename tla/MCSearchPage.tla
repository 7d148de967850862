---------------------------- MODULE MCSearchPage ----------------------------
(***************************************************************************)
(* Instances of SearchPage for TLC: two queries, two index directories and *)
(* two searches that may be pending together.                              *)
(***************************************************************************)
EXTENDS SearchPage

CONSTANTS none, q1, q2, main, other, r1, r2

=============================================================================
