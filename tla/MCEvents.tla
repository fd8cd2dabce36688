------------------------------ MODULE MCEvents ------------------------------
(* A small instance of Events: two publishers and two subscribers. *)
EXTENDS Events

CONSTANTS p1, p2, s1, s2

=============================================================================
