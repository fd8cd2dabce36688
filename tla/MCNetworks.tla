----------------------------- MODULE MCNetworks -----------------------------
(* A small instance of Networks: one predefined network (the three differ in *)
(* nothing but their names) and two ids for the networks clients create.    *)
EXTENDS Networks

CONSTANTS bridge, custom, n1, n2, n3

DefaultIds == [n \in {bridge} |-> n1]

=============================================================================
