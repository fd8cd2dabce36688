---------------------------- MODULE MCLifecycle ----------------------------
(* Small instances of Lifecycle. *)
EXTENDS LifecycleRefinement

CONSTANTS c1, c2, a1, a2

\* One container with two names.
TwoNames == [c \in Container |-> {a1, a2}]
\* Every container claims the same name.
SharedName == [c \in Container |-> {a1}]
\* Every container claims a name of its own.
OwnName == [c \in Container |-> IF c = c1 THEN {a1} ELSE {a2}]
=============================================================================
