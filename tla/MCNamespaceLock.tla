-------------------------- MODULE MCNamespaceLock --------------------------
(* Small instances of NamespaceLock. *)
EXTENDS NamespaceLock

CONSTANTS i1, i2

=============================================================================
