------------------------ MODULE LifecycleRefinement ------------------------
(***************************************************************************)
(* Lifecycle implements ContainerService as long as the requests for one    *)
(* container do not overlap: a handler's many calls and assignments have    *)
(* the effect of one step.  A stop takes effect when the pod is deleted, a  *)
(* start when the pod's address is known, a removal when the pod is deleted *)
(* or, for an ended container, at once; the assignments, the save and the   *)
(* event that follow are invisible.                                         *)
(***************************************************************************)
EXTENDS Lifecycle

\* The assignments to c's record a handler is still to make.
PendingWrites(c) ==
    {w \in Write : \E r \in Request : /\ Tainr(r) = c
                                      /\ At(r, "write")
                                      /\ \E i \in DOMAIN req[r].writes : req[r].writes[i] = w}

\* A flag as it will be once the handler at work has made its assignments.
Settled(c, f) ==
    IF \E v \in BOOLEAN : <<f, v>> \in PendingWrites(c)
    THEN <<f, TRUE>> \in PendingWrites(c)
    ELSE rec[c][f]

StateString(c) ==
    CASE Settled(c, "Running") -> "running"
      [] ~Settled(c, "Running")
         /\ (Settled(c, "Stopped") \/ Settled(c, "Killed") \/ Settled(c, "Failed")) -> "dead"
      [] OTHER -> IF Settled(c, "Completed") THEN "exited" ELSE "created"

\* A handler that has deleted c's pod, if it had to, is about to delete c's record.
Removing(c) ==
    \E r \in Request : /\ Tainr(r) = c
                       /\ req[r].op \in {"delete", "reap"}
                       /\ req[r].pc \in {"publish", "dbdelete"}

Addressable == {c \in db : ~Removing(c)}

Service == INSTANCE ContainerService WITH
    known <- Addressable,
    removed <- created \ Addressable,
    status <- [c \in Container |-> StateString(c)],
    live <- {c \in Container : LivePod(c)}

\* Start, stop, kill, restart, remove, inspect and reap, each a goroutine with
\* a dozen steps, look like the atomic operations of a container service: no
\* status without its pod, no pod without its container, no container that
\* comes back (README.md: "Starting a container is a blocking call that will
\* wait until it results in a running pod").
ImplementsService == Service!Spec

=============================================================================
