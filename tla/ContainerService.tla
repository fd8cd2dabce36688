-------------------------- MODULE ContainerService --------------------------
(***************************************************************************)
(* What a client may rely on: a container service in which every operation  *)
(* is one step.  The clients' view of a container is its status, and the    *)
(* cluster's is whether a pod works for it.                                 *)
(***************************************************************************)
CONSTANT Container

VARIABLES
    known,   \* containers that can be addressed
    removed, \* containers that could be, and never can again
    status,  \* the status of each container
    live     \* containers a pod works for

vars == <<known, removed, status, live>>

Status == {"created", "running", "exited", "dead"}

TypeOK ==
    /\ known \subseteq Container
    /\ removed \subseteq Container \ known
    /\ status \in [Container -> Status]
    /\ live \subseteq known

Init ==
    /\ known = {}
    /\ removed = {}
    /\ status = [c \in Container |-> "created"]
    /\ live = {}

\* A container that neither runs nor has run to its end.
Startable(c) == c \in known /\ status[c] \in {"created", "dead"}

Create(c) ==
    /\ c \notin known \cup removed
    /\ known' = known \cup {c}
    /\ UNCHANGED <<removed, status, live>>

\* A start brings up a pod; one that exists is never doubled.
Deploy(c) ==
    /\ Startable(c)
    /\ c \notin live
    /\ live' = live \cup {c}
    /\ UNCHANGED <<known, removed, status>>

\* A start that fails takes the pod away.
Withdraw(c) ==
    /\ Startable(c)
    /\ c \in live
    /\ live' = live \ {c}
    /\ UNCHANGED <<known, removed, status>>

\* A start succeeds, with a pod that works or has done its work.
Run(c) ==
    /\ Startable(c)
    /\ c \in live
    /\ status' \in {[status EXCEPT ![c] = s] : s \in {"running", "exited"}}
    /\ UNCHANGED <<known, removed, live>>

\* The pod has ended, or nothing could be learnt of it.  The pod of a start
\* that failed may be seen to have ended while it is being deleted.
Observe(c) ==
    /\ c \in known
    /\ \/ /\ \/ status[c] = "running" /\ c \in live
             \/ status[c] = "created" /\ c \notin live
          /\ status' = [status EXCEPT ![c] = "exited"]
       \/ /\ Startable(c)
          /\ status' = [status EXCEPT ![c] = "dead"]
    /\ UNCHANGED <<known, removed, live>>

\* Stop, kill and the first half of restart.
End(c) ==
    /\ c \in known
    /\ status' = [status EXCEPT ![c] = "dead"]
    /\ live' = live \ {c}
    /\ UNCHANGED <<known, removed>>

\* Removed by a client or by the reaper, with its pod.
Remove(c) ==
    /\ c \in known
    /\ known' = known \ {c}
    /\ removed' = removed \cup {c}
    /\ live' = live \ {c}
    /\ UNCHANGED status

Next ==
    \E c \in Container :
        \/ Create(c) \/ Deploy(c) \/ Withdraw(c) \/ Run(c)
        \/ Observe(c) \/ End(c) \/ Remove(c)

Spec == Init /\ [][Next]_vars

=============================================================================
