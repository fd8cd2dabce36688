--------------------------- MODULE NamespaceLock ---------------------------
(***************************************************************************)
(* Kubedock instances that share a namespace with --lock: leader election   *)
(* over one lease decides who runs, a timer ends the ones that wait too     *)
(* long, and a signal handler cleans up before exit.  Losing the lease is   *)
(* only logged: the http server keeps serving.  So is a server that cannot  *)
(* listen, and a deletion that fails.  The reaper of an instance that got   *)
(* the lock deletes what others have left behind.                           *)
(***************************************************************************)
EXTENDS Naturals

CONSTANTS
    Instance,
    NoInstance,
    PruneStart,  \* --prune-start
    Made,        \* bound: the kinds of object that the requests create
    LongLived    \* may an instance outlive the time objects are kept?

Kind == {"service", "configmap", "pod"}

ASSUME InstanceAssumption == NoInstance \notin Instance
ASSUME ConfigAssumption == {PruneStart, LongLived} \subseteq BOOLEAN /\ Made \subseteq Kind

VARIABLES
    holder,  \* the lease's holder identity
    fresh,   \* the lease has been renewed within its duration
    main,    \* how far each process has got
    elect,   \* its leader election loop
    timer,   \* its lock timeout handler
    exit,    \* its exit handler
    res,     \* objects in the namespace labelled with its instance id
    old,     \* those of them older than the reaper keeps any object
    missed   \* kinds of which its exit handler failed to delete an object, or
             \* of which a request created one after the handler had been there

vars == <<holder, fresh, main, elect, timer, exit, res, old, missed>>

\* Type correctness; an instance that has got past OnStartedLeading's send has
\* no lock timeout pending.
TypeOK ==
    /\ holder \in Instance \cup {NoInstance}
    /\ fresh \in BOOLEAN
    /\ main \in [Instance -> {"candidate", "leading", "running", "serving",
                          "deaf", "exited"}]
    /\ elect \in [Instance -> {"acquiring", "renewing", "stopped"}]
    /\ timer \in [Instance -> {"armed", "off", "fired"}]
    /\ exit \in [Instance -> {"none", "services", "configmaps", "pods", "done"}]
    /\ res \in [Instance -> SUBSET Kind]
    /\ old \in [Instance -> SUBSET Kind]
    /\ missed \in [Instance -> SUBSET Kind]
    /\ \A i \in Instance : main[i] \in {"running", "serving", "deaf"} => timer[i] # "armed"

Init ==
    /\ holder = NoInstance
    /\ fresh = FALSE
    /\ main = [i \in Instance |-> "candidate"]
    /\ elect = [i \in Instance |-> "acquiring"]
    /\ timer = [i \in Instance |-> "armed"]
    /\ exit = [i \in Instance |-> "none"]
    /\ res = [i \in Instance |-> {}]
    /\ old = [i \in Instance |-> {}]
    /\ missed = [i \in Instance |-> {}]

Alive(i) == main[i] # "exited"
Serving(i) == main[i] = "serving"

\* run has come to its end: the reaper works, and so does the server unless it
\* could not listen.
Started(i) == main[i] \in {"serving", "deaf"}

----------------------------------------------------------------------------
\* Mutant: the expiry of the lease is not looked at.
AcquireAlways(i) ==
    /\ main[i] = "candidate"
    /\ elect[i] = "acquiring"
    /\ exit[i] = "none"
    /\ holder' = i
    /\ fresh' = TRUE
    /\ elect' = [elect EXCEPT ![i] = "renewing"]
    /\ main' = [main EXCEPT ![i] = "leading"]
    /\ UNCHANGED <<timer, exit, res, old, missed>>

\* RunOrDie acquires a lease nobody holds or whose holder stopped renewing
\* it, and starts OnStartedLeading.
Acquire(i) ==
    /\ main[i] = "candidate"
    /\ elect[i] = "acquiring"
    /\ exit[i] = "none"
    /\ holder = NoInstance \/ ~fresh
    /\ holder' = i
    /\ fresh' = TRUE
    /\ elect' = [elect EXCEPT ![i] = "renewing"]
    /\ main' = [main EXCEPT ![i] = "leading"]
    /\ UNCHANGED <<timer, exit, res, old, missed>>

\* Mutant: the lock timeout handler is not told.
SendReadyNever(i) ==
    /\ main[i] = "leading"
    /\ main' = [main EXCEPT ![i] = "running"]
    /\ UNCHANGED <<holder, fresh, elect, timer, exit, res, old, missed>>

\* OnStartedLeading sends to ready.  The lock timeout handler is blocked in
\* its select, so that the send completes it, unless the timer was first.
SendReady(i) ==
    /\ main[i] = "leading"
    /\ main' = [main EXCEPT ![i] = "running"]
    /\ timer' = [timer EXCEPT ![i] = IF @ = "armed" THEN "off" ELSE @]
    /\ UNCHANGED <<holder, fresh, elect, exit, res, old, missed>>

\* DeleteAll: services, configmaps and pods kubedock labelled, whichever
\* instance created them.  A call that fails leaves some of its kind, is logged
\* and does not keep the next kind from being deleted.
DeleteAll ==
    \E left \in [Instance -> SUBSET Kind] :
        /\ \A j \in Instance : left[j] \subseteq res[j]
        /\ res' = left
        /\ old' = [j \in Instance |-> old[j] \cap left[j]]

\* run: prune the namespace if so configured, and start the server.  If the
\* server cannot listen the error is logged, and the process stays as it is.
Run(i) ==
    /\ main[i] = "running"
    /\ \E to \in {"serving", "deaf"} : main' = [main EXCEPT ![i] = to]
    /\ IF PruneStart THEN DeleteAll ELSE UNCHANGED <<res, old>>
    /\ UNCHANGED <<holder, fresh, elect, timer, exit, missed>>

\* The exit handler of the instance is done with this kind.
Passed(i, kind) ==
    exit[i] \in CASE kind = "service" -> {"configmaps", "pods", "done"}
                  [] kind = "configmap" -> {"pods", "done"}
                  [] kind = "pod" -> {"done"}

\* A request handled by the instance creates an object.  The server looks
\* neither at the lease nor at the exit handler.
Serve(i) ==
    /\ Serving(i)
    /\ \E k \in Made \ res[i] :
         /\ res' = [res EXCEPT ![i] = @ \cup {k}]
         /\ missed' = IF Passed(i, k) THEN [missed EXCEPT ![i] = @ \cup {k}] ELSE missed
    /\ UNCHANGED <<holder, fresh, main, elect, timer, exit, old>>

\* The lease could not be renewed before the deadline.  The election loop
\* ends and tries to release the lease; OnStoppedLeading only logs.
LoseLease(i) ==
    /\ Alive(i)
    /\ elect[i] = "renewing"
    /\ elect' = [elect EXCEPT ![i] = "stopped"]
    /\ holder' \in {NoInstance, holder}
    /\ UNCHANGED <<fresh, main, timer, exit, res, old, missed>>

\* Nobody renews the lease for its whole duration.
Expire ==
    /\ fresh
    /\ holder # NoInstance
    /\ elect[holder] # "renewing" \/ ~Alive(holder)
    /\ fresh' = FALSE
    /\ UNCHANGED <<holder, main, elect, timer, exit, res, old, missed>>

----------------------------------------------------------------------------
\* The timer of lockTimeoutHandler fires before ready was received.
TimerFires(i) ==
    /\ main[i] \in {"candidate", "leading"}
    /\ timer[i] = "armed"
    /\ timer' = [timer EXCEPT ![i] = "fired"]
    /\ UNCHANGED <<holder, fresh, main, elect, exit, res, old, missed>>

\* Mutant: the timeout is logged and the process goes on waiting.
TimeoutLogged(i) ==
    /\ Alive(i)
    /\ timer[i] = "fired"
    /\ timer' = [timer EXCEPT ![i] = "off"]
    /\ UNCHANGED <<holder, fresh, main, elect, exit, res, old, missed>>

\* os.Exit(1), without cleaning up.
TimeoutExit(i) ==
    /\ Alive(i)
    /\ timer[i] = "fired"
    /\ main' = [main EXCEPT ![i] = "exited"]
    /\ UNCHANGED <<holder, fresh, elect, timer, exit, res, old, missed>>

\* The process is killed, or its node is lost.
Crash(i) ==
    /\ Alive(i)
    /\ main' = [main EXCEPT ![i] = "exited"]
    /\ UNCHANGED <<holder, fresh, elect, timer, exit, res, old, missed>>

----------------------------------------------------------------------------
\* exitHandler: the context is cancelled first.
Signal(i) ==
    /\ Alive(i)
    /\ exit[i] = "none"
    /\ exit' = [exit EXCEPT ![i] = "services"]
    /\ UNCHANGED <<holder, fresh, main, elect, timer, res, old, missed>>

\* The cancelled election loop ends; a leader releases the lease.
Release(i) ==
    /\ Alive(i)
    /\ exit[i] # "none"
    /\ elect[i] # "stopped"
    /\ holder' = IF elect[i] = "renewing" THEN NoInstance ELSE holder
    /\ elect' = [elect EXCEPT ![i] = "stopped"]
    /\ UNCHANGED <<fresh, main, timer, exit, res, old, missed>>

\* Deletes the instance's objects of one kind; an error is logged, and the
\* handler goes on.
DeleteKind(i, at, kind, next) ==
    /\ Alive(i)
    /\ exit[i] = at
    /\ \/ /\ res' = [res EXCEPT ![i] = @ \ {kind}]
          /\ old' = [old EXCEPT ![i] = @ \ {kind}]
          /\ missed' = missed
       \/ /\ missed' = [missed EXCEPT ![i] = @ \cup (res[i] \cap {kind})]
          /\ UNCHANGED <<res, old>>
    /\ exit' = [exit EXCEPT ![i] = next]
    /\ UNCHANGED <<holder, fresh, main, elect, timer>>

\* Mutant: the configmaps are forgotten.
DeleteWithKubedockIDPartly(i) ==
    \/ DeleteKind(i, "services", "service", "pods")
    \/ DeleteKind(i, "pods", "pod", "done")

\* DeleteWithKubedockID: services, configmaps, then pods of this instance.
DeleteWithKubedockID(i) ==
    \/ DeleteKind(i, "services", "service", "configmaps")
    \/ DeleteKind(i, "configmaps", "configmap", "pods")
    \/ DeleteKind(i, "pods", "pod", "done")

Exit(i) ==
    /\ Alive(i)
    /\ exit[i] = "done"
    /\ main' = [main EXCEPT ![i] = "exited"]
    /\ UNCHANGED <<holder, fresh, elect, timer, exit, res, old, missed>>

----------------------------------------------------------------------------
\* The objects of an instance become older than keepMax and 15 minutes.
Age(i) ==
    /\ old[i] # res[i]
    /\ LongLived \/ ~Alive(i)
    /\ old' = [old EXCEPT ![i] = res[i]]
    /\ UNCHANGED <<holder, fresh, main, elect, timer, exit, res, missed>>

\* Mutant: the selector names the instance.
DeleteOwnOlder(i, kinds) ==
    /\ res' = [res EXCEPT ![i] = @ \ (old[i] \cap kinds)]
    /\ old' = [old EXCEPT ![i] = @ \ kinds]

\* Deletes the old objects of these kinds, whichever instance created them.
DeleteKindsOlder(i, kinds) ==
    /\ res' = [j \in Instance |-> res[j] \ (old[j] \cap kinds)]
    /\ old' = [j \in Instance |-> old[j] \ kinds]

\* A tick of the reaper: pods, configmaps, services; a call that fails, or
\* the end of the process, ends the pass.
CleanContainersKubernetes(i, kinds) ==
    /\ Started(i)
    /\ kinds \in {{"pod"}, {"pod", "configmap"}, Kind}
    /\ DeleteKindsOlder(i, kinds)
    /\ UNCHANGED <<holder, fresh, main, elect, timer, exit, missed>>

----------------------------------------------------------------------------
Next ==
    \/ Expire
    \/ \E i \in Instance :
         Age(i) \/ \E kinds \in SUBSET Kind : CleanContainersKubernetes(i, kinds)
    \/ \E i \in Instance :
         \/ Acquire(i) \/ SendReady(i) \/ Run(i) \/ Serve(i) \/ LoseLease(i)
         \/ TimerFires(i) \/ TimeoutExit(i) \/ Crash(i)
         \/ Signal(i) \/ Release(i) \/ DeleteWithKubedockID(i) \/ Exit(i)

Spec == Init /\ [][Next]_vars

\* A process that is not killed keeps running, timers fire, objects grow old,
\* and the calls of a pass of the reaper do not fail for ever.
Fairness ==
    \A i \in Instance :
        /\ WF_vars(Acquire(i)) /\ WF_vars(SendReady(i)) /\ WF_vars(Run(i))
        /\ WF_vars(TimerFires(i)) /\ WF_vars(TimeoutExit(i))
        /\ WF_vars(DeleteWithKubedockID(i)) /\ WF_vars(Exit(i))
        /\ WF_vars(Age(i)) /\ WF_vars(CleanContainersKubernetes(i, Kind))

FairSpec == Spec /\ Fairness

----------------------------------------------------------------------------
\* Properties

\* Of two instances that serve requests at the same time, one has seen its
\* lease go: it failed to renew it in time, or it is shutting down.
OneLeaseholderServes ==
    \A i, j \in Instance :
        i # j /\ Serving(i) /\ Serving(j) =>
            elect[i] = "stopped" \/ elect[j] = "stopped"

\* At most one instance serves requests (README.md: "kubedock can lock the
\* namespace while it's running").
LockIsExclusive ==
    \A i, j \in Instance : Serving(i) /\ Serving(j) => i = j

\* What an instance stopped by a signal leaves behind is no more than its exit
\* handler could not have deleted: an object whose deletion failed, or one that
\* a request still at work created after the handler was done with its kind.
\* The server is not stopped first (README.md: "Kubedock will also delete all
\* the resources (services and pods) it created in the running instance before
\* exiting").
ExitLeavesOnlyMissed ==
    \A i \in Instance : exit[i] = "done" => res[i] \subseteq missed[i]

\* An instance that waits for the lock gets as far as starting its server, or
\* ends: the lock timeout may race the acquisition, but no order of the two
\* leaves the process waiting for ever.
CandidateIsSettled ==
    \A i \in Instance : main[i] = "candidate" ~> (Started(i) \/ ~Alive(i))

\* What an instance that crashed, timed out or was stopped left behind is gone
\* in the end, if some instance that got the lock keeps running (README.md:
\* resources that "are not owned by the running process, it will delete them
\* 15 minutes after the initial reap interval").
LeftoversAreReaped ==
    (\E j \in Instance : <>[]Started(j)) =>
        \A i \in Instance : ~Alive(i) ~> res[i] = {}

=============================================================================
