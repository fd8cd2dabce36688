------------------------ MODULE NamespaceLockProofs ------------------------
(* Proofs about NamespaceLock, for any set of instances. *)
EXTENDS NamespaceLock, TLAPS

\* An instance that renews the lease holds it and keeps it fresh.
RenewerHolds ==
    \A i \in Instance :
        Alive(i) /\ elect[i] = "renewing" => holder = i /\ fresh

\* An instance that got past waiting has acquired the lease at some time.
LeaderAcquired ==
    \A i \in Instance :
        main[i] \in {"leading", "running", "serving", "deaf"} => elect[i] # "acquiring"

\* The inductive invariant.  The exclusion follows from who holds the lease,
\* and TypeOK alone does not say that.
LockInv == TypeOK /\ RenewerHolds /\ LeaderAcquired

\* LockInv holds initially.
LEMMA LockInvInit == Init => LockInv
  <1>1. Init => TypeOK
    <2> SUFFICES ASSUME Init PROVE TypeOK
      OBVIOUS
    <2>1. fresh \in BOOLEAN
      BY Zenon DEF Init
    <2>2. /\ holder \in Instance \cup {NoInstance}
          /\ res \in [Instance -> SUBSET Kind]
          /\ old \in [Instance -> SUBSET Kind]
          /\ missed \in [Instance -> SUBSET Kind]
      BY DEF Init
    <2> QED BY <2>1, <2>2 DEF Init, TypeOK
  <1>2. Init => RenewerHolds /\ LeaderAcquired
    BY DEF Init, RenewerHolds, LeaderAcquired
  <1> QED BY <1>1, <1>2 DEF LockInv

\* LockInv is kept by every step.
LEMMA LockInvNext == LockInv /\ [Next]_vars => LockInv'
  <1> SUFFICES ASSUME LockInv, [Next]_vars PROVE LockInv'
    OBVIOUS
  <1> USE InstanceAssumption DEF LockInv, TypeOK, RenewerHolds, LeaderAcquired, Alive
  <1>1. CASE Expire
    BY <1>1 DEF Expire
  <1>2. ASSUME NEW i \in Instance, Acquire(i) PROVE LockInv'
    BY <1>2 DEF Acquire
  <1>3. ASSUME NEW i \in Instance, SendReady(i) PROVE LockInv'
    BY <1>3 DEF SendReady
  <1>4. ASSUME NEW i \in Instance, Run(i) PROVE LockInv'
    <2>1. res' \in [Instance -> SUBSET Kind] /\ old' \in [Instance -> SUBSET Kind]
      BY <1>4 DEF Run, DeleteAll
    <2>2. PICK to \in {"serving", "deaf"} : main' = [main EXCEPT ![i] = to]
      BY <1>4 DEF Run
    <2> QED BY <1>4, <2>1, <2>2 DEF Run
  <1>5. ASSUME NEW i \in Instance, Serve(i) PROVE LockInv'
    <2>1. missed' \in [Instance -> SUBSET Kind]
      BY <1>5, ConfigAssumption DEF Serve
    <2>2. res' \in [Instance -> SUBSET Kind]
      BY <1>5, ConfigAssumption DEF Serve
    <2> QED BY <1>5, <2>1, <2>2 DEF Serve
  <1>6. ASSUME NEW i \in Instance, LoseLease(i) PROVE LockInv'
    BY <1>6 DEF LoseLease
  <1>7. ASSUME NEW i \in Instance, TimerFires(i) PROVE LockInv'
    BY <1>7 DEF TimerFires
  <1>8. ASSUME NEW i \in Instance, TimeoutExit(i) \/ Crash(i) \/ Exit(i) PROVE LockInv'
    BY <1>8 DEF TimeoutExit, Crash, Exit
  <1>9. ASSUME NEW i \in Instance, Signal(i) PROVE LockInv'
    BY <1>9 DEF Signal
  <1>10. ASSUME NEW i \in Instance, Release(i) PROVE LockInv'
    BY <1>10 DEF Release
  <1>11. ASSUME NEW i \in Instance, DeleteWithKubedockID(i) PROVE LockInv'
    <2>1. ASSUME NEW at, NEW kind, NEW next \in {"configmaps", "pods", "done"},
                 DeleteKind(i, at, kind, next)
          PROVE  LockInv'
      <3>1. /\ res' \in [Instance -> SUBSET Kind] /\ old' \in [Instance -> SUBSET Kind]
            /\ missed' \in [Instance -> SUBSET Kind]
        BY <2>1 DEF DeleteKind
      <3> QED BY <2>1, <3>1 DEF DeleteKind
    <2> QED BY <1>11, <2>1 DEF DeleteWithKubedockID
  <1>12. ASSUME NEW i \in Instance, Age(i) PROVE LockInv'
    BY <1>12 DEF Age
  <1>13. ASSUME NEW i \in Instance, NEW kinds, CleanContainersKubernetes(i, kinds)
         PROVE  LockInv'
    BY <1>13 DEF CleanContainersKubernetes, DeleteKindsOlder
  <1>14. CASE UNCHANGED vars
    BY <1>14 DEF vars
  <1> QED
    BY <1>1, <1>2, <1>3, <1>4, <1>5, <1>6, <1>7, <1>8, <1>9, <1>10, <1>11, <1>12,
       <1>13, <1>14
    DEF Next

\* Type correctness, for any number of instances.
THEOREM LockTypeCorrect == Spec => []TypeOK
  <1>1. LockInv => TypeOK
    BY DEF LockInv
  <1> QED
    BY <1>1, LockInvInit, LockInvNext, PTL DEF Spec

\* Two instances serve at the same time only after one of them lost or gave
\* up its lease: leader election as main.go uses it excludes nothing more.
THEOREM LockExcludesLeaseholders == Spec => []OneLeaseholderServes
  <1>1. LockInv => OneLeaseholderServes
    BY DEF LockInv, TypeOK, RenewerHolds, LeaderAcquired, Alive, Serving, OneLeaseholderServes
  <1> QED
    BY <1>1, LockInvInit, LockInvNext, PTL DEF Spec

----------------------------------------------------------------------------
\* Of the kinds the exit handler is done with, there is only what it missed.
ExitProgress ==
    \A i \in Instance : \A k \in Kind : Passed(i, k) /\ k \in res[i] => k \in missed[i]

\* Where the exit handler is done with a kind.
LEMMA PassedMeans ==
    ASSUME NEW i
    PROVE  /\ Passed(i, "service") <=> exit[i] \in {"configmaps", "pods", "done"}
           /\ Passed(i, "configmap") <=> exit[i] \in {"pods", "done"}
           /\ Passed(i, "pod") <=> exit[i] = "done"
  BY DEF Passed

\* The same of the next state.
LEMMA PassedMeansNext ==
    ASSUME NEW i
    PROVE  /\ Passed(i, "service")' <=> exit'[i] \in {"configmaps", "pods", "done"}
           /\ Passed(i, "configmap")' <=> exit'[i] \in {"pods", "done"}
           /\ Passed(i, "pod")' <=> exit'[i] = "done"
  BY DEF Passed

\* No step leaves more behind the exit handler than it missed.
LEMMA ExitProgressNext ==
    ASSUME LockInv, ExitProgress, [Next]_vars
    PROVE  ExitProgress'
  <1> USE DEF LockInv, TypeOK
  <1>1. ASSUME UNCHANGED exit, \A j \in Instance : res'[j] \subseteq res[j], UNCHANGED missed
        PROVE  ExitProgress'
    BY <1>1 DEF ExitProgress, Passed
  <1>2. CASE Expire
    BY <1>1, <1>2 DEF Expire
  <1>3. ASSUME NEW i \in Instance,
               \/ Acquire(i) \/ SendReady(i) \/ LoseLease(i) \/ TimerFires(i)
               \/ TimeoutExit(i) \/ Crash(i) \/ Exit(i) \/ Release(i) \/ Age(i)
        PROVE  ExitProgress'
    BY <1>1, <1>3
    DEF Acquire, SendReady, LoseLease, TimerFires, TimeoutExit, Crash, Exit, Release, Age
  <1>4. ASSUME NEW i \in Instance, Run(i) PROVE ExitProgress'
    BY <1>1, <1>4 DEF Run, DeleteAll
  <1>5. ASSUME NEW i \in Instance, Serve(i) PROVE ExitProgress'
    \* What a request creates behind the handler is missed.
    <2>1. PICK k \in Made \ res[i] :
            /\ res' = [res EXCEPT ![i] = @ \cup {k}]
            /\ missed' = IF Passed(i, k) THEN [missed EXCEPT ![i] = @ \cup {k}] ELSE missed
      BY <1>5 DEF Serve
    <2>2. exit' = exit
      BY <1>5 DEF Serve
    <2>3. \A j \in Instance : \A l \in Kind : Passed(j, l)' <=> Passed(j, l)
      BY <2>2 DEF Passed
    <2>4. \A j \in Instance : /\ missed[j] \subseteq missed'[j]
                             /\ \A l \in Kind : l \in res'[j] => l \in res[j] \/ (j = i /\ l = k)
      BY <2>1
    <2>5. Passed(i, k) => k \in missed'[i]
      BY <2>1
    <2> QED BY <2>3, <2>4, <2>5 DEF ExitProgress
  <1>6. ASSUME NEW i \in Instance, Signal(i) PROVE ExitProgress'
    <2>1. \A j \in Instance : \A k \in Kind : Passed(j, k)' => Passed(j, k)
      BY <1>6, PassedMeans, PassedMeansNext DEF Signal, Kind
    <2> QED BY <1>6, <2>1 DEF Signal, ExitProgress
  <1>7. ASSUME NEW i \in Instance, DeleteWithKubedockID(i) PROVE ExitProgress'
    \* The one kind the handler gets past is deleted or missed.
    <2>1. ASSUME NEW at, NEW kind \in Kind, NEW next, DeleteKind(i, at, kind, next),
                 \A k \in Kind \ {kind} : Passed(i, k)' => Passed(i, k)
          PROVE  ExitProgress'
      <3>1. \A j \in Instance \ {i} : \A k \in Kind :
              /\ Passed(j, k)' <=> Passed(j, k)
              /\ res'[j] = res[j] /\ missed'[j] = missed[j]
        BY <2>1 DEF DeleteKind, Passed
      <3>2. /\ \A k \in Kind : k \in res'[i] => k \in res[i]
            /\ \A k \in Kind : k \in missed[i] => k \in missed'[i]
            /\ kind \in res'[i] => kind \in missed'[i]
        BY <2>1 DEF DeleteKind
      <3> QED BY <2>1, <3>1, <3>2 DEF ExitProgress
    <2>2. CASE DeleteKind(i, "services", "service", "configmaps")
      <3>1. \A k \in Kind \ {"service"} : Passed(i, k)' => Passed(i, k)
        BY <2>2, PassedMeansNext DEF DeleteKind, Kind
      <3> QED BY <2>1, <2>2, <3>1 DEF Kind
    <2>3. CASE DeleteKind(i, "configmaps", "configmap", "pods")
      <3>1. \A k \in Kind \ {"configmap"} : Passed(i, k)' => Passed(i, k)
        BY <2>3, PassedMeans, PassedMeansNext DEF DeleteKind, Kind
      <3> QED BY <2>1, <2>3, <3>1 DEF Kind
    <2>4. CASE DeleteKind(i, "pods", "pod", "done")
      <3>1. \A k \in Kind \ {"pod"} : Passed(i, k)' => Passed(i, k)
        BY <2>4, PassedMeans, PassedMeansNext DEF DeleteKind, Kind
      <3> QED BY <2>1, <2>4, <3>1 DEF Kind
    <2> QED BY <1>7, <2>2, <2>3, <2>4 DEF DeleteWithKubedockID
  <1>8. ASSUME NEW i \in Instance, NEW kinds, CleanContainersKubernetes(i, kinds)
        PROVE  ExitProgress'
    BY <1>1, <1>8 DEF CleanContainersKubernetes, DeleteKindsOlder
  <1>9. CASE UNCHANGED vars
    BY <1>1, <1>9 DEF vars
  <1> QED
    BY <1>2, <1>3, <1>4, <1>5, <1>6, <1>7, <1>8, <1>9 DEF Next

\* An instance that is told to stop leaves no more behind than the objects
\* whose deletion failed and those its server created behind the exit handler's
\* back, whatever the other instances, their reapers and their leases do
\* meanwhile (exitHandler and DeleteWithKubedockID).
THEOREM ExitAlwaysLeavesOnlyMissed == Spec => []ExitLeavesOnlyMissed
  <1>1. Init => ExitProgress
    BY DEF Init, ExitProgress
  <1>2. LockInv /\ ExitProgress /\ [Next]_vars => ExitProgress'
    BY ExitProgressNext
  <1>3. LockInv /\ ExitProgress => ExitLeavesOnlyMissed
    BY PassedMeans DEF LockInv, TypeOK, ExitProgress, ExitLeavesOnlyMissed, Kind
  <1> QED
    BY <1>1, <1>2, <1>3, LockInvInit, LockInvNext, PTL DEF Spec

=============================================================================
