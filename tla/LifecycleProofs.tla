-------------------------- MODULE LifecycleProofs --------------------------
(***************************************************************************)
(* What holds of Lifecycle for any containers, requests, names and bounds,  *)
(* failing kubernetes calls included.                                       *)
(*                                                                          *)
(* Type correctness needs no more.  The rest is about requests of which no  *)
(* two on one container overlap, and is proved from three facts about a     *)
(* handler: it changes nothing of another container (Local), it follows the *)
(* arcs of its control flow (Flow, Moves), and it is alone on its container *)
(* (Exclusive).  With them a flag of the record has a settled value, which  *)
(* changes in the one step in which a handler decides on its assignments,   *)
(* and not while it makes them (Same, Ahead).                               *)
(*                                                                          *)
(* The last part is about the namespace.  If besides pods go promptly, no   *)
(* two containers claim one service name and no kubernetes call fails, the  *)
(* record tells the truth about the namespace, and Lifecycle implements     *)
(* ContainerService.  Each of these conditions is needed: without any one   *)
(* of them TLC finds a behaviour that breaks the conclusion.                *)
(***************************************************************************)
EXTENDS LifecycleRefinement, TLAPS

ReqType == [op : OpNames \cup {"none"}, c : Container \cup {NoContainer},
            pc : PC, dup : BOOLEAN, state : DeployState, todo : SUBSET Alias,
            writes : Seq(Write), watch : Watch]

\* A handler at work is about a container that was created; one that assigns
\* flags has an assignment left.
Sensible(q) ==
    /\ q.pc # "idle" => q.c \in created
    /\ q.pc = "write" => q.writes # <<>>

ReqOK == req \in [Request -> ReqType] /\ \A r \in Request : Sensible(req[r])

\* The inductive invariant: type correctness alone does not say that a
\* handler can only save or delete what was created.
TypeInv == TypeOK /\ ReqOK

----------------------------------------------------------------------------
\* The fields of a request determine its type.
LEMMA ReqFields ==
    ASSUME NEW op0 \in OpNames \cup {"none"}, NEW c0 \in Container \cup {NoContainer},
           NEW pc0 \in PC, NEW dup0 \in BOOLEAN, NEW state0 \in DeployState,
           NEW todo0 \in SUBSET Alias, NEW writes0 \in Seq(Write), NEW watch0 \in Watch
    PROVE  [op |-> op0, c |-> c0, pc |-> pc0, dup |-> dup0, state |-> state0,
            todo |-> todo0, writes |-> writes0, watch |-> watch0] \in ReqType
  BY DEF ReqType

\* The idle request is well typed.
LEMMA IdleType == Idle \in ReqType
  <1>1. /\ "none" \in OpNames \cup {"none"} /\ NoContainer \in Container \cup {NoContainer}
        /\ "idle" \in PC /\ FALSE \in BOOLEAN /\ "none" \in DeployState
        /\ "none" \in Watch
    BY DEF PC, DeployState, Watch
  <1>2. <<>> \in Seq(Write)
    OBVIOUS
  <1>3. {} \in SUBSET Alias
    OBVIOUS
  <1> QED BY <1>1, <1>2, <1>3, ReqFields, Zenon DEF Idle

\* The fields of the idle request.
LEMMA IdleFields ==
    /\ Idle.op = "none" /\ Idle.c = NoContainer /\ Idle.pc = "idle"
    /\ Idle.dup = FALSE /\ Idle.state = "none" /\ Idle.todo = {}
    /\ Idle.writes = <<>> /\ Idle.watch = "none"
  BY Zenon DEF Idle

\* A flag and its value are an assignment.
LEMMA WriteType ==
    ASSUME NEW f \in Flag, NEW b \in BOOLEAN
    PROVE  <<f, b>> \in Write
  BY DEF Write

\* The end of an operation has assignments to make.
LEMMA EndWritesType ==
    ASSUME NEW op
    PROVE  EndWrites(op) \in Seq(Write) /\ EndWrites(op) # <<>>
  <1>1. /\ <<"Killed", TRUE>> \in Write /\ <<"Running", FALSE>> \in Write
        /\ <<"Completed", FALSE>> \in Write /\ <<"Stopped", TRUE>> \in Write
    BY WriteType DEF Flag
  <1>2. ASSUME NEW a \in Write, NEW b \in Write, NEW c \in Write
        PROVE  <<a, b, c>> \in Seq(Write) /\ <<a, b, c>> # <<>>
    OBVIOUS
  <1> QED BY <1>1, <1>2 DEF EndWrites

\* So has the end of a start.
LEMMA StartWritesType ==
    ASSUME NEW state
    PROVE  StartWrites(state) \in Seq(Write) /\ StartWrites(state) # <<>>
  <1>1. /\ <<"Stopped", FALSE>> \in Write /\ <<"Killed", FALSE>> \in Write
        /\ <<"Failed", FALSE>> \in Write
        /\ <<"Completed", state = "completed">> \in Write
        /\ <<"Running", state = "running">> \in Write
    <2>1. (state = "completed") \in BOOLEAN /\ (state = "running") \in BOOLEAN
      OBVIOUS
    <2> QED BY <2>1, WriteType, Zenon DEF Flag
  <1>2. ASSUME NEW a \in Write, NEW b \in Write, NEW c \in Write,
               NEW d \in Write, NEW e \in Write
        PROVE  <<a, b, c, d, e>> \in Seq(Write) /\ <<a, b, c, d, e>> # <<>>
    OBVIOUS
  <1> QED BY <1>1, <1>2, Zenon DEF StartWrites

\* The assignments of UpdateContainerStatus.
LEMMA PollWritesType ==
    /\ <<<<"Failed", TRUE>>>> \in Seq(Write) /\ <<<<"Failed", TRUE>>>> # <<>>
    /\ <<<<"Completed", TRUE>>, <<"Running", FALSE>>>> \in Seq(Write)
    /\ <<<<"Completed", TRUE>>, <<"Running", FALSE>>>> # <<>>
  <1>1. /\ <<"Failed", TRUE>> \in Write /\ <<"Completed", TRUE>> \in Write
        /\ <<"Running", FALSE>> \in Write
    BY WriteType DEF Flag
  <1>2. ASSUME NEW a \in Write, NEW b \in Write
        PROVE  /\ <<a>> \in Seq(Write) /\ <<a>> # <<>>
               /\ <<a, b>> \in Seq(Write) /\ <<a, b>> # <<>>
    OBVIOUS
  <1> QED BY <1>1, <1>2

----------------------------------------------------------------------------
\* What a handler's step does to its own record, by the way the step ends.
LEMMA ReqUpdate ==
    ASSUME ReqOK, created' = created, NEW r \in Request, NEW q \in ReqType,
           Sensible(q), req' = [req EXCEPT ![r] = q]
    PROVE  ReqOK'
  BY DEF ReqOK, Sensible

\* Goto keeps the requests well formed.
LEMMA GotoKeeps ==
    ASSUME ReqOK, created' = created, NEW r \in Request, req[r].pc # "idle",
           NEW pc \in PC \ {"write"}, Goto(r, pc)
    PROVE  ReqOK'
  <1> DEFINE q == [req[r] EXCEPT !.pc = pc]
  <1>1. q \in ReqType /\ Sensible(q)
    BY DEF ReqOK, ReqType, Sensible
  <1>2. req' = [req EXCEPT ![r] = q]
    BY DEF Goto
  <1> HIDE DEF q
  <1> QED BY <1>1, <1>2, ReqUpdate

\* So does Return.
LEMMA ReturnKeeps ==
    ASSUME ReqOK, created' = created, NEW r \in Request, Return(r)
    PROVE  ReqOK'
  <1>1. Sensible(Idle)
    BY IdleFields DEF Sensible
  <1> QED BY <1>1, IdleType, ReqUpdate DEF Return

\* So does turning to a sequence of assignments that is not empty.
LEMMA AssignKeeps ==
    ASSUME ReqOK, created' = created, NEW r \in Request, req[r].pc # "idle",
           NEW ws \in Seq(Write), ws # <<>>, Assign(r, ws)
    PROVE  ReqOK'
  <1> DEFINE q == [req[r] EXCEPT !.pc = "write", !.writes = ws]
  <1>1. q \in ReqType /\ Sensible(q)
    <2>1. req[r] \in ReqType /\ req[r].c \in created
      BY DEF ReqOK, Sensible
    <2>2. q \in ReqType
      BY <2>1 DEF ReqType, PC
    <2>3. q.c = req[r].c /\ q.writes = ws
      BY <2>1 DEF ReqType
    <2> QED BY <2>1, <2>2, <2>3 DEF Sensible
  <1>2. req' = [req EXCEPT ![r] = q]
    BY DEF Assign
  <1> HIDE DEF q
  <1> QED BY <1>1, <1>2, ReqUpdate

\* So does the arrival of a request.
LEMMA BeginKeeps ==
    ASSUME TypeInv, NEW r \in Request, NEW op \in OpNames, NEW c \in Container,
           NEW pc \in PC, NEW ws \in Seq(Write), pc = "write" => ws # <<>>,
           Begin(r, op, c, pc, ws)
    PROVE  TypeInv'
  <1> DEFINE q == [Idle EXCEPT !.op = op, !.c = c, !.pc = pc, !.writes = ws]
  <1>1. c \in created /\ created' = created
    BY DEF TypeInv, TypeOK, Begin, recVars
  <1>2. q \in ReqType /\ q.c = c /\ q.pc = pc /\ q.writes = ws
    BY IdleType DEF ReqType
  <1>3. req' = [req EXCEPT ![r] = q]
    BY DEF Begin
  <1> HIDE DEF q
  <1>4. ReqOK'
    BY <1>1, <1>2, <1>3, ReqUpdate DEF TypeInv, Sensible
  <1>5. issued' \in 0..MaxOps
    BY BoundAssumption DEF TypeInv, TypeOK, Begin
  <1>6. UNCHANGED <<rec, created, db, aged, pod, svc, cm, event, faults>>
    BY DEF Begin, recVars, kubVars
  <1> QED BY <1>4, <1>5, <1>6 DEF TypeInv, TypeOK, ReqOK, ReqType

\* A kubernetes call fails or does not.
LEMMA FaultType ==
    ASSUME TypeOK, Fault \/ NoFault
    PROVE  faults' \in 0..MaxFaults
  BY BoundAssumption DEF TypeOK, Fault, NoFault

\* TypeInv after a handler's step, from its parts.
LEMMA StepParts ==
    ASSUME TypeInv, EnvUnchanged, ReqOK', faults' \in 0..MaxFaults,
           rec' \in [Container -> [Flag -> BOOLEAN]], db' \subseteq created,
           pod' \in [Container -> [phase : Phase, terminating : BOOLEAN]],
           \A c \in Container : pod'[c].terminating => pod'[c].phase # "none",
           svc' \in [Alias -> Container \cup {NoContainer}], cm' \subseteq Container,
           event' \in [Container -> {"none", "start", "die"}]
    PROVE  TypeInv'
  BY DEF TypeInv, TypeOK, ReqOK, ReqType, EnvUnchanged

\* The common case: no more than the handler's own record changes.
LEMMA StepKeeps ==
    ASSUME TypeInv, EnvUnchanged, ReqOK', Fault \/ NoFault,
           UNCHANGED <<rec, db, pod, svc, cm, event>>
    PROVE  TypeInv'
  BY StepParts, FaultType DEF TypeInv, TypeOK

\* An update of one pod.
LEMMA PodUpdate ==
    ASSUME TypeOK, NEW c \in Container, NEW p \in [phase : Phase, terminating : BOOLEAN],
           p.terminating => p.phase # "none", pod' = [pod EXCEPT ![c] = p]
    PROVE  /\ pod' \in [Container -> [phase : Phase, terminating : BOOLEAN]]
           /\ \A d \in Container : pod'[d].terminating => pod'[d].phase # "none"
  BY DEF TypeOK

\* The deletion of a pod.
LEMMA TerminateType ==
    ASSUME TypeOK, NEW c \in Container, Terminate(c)
    PROVE  /\ pod' \in [Container -> [phase : Phase, terminating : BOOLEAN]]
           /\ \A d \in Container : pod'[d].terminating => pod'[d].phase # "none"
  <1>1. pod[c] \in [phase : Phase, terminating : BOOLEAN]
    BY DEF TypeOK
  <1>2. (pod[c].phase # "none") \in BOOLEAN
    OBVIOUS
  <1> DEFINE b == pod[c].phase # "none"
             p == [pod[c] EXCEPT !.terminating = b]
  <1>3. pod' = [pod EXCEPT ![c] = p]
    BY DEF Terminate
  <1>4. p \in [phase : Phase, terminating : BOOLEAN] /\ p.phase = pod[c].phase
        /\ p.terminating = b
    BY <1>1, <1>2, Zenon
  <1> HIDE DEF p
  <1>5. p.terminating => p.phase # "none"
    BY <1>4
  <1> QED BY <1>3, <1>4, <1>5 DEF TypeOK

----------------------------------------------------------------------------
\* TypeInv holds initially.
LEMMA TypeInvInit == Init => TypeInv
  <1> SUFFICES ASSUME Init PROVE TypeInv
    OBVIOUS
  <1>1. ReqOK
    BY IdleType, IdleFields DEF Init, ReqOK, Sensible
  <1>2. rec \in [Container -> [Flag -> BOOLEAN]]
    BY DEF Init
  <1>3. pod \in [Container -> [phase : Phase, terminating : BOOLEAN]]
        /\ \A c \in Container : pod[c].terminating => pod[c].phase # "none"
    BY DEF Init, NoPod, Phase
  <1>4. svc \in [Alias -> Container \cup {NoContainer}]
    BY DEF Init
  <1>5. event \in [Container -> {"none", "start", "die"}]
    BY DEF Init
  <1>6. issued \in 0..MaxOps /\ faults \in 0..MaxFaults
    BY BoundAssumption DEF Init
  <1>7. created \subseteq Container /\ db \subseteq created /\ aged \subseteq created
        /\ cm \subseteq Container
    BY DEF Init
  <1> QED BY <1>1, <1>2, <1>3, <1>4, <1>5, <1>6, <1>7 DEF TypeInv, TypeOK, ReqOK, ReqType

\* The first step of every handler.
LEMMA ArriveKeepsType ==
    ASSUME TypeInv, NEW r \in Request, Arrive(r) PROVE TypeInv'
  <1>e. <<>> \in Seq(Write)
    OBVIOUS
  <1> USE EndWritesType, <1>e
  <1>p. {"publish", "configmap", "create", "write", "delservices", "watch",
         "dbdelete", "poll"} \subseteq PC
    BY DEF PC
  <1>o. /\ "start" \in OpNames /\ "attach" \in OpNames /\ "stop" \in OpNames /\ "kill" \in OpNames
        /\ "restart" \in OpNames /\ "delete" \in OpNames /\ "wait" \in OpNames
        /\ "inspect" \in OpNames /\ "reap" \in OpNames
    BY DEF OpNames
  <1>1. ASSUME NEW c \in Container, ContainerStart(r, c) PROVE TypeInv'
    <2>1. ASSUME NEW pc \in PC \ {"write"}, Begin(r, "start", c, pc, <<>>) PROVE TypeInv'
      BY <1>o, <2>1, BeginKeeps
    <2> QED BY <1>1, <1>p, <2>1 DEF ContainerStart, StartPc
  <1>8. ASSUME NEW c \in Container, ContainerAttach(r, c) PROVE TypeInv'
    BY <1>8, <1>p, <1>o, BeginKeeps DEF ContainerAttach, StartPc
  <1>2. ASSUME NEW c \in Container, ContainerStop(r, c) PROVE TypeInv'
    BY <1>2, <1>p, <1>o, BeginKeeps DEF ContainerStop
  <1>3. ASSUME NEW c \in Container, ContainerKill(r, c) PROVE TypeInv'
    BY <1>3, <1>p, <1>o, BeginKeeps DEF ContainerKill
  <1>4. ASSUME NEW c \in Container, ContainerRestart(r, c) PROVE TypeInv'
    BY <1>4, <1>p, <1>o, BeginKeeps DEF ContainerRestart
  <1>5. ASSUME NEW c \in Container, ContainerDelete(r, c) PROVE TypeInv'
    BY <1>5, <1>p, <1>o, BeginKeeps DEF ContainerDelete
  <1>6. ASSUME NEW c \in Container, ContainerWait(r, c) \/ ContainerInfo(r, c) PROVE TypeInv'
    BY <1>6, <1>p, <1>o, BeginKeeps DEF ContainerWait, ContainerInfo
  <1>7. ASSUME NEW c \in Container, CleanContainers(r, c) PROVE TypeInv'
    BY <1>7, <1>p, <1>o, BeginKeeps DEF CleanContainers
  <1> QED BY <1>1, <1>2, <1>3, <1>4, <1>5, <1>6, <1>7, <1>8 DEF Arrive

\* The container of a handler at work.
LEMMA WorkerContainer ==
    ASSUME TypeInv, NEW r \in Request, req[r].pc # "idle"
    PROVE  Tainr(r) \in created /\ Tainr(r) \in Container /\ req[r] \in ReqType
  BY DEF TypeInv, TypeOK, ReqOK, Sensible, Tainr

\* The backend's DeleteContainer, and the database's.
LEMMA DeleteStepsKeepType ==
    ASSUME TypeInv, NEW r \in Request,
           DeleteServices(r) \/ DeleteConfigMaps(r) \/ DeletePods(r) \/ DeleteRecord(r)
    PROVE  TypeInv'
  <1>p. "delconfigmaps" \in PC \ {"write"} /\ "delpods" \in PC \ {"write"}
        /\ "dbdelete" \in PC \ {"write"} /\ "publish" \in PC \ {"write"}
    BY DEF PC
  <1>c. EnvUnchanged /\ created' = created /\ req[r].pc # "idle"
    BY DEF DeleteServices, DeleteConfigMaps, DeletePods, DeleteRecord, EnvUnchanged, At
  <1>w. Tainr(r) \in created /\ Tainr(r) \in Container
    BY <1>c, WorkerContainer
  <1>1. CASE DeleteServices(r)
    <2>1. ReqOK'
      BY <1>1, <1>p, <1>c, GotoKeeps DEF TypeInv, DeleteServices
    <2>2. svc' \in [Alias -> Container \cup {NoContainer}] /\ (Fault \/ NoFault)
      BY <1>1 DEF TypeInv, TypeOK, DeleteServices
    <2>3. UNCHANGED <<rec, db, pod, cm, event>>
      BY <1>1 DEF DeleteServices
    <2> QED BY <1>c, <2>1, <2>2, <2>3, FaultType, StepParts DEF TypeInv, TypeOK
  <1>2. CASE DeleteConfigMaps(r)
    <2>1. ReqOK'
      BY <1>2, <1>p, <1>c, GotoKeeps DEF TypeInv, DeleteConfigMaps
    <2>2. cm' \subseteq Container /\ (Fault \/ NoFault)
      BY <1>2 DEF TypeInv, TypeOK, DeleteConfigMaps
    <2>3. UNCHANGED <<rec, db, pod, svc, event>>
      BY <1>2 DEF DeleteConfigMaps
    <2> QED BY <1>c, <2>1, <2>2, <2>3, FaultType, StepParts DEF TypeInv, TypeOK
  <1>3. CASE DeletePods(r)
    <2>1. ReqOK'
      <3>1. \/ Goto(r, "dbdelete") \/ Goto(r, "publish")
            \/ Assign(r, EndWrites(req[r].op))
        BY <1>3 DEF DeletePods, AfterDelete
      <3> QED BY <3>1, <1>p, <1>c, GotoKeeps, AssignKeeps, EndWritesType DEF TypeInv
    <2>2. /\ pod' \in [Container -> [phase : Phase, terminating : BOOLEAN]]
          /\ \A d \in Container : pod'[d].terminating => pod'[d].phase # "none"
          /\ Fault \/ NoFault
      <3>1. CASE Terminate(Tainr(r)) /\ NoFault
        BY <3>1, <1>w, TerminateType DEF TypeInv
      <3>2. CASE pod' = pod /\ Fault
        BY <3>2 DEF TypeInv, TypeOK
      <3> QED BY <1>3, <3>1, <3>2 DEF DeletePods
    <2>3. UNCHANGED <<rec, db, svc, cm, event>>
      BY <1>3 DEF DeletePods
    <2> QED BY <1>c, <2>1, <2>2, <2>3, FaultType, StepParts DEF TypeInv, TypeOK
  <1>4. CASE DeleteRecord(r)
    <2>1. ReqOK'
      BY <1>4, <1>c, ReturnKeeps DEF TypeInv, DeleteRecord
    <2>2. UNCHANGED <<rec, pod, svc, cm, event>> /\ NoFault /\ db' \subseteq created
      BY <1>4 DEF DeleteRecord, kubVars, NoFault, TypeInv, TypeOK
    <2> QED BY <1>c, <2>1, <2>2, FaultType, StepParts DEF TypeInv, TypeOK
  <1> QED BY <1>1, <1>2, <1>3, <1>4

\* The backend's StartContainer.
LEMMA StartStepsKeepType ==
    ASSUME TypeInv, NEW r \in Request,
           \/ CreateConfigMap(r) \/ CreatePod(r) \/ AwaitInit(r) \/ TouchDone(r)
           \/ AwaitReady(r) \/ CreateServices(r) \/ GetPodIP(r) \/ Rollback(r)
    PROVE  TypeInv'
  <1>p. "create" \in PC \ {"write"} /\ "rollback" \in PC \ {"write"}
        /\ "touch" \in PC \ {"write"} /\ "await" \in PC \ {"write"}
        /\ "copy" \in PC \ {"write"} /\ "podip" \in PC \ {"write"}
        /\ "services" \in PC \ {"write"}
    BY DEF PC
  <1>c. EnvUnchanged /\ created' = created /\ req[r].pc # "idle"
    BY DEF CreateConfigMap, CreatePod, AwaitInit, TouchDone, AwaitReady,
           CreateServices, GetPodIP, Rollback, EnvUnchanged, At
  <1>w. Tainr(r) \in created /\ Tainr(r) \in Container /\ req[r] \in ReqType
    BY <1>c, WorkerContainer
  <1>q. ReqOK /\ TypeOK
    BY DEF TypeInv
  <1>f. Failed(r) => ReqOK'
    BY <1>p, <1>c, <1>q, GotoKeeps DEF Failed
  <1>1. CASE CreateConfigMap(r)
    <2>1. ReqOK'
      BY <1>1, <1>p, <1>c, <1>q, <1>f, GotoKeeps DEF CreateConfigMap
    <2>2. cm' \subseteq Container /\ (Fault \/ NoFault)
      BY <1>1, <1>w, <1>q DEF TypeOK, CreateConfigMap
    <2>3. UNCHANGED <<rec, db, pod, svc, event>>
      BY <1>1 DEF CreateConfigMap
    <2> QED BY <1>c, <1>q, <2>1, <2>2, <2>3, FaultType, StepParts DEF TypeOK
  <1>2. CASE CreatePod(r)
    <2> DEFINE next == IF Tainr(r) \in Setup THEN "copy" ELSE "await"
               q == [req[r] EXCEPT !.pc = next, !.dup = TRUE]
    <2>n. next \in PC \ {"write"}
      BY <1>p
    <2>1. ReqOK'
      <3>1. Goto(r, next) \/ Failed(r) \/ req' = [req EXCEPT ![r] = q]
        BY <1>2 DEF CreatePod
      <3> HIDE DEF next
      <3>2. q \in ReqType /\ q.pc = next /\ q.c = Tainr(r)
        BY <1>w, <2>n DEF ReqType, Tainr
      <3> HIDE DEF q
      <3>3. Sensible(q)
        BY <1>w, <2>n, <3>2 DEF Sensible
      <3> QED BY <3>1, <3>2, <3>3, <2>n, <1>c, <1>q, <1>f, GotoKeeps, ReqUpdate
    <2>2. /\ pod' \in [Container -> [phase : Phase, terminating : BOOLEAN]]
          /\ \A d \in Container : pod'[d].terminating => pod'[d].phase # "none"
      <3>1. CASE pod' = pod
        BY <1>q, <3>1 DEF TypeOK
      <3>2. ASSUME NEW ph \in {"pending", "starting"},
                   pod' = [pod EXCEPT ![Tainr(r)] = [phase |-> ph, terminating |-> FALSE]]
            PROVE  /\ pod' \in [Container -> [phase : Phase, terminating : BOOLEAN]]
                   /\ \A d \in Container : pod'[d].terminating => pod'[d].phase # "none"
        BY <1>q, <1>w, <3>2, PodUpdate DEF Phase
      <3> QED BY <1>2, <3>1, <3>2 DEF CreatePod
    <2>3. UNCHANGED <<rec, db, svc, cm, event>> /\ (Fault \/ NoFault)
      BY <1>2 DEF CreatePod
    <2> QED BY <1>c, <1>q, <2>1, <2>2, <2>3, FaultType, StepParts DEF TypeOK
  <1>3. CASE AwaitInit(r)
    <2>1. ReqOK' /\ (Fault \/ NoFault)
      BY <1>3, <1>p, <1>c, <1>q, <1>f, GotoKeeps DEF AwaitInit
    <2>2. UNCHANGED <<rec, db, pod, svc, cm, event>>
      BY <1>3 DEF AwaitInit, kubVars
    <2> QED BY <1>c, <2>1, <2>2, StepKeeps
  <1>4. CASE TouchDone(r)
    <2>1. ReqOK' /\ (Fault \/ NoFault)
      BY <1>4, <1>p, <1>c, <1>q, <1>f, GotoKeeps DEF TouchDone
    <2>2. /\ pod' \in [Container -> [phase : Phase, terminating : BOOLEAN]]
          /\ \A d \in Container : pod'[d].terminating => pod'[d].phase # "none"
      <3>1. CASE pod' = pod
        BY <1>q, <3>1 DEF TypeOK
      <3>2. CASE pod' = [pod EXCEPT ![Tainr(r)].phase = "initdone"]
        BY <1>q, <1>w, <3>2 DEF TypeOK, Phase
      <3> QED BY <1>4, <3>1, <3>2 DEF TouchDone
    <2>3. UNCHANGED <<rec, db, svc, cm, event>>
      BY <1>4 DEF TouchDone
    <2> QED BY <1>c, <1>q, <2>1, <2>2, <2>3, FaultType, StepParts DEF TypeOK
  <1>5. CASE AwaitReady(r)
    <2> DEFINE p == pod[Tainr(r)].phase
               q == [req[r] EXCEPT !.pc = "services", !.state = p,
                                   !.todo = ServiceAliases[Tainr(r)]]
    <2>1. \/ p \in {"running", "completed"} /\ req' = [req EXCEPT ![r] = q]
          \/ Failed(r)
      BY <1>5 DEF AwaitReady
    <2>2. ServiceAliases[Tainr(r)] \in SUBSET Alias
      BY <1>w, ShapeAssumption
    <2>3. ASSUME p \in {"running", "completed"} PROVE q \in ReqType /\ Sensible(q)
      BY <1>w, <1>p, <1>q, <2>2, <2>3 DEF ReqType, Sensible, DeployState, Tainr, ReqOK
    <2>4. ReqOK'
      <3> HIDE DEF p, q
      <3> QED BY <1>c, <1>q, <1>f, <2>1, <2>3, ReqUpdate
    <2>5. UNCHANGED <<rec, db, pod, svc, cm, event>> /\ (Fault \/ NoFault)
      BY <1>5 DEF AwaitReady, kubVars
    <2> QED BY <1>c, <2>4, <2>5, StepKeeps
  <1>6. CASE CreateServices(r)
    <2>1. ASSUME NEW a \in req[r].todo,
                 req' = [req EXCEPT ![r].todo = @ \ {a}]
          PROVE  ReqOK'
      <3> DEFINE q == [req[r] EXCEPT !.todo = @ \ {a}]
      <3>1. q \in ReqType /\ Sensible(q) /\ req' = [req EXCEPT ![r] = q]
        BY <1>w, <1>q, <2>1 DEF ReqType, Sensible, ReqOK
      <3> HIDE DEF q
      <3> QED BY <1>c, <1>q, <3>1, ReqUpdate
    <2>2. ReqOK' /\ (Fault \/ NoFault)
      BY <1>6, <1>p, <1>c, <1>q, <2>1, GotoKeeps, ReturnKeeps DEF CreateServices
    <2>3. svc' \in [Alias -> Container \cup {NoContainer}]
      BY <1>6, <1>w, <1>q DEF TypeOK, CreateServices
    <2>4. UNCHANGED <<rec, db, pod, cm, event>>
      BY <1>6 DEF CreateServices
    <2> QED BY <1>c, <1>q, <2>2, <2>3, <2>4, FaultType, StepParts DEF TypeOK
  <1>7. CASE GetPodIP(r)
    <2>1. ReqOK' /\ (Fault \/ NoFault)
      BY <1>7, <1>c, <1>q, AssignKeeps, ReturnKeeps, StartWritesType DEF GetPodIP
    <2>2. UNCHANGED <<rec, db, pod, svc, cm, event>>
      BY <1>7 DEF GetPodIP, kubVars
    <2> QED BY <1>c, <2>1, <2>2, StepKeeps
  <1>8. CASE Rollback(r)
    <2>1. ReqOK' /\ (Fault \/ NoFault)
      BY <1>8, <1>c, <1>q, ReturnKeeps DEF Rollback
    <2>2. /\ pod' \in [Container -> [phase : Phase, terminating : BOOLEAN]]
          /\ \A d \in Container : pod'[d].terminating => pod'[d].phase # "none"
      <3>1. CASE Terminate(Tainr(r))
        BY <3>1, <1>w, <1>q, TerminateType
      <3>2. CASE pod' = pod
        BY <3>2, <1>q DEF TypeOK
      <3> QED BY <1>8, <3>1, <3>2 DEF Rollback
    <2>3. UNCHANGED <<rec, db, svc, cm, event>>
      BY <1>8 DEF Rollback
    <2> QED BY <1>c, <1>q, <2>1, <2>2, <2>3, FaultType, StepParts DEF TypeOK
  <1> QED BY <1>1, <1>2, <1>3, <1>4, <1>5, <1>6, <1>7, <1>8

\* The rest of the handlers.
LEMMA HandlerStepsKeepType ==
    ASSUME TypeInv, NEW r \in Request,
           \/ AssignFlag(r) \/ SaveContainer(r) \/ Publish(r) \/ WatchDelete(r)
           \/ AwaitDeleted(r) \/ UpdateContainerStatus(r) \/ CheckEnded(r)
           \/ ClientLeaves(r)
    PROVE  TypeInv'
  <1>p. {"check", "save", "publish", "awaitdeleted", "dbdelete", "delservices",
         "configmap", "create", "poll"} \subseteq PC \ {"write"}
        /\ "write" \in PC /\ "check" # "write" /\ "save" # "write"
    BY DEF PC
  <1>c. EnvUnchanged /\ created' = created /\ req[r].pc # "idle"
    BY DEF AssignFlag, SaveContainer, Publish, WatchDelete, AwaitDeleted,
           UpdateContainerStatus, CheckEnded, ClientLeaves, EnvUnchanged, At
  <1>w. Tainr(r) \in created /\ Tainr(r) \in Container /\ req[r] \in ReqType
    BY <1>c, WorkerContainer
  <1>q. ReqOK /\ TypeOK /\ Sensible(req[r])
    BY DEF TypeInv, ReqOK
  <1>1. CASE AssignFlag(r)
    <2> DEFINE ws == req[r].writes
               pc == CASE Tail(ws) # <<>> -> "write"
                       [] Tail(ws) = <<>> /\ req[r].op \in {"wait", "inspect"} -> "check"
                       [] OTHER -> "save"
               q == [req[r] EXCEPT !.writes = Tail(ws), !.pc = pc]
    <2>1. ws \in Seq(Write) /\ ws # <<>>
      BY <1>1, <1>q, <1>w DEF AssignFlag, At, Sensible, ReqType
    <2>2. Head(ws) \in Write /\ Tail(ws) \in Seq(Write)
      BY <2>1
    <2>3. pc \in PC /\ (pc = "write" => Tail(ws) # <<>>)
      BY <1>p
    <2>4. req' = [req EXCEPT ![r] = q]
      BY <1>1 DEF AssignFlag
    <2>5. rec' = [rec EXCEPT ![Tainr(r)][Head(ws)[1]] = Head(ws)[2]]
      BY <1>1 DEF AssignFlag
    <2> HIDE DEF ws, pc
    <2>6. q \in ReqType /\ q.pc = pc /\ q.writes = Tail(ws) /\ q.c = Tainr(r)
      BY <1>w, <2>2, <2>3 DEF ReqType, Tainr
    <2> HIDE DEF q
    <2>7. ReqOK'
      BY <1>c, <1>q, <1>w, <2>3, <2>4, <2>6, ReqUpdate DEF Sensible
    <2>8. Head(ws)[1] \in Flag /\ Head(ws)[2] \in BOOLEAN
      BY <2>2 DEF Write
    <2>9. rec' \in [Container -> [Flag -> BOOLEAN]]
      BY <1>q, <1>w, <2>5, <2>8 DEF TypeOK
    <2>10. UNCHANGED <<db, pod, svc, cm, event>> /\ NoFault
      BY <1>1 DEF AssignFlag, kubVars, NoFault
    <2> QED BY <1>c, <1>q, <2>7, <2>9, <2>10, FaultType, StepParts DEF TypeOK
  <1>2. CASE SaveContainer(r)
    <2>1. Goto(r, "publish") \/ Goto(r, "awaitdeleted") \/ Return(r)
      BY <1>2 DEF SaveContainer
    <2>2. ReqOK'
      BY <1>c, <1>p, <1>q, <2>1, GotoKeeps, ReturnKeeps
    <2>3. UNCHANGED <<rec, pod, svc, cm, event>> /\ NoFault /\ db' \subseteq created
      BY <1>2, <1>w, <1>q DEF SaveContainer, kubVars, NoFault, TypeOK
    <2> QED BY <1>c, <1>q, <2>2, <2>3, FaultType, StepParts DEF TypeOK
  <1>3. CASE Publish(r)
    <2>1. Goto(r, "dbdelete") \/ Return(r)
      BY <1>3 DEF Publish
    <2>2. ReqOK'
      BY <1>c, <1>p, <1>q, <2>1, GotoKeeps, ReturnKeeps
    <2>3. event' \in [Container -> {"none", "start", "die"}]
      BY <1>3, <1>w, <1>q DEF Publish, TypeOK
    <2>4. UNCHANGED <<rec, db, pod, svc, cm>> /\ NoFault
      BY <1>3 DEF Publish, kubVars, NoFault
    <2> QED BY <1>c, <1>q, <2>2, <2>3, <2>4, FaultType, StepParts DEF TypeOK
  <1>4. CASE WatchDelete(r)
    <2>1. ASSUME NEW w \in {"armed", "nil"},
                 req' = [req EXCEPT ![r].pc = "delservices", ![r].watch = w]
          PROVE  ReqOK'
      <3> DEFINE q == [req[r] EXCEPT !.pc = "delservices", !.watch = w]
      <3>1. q \in ReqType /\ Sensible(q) /\ req' = [req EXCEPT ![r] = q]
        BY <1>c, <1>w, <1>q, <1>p, <2>1 DEF ReqType, Sensible, Watch
      <3> HIDE DEF q
      <3> QED BY <1>c, <1>q, <3>1, ReqUpdate
    <2>2. ReqOK' /\ (Fault \/ NoFault)
      BY <1>4, <2>1 DEF WatchDelete
    <2>3. UNCHANGED <<rec, db, pod, svc, cm, event>>
      BY <1>4 DEF WatchDelete, kubVars
    <2> QED BY <1>c, <2>2, <2>3, StepKeeps
  <1>5. CASE AwaitDeleted(r)
    <2>1. Goto(r, "configmap") \/ Goto(r, "create")
      BY <1>5 DEF AwaitDeleted, StartPc
    <2>2. ReqOK'
      BY <1>c, <1>p, <1>q, <2>1, GotoKeeps
    <2>3. UNCHANGED <<rec, db, pod, svc, cm, event>> /\ NoFault
      BY <1>5 DEF AwaitDeleted, kubVars, NoFault
    <2> QED BY <1>c, <2>2, <2>3, StepKeeps
  <1>6. CASE UpdateContainerStatus(r)
    <2>1. /\ \/ Return(r) \/ Goto(r, "check")
             \/ Assign(r, <<<<"Failed", TRUE>>>>)
             \/ Assign(r, <<<<"Completed", TRUE>>, <<"Running", FALSE>>>>)
          /\ Fault \/ NoFault
      BY <1>6, Zenon DEF UpdateContainerStatus
    <2>2. ReqOK'
      BY <1>c, <1>p, <1>q, <2>1, GotoKeeps, ReturnKeeps, AssignKeeps, PollWritesType
    <2>3. UNCHANGED <<rec, db, pod, svc, cm, event>>
      BY <1>6 DEF UpdateContainerStatus, kubVars
    <2> QED BY <1>c, <2>1, <2>2, <2>3, StepKeeps
  <1>7. CASE CheckEnded(r) \/ ClientLeaves(r)
    <2>1. Return(r) \/ Goto(r, "poll")
      BY <1>7 DEF CheckEnded, ClientLeaves
    <2>2. ReqOK'
      BY <1>c, <1>p, <1>q, <2>1, GotoKeeps, ReturnKeeps
    <2>3. UNCHANGED <<rec, db, pod, svc, cm, event>> /\ NoFault
      BY <1>7 DEF CheckEnded, ClientLeaves, kubVars, NoFault
    <2> QED BY <1>c, <2>2, <2>3, StepKeeps
  <1> QED BY <1>1, <1>2, <1>3, <1>4, <1>5, <1>6, <1>7

\* Kubernetes, time and new containers.
LEMMA EnvironmentKeepsType ==
    ASSUME TypeInv, Environment PROVE TypeInv'
  <1>1. ASSUME NEW c \in Container, ContainerCreate(c) PROVE TypeInv'
    BY <1>1 DEF ContainerCreate, TypeInv, TypeOK, ReqOK, Sensible, kubVars
  <1>2. ASSUME NEW c \in Container, PodProgress(c) PROVE TypeInv'
    <2>1. UNCHANGED <<rec, created, db, aged, svc, cm, req, event, issued, faults>>
      BY <1>2 DEF PodProgress, recVars
    <2>2. PICK p \in Phase : /\ p # "none"
                             /\ pod' = [pod EXCEPT ![c].phase = p]
      BY <1>2 DEF PodProgress
    <2>3. /\ pod' \in [Container -> [phase : Phase, terminating : BOOLEAN]]
          /\ \A d \in Container : pod'[d].terminating => pod'[d].phase # "none"
      BY <2>2 DEF TypeInv, TypeOK
    <2> QED BY <2>1, <2>3 DEF TypeInv, TypeOK, ReqOK, Sensible
  <1>3. ASSUME NEW c \in Container, PodGone(c) PROVE TypeInv'
    <2>1. UNCHANGED <<rec, created, db, aged, svc, cm, event, issued, faults>>
      BY <1>3 DEF PodGone, recVars
    <2>2. ASSUME NEW r \in Request
          PROVE  /\ req'[r] \in ReqType
                 /\ req'[r].pc = req[r].pc /\ req'[r].c = req[r].c
                 /\ req'[r].writes = req[r].writes
      BY <1>3 DEF PodGone, TypeInv, ReqOK, ReqType, Watch
    <2>3. ReqOK'
      BY <1>3, <2>1, <2>2 DEF PodGone, TypeInv, ReqOK, Sensible
    <2>4. /\ pod' \in [Container -> [phase : Phase, terminating : BOOLEAN]]
          /\ \A d \in Container : pod'[d].terminating => pod'[d].phase # "none"
      BY <1>3 DEF PodGone, TypeInv, TypeOK, NoPod, Phase
    <2> QED BY <2>1, <2>3, <2>4 DEF TypeInv, TypeOK, ReqOK, ReqType
  <1>4. ASSUME NEW c \in Container, Age(c) PROVE TypeInv'
    BY <1>4 DEF Age, TypeInv, TypeOK, ReqOK, Sensible, kubVars
  <1> QED BY <1>1, <1>2, <1>3, <1>4 DEF Environment

\* TypeInv is kept by every step.
LEMMA TypeInvNext == TypeInv /\ [Next]_vars => TypeInv'
  <1>1. CASE UNCHANGED vars
    BY <1>1 DEF vars, TypeInv, TypeOK, ReqOK, Sensible
  <1> QED BY <1>1, ArriveKeepsType, DeleteStepsKeepType, StartStepsKeepType,
             HandlerStepsKeepType, EnvironmentKeepsType DEF Next, Step

\* TypeInv is an invariant.
LEMMA TypeInvariant == Spec => []TypeInv
  BY TypeInvInit, TypeInvNext, PTL DEF Spec

----------------------------------------------------------------------------
\* Type correctness: whatever overlaps and fails, handlers only save, delete
\* and mark terminating what was created and what exists.
THEOREM LifecycleTypeCorrect == Spec => []TypeOK
  <1>1. TypeInv => TypeOK
    BY DEF TypeInv
  <1> QED BY <1>1, TypeInvariant, PTL

----------------------------------------------------------------------------
\* The container a handler works on, and what of the state is about it.
Untouched(c) ==
    /\ rec'[c] = rec[c] /\ pod'[c] = pod[c] /\ event'[c] = event[c]
    /\ (c \in db' <=> c \in db) /\ (c \in cm' <=> c \in cm)
    /\ (c \in created' <=> c \in created)
    /\ \A a \in Alias : svc'[a] = c <=> svc[a] = c

\* A handler's step changes no other handler, and nothing of a container
\* other than its own; it keeps its container until it ends.
Local(r) ==
    /\ \A q \in Request \ {r} : req'[q] = req[q]
    /\ req'[r] = Idle \/ (req'[r].c = req[r].c /\ req'[r].pc # "idle")
    /\ \A c \in Container \ {Tainr(r)} : Untouched(c)

\* The ways in which a handler goes on, none of which changes another one.
LEMMA OwnStep ==
    ASSUME TypeInv, NEW r \in Request, req[r].pc # "idle",
           \/ Return(r)
           \/ \E pc \in PC \ {"idle"} : Goto(r, pc)
           \/ \E ws \in Seq(Write) : Assign(r, ws)
           \/ \E q \in ReqType : /\ q.c = req[r].c /\ q.pc # "idle"
                                 /\ req' = [req EXCEPT ![r] = q]
    PROVE  /\ \A q \in Request \ {r} : req'[q] = req[q]
           /\ req'[r] = Idle \/ (req'[r].c = req[r].c /\ req'[r].pc # "idle")
  BY DEF TypeInv, ReqOK, ReqType, Return, Goto, Assign

\* The steps of a deletion are local.
LEMMA DeleteStepsAreLocal ==
    ASSUME TypeInv, NEW r \in Request,
           DeleteServices(r) \/ DeleteConfigMaps(r) \/ DeletePods(r) \/ DeleteRecord(r)
    PROVE  Local(r)
  <1>c. EnvUnchanged /\ created' = created /\ req[r].pc # "idle"
    BY DEF DeleteServices, DeleteConfigMaps, DeletePods, DeleteRecord, EnvUnchanged, At
  <1>w. Tainr(r) \in created /\ Tainr(r) \in Container /\ TypeOK
    BY <1>c, WorkerContainer DEF TypeInv
  <1>p. {"delconfigmaps", "delpods", "dbdelete", "publish"} \subseteq PC \ {"idle"}
    BY DEF PC
  <1> USE ContainerAssumption
  <1>1. CASE DeleteServices(r)
    <2>1. \A c \in Container \ {Tainr(r)} : Untouched(c)
      BY <1>1, <1>c, <1>w DEF DeleteServices, Untouched, TypeOK
    <2> QED BY <1>1, <1>c, <1>p, <2>1, OwnStep DEF DeleteServices, Local
  <1>2. CASE DeleteConfigMaps(r)
    <2>1. \A c \in Container \ {Tainr(r)} : Untouched(c)
      BY <1>2, <1>c, <1>w DEF DeleteConfigMaps, Untouched
    <2> QED BY <1>2, <1>c, <1>p, <2>1, OwnStep DEF DeleteConfigMaps, Local
  <1>3. CASE DeletePods(r)
    <2>1. \A c \in Container \ {Tainr(r)} : Untouched(c)
      BY <1>3, <1>c, <1>w DEF DeletePods, Terminate, Untouched, TypeOK
    <2>2. \/ Goto(r, "dbdelete") \/ Goto(r, "publish")
          \/ Assign(r, EndWrites(req[r].op))
      BY <1>3 DEF DeletePods, AfterDelete
    <2> QED BY <1>c, <1>p, <2>1, <2>2, OwnStep, EndWritesType DEF Local
  <1>4. CASE DeleteRecord(r)
    <2>1. \A c \in Container \ {Tainr(r)} : Untouched(c)
      BY <1>4, <1>c, <1>w DEF DeleteRecord, Untouched, kubVars
    <2> QED BY <1>4, <1>c, <1>p, <2>1, OwnStep DEF DeleteRecord, Local
  <1> QED BY <1>1, <1>2, <1>3, <1>4

\* The steps of a start are local.
LEMMA StartStepsAreLocal ==
    ASSUME TypeInv, NEW r \in Request,
           \/ CreateConfigMap(r) \/ CreatePod(r) \/ AwaitInit(r) \/ TouchDone(r)
           \/ AwaitReady(r) \/ CreateServices(r) \/ GetPodIP(r) \/ Rollback(r)
    PROVE  Local(r)
  <1>c. EnvUnchanged /\ created' = created /\ req[r].pc # "idle"
    BY DEF CreateConfigMap, CreatePod, AwaitInit, TouchDone, AwaitReady,
           CreateServices, GetPodIP, Rollback, EnvUnchanged, At
  <1>w. Tainr(r) \in created /\ Tainr(r) \in Container /\ TypeOK /\ req[r] \in ReqType
    BY <1>c, WorkerContainer DEF TypeInv
  <1>p. {"create", "rollback", "touch", "await", "copy", "podip", "services"}
          \subseteq PC \ {"idle"}
    BY DEF PC
  <1>f. Failed(r) => Goto(r, "rollback")
    BY DEF Failed
  <1> USE ContainerAssumption
  <1>1. CASE CreateConfigMap(r)
    <2>1. \A c \in Container \ {Tainr(r)} : Untouched(c)
      BY <1>1, <1>c, <1>w DEF CreateConfigMap, Untouched
    <2> QED BY <1>1, <1>c, <1>p, <1>f, <2>1, OwnStep DEF CreateConfigMap, Local
  <1>2. CASE CreatePod(r)
    <2> DEFINE next == IF Tainr(r) \in Setup THEN "copy" ELSE "await"
               q == [req[r] EXCEPT !.pc = next, !.dup = TRUE]
    <2>1. \A c \in Container \ {Tainr(r)} : Untouched(c)
      BY <1>2, <1>c, <1>w DEF CreatePod, Untouched, TypeOK
    <2>2. Goto(r, next) \/ Failed(r) \/ req' = [req EXCEPT ![r] = q]
      BY <1>2 DEF CreatePod
    <2>3. next \in PC \ {"idle"}
      BY <1>p
    <2> HIDE DEF next
    <2>4. q \in ReqType /\ q.pc # "idle" /\ q.c = req[r].c
      BY <1>w, <2>3 DEF ReqType
    <2> HIDE DEF q
    <2> QED BY <1>c, <1>p, <1>f, <2>1, <2>2, <2>3, <2>4, OwnStep DEF Local
  <1>3. CASE AwaitInit(r)
    <2>1. \A c \in Container \ {Tainr(r)} : Untouched(c)
      BY <1>3, <1>c DEF AwaitInit, Untouched, kubVars
    <2> QED BY <1>3, <1>c, <1>p, <1>f, <2>1, OwnStep DEF AwaitInit, Local
  <1>4. CASE TouchDone(r)
    <2>1. \A c \in Container \ {Tainr(r)} : Untouched(c)
      BY <1>4, <1>c, <1>w DEF TouchDone, Untouched, TypeOK
    <2> QED BY <1>4, <1>c, <1>p, <1>f, <2>1, OwnStep DEF TouchDone, Local
  <1>5. CASE AwaitReady(r)
    <2> DEFINE p == pod[Tainr(r)].phase
               q == [req[r] EXCEPT !.pc = "services", !.state = p,
                                   !.todo = ServiceAliases[Tainr(r)]]
    <2>1. \A c \in Container \ {Tainr(r)} : Untouched(c)
      BY <1>5, <1>c DEF AwaitReady, Untouched, kubVars
    <2>2. \/ p \in {"running", "completed"} /\ req' = [req EXCEPT ![r] = q]
          \/ Failed(r)
      BY <1>5 DEF AwaitReady
    <2>3. ServiceAliases[Tainr(r)] \in SUBSET Alias
      BY <1>w, ShapeAssumption
    <2>4. ASSUME p \in {"running", "completed"}
          PROVE  q \in ReqType /\ q.pc # "idle" /\ q.c = req[r].c
      BY <1>w, <1>p, <2>3, <2>4 DEF ReqType, DeployState
    <2> HIDE DEF p, q
    <2> QED BY <1>c, <1>p, <1>f, <2>1, <2>2, <2>4, OwnStep DEF Local
  <1>6. CASE CreateServices(r)
    <2>1. \A c \in Container \ {Tainr(r)} : Untouched(c)
      BY <1>6, <1>c, <1>w DEF CreateServices, Untouched, TypeOK
    <2>2. ASSUME NEW a \in req[r].todo, req' = [req EXCEPT ![r].todo = @ \ {a}]
          PROVE  Local(r)
      <3> DEFINE q == [req[r] EXCEPT !.todo = @ \ {a}]
      <3>1. /\ q \in ReqType /\ q.pc # "idle" /\ q.c = req[r].c
            /\ req' = [req EXCEPT ![r] = q]
        BY <1>c, <1>w, <2>2 DEF ReqType
      <3> HIDE DEF q
      <3> QED BY <1>c, <2>1, <3>1, OwnStep DEF Local
    <2>3. \/ Return(r) \/ Goto(r, "podip")
          \/ \E a \in req[r].todo : req' = [req EXCEPT ![r].todo = @ \ {a}]
      BY <1>6 DEF CreateServices
    <2> QED BY <1>c, <1>p, <2>1, <2>2, <2>3, OwnStep DEF Local
  <1>7. CASE GetPodIP(r)
    <2>1. \A c \in Container \ {Tainr(r)} : Untouched(c)
      BY <1>7, <1>c DEF GetPodIP, Untouched, kubVars
    <2> QED BY <1>7, <1>c, <2>1, OwnStep, StartWritesType DEF GetPodIP, Local
  <1>8. CASE Rollback(r)
    <2>1. \A c \in Container \ {Tainr(r)} : Untouched(c)
      BY <1>8, <1>c, <1>w DEF Rollback, Terminate, Untouched, TypeOK
    <2> QED BY <1>8, <1>c, <2>1, OwnStep DEF Rollback, Local
  <1> QED BY <1>1, <1>2, <1>3, <1>4, <1>5, <1>6, <1>7, <1>8

\* The other steps of the handlers are local.
LEMMA HandlerStepsAreLocal ==
    ASSUME TypeInv, NEW r \in Request,
           \/ AssignFlag(r) \/ SaveContainer(r) \/ Publish(r) \/ WatchDelete(r)
           \/ AwaitDeleted(r) \/ UpdateContainerStatus(r) \/ CheckEnded(r)
           \/ ClientLeaves(r)
    PROVE  Local(r)
  <1>p. {"check", "save", "publish", "awaitdeleted", "dbdelete", "delservices",
         "configmap", "create", "poll", "write"} \subseteq PC \ {"idle"}
    BY DEF PC
  <1>c. EnvUnchanged /\ created' = created /\ req[r].pc # "idle"
    BY DEF AssignFlag, SaveContainer, Publish, WatchDelete, AwaitDeleted,
           UpdateContainerStatus, CheckEnded, ClientLeaves, EnvUnchanged, At
  <1>w. Tainr(r) \in created /\ Tainr(r) \in Container /\ TypeOK /\ req[r] \in ReqType
        /\ Sensible(req[r])
    BY <1>c, WorkerContainer DEF TypeInv, ReqOK
  <1> USE ContainerAssumption
  <1>1. CASE AssignFlag(r)
    <2> DEFINE ws == req[r].writes
               pc == CASE Tail(ws) # <<>> -> "write"
                       [] Tail(ws) = <<>> /\ req[r].op \in {"wait", "inspect"} -> "check"
                       [] OTHER -> "save"
               q == [req[r] EXCEPT !.writes = Tail(ws), !.pc = pc]
    <2>1. \A c \in Container \ {Tainr(r)} : Untouched(c)
      BY <1>1, <1>c, <1>w DEF AssignFlag, Untouched, TypeOK, kubVars
    <2>2. req' = [req EXCEPT ![r] = q]
      BY <1>1 DEF AssignFlag
    <2>3. Tail(ws) \in Seq(Write)
      BY <1>1, <1>w DEF AssignFlag, At, Sensible, ReqType
    <2>4. pc \in PC \ {"idle"}
      BY <1>p
    <2> HIDE DEF ws, pc
    <2>5. q \in ReqType /\ q.pc # "idle" /\ q.c = req[r].c
      BY <1>w, <2>3, <2>4 DEF ReqType
    <2> HIDE DEF q
    <2> QED BY <1>c, <2>1, <2>2, <2>5, OwnStep DEF Local
  <1>2. CASE SaveContainer(r)
    <2>1. \A c \in Container \ {Tainr(r)} : Untouched(c)
      BY <1>2, <1>c DEF SaveContainer, Untouched, kubVars
    <2>2. Goto(r, "publish") \/ Goto(r, "awaitdeleted") \/ Return(r)
      BY <1>2 DEF SaveContainer
    <2> QED BY <1>c, <1>p, <2>1, <2>2, OwnStep DEF Local
  <1>3. CASE Publish(r)
    <2>1. \A c \in Container \ {Tainr(r)} : Untouched(c)
      BY <1>3, <1>c, <1>w DEF Publish, Untouched, kubVars, TypeOK
    <2> QED BY <1>3, <1>c, <1>p, <2>1, OwnStep DEF Publish, Local
  <1>4. CASE WatchDelete(r)
    <2>1. \A c \in Container \ {Tainr(r)} : Untouched(c)
      BY <1>4, <1>c DEF WatchDelete, Untouched, kubVars
    <2>2. ASSUME NEW w \in {"armed", "nil"},
                 req' = [req EXCEPT ![r].pc = "delservices", ![r].watch = w]
          PROVE  Local(r)
      <3> DEFINE q == [req[r] EXCEPT !.pc = "delservices", !.watch = w]
      <3>1. /\ q \in ReqType /\ q.pc # "idle" /\ q.c = req[r].c
            /\ req' = [req EXCEPT ![r] = q]
        BY <1>w, <1>p, <2>2 DEF ReqType, Watch
      <3> HIDE DEF q
      <3> QED BY <1>c, <2>1, <3>1, OwnStep DEF Local
    <2> QED BY <1>4, <2>2 DEF WatchDelete
  <1>5. CASE AwaitDeleted(r)
    <2>1. \A c \in Container \ {Tainr(r)} : Untouched(c)
      BY <1>5, <1>c DEF AwaitDeleted, Untouched, kubVars
    <2> QED BY <1>5, <1>c, <1>p, <2>1, OwnStep DEF AwaitDeleted, StartPc, Local
  <1>6. CASE UpdateContainerStatus(r)
    <2>1. \A c \in Container \ {Tainr(r)} : Untouched(c)
      BY <1>6, <1>c DEF UpdateContainerStatus, Untouched, kubVars
    <2>2. \/ Return(r) \/ Goto(r, "check")
          \/ Assign(r, <<<<"Failed", TRUE>>>>)
          \/ Assign(r, <<<<"Completed", TRUE>>, <<"Running", FALSE>>>>)
      BY <1>6, Zenon DEF UpdateContainerStatus
    <2> QED BY <1>c, <1>p, <2>1, <2>2, OwnStep, PollWritesType DEF Local
  <1>7. CASE CheckEnded(r) \/ ClientLeaves(r)
    <2>1. \A c \in Container \ {Tainr(r)} : Untouched(c)
      BY <1>7, <1>c DEF CheckEnded, ClientLeaves, Untouched, kubVars
    <2> QED BY <1>7, <1>c, <1>p, <2>1, OwnStep DEF CheckEnded, ClientLeaves, Local
  <1> QED BY <1>1, <1>2, <1>3, <1>4, <1>5, <1>6, <1>7

\* Every step of a handler is local.
LEMMA StepIsLocal ==
    ASSUME TypeInv, NEW r \in Request, Step(r)
    PROVE  Local(r) /\ req[r].pc # "idle" /\ created' = created
  <1>1. Local(r)
    BY DeleteStepsAreLocal, StartStepsAreLocal, HandlerStepsAreLocal DEF Step
  <1>2. req[r].pc # "idle" /\ created' = created
    BY DEF Step, DeleteServices, DeleteConfigMaps, DeletePods, DeleteRecord,
           CreateConfigMap, CreatePod, AwaitInit, TouchDone, AwaitReady, CreateServices,
           GetPodIP, Rollback, AssignFlag, SaveContainer, Publish, WatchDelete,
           AwaitDeleted, UpdateContainerStatus, CheckEnded, ClientLeaves, EnvUnchanged, At
  <1> QED BY <1>1, <1>2

----------------------------------------------------------------------------
\* The control flow of the handlers: which operation may be where, and with
\* which assignments left.
DeletePhase == {"delservices", "delconfigmaps", "delpods"}
StartPhase == {"configmap", "create", "copy", "touch", "await", "services",
               "podip", "rollback"}

\* A sequence of assignments names no flag twice.
Once(ws) == \A i, j \in DOMAIN ws : ws[i][1] = ws[j][1] => i = j

Assigns(ws, w) == \E i \in DOMAIN ws : ws[i] = w

Flow(q) ==
    /\ q.pc = "idle" => q = Idle
    /\ q.pc # "idle" => q.op # "none"
    /\ q.pc \in {"watch", "awaitdeleted"} => q.op = "restart" /\ q.state = "none"
    /\ q.pc \in DeletePhase =>
         q.op \in {"stop", "kill", "restart", "delete", "reap"} /\ q.state = "none"
    /\ q.pc = "dbdelete" => q.op \in {"delete", "reap"}
    /\ q.pc \in StartPhase => q.op \in {"start", "attach", "restart"}
    /\ q.pc \in {"services", "podip"} => q.state \in {"running", "completed"}
    /\ q.pc = "write" => q.op \notin {"delete", "reap"} /\ Once(q.writes)
    /\ q.pc = "write" /\ q.op \in {"wait", "inspect"} => ~Assigns(q.writes, <<"Running", TRUE>>)
    /\ q.pc = "save" => q.op \in {"start", "attach", "stop", "kill", "restart"}
    /\ q.pc = "publish" => q.op \in {"start", "stop", "kill", "delete"}
    /\ q.pc \in {"poll", "check"} => q.op \in {"wait", "inspect"}

FlowInv == \A r \in Request : Flow(req[r])

\* An idle request is where it may be.
LEMMA IdleFlows == Flow(Idle)
  BY IdleFields DEF Flow, StartPhase, DeletePhase

\* The end of an operation assigns no flag twice.
LEMMA EndWritesOnce == ASSUME NEW op PROVE Once(EndWrites(op))
  BY DEF EndWrites, Once

\* Neither does the end of a start.
LEMMA StartWritesOnce == ASSUME NEW state PROVE Once(StartWrites(state))
  BY DEF StartWrites, Once

\* Nor a poll of the status, which never sets Running.
LEMMA PollWritesOnce ==
    /\ Once(<<<<"Failed", TRUE>>>>)
    /\ Once(<<<<"Completed", TRUE>>, <<"Running", FALSE>>>>)
    /\ ~Assigns(<<<<"Failed", TRUE>>>>, <<"Running", TRUE>>)
    /\ ~Assigns(<<<<"Completed", TRUE>>, <<"Running", FALSE>>>>, <<"Running", TRUE>>)
  <1>1. /\ <<"Failed", TRUE>> # <<"Running", TRUE>>
        /\ <<"Completed", TRUE>> # <<"Running", TRUE>>
    OBVIOUS
  <1>2. <<"Running", FALSE>> # <<"Running", TRUE>>
    BY Zenon
  <1>3. ASSUME NEW a, NEW w, w # a PROVE ~Assigns(<<a>>, w)
    BY <1>3 DEF Assigns
  <1>4. ASSUME NEW a, NEW b, NEW w, w # a, w # b PROVE ~Assigns(<<a, b>>, w)
    BY <1>4 DEF Assigns
  <1>5. Once(<<<<"Failed", TRUE>>>>)
    BY DEF Once
  <1>6. Once(<<<<"Completed", TRUE>>, <<"Running", FALSE>>>>)
    BY DEF Once
  <1> QED BY <1>1, <1>2, <1>3, <1>4, <1>5, <1>6

\* What the first assignment leaves to be assigned.
LEMMA TailOnce ==
    ASSUME NEW ws \in Seq(Write), ws # <<>>, Once(ws)
    PROVE  /\ Once(Tail(ws))
           /\ \A w : Assigns(Tail(ws), w) => Assigns(ws, w)
           /\ \A w : Assigns(ws, w) => w = Head(ws) \/ Assigns(Tail(ws), w)
           /\ \A w : Assigns(Tail(ws), w) => w[1] # Head(ws)[1]
           /\ Assigns(ws, Head(ws))
  <1>1. /\ DOMAIN Tail(ws) = 1..(Len(ws) - 1) /\ DOMAIN ws = 1..Len(ws)
        /\ Len(ws) \in Nat /\ Len(ws) >= 1 /\ Head(ws) = ws[1]
        /\ \A i \in 1..(Len(ws) - 1) : Tail(ws)[i] = ws[i + 1]
    OBVIOUS
  <1>2. Once(Tail(ws))
    BY <1>1 DEF Once
  <1>3. ASSUME NEW w, Assigns(Tail(ws), w) PROVE Assigns(ws, w) /\ w[1] # Head(ws)[1]
    <2>1. PICK i \in 1..(Len(ws) - 1) : Tail(ws)[i] = w
      BY <1>1, <1>3 DEF Assigns
    <2>2. i + 1 \in DOMAIN ws /\ ws[i + 1] = w /\ 1 \in DOMAIN ws /\ i + 1 # 1
      BY <1>1, <2>1
    <2> QED BY <1>1, <2>2 DEF Assigns, Once
  <1>4. ASSUME NEW w, Assigns(ws, w) PROVE w = Head(ws) \/ Assigns(Tail(ws), w)
    <2>1. PICK i \in 1..Len(ws) : ws[i] = w
      BY <1>1, <1>4 DEF Assigns
    <2>2. CASE i = 1
      BY <1>1, <2>1, <2>2
    <2>3. CASE i # 1
      <3>1. i - 1 \in DOMAIN Tail(ws) /\ Tail(ws)[i - 1] = w
        BY <1>1, <2>1, <2>3
      <3> QED BY <3>1 DEF Assigns
    <2> QED BY <2>2, <2>3
  <1>5. Assigns(ws, Head(ws))
    BY <1>1 DEF Assigns
  <1> QED BY <1>2, <1>3, <1>4, <1>5

\* FlowInv holds initially.
LEMMA FlowInvInit == Init => FlowInv
  BY IdleFlows DEF Init, FlowInv

\* The fields of a handler's record after a step of its own.
LEMMA GotoFields ==
    ASSUME TypeInv, NEW r \in Request, NEW pc \in PC, Goto(r, pc)
    PROVE  /\ req'[r].pc = pc /\ req'[r].op = req[r].op /\ req'[r].c = req[r].c
           /\ req'[r].dup = req[r].dup /\ req'[r].state = req[r].state
           /\ req'[r].todo = req[r].todo /\ req'[r].writes = req[r].writes
           /\ req'[r].watch = req[r].watch
  BY DEF TypeInv, ReqOK, ReqType, Goto

\* The fields of a request that turns to its assignments.
LEMMA AssignFields ==
    ASSUME TypeInv, NEW r \in Request, NEW ws \in Seq(Write), Assign(r, ws)
    PROVE  /\ req'[r].pc = "write" /\ req'[r].op = req[r].op /\ req'[r].c = req[r].c
           /\ req'[r].dup = req[r].dup /\ req'[r].state = req[r].state
           /\ req'[r].todo = req[r].todo /\ req'[r].writes = ws
           /\ req'[r].watch = req[r].watch
  BY DEF TypeInv, ReqOK, ReqType, Assign

\* A request that returns is idle.
LEMMA ReturnFields ==
    ASSUME TypeInv, NEW r \in Request, Return(r)
    PROVE  req'[r] = Idle
  BY DEF TypeInv, ReqOK, Return

\* A step goes on, at a place where the operation may be.
LEMMA GotoFlows ==
    ASSUME TypeInv, NEW r \in Request, NEW pc \in PC, Goto(r, pc),
           pc \notin {"idle", "write"}, req[r].op # "none",
           pc \in {"watch", "awaitdeleted"} => req[r].op = "restart" /\ req[r].state = "none",
           pc \in DeletePhase =>
             req[r].op \in {"stop", "kill", "restart", "delete", "reap"} /\ req[r].state = "none",
           pc = "dbdelete" => req[r].op \in {"delete", "reap"},
           pc \in StartPhase => req[r].op \in {"start", "attach", "restart"},
           pc \in {"services", "podip"} => req[r].state \in {"running", "completed"},
           pc = "save" => req[r].op \in {"start", "attach", "stop", "kill", "restart"},
           pc = "publish" => req[r].op \in {"start", "stop", "kill", "delete"},
           pc \in {"poll", "check"} => req[r].op \in {"wait", "inspect"}
    PROVE  Flow(req'[r])
  BY GotoFields DEF Flow

\* A request that returns is where it may be.
LEMMA ReturnFlows ==
    ASSUME TypeInv, NEW r \in Request, Return(r)
    PROVE  Flow(req'[r])
  BY ReturnFields, IdleFlows

\* So is one that turns to its assignments.
LEMMA AssignFlows ==
    ASSUME TypeInv, NEW r \in Request, NEW ws \in Seq(Write), Assign(r, ws),
           req[r].op \notin {"none", "delete", "reap"}, Once(ws),
           req[r].op \in {"wait", "inspect"} => ~Assigns(ws, <<"Running", TRUE>>)
    PROVE  Flow(req'[r])
  BY AssignFields DEF Flow, StartPhase, DeletePhase

\* Where AssignFlag goes on.
LEMMA AssignFlagFields ==
    ASSUME TypeInv, FlowInv, NEW r \in Request, AssignFlag(r)
    PROVE  /\ req[r].writes \in Seq(Write) /\ req[r].writes # <<>> /\ Once(req[r].writes)
           /\ req'[r].op = req[r].op /\ req'[r].c = req[r].c
           /\ req'[r].dup = req[r].dup /\ req'[r].state = req[r].state
           /\ req'[r].todo = req[r].todo /\ req'[r].writes = Tail(req[r].writes)
           /\ req'[r].watch = req[r].watch
           /\ req'[r].pc = "write" => Tail(req[r].writes) # <<>>
           /\ req'[r].pc # "write" => Tail(req[r].writes) = <<>>
           /\ req'[r].pc \in {"write", "check", "save"}
           /\ req'[r].pc = "check" => req[r].op \in {"wait", "inspect"}
           /\ req'[r].pc = "save" => req[r].op \in {"start", "attach", "stop", "kill", "restart"}
  <1> DEFINE ws == req[r].writes
             pc == CASE Tail(ws) # <<>> -> "write"
                     [] Tail(ws) = <<>> /\ req[r].op \in {"wait", "inspect"} -> "check"
                     [] OTHER -> "save"
  <1>1. req[r] \in ReqType /\ Sensible(req[r]) /\ Flow(req[r]) /\ req[r].pc = "write"
    BY DEF TypeInv, ReqOK, FlowInv, AssignFlag, At
  <1>2. ws \in Seq(Write) /\ ws # <<>> /\ Once(ws)
    BY <1>1 DEF Sensible, Flow, ReqType
  <1>2a. Tail(ws) \in Seq(Write)
    BY <1>2
  <1>3. /\ pc \in {"write", "check", "save"}
        /\ pc = "write" => Tail(ws) # <<>>
        /\ pc # "write" => Tail(ws) = <<>>
        /\ pc = "check" => req[r].op \in {"wait", "inspect"}
        /\ pc = "save" => req[r].op \notin {"wait", "inspect"}
    OBVIOUS
  <1>4. req[r].op \in OpNames \cup {"none"} /\ req[r].op \notin {"delete", "reap"}
    BY <1>1 DEF ReqType, Flow
  <1>5. req' = [req EXCEPT ![r] = [req[r] EXCEPT !.writes = Tail(ws), !.pc = pc]]
    BY DEF AssignFlag
  <1>6. req'[r] = [req[r] EXCEPT !.writes = Tail(ws), !.pc = pc]
    BY <1>5 DEF TypeInv, ReqOK
  <1> HIDE DEF pc, ws
  <1>7. /\ req'[r].pc = pc /\ req'[r].op = req[r].op /\ req'[r].c = req[r].c
        /\ req'[r].dup = req[r].dup /\ req'[r].state = req[r].state
        /\ req'[r].todo = req[r].todo /\ req'[r].writes = Tail(ws)
        /\ req'[r].watch = req[r].watch
    BY <1>1, <1>6 DEF ReqType
  <1>8. req[r].op # "none"
    BY <1>1 DEF Flow
  <1> QED BY <1>2, <1>3, <1>4, <1>7, <1>8 DEF OpNames, ws

\* So is one that takes a step.
LEMMA StepFlows ==
    ASSUME TypeInv, FlowInv, NEW r \in Request, Step(r)
    PROVE  Flow(req'[r])
  <1>0. Flow(req[r]) /\ req[r] \in ReqType
    BY DEF FlowInv, TypeInv, ReqOK
  <1>p. PC \ {"idle", "write"} = {"delservices", "delconfigmaps", "delpods", "dbdelete",
         "configmap", "create", "copy", "touch", "await", "services", "podip",
         "rollback", "save", "publish", "watch", "awaitdeleted", "poll", "check"}
    BY DEF PC
  <1> USE DEF DeletePhase, StartPhase
  <1>1. CASE DeleteServices(r)
    BY <1>0, <1>1, <1>p, GotoFlows DEF DeleteServices, At, Flow
  <1>2. CASE DeleteConfigMaps(r)
    BY <1>0, <1>2, <1>p, GotoFlows DEF DeleteConfigMaps, At, Flow
  <1>3. CASE DeletePods(r)
    <2>0. req[r].op \in {"stop", "kill", "restart", "delete", "reap"}
      BY <1>0, <1>3 DEF DeletePods, At, Flow
    <2>1. \/ Goto(r, "dbdelete") /\ req[r].op = "reap"
          \/ Goto(r, "publish") /\ req[r].op = "delete"
          \/ Assign(r, EndWrites(req[r].op)) /\ req[r].op \notin {"delete", "reap"}
      BY <1>3, Zenon DEF DeletePods, AfterDelete
    <2> QED BY <2>0, <2>1, <1>p, GotoFlows, AssignFlows, EndWritesType, EndWritesOnce
  <1>4. CASE DeleteRecord(r)
    BY <1>4, ReturnFlows DEF DeleteRecord
  <1>5. CASE CreateConfigMap(r)
    BY <1>0, <1>5, <1>p, GotoFlows DEF CreateConfigMap, Failed, At, Flow
  <1>6. CASE CreatePod(r)
    <2> DEFINE next == IF Tainr(r) \in Setup THEN "copy" ELSE "await"
    <2>0. req[r].op \in {"start", "attach", "restart"} /\ next \in {"copy", "await"}
      BY <1>0, <1>6 DEF CreatePod, At, Flow
    <2>1. \/ Goto(r, next) \/ Goto(r, "rollback")
          \/ req' = [req EXCEPT ![r] = [req[r] EXCEPT !.pc = next, !.dup = TRUE]]
      BY <1>6 DEF CreatePod, Failed
    <2> HIDE DEF next
    <2>2. CASE req' = [req EXCEPT ![r] = [req[r] EXCEPT !.pc = next, !.dup = TRUE]]
      <3>1. req'[r].pc = next /\ req'[r].op = req[r].op
        BY <1>0, <2>2 DEF TypeInv, ReqOK, ReqType
      <3> QED BY <2>0, <3>1 DEF Flow
    <2> QED BY <2>0, <2>1, <2>2, <1>p, GotoFlows
  <1>7. CASE AwaitInit(r)
    BY <1>0, <1>7, <1>p, GotoFlows DEF AwaitInit, Failed, At, Flow
  <1>8. CASE TouchDone(r)
    BY <1>0, <1>8, <1>p, GotoFlows DEF TouchDone, Failed, At, Flow
  <1>9. CASE AwaitReady(r)
    <2> DEFINE p == pod[Tainr(r)].phase
               q == [req[r] EXCEPT !.pc = "services", !.state = p,
                                   !.todo = ServiceAliases[Tainr(r)]]
    <2>0. req[r].op \in {"start", "attach", "restart"}
      BY <1>0, <1>9 DEF AwaitReady, At, Flow
    <2>1. \/ p \in {"running", "completed"} /\ req' = [req EXCEPT ![r] = q]
          \/ Goto(r, "rollback")
      BY <1>9 DEF AwaitReady, Failed
    <2>2. q.pc = "services" /\ q.state = p /\ q.op = req[r].op
      BY <1>0 DEF ReqType
    <2> HIDE DEF p, q
    <2>3. CASE p \in {"running", "completed"} /\ req' = [req EXCEPT ![r] = q]
      <3>1. req'[r] = q
        BY <2>3 DEF TypeInv, ReqOK
      <3> QED BY <2>0, <2>2, <2>3, <3>1 DEF Flow
    <2> QED BY <2>0, <2>1, <2>3, <1>p, GotoFlows
  <1>10. CASE CreateServices(r)
    <2>1. \/ Return(r) \/ Goto(r, "podip")
          \/ \E a \in req[r].todo : req' = [req EXCEPT ![r].todo = @ \ {a}]
      BY <1>10 DEF CreateServices
    <2>2. ASSUME NEW a \in req[r].todo, req' = [req EXCEPT ![r].todo = @ \ {a}]
          PROVE  Flow(req'[r])
      <3>1. /\ req'[r].pc = "services" /\ req'[r].op = req[r].op
            /\ req'[r].state = req[r].state
        BY <1>0, <1>10, <2>2 DEF TypeInv, ReqOK, ReqType, CreateServices, At
      <3> QED BY <1>0, <1>10, <3>1 DEF Flow, CreateServices, At
    <2> QED BY <1>0, <1>10, <1>p, <2>1, <2>2, ReturnFlows, GotoFlows DEF CreateServices, At, Flow
  <1>11. CASE GetPodIP(r)
    <2>1. req[r].op \in {"start", "attach", "restart"}
      BY <1>0, <1>11 DEF GetPodIP, At, Flow
    <2>2. Return(r) \/ Assign(r, StartWrites(req[r].state))
      BY <1>11 DEF GetPodIP
    <2> QED BY <2>1, <2>2, ReturnFlows, AssignFlows, StartWritesType, StartWritesOnce
  <1>12. CASE Rollback(r)
    BY <1>12, ReturnFlows DEF Rollback
  <1>13. CASE AssignFlag(r)
    <2>1. /\ req[r].pc = "write" /\ req[r].op \notin {"none", "delete", "reap"}
          /\ req[r].op \in {"wait", "inspect"} => ~Assigns(req[r].writes, <<"Running", TRUE>>)
      BY <1>0, <1>13 DEF AssignFlag, At, Flow
    <2> QED BY <1>13, <2>1, AssignFlagFields, TailOnce DEF Flow
  <1>14. CASE SaveContainer(r)
    <2>0. req[r].op \in {"start", "attach", "stop", "kill", "restart"}
      BY <1>0, <1>14 DEF SaveContainer, At, Flow
    <2>1. \/ Goto(r, "publish") /\ req[r].op \notin {"restart", "attach"}
          \/ Goto(r, "awaitdeleted") /\ req[r].op = "restart" /\ req[r].state = "none"
          \/ Return(r)
      BY <1>14, Zenon DEF SaveContainer
    <2> QED BY <2>0, <2>1, <1>p, ReturnFlows, GotoFlows
  <1>15. CASE Publish(r)
    BY <1>0, <1>15, <1>p, ReturnFlows, GotoFlows DEF Publish, At, Flow
  <1>16. CASE WatchDelete(r)
    <2>1. /\ req'[r].pc = "delservices" /\ req'[r].op = req[r].op
          /\ req'[r].state = req[r].state
      BY <1>0, <1>16 DEF WatchDelete, TypeInv, ReqOK, ReqType
    <2> QED BY <1>0, <1>16, <2>1 DEF WatchDelete, At, Flow
  <1>17. CASE AwaitDeleted(r)
    BY <1>0, <1>17, <1>p, GotoFlows DEF AwaitDeleted, StartPc, At, Flow
  <1>18. CASE UpdateContainerStatus(r)
    <2>0. req[r].op \in {"wait", "inspect"}
      BY <1>0, <1>18 DEF UpdateContainerStatus, At, Flow
    <2>1. \/ Return(r) \/ Goto(r, "check")
          \/ Assign(r, <<<<"Failed", TRUE>>>>)
          \/ Assign(r, <<<<"Completed", TRUE>>, <<"Running", FALSE>>>>)
      BY <1>18, Zenon DEF UpdateContainerStatus
    <2>2. CASE Assign(r, <<<<"Failed", TRUE>>>>)
      BY <2>0, <2>2, AssignFlows, PollWritesType, PollWritesOnce
    <2>3. CASE Assign(r, <<<<"Completed", TRUE>>, <<"Running", FALSE>>>>)
      BY <2>0, <2>3, AssignFlows, PollWritesType, PollWritesOnce
    <2> QED BY <2>0, <2>1, <2>2, <2>3, <1>p, ReturnFlows, GotoFlows
  <1>19. CASE CheckEnded(r)
    BY <1>0, <1>19, <1>p, ReturnFlows, GotoFlows DEF CheckEnded, At, Flow
  <1>20. CASE ClientLeaves(r)
    BY <1>20, ReturnFlows DEF ClientLeaves
  <1> QED BY <1>1, <1>2, <1>3, <1>4, <1>5, <1>6, <1>7, <1>8, <1>9, <1>10, <1>11, <1>12,
             <1>13, <1>14, <1>15, <1>16, <1>17, <1>18, <1>19, <1>20 DEF Step

\* A request that has arrived: what its handler has found out by then.
Arrived(r, c) ==
    /\ req'[r].c = c /\ ~req'[r].dup /\ req'[r].state = "none"
    /\ req'[r].todo = {} /\ req'[r].watch = "none"
    /\ \/ /\ req'[r].op = "start" /\ req'[r].pc = "publish" 
          /\ rec[c]["Running"] \/ rec[c]["Completed"]
       \/ /\ req'[r].op \in {"start", "attach"} /\ req'[r].pc = StartPc(c)
          /\ ~rec[c]["Running"] /\ ~rec[c]["Completed"]
          /\ PromptDeletion => ~pod[c].terminating
       \/ /\ req'[r].op \in {"stop", "kill"} /\ req'[r].pc = "write" /\ Ended(c)
          /\ req'[r].writes = EndWrites(req'[r].op)
       \/ req'[r].op \in {"stop", "kill", "reap"} /\ req'[r].pc = "delservices"
       \/ req'[r].op = "restart" /\ req'[r].pc = "watch"
       \/ req'[r].op = "delete" /\ req'[r].pc = "dbdelete" /\ Ended(c)
       \/ req'[r].op = "delete" /\ req'[r].pc = "delservices" /\ ~Ended(c)
       \/ req'[r].op \in {"wait", "inspect"} /\ req'[r].pc = "poll"

\* The fields of a request that begins, and what its beginning leaves alone.
LEMMA BeginFields ==
    ASSUME TypeInv, NEW r \in Request, NEW op, NEW c \in Container, NEW pc,
           NEW ws, Begin(r, op, c, pc, ws)
    PROVE  /\ c \in db /\ req[r].pc = "idle" /\ op \in Ops
           /\ Overlap \/ \A q \in Request : Tainr(q) # c
           /\ \A q \in Request \ {r} : req'[q] = req[q]
           /\ req'[r].op = op /\ req'[r].c = c /\ req'[r].pc = pc /\ req'[r].writes = ws
           /\ ~req'[r].dup /\ req'[r].state = "none" /\ req'[r].todo = {}
           /\ req'[r].watch = "none"
           /\ UNCHANGED <<rec, created, db, aged, pod, svc, cm, event, faults>>
  <1>1. req'[r] = [Idle EXCEPT !.op = op, !.c = c, !.pc = pc, !.writes = ws]
    BY DEF Begin, TypeInv, ReqOK
  <1>2. req'[r].op = op /\ req'[r].c = c /\ req'[r].pc = pc /\ req'[r].writes = ws
        /\ ~req'[r].dup /\ req'[r].state = "none" /\ req'[r].todo = {}
        /\ req'[r].watch = "none"
    BY <1>1 DEF Idle
  <1>3. /\ c \in db /\ req[r].pc = "idle" /\ op \in Ops
        /\ Overlap \/ \A q \in Request : Tainr(q) # c
        /\ \A q \in Request \ {r} : req'[q] = req[q]
    BY DEF Begin, At, TypeInv, ReqOK
  <1>4. UNCHANGED <<rec, created, db, aged, pod, svc, cm, event, faults>>
    BY DEF Begin, recVars, kubVars
  <1> QED BY <1>2, <1>3, <1>4

\* The step in which a request on container c arrives.
Arriving(r, c) ==
    /\ c \in db /\ req[r].pc = "idle" /\ req'[r].op \in Ops
    /\ Overlap \/ \A q \in Request : Tainr(q) # c
    /\ \A q \in Request \ {r} : req'[q] = req[q]
    /\ UNCHANGED <<rec, created, db, aged, pod, svc, cm, event, faults>>

\* A request that arrives is about one container.
LEMMA ArriveShape ==
    ASSUME TypeInv, NEW r \in Request, Arrive(r)
    PROVE  \E c \in Container : Arriving(r, c) /\ Arrived(r, c)
  <1>0. PICK c \in Container :
           \/ ContainerStart(r, c) \/ ContainerAttach(r, c)
           \/ ContainerStop(r, c) \/ ContainerKill(r, c)
           \/ ContainerRestart(r, c) \/ ContainerDelete(r, c)
           \/ ContainerWait(r, c) \/ ContainerInfo(r, c) \/ CleanContainers(r, c)
    BY DEF Arrive
  <1> SUFFICES Arriving(r, c) /\ Arrived(r, c)
    OBVIOUS
  <1>b. ASSUME NEW op, NEW pc, NEW ws, Begin(r, op, c, pc, ws)
        PROVE  /\ Arriving(r, c)
               /\ req'[r].c = c /\ ~req'[r].dup /\ req'[r].state = "none"
               /\ req'[r].todo = {} /\ req'[r].watch = "none"
               /\ req'[r].op = op /\ req'[r].pc = pc /\ req'[r].writes = ws
    BY <1>b, BeginFields DEF Arriving
  <1>1. CASE ContainerStart(r, c)
    <2>1. CASE rec[c]["Running"] \/ rec[c]["Completed"]
      <3>1. Begin(r, "start", c, "publish", <<>>)
        BY <1>1, <2>1 DEF ContainerStart
      <3> QED BY <3>1, <2>1, <1>b DEF Arrived
    <2>2. CASE ~(rec[c]["Running"] \/ rec[c]["Completed"])
      <3>1. Begin(r, "start", c, StartPc(c), <<>>) /\ (PromptDeletion => ~pod[c].terminating)
        BY <1>1, <2>2 DEF ContainerStart
      <3> QED BY <3>1, <2>2, <1>b DEF Arrived
    <2> QED BY <2>1, <2>2
  <1>8. CASE ContainerAttach(r, c)
    BY <1>8, <1>b DEF ContainerAttach, Arrived
  <1>2. CASE ContainerStop(r, c)
    BY <1>2, <1>b DEF ContainerStop, Arrived
  <1>3. CASE ContainerKill(r, c)
    BY <1>3, <1>b DEF ContainerKill, Arrived
  <1>4. CASE ContainerRestart(r, c)
    BY <1>4, <1>b DEF ContainerRestart, Arrived
  <1>5. CASE ContainerDelete(r, c)
    <2>1. CASE Ended(c)
      <3>1. Begin(r, "delete", c, "dbdelete", <<>>)
        BY <1>5, <2>1 DEF ContainerDelete
      <3> QED BY <3>1, <2>1, <1>b DEF Arrived
    <2>2. CASE ~Ended(c)
      <3>1. Begin(r, "delete", c, "delservices", <<>>)
        BY <1>5, <2>2 DEF ContainerDelete
      <3> QED BY <3>1, <2>2, <1>b DEF Arrived
    <2> QED BY <2>1, <2>2
  <1>6. CASE ContainerWait(r, c) \/ ContainerInfo(r, c)
    BY <1>6, <1>b DEF ContainerWait, ContainerInfo, Arrived
  <1>7. CASE CleanContainers(r, c)
    BY <1>7, <1>b DEF CleanContainers, Arrived
  <1> QED BY <1>0, <1>1, <1>2, <1>3, <1>4, <1>5, <1>6, <1>7, <1>8

\* A request that arrives is where it may be.
LEMMA ArriveFlows ==
    ASSUME TypeInv, NEW r \in Request, Arrive(r)
    PROVE  Flow(req'[r])
  <1>1. PICK c \in Container : Arrived(r, c)
    BY ArriveShape
  <1>2. StartPc(c) \in {"configmap", "create"}
    BY DEF StartPc
  <1>3. CASE req'[r].pc = "write"
    <2>1. req'[r].op \in {"stop", "kill"} /\ req'[r].writes = EndWrites(req'[r].op)
      BY <1>1, <1>2, <1>3 DEF Arrived
    <2> QED BY <1>3, <2>1, EndWritesOnce DEF Flow, DeletePhase, StartPhase
  <1>4. CASE req'[r].pc # "write"
    <2>1. /\ req'[r].state = "none"
          /\ \/ req'[r].op = "start" /\ req'[r].pc = "publish"
             \/ req'[r].op \in {"start", "attach"} /\ req'[r].pc \in {"configmap", "create"}
             \/ req'[r].op \in {"stop", "kill", "reap", "delete"} /\ req'[r].pc = "delservices"
             \/ req'[r].op = "restart" /\ req'[r].pc = "watch"
             \/ req'[r].op = "delete" /\ req'[r].pc = "dbdelete"
             \/ req'[r].op \in {"wait", "inspect"} /\ req'[r].pc = "poll"
      BY <1>1, <1>2, <1>4 DEF Arrived
    <2> QED BY <2>1 DEF Flow, DeletePhase, StartPhase
  <1> QED BY <1>3, <1>4

\* The environment changes no handler, save for the watches on a pod.
LEMMA EnvironmentFields ==
    ASSUME TypeInv, Environment, NEW r \in Request
    PROVE  /\ req'[r].pc = req[r].pc /\ req'[r].op = req[r].op /\ req'[r].c = req[r].c
           /\ req'[r].dup = req[r].dup /\ req'[r].state = req[r].state
           /\ req'[r].todo = req[r].todo /\ req'[r].writes = req[r].writes
           /\ req'[r] = req[r] \/ (req[r].watch = "armed" /\ req'[r].watch = "closed")
  <1>1. PICK c \in Container : ContainerCreate(c) \/ PodProgress(c) \/ PodGone(c) \/ Age(c)
    BY DEF Environment
  <1>2. CASE ContainerCreate(c) \/ PodProgress(c) \/ Age(c)
    BY <1>2 DEF ContainerCreate, PodProgress, Age
  <1>3. CASE PodGone(c)
    BY <1>3 DEF PodGone, TypeInv, ReqOK, ReqType
  <1> QED BY <1>1, <1>2, <1>3

\* FlowInv is kept by every step.
LEMMA FlowInvNext == TypeInv /\ FlowInv /\ [Next]_vars => FlowInv'
  <1> SUFFICES ASSUME TypeInv, FlowInv, [Next]_vars PROVE FlowInv'
    OBVIOUS
  <1>1. CASE UNCHANGED vars
    BY <1>1 DEF vars, FlowInv
  <1>2. ASSUME NEW r \in Request, Arrive(r) PROVE FlowInv'
    BY <1>2, ArriveShape, ArriveFlows DEF FlowInv, Arriving
  <1>3. ASSUME NEW r \in Request, Step(r) PROVE FlowInv'
    BY <1>3, StepIsLocal, StepFlows DEF FlowInv, Local
  <1>4. CASE Environment
    <2> SUFFICES ASSUME NEW r \in Request PROVE Flow(req'[r])
      BY DEF FlowInv
    <2>1. CASE req'[r] = req[r]
      BY <2>1 DEF FlowInv
    <2>2. CASE req[r].pc # "idle"
      BY <1>4, <2>2, EnvironmentFields DEF FlowInv, Flow
    <2>3. CASE req[r].pc = "idle"
      BY <1>4, <2>3, EnvironmentFields, IdleFields DEF FlowInv, Flow
    <2> QED BY <2>2, <2>3
  <1> QED BY <1>1, <1>2, <1>3, <1>4 DEF Next

\* TypeInv and FlowInv are invariants.
LEMMA FlowInvariant == Spec => [](TypeInv /\ FlowInv)
  BY TypeInvariant, FlowInvInit, FlowInvNext, PTL DEF Spec

----------------------------------------------------------------------------
\* Requests that do not overlap: no two handlers work on the same container.
Exclusive ==
    \A q, r \in Request : Tainr(q) = Tainr(r) /\ ~At(r, "idle") => q = r

\* Requests that do not overlap stay apart.
LEMMA ExclusiveNext ==
    ASSUME ~Overlap PROVE TypeInv /\ FlowInv /\ Exclusive /\ [Next]_vars => Exclusive'
  <1> SUFFICES ASSUME TypeInv, FlowInv, Exclusive, [Next]_vars PROVE Exclusive'
    OBVIOUS
  <1>0. \A r \in Request : req[r].pc = "idle" => req[r].c = NoContainer
    BY IdleFields DEF FlowInv, Flow
  <1>00. \A r \in Request : req[r].pc # "idle" => req[r].c \in Container
    BY WorkerContainer DEF Tainr
  <1>1. CASE UNCHANGED vars
    BY <1>1 DEF vars, Exclusive, Tainr, At
  <1>2. ASSUME NEW r \in Request, Arrive(r) PROVE Exclusive'
    <2>1. PICK c \in Container :
              /\ req'[r].c = c
              /\ \A q \in Request : req[q].c # c
              /\ \A q \in Request \ {r} : req'[q] = req[q]
      BY <1>2, ArriveShape DEF Arriving, Arrived, Tainr
    <2> QED BY <2>1 DEF Exclusive, Tainr, At
  <1>3. ASSUME NEW r \in Request, Step(r) PROVE Exclusive'
    <2>1. Local(r) /\ req[r].pc # "idle"
      BY <1>3, StepIsLocal
    <2> QED BY <2>1, <1>0, <1>00, IdleFields, ContainerAssumption DEF Exclusive, Tainr, At, Local
  <1>4. CASE Environment
    BY <1>4, EnvironmentFields DEF Exclusive, Tainr, At
  <1> QED BY <1>1, <1>2, <1>3, <1>4 DEF Next

\* Initially no request is at work.
LEMMA ExclusiveInit == Init => Exclusive
  BY IdleFields DEF Init, Exclusive, At, Tainr

\* Requests that do not overlap are always apart.
LEMMA ExclusiveInvariant ==
    ASSUME ~Overlap PROVE Spec => [](TypeInv /\ FlowInv /\ Exclusive)
  BY FlowInvariant, ExclusiveInit, ExclusiveNext, PTL DEF Spec

----------------------------------------------------------------------------
\* The flags as they will be (LifecycleRefinement's Settled), from the only
\* handler that may be assigning them.
Names(ws, f) == \E i \in DOMAIN ws : ws[i][1] = f
Sets(ws, f) == \E i \in DOMAIN ws : ws[i][1] = f /\ ws[i][2]

Ahead(ws, flags, f) == IF Names(ws, f) THEN Sets(ws, f) ELSE flags[f]

SettledFacts ==
    /\ \A r \in Request, c \in Container, f \in Flag : At(r, "write") /\ Tainr(r) = c =>
         (Settled(c, f) <=> Ahead(req[r].writes, rec[c], f))
    /\ \A c \in Container, f \in Flag :
         (\A r \in Request : Tainr(r) = c => ~At(r, "write")) => (Settled(c, f) <=> rec[c][f])

\* An assignment is its flag and its value.
LEMMA WriteParts ==
    ASSUME NEW ws \in Seq(Write), NEW i \in DOMAIN ws, NEW f
    PROVE  /\ ws[i] \in Write
           /\ ws[i] = <<f, TRUE>> <=> (ws[i][1] = f /\ ws[i][2])
           /\ ws[i] = <<f, FALSE>> <=> (ws[i][1] = f /\ ~ws[i][2])
  <1>1. ws[i] \in Write
    OBVIOUS
  <1>2. PICK g \in Flag, v \in BOOLEAN : ws[i] = <<g, v>>
    BY <1>1 DEF Write
  <1>3. ws[i][1] = g /\ ws[i][2] = v
    BY <1>2
  <1>b. ASSUME NEW b PROVE ws[i] = <<f, b>> <=> (g = f /\ v = b)
    BY <1>2
  <1>4. ws[i] = <<f, TRUE>> <=> (g = f /\ v = TRUE)
    BY <1>b, Zenon
  <1>5. ws[i] = <<f, FALSE>> <=> (g = f /\ v = FALSE)
    BY <1>b, Zenon
  <1> QED BY <1>1, <1>3, <1>4, <1>5, Zenon

\* What the settled flags of a container are, in each situation of its handler.
LEMMA SettledMeans == TypeInv /\ Exclusive => SettledFacts
  <1> SUFFICES ASSUME TypeInv, Exclusive PROVE SettledFacts
    OBVIOUS
  <1>1. ASSUME NEW r \in Request, NEW f \in Flag, At(r, "write")
        PROVE  Settled(Tainr(r), f) <=> Ahead(req[r].writes, rec[Tainr(r)], f)
    <2> DEFINE ws == req[r].writes
    <2>0. ws \in Seq(Write)
      BY DEF TypeInv, ReqOK, ReqType
    <2>1. ASSUME NEW v \in BOOLEAN
          PROVE  <<f, v>> \in PendingWrites(Tainr(r)) <=> \E i \in DOMAIN ws : ws[i] = <<f, v>>
      <3>1. <<f, v>> \in Write
        BY WriteType
      <3>2. \A q \in Request : Tainr(q) = Tainr(r) => q = r
        BY <1>1 DEF Exclusive, At
      <3> QED BY <1>1, <3>1, <3>2 DEF PendingWrites
    <2> HIDE DEF ws
    <2>w. \A i \in DOMAIN ws : /\ ws[i] = <<f, TRUE>> <=> (ws[i][1] = f /\ ws[i][2])
                               /\ ws[i] = <<f, FALSE>> <=> (ws[i][1] = f /\ ~ws[i][2])
      BY <2>0, WriteParts
    <2>2. <<f, TRUE>> \in PendingWrites(Tainr(r)) <=> Sets(ws, f)
      BY <2>1, <2>w, Zenon DEF Sets
    <2>3. <<f, FALSE>> \in PendingWrites(Tainr(r)) <=>
            \E i \in DOMAIN ws : ws[i][1] = f /\ ~ws[i][2]
      BY <2>1, <2>w, Zenon
    <2>4. (\E v \in BOOLEAN : <<f, v>> \in PendingWrites(Tainr(r))) <=>
             \/ <<f, TRUE>> \in PendingWrites(Tainr(r))
             \/ <<f, FALSE>> \in PendingWrites(Tainr(r))
      BY Zenon
    <2>5. (\E v \in BOOLEAN : <<f, v>> \in PendingWrites(Tainr(r))) <=> Names(ws, f)
      BY <2>2, <2>3, <2>4, Zenon DEF Names, Sets
    <2> QED BY <2>2, <2>5, Zenon DEF Settled, Ahead, Tainr, ws
  <1>2. ASSUME NEW c \in Container, NEW f \in Flag,
               \A r \in Request : Tainr(r) = c => ~At(r, "write")
        PROVE  Settled(c, f) <=> rec[c][f]
    BY <1>2 DEF Settled, PendingWrites
  <1> QED BY <1>1, <1>2 DEF SettledFacts

\* The same after a step.
LEMMA SettledMeansNext == (TypeInv /\ Exclusive)' => SettledFacts'
  BY SettledMeans, PTL

\* What each of the handlers' sequences of assignments amounts to.
LEMMA EndAhead ==
    ASSUME NEW flags, NEW op, NEW ws, ws = EndWrites(op)
    PROVE  /\ ~Ahead(ws, flags, "Running") /\ ~Ahead(ws, flags, "Completed")
           /\ Ahead(ws, flags, "Stopped") \/ Ahead(ws, flags, "Killed")
           /\ Ahead(ws, flags, "Failed") <=> flags["Failed"]
  <1>1. /\ DOMAIN ws = {1, 2, 3}
        /\ op = "kill" =>
             /\ ws[1][1] = "Killed" /\ ws[1][2]
             /\ ws[2][1] = "Running" /\ ~ws[2][2]
             /\ ws[3][1] = "Completed" /\ ~ws[3][2]
        /\ op # "kill" =>
             /\ ws[1][1] = "Running" /\ ~ws[1][2]
             /\ ws[2][1] = "Completed" /\ ~ws[2][2]
             /\ ws[3][1] = "Stopped" /\ ws[3][2]
    BY DEF EndWrites
  <1> QED BY <1>1 DEF Ahead, Names, Sets

\* The flags that the end of a start leads to.
LEMMA StartAhead ==
    ASSUME NEW flags, NEW state, NEW ws, ws = StartWrites(state)
    PROVE  /\ Ahead(ws, flags, "Running") <=> state = "running"
           /\ Ahead(ws, flags, "Completed") <=> state = "completed"
           /\ ~Ahead(ws, flags, "Stopped") /\ ~Ahead(ws, flags, "Killed")
           /\ ~Ahead(ws, flags, "Failed")
  <1> DEFINE done == state = "completed"
             runs == state = "running"
  <1>0. /\ ws = <<<<"Stopped", FALSE>>, <<"Killed", FALSE>>, <<"Failed", FALSE>>,
                       <<"Completed", done>>, <<"Running", runs>>>>
        /\ done \in BOOLEAN /\ runs \in BOOLEAN
    BY DEF StartWrites
  <1> HIDE DEF done, runs
  <1>1. /\ DOMAIN ws = {1, 2, 3, 4, 5}
        /\ ws[1][1] = "Stopped" /\ ~ws[1][2]
        /\ ws[2][1] = "Killed" /\ ~ws[2][2]
        /\ ws[3][1] = "Failed" /\ ~ws[3][2]
        /\ ws[4][1] = "Completed" /\ ws[4][2] = done
        /\ ws[5][1] = "Running" /\ ws[5][2] = runs
    BY <1>0
  <1>2. /\ Ahead(ws, flags, "Running") <=> runs
        /\ Ahead(ws, flags, "Completed") <=> done
        /\ ~Ahead(ws, flags, "Stopped") /\ ~Ahead(ws, flags, "Killed") /\ ~Ahead(ws, flags, "Failed")
    BY <1>0, <1>1 DEF Ahead, Names, Sets
  <1> QED BY <1>2 DEF done, runs

\* The flags that a poll of a failed pod leads to.
LEMMA FailedAhead ==
    ASSUME NEW flags, NEW ws, ws = <<<<"Failed", TRUE>>>>
    PROVE  /\ Ahead(ws, flags, "Failed")
           /\ \A f \in Flag \ {"Failed"} : Ahead(ws, flags, f) <=> flags[f]
  <1>1. DOMAIN ws = {1} /\ ws[1][1] = "Failed" /\ ws[1][2]
    OBVIOUS
  <1>2. /\ Names(ws, "Failed") /\ Sets(ws, "Failed")
        /\ \A f \in Flag \ {"Failed"} : ~Names(ws, f)
    BY <1>1 DEF Names, Sets
  <1> QED BY <1>2, Zenon DEF Ahead

\* The flags that a poll of a completed pod leads to.
LEMMA CompletedAhead ==
    ASSUME NEW flags, NEW ws, ws = <<<<"Completed", TRUE>>, <<"Running", FALSE>>>>
    PROVE  /\ Ahead(ws, flags, "Completed") /\ ~Ahead(ws, flags, "Running")
           /\ \A f \in Flag \ {"Completed", "Running"} : Ahead(ws, flags, f) <=> flags[f]
  <1>1. /\ DOMAIN ws = {1, 2} /\ ws[1][1] = "Completed" /\ ws[1][2]
        /\ ws[2][1] = "Running" /\ ~ws[2][2]
    OBVIOUS
  <1>2. /\ Names(ws, "Completed") /\ Sets(ws, "Completed")
        /\ Names(ws, "Running") /\ ~Sets(ws, "Running")
        /\ \A f \in Flag \ {"Completed", "Running"} : ~Names(ws, f)
    BY <1>1 DEF Names, Sets
  <1> QED BY <1>2, Zenon DEF Ahead

----------------------------------------------------------------------------
\* How the steps change the settled flags.
Same(c) == \A f \in Flag : Settled(c, f)' <=> Settled(c, f)

\* The record of a container that was not created yet.
Fresh == \A c \in Container \ created, f \in Flag : ~rec[c][f]

\* The record of a container that was not created stays blank.
LEMMA FreshNext == TypeInv /\ Fresh /\ [Next]_vars => Fresh'
  <1> SUFFICES ASSUME TypeInv, Fresh, [Next]_vars PROVE Fresh'
    OBVIOUS
  <1>1. CASE UNCHANGED vars
    BY <1>1 DEF vars, Fresh
  <1>2. ASSUME NEW r \in Request, Arrive(r) PROVE Fresh'
    BY <1>2, ArriveShape DEF Arriving, Fresh
  <1>3. ASSUME NEW r \in Request, Step(r) PROVE Fresh'
    <2>1. Local(r) /\ created' = created /\ Tainr(r) \in created
      BY <1>3, StepIsLocal, WorkerContainer
    <2> QED BY <2>1 DEF Local, Untouched, Fresh
  <1>4. CASE Environment
    BY <1>4 DEF Environment, ContainerCreate, PodProgress, PodGone, Age, recVars, Fresh
  <1> QED BY <1>1, <1>2, <1>3, <1>4 DEF Next

\* What is known before and after every step when requests do not overlap.
Sound == TypeInv /\ FlowInv /\ Fresh /\ Exclusive

\* Sound is an invariant when requests do not overlap.
LEMMA SoundInvariant == ASSUME ~Overlap PROVE Spec => []Sound
  <1>1. Init => Fresh
    BY DEF Init, Fresh
  <1> QED BY <1>1, FreshNext, ExclusiveInvariant, PTL DEF Sound, Spec

\* In a sound state the settled flags are as described.
LEMMA SoundSettled == Sound => SettledFacts
  BY SettledMeans DEF Sound

\* The same after a step.
LEMMA SoundSettledNext == Sound' => SettledFacts'
  BY SoundSettled, PTL

\* No handler of c assigns anything, before or after.
LEMMA SameIfQuiet ==
    ASSUME Sound, Sound', NEW c \in Container, rec'[c] = rec[c],
           \A q \in Request : Tainr(q) = c => ~At(q, "write"),
           \A q \in Request : Tainr(q)' = c => ~At(q, "write")'
    PROVE  Same(c)
  <1>1. \A f \in Flag : Settled(c, f) <=> rec[c][f]
    BY SoundSettled DEF SettledFacts
  <1>2. \A f \in Flag : Settled(c, f)' <=> rec'[c][f]
    BY SoundSettledNext DEF SettledFacts
  <1> QED BY <1>1, <1>2 DEF Same

\* The handler of c does nothing.
LEMMA SameIfIdle ==
    ASSUME Sound, Sound', NEW c \in Container, rec'[c] = rec[c],
           NEW q \in Request, Tainr(q) = c, At(q, "write"),
           Tainr(q)' = c, At(q, "write")', req'[q].writes = req[q].writes
    PROVE  Same(c)
  <1>1. \A f \in Flag : Settled(c, f) <=> Ahead(req[q].writes, rec[c], f)
    BY SoundSettled DEF SettledFacts
  <1>2. \A f \in Flag : Settled(c, f)' <=> Ahead(req'[q].writes, rec'[c], f)
    BY SoundSettledNext DEF SettledFacts
  <1> QED BY <1>1, <1>2 DEF Same

\* A step of a handler leaves the settled flags of other containers.
LEMMA SameElsewhere ==
    ASSUME Sound, Sound', NEW r \in Request, Local(r),
           NEW c \in Container \ {Tainr(r)}
    PROVE  Same(c)
  <1>1. rec'[c] = rec[c] /\ \A q \in Request \ {r} : req'[q] = req[q]
    BY DEF Local, Untouched
  <1>2. Tainr(r)' # c
    BY IdleFields, ContainerAssumption DEF Local, Tainr
  <1>3. CASE \E q \in Request : Tainr(q) = c /\ At(q, "write")
    BY <1>1, <1>2, <1>3, SameIfIdle DEF Tainr, At
  <1>4. CASE ~\E q \in Request : Tainr(q) = c /\ At(q, "write")
    BY <1>1, <1>2, <1>4, SameIfQuiet DEF Tainr, At
  <1> QED BY <1>3, <1>4

\* The settled flags of a container whose handler assigns.
LEMMA SettledAt ==
    ASSUME Sound', NEW r \in Request, req'[r].pc = "write", NEW c \in Container, req'[r].c = c
    PROVE  \A f \in Flag : Settled(c, f)' <=> Ahead(req'[r].writes, rec'[c], f)
  BY SoundSettledNext DEF SettledFacts, At, Tainr

\* A step of a handler that assigns nothing, before or after.
LEMMA SameHere ==
    ASSUME Sound, Sound', NEW r \in Request, NEW c \in Container, Tainr(r) = c, Local(r),
           req[r].pc \notin {"idle", "write"}, req'[r].pc # "write", rec' = rec
    PROVE  Same(c)
  <1>1. \A q \in Request : Tainr(q) = c => q = r
    BY DEF Sound, Exclusive, At
  <1>2. \A q \in Request : Tainr(q)' = c => q = r
    BY <1>1 DEF Local, Tainr
  <1> QED BY <1>1, <1>2, SameIfQuiet DEF At

\* A handler goes on to assign ws.
LEMMA AheadHere ==
    ASSUME Sound, Sound', NEW r \in Request, NEW c \in Container, Tainr(r) = c,
           req[r].pc \notin {"idle", "write"},
           NEW ws \in Seq(Write), Assign(r, ws), rec' = rec
    PROVE  \A f \in Flag : /\ Settled(c, f) <=> rec[c][f]
                           /\ Settled(c, f)' <=> Ahead(ws, rec[c], f)
  <1>1. \A q \in Request : Tainr(q) = c => q = r
    BY DEF Sound, Exclusive, At
  <1>3. \A f \in Flag : Settled(c, f) <=> rec[c][f]
    BY <1>1, SoundSettled DEF SettledFacts, At
  <1>4. req'[r].pc = "write" /\ req'[r].writes = ws /\ req'[r].c = c
    BY AssignFields DEF Sound, Tainr
  <1>5. \A f \in Flag : Settled(c, f)' <=> Ahead(req'[r].writes, rec'[c], f)
    BY <1>4, SettledAt
  <1> QED BY <1>3, <1>4, <1>5

\* An assignment to a flag makes true what was settled.
LEMMA SameAssign ==
    ASSUME Sound, Sound', NEW r \in Request, NEW c \in Container, Tainr(r) = c, AssignFlag(r)
    PROVE  Same(c)
  <1> DEFINE ws == req[r].writes
             w == Head(ws)
  <1>1. /\ ws \in Seq(Write) /\ ws # <<>> /\ Once(ws)
        /\ req'[r].c = req[r].c /\ req'[r].writes = Tail(ws)
        /\ req'[r].pc = "write" => Tail(ws) # <<>>
        /\ req'[r].pc # "write" => Tail(ws) = <<>>
        /\ req'[r].pc \in {"write", "check", "save"}
    BY AssignFlagFields DEF Sound
  <1>2. At(r, "write") /\ req[r].c = c
    BY DEF AssignFlag, Tainr
  <1>3. rec' = [rec EXCEPT ![c][w[1]] = w[2]]
    BY DEF AssignFlag
  <1>4. w \in Write /\ w[1] \in Flag /\ w[2] \in BOOLEAN
    <2>1. w \in Write
      BY <1>1
    <2> QED BY <2>1 DEF Write
  <1>5. /\ \A f \in Flag : f # w[1] => rec'[c][f] = rec[c][f]
        /\ rec'[c][w[1]] = w[2]
    BY <1>3, <1>4 DEF Sound, TypeInv, TypeOK
  <1>6. \A f \in Flag : Settled(c, f) <=> Ahead(ws, rec[c], f)
    BY <1>2, SoundSettled DEF SettledFacts
  <1>7. \A f \in Flag : Settled(c, f)' <=> Ahead(Tail(ws), rec'[c], f)
    <2>1. CASE req'[r].pc = "write"
      BY <1>1, <1>2, <2>1, SettledAt
    <2>2. CASE req'[r].pc # "write"
      <3>1. \A q \in Request : Tainr(q) = c => q = r
        BY <1>2 DEF Sound, Exclusive, At
      <3>2. Local(r)
        BY HandlerStepsAreLocal DEF Sound
      <3>3. \A q \in Request : req'[q].c = c => req'[q].pc # "write"
        BY <1>1, <1>2, <2>2, <3>1, <3>2 DEF Local, Tainr
      <3>4. \A f \in Flag : Settled(c, f)' <=> rec'[c][f]
        BY <3>3, SoundSettledNext DEF SettledFacts, Tainr, At
      <3>5. \A f : ~Names(Tail(ws), f)
        BY <1>1, <2>2 DEF Names
      <3> QED BY <3>4, <3>5 DEF Ahead
    <2> QED BY <2>1, <2>2
  <1>8. /\ DOMAIN Tail(ws) = 1..(Len(ws) - 1) /\ DOMAIN ws = 1..Len(ws)
        /\ Len(ws) \in Nat /\ Len(ws) >= 1 /\ w = ws[1]
        /\ \A i \in 1..(Len(ws) - 1) : Tail(ws)[i] = ws[i + 1]
    BY <1>1
  <1>9. \A f \in Flag : f # w[1] =>
          (Names(ws, f) <=> Names(Tail(ws), f)) /\ (Sets(ws, f) <=> Sets(Tail(ws), f))
    <2> SUFFICES ASSUME NEW f \in Flag, f # w[1]
                 PROVE  (Names(ws, f) <=> Names(Tail(ws), f)) /\ (Sets(ws, f) <=> Sets(Tail(ws), f))
      OBVIOUS
    <2>1. \A i \in DOMAIN ws : ws[i][1] = f => i - 1 \in DOMAIN Tail(ws) /\ Tail(ws)[i - 1] = ws[i]
      BY <1>8
    <2>2. \A i \in DOMAIN Tail(ws) : i + 1 \in DOMAIN ws /\ Tail(ws)[i] = ws[i + 1]
      BY <1>8
    <2> HIDE DEF ws
    <2> QED BY <2>1, <2>2 DEF Names, Sets
  <1>10. Names(ws, w[1]) /\ ~Names(Tail(ws), w[1]) /\ (Sets(ws, w[1]) <=> w[2])
    <2>1. 1 \in DOMAIN ws /\ \A i \in DOMAIN ws : ws[i][1] = w[1] => i = 1
      BY <1>1, <1>8 DEF Once
    <2>2. ~Names(Tail(ws), w[1])
      <3> SUFFICES ASSUME NEW i \in DOMAIN Tail(ws), Tail(ws)[i][1] = w[1] PROVE FALSE
        BY DEF Names
      <3>1. i + 1 \in DOMAIN ws /\ ws[i + 1][1] = w[1] /\ i + 1 # 1
        BY <1>8
      <3> QED BY <2>1, <3>1
    <2> QED BY <1>8, <2>1, <2>2 DEF Names, Sets
  <1> HIDE DEF ws, w
  <1>11. ASSUME NEW f \in Flag PROVE Settled(c, f)' <=> Settled(c, f)
    <2>1. CASE f = w[1]
      BY <1>4, <1>5, <1>6, <1>7, <1>10, <2>1, Zenon DEF Ahead
    <2>2. CASE f # w[1]
      BY <1>5, <1>6, <1>7, <1>9, <2>2, Zenon DEF Ahead
    <2> QED BY <2>1, <2>2
  <1> QED BY <1>11 DEF Same

\* The steps of the kubelet and of time leave all settled flags.
LEMMA SameEnvironment ==
    ASSUME Sound, Sound', Environment, NEW c \in Container
    PROVE  Same(c)
  <1>1. rec' = rec
    BY DEF Environment, ContainerCreate, PodProgress, PodGone, Age, recVars
  <1>2. \A q \in Request : /\ req'[q].pc = req[q].pc /\ req'[q].c = req[q].c
                           /\ req'[q].writes = req[q].writes
    BY EnvironmentFields DEF Sound
  <1>3. CASE \E q \in Request : Tainr(q) = c /\ At(q, "write")
    BY <1>1, <1>2, <1>3, SameIfIdle DEF Tainr, At
  <1>4. CASE ~\E q \in Request : Tainr(q) = c /\ At(q, "write")
    BY <1>1, <1>2, <1>4, SameIfQuiet DEF Tainr, At
  <1> QED BY <1>3, <1>4

\* What the arrival of a request does to settled flags.
LEMMA SameArrive ==
    ASSUME ~Overlap, Sound, Sound', NEW r \in Request, NEW c \in Container,
           Arriving(r, c), Arrived(r, c)
    PROVE  /\ \A d \in Container \ {c} : Same(d)
           /\ \A f \in Flag : Settled(c, f) <=> rec[c][f]
           /\ req'[r].pc # "write" => Same(c)
           /\ req'[r].pc = "write" =>
                \A f \in Flag : Settled(c, f)' <=> Ahead(req'[r].writes, rec[c], f)
  <1>1. /\ rec' = rec /\ \A q \in Request \ {r} : req'[q] = req[q]
        /\ \A q \in Request : Tainr(q) # c
        /\ req'[r].c = c /\ req[r].c = NoContainer
    <2>1. req[r].c = NoContainer
      BY IdleFields DEF Sound, FlowInv, Flow, Arriving
    <2> QED BY <2>1 DEF Arriving, Arrived
  <1>2. ASSUME NEW d \in Container \ {c} PROVE Same(d)
    <2>1. CASE \E q \in Request : Tainr(q) = d /\ At(q, "write")
      <3>1. PICK q \in Request : Tainr(q) = d /\ At(q, "write")
        BY <2>1
      <3>2. req'[q] = req[q]
        BY <1>1, <3>1, ContainerAssumption DEF Tainr
      <3> QED BY <1>1, <3>1, <3>2, SameIfIdle DEF Tainr, At
    <2>2. CASE ~\E q \in Request : Tainr(q) = d /\ At(q, "write")
      BY <1>1, <2>2, SameIfQuiet DEF Tainr, At
    <2> QED BY <2>1, <2>2
  <1>3. \A f \in Flag : Settled(c, f) <=> rec[c][f]
    BY <1>1, SoundSettled DEF SettledFacts
  <1>4. ASSUME req'[r].pc # "write" PROVE Same(c)
    BY <1>1, <1>4, SameIfQuiet DEF Tainr, At
  <1>5. ASSUME req'[r].pc = "write", NEW f \in Flag
        PROVE  Settled(c, f)' <=> Ahead(req'[r].writes, rec[c], f)
    BY <1>1, <1>5, SettledAt
  <1> QED BY <1>2, <1>3, <1>4, <1>5

\* Only a handler that turns to its assignments changes settled flags.
LEMMA StepSame ==
    ASSUME Sound, Sound', NEW r \in Request, NEW c \in Container, Tainr(r) = c, Step(r),
           AssignFlag(r) \/ req'[r].pc # "write"
    PROVE  Same(c)
  <1>1. CASE AssignFlag(r)
    BY <1>1, SameAssign
  <1>2. CASE ~AssignFlag(r)
    <2>1. Local(r)
      BY StepIsLocal DEF Sound
    <2>2. rec' = rec /\ req[r].pc \notin {"idle", "write"}
      BY <1>2 DEF Step, DeleteServices, DeleteConfigMaps, DeletePods, DeleteRecord,
             CreateConfigMap, CreatePod, AwaitInit, TouchDone, AwaitReady, CreateServices,
             GetPodIP, Rollback, SaveContainer, Publish, WatchDelete,
             AwaitDeleted, UpdateContainerStatus, CheckEnded, ClientLeaves, At
    <2> QED BY <1>2, <2>1, <2>2, SameHere
  <1> QED BY <1>1, <1>2

\* The step that assigns what a handler has come to, by its operation.
LEMMA StepAhead ==
    ASSUME Sound, Sound', NEW r \in Request, NEW c \in Container, Tainr(r) = c, Step(r),
           ~AssignFlag(r), req'[r].pc = "write"
    PROVE  /\ rec' = rec /\ UNCHANGED <<db, svc, cm, event>>
           /\ \A f \in Flag : /\ Settled(c, f) <=> rec[c][f]
                              /\ Settled(c, f)' <=> Ahead(req'[r].writes, rec[c], f)
           /\ req'[r].c = c /\ req'[r].op = req[r].op /\ req'[r].state = req[r].state
           /\ req'[r].watch = req[r].watch /\ req'[r].dup = req[r].dup
           /\ \/ /\ DeletePods(r) /\ req[r].op \in {"stop", "kill", "restart"}
                 /\ req'[r].writes = EndWrites(req[r].op)
              \/ /\ GetPodIP(r) /\ req[r].op \in {"start", "attach", "restart"} /\ pod' = pod
                 /\ req'[r].writes = StartWrites(req[r].state)
                 /\ c \in Ports => pod[c].phase # "none"
              \/ /\ UpdateContainerStatus(r) /\ req[r].op \in {"wait", "inspect"} /\ pod' = pod
                 /\ ~rec[c]["Completed"]
                 /\ \/ /\ req'[r].writes = <<<<"Failed", TRUE>>>>
                       /\ pod[c].phase \in {"none", "failed"} \/ Fault
                    \/ /\ req'[r].writes = <<<<"Completed", TRUE>>, <<"Running", FALSE>>>>
                       /\ pod[c].phase = "completed"
  <1>1. rec' = rec /\ req[r].pc \notin {"idle", "write"} /\ Flow(req[r])
    BY DEF Step, DeleteServices, DeleteConfigMaps, DeletePods, DeleteRecord,
           CreateConfigMap, CreatePod, AwaitInit, TouchDone, AwaitReady, CreateServices,
           GetPodIP, Rollback, SaveContainer, Publish, WatchDelete,
           AwaitDeleted, UpdateContainerStatus, CheckEnded, ClientLeaves, At,
           Sound, FlowInv
  <1>2. ASSUME NEW pc \in PC \ {"write"}, Goto(r, pc) PROVE FALSE
    BY <1>2, GotoFields DEF Sound
  <1>3. ASSUME Return(r) PROVE FALSE
    BY <1>3, ReturnFields, IdleFields DEF Sound
  <1>w. ASSUME NEW ws \in Seq(Write), Assign(r, ws)
        PROVE  /\ rec' = rec
               /\ \A f \in Flag : /\ Settled(c, f) <=> rec[c][f]
                                  /\ Settled(c, f)' <=> Ahead(req'[r].writes, rec[c], f)
               /\ req'[r].c = c /\ req'[r].op = req[r].op /\ req'[r].state = req[r].state
               /\ req'[r].watch = req[r].watch /\ req'[r].dup = req[r].dup
               /\ req'[r].writes = ws
    BY <1>1, <1>w, AheadHere, AssignFields DEF Sound, Tainr
  <1>p. PC \ {"idle", "write"} = {"delservices", "delconfigmaps", "delpods", "dbdelete",
         "configmap", "create", "copy", "touch", "await", "services", "podip",
         "rollback", "save", "publish", "watch", "awaitdeleted", "poll", "check"}
    BY DEF PC
  <1>4. CASE DeletePods(r)
    <2>1. \/ Goto(r, "dbdelete") \/ Goto(r, "publish")
          \/ Assign(r, EndWrites(req[r].op)) /\ req[r].op \notin {"delete", "reap"}
      BY <1>4, Zenon DEF DeletePods, AfterDelete
    <2>2. Assign(r, EndWrites(req[r].op)) /\ req[r].op \in {"stop", "kill", "restart"}
      BY <1>1, <1>2, <1>p, <1>4, <2>1 DEF DeletePods, At, Flow, DeletePhase
    <2>3. UNCHANGED <<db, svc, cm, event>>
      BY <1>4 DEF DeletePods
    <2> QED BY <1>4, <1>w, <2>2, <2>3, EndWritesType
  <1>5. CASE GetPodIP(r)
    <2>1. /\ Return(r) \/ (Assign(r, StartWrites(req[r].state)) /\ (c \in Ports => pod[c].phase # "none"))
          /\ UNCHANGED <<db, pod, svc, cm, event>>
      BY <1>5 DEF GetPodIP, kubVars
    <2>2. req[r].op \in {"start", "attach", "restart"}
      BY <1>1, <1>5 DEF GetPodIP, At, Flow, StartPhase
    <2> QED BY <1>3, <1>5, <1>w, <2>1, <2>2, StartWritesType
  <1>6. CASE UpdateContainerStatus(r)
    <2>1. /\ \/ Return(r) \/ Goto(r, "check")
             \/ /\ ~rec[c]["Completed"]
                /\ \/ /\ Assign(r, <<<<"Failed", TRUE>>>>)
                      /\ pod[c].phase \in {"none", "failed"} \/ Fault
                   \/ /\ Assign(r, <<<<"Completed", TRUE>>, <<"Running", FALSE>>>>)
                      /\ pod[c].phase = "completed"
          /\ UNCHANGED <<db, pod, svc, cm, event>>
      BY <1>6, Zenon DEF UpdateContainerStatus, kubVars
    <2>2. req[r].op \in {"wait", "inspect"}
      BY <1>1, <1>6 DEF UpdateContainerStatus, At, Flow
    <2>3. CASE Assign(r, <<<<"Failed", TRUE>>>>) /\ (pod[c].phase \in {"none", "failed"} \/ Fault)
               /\ ~rec[c]["Completed"]
      BY <1>6, <1>w, <2>1, <2>2, <2>3, PollWritesType
    <2>4. CASE Assign(r, <<<<"Completed", TRUE>>, <<"Running", FALSE>>>>)
               /\ pod[c].phase = "completed" /\ ~rec[c]["Completed"]
      BY <1>6, <1>w, <2>1, <2>2, <2>4, PollWritesType
    <2> QED BY <1>2, <1>3, <1>p, <2>1, <2>3, <2>4
  <1>7. CASE DeleteServices(r) \/ DeleteConfigMaps(r) \/ DeleteRecord(r) \/ CreateConfigMap(r)
             \/ AwaitInit(r) \/ TouchDone(r) \/ Rollback(r)
    BY <1>2, <1>3, <1>p, <1>7 DEF DeleteServices, DeleteConfigMaps, DeleteRecord,
       CreateConfigMap, AwaitInit, TouchDone, Rollback, Failed
  <1>8. CASE SaveContainer(r) \/ Publish(r) \/ AwaitDeleted(r) \/ CheckEnded(r) \/ ClientLeaves(r)
    <2>1. CASE SaveContainer(r)
      <3>1. Goto(r, "publish") \/ Goto(r, "awaitdeleted") \/ Return(r)
        BY <2>1 DEF SaveContainer
      <3> QED BY <1>2, <1>3, <1>p, <3>1
    <2> QED BY <1>2, <1>3, <1>p, <1>8, <2>1 DEF Publish, AwaitDeleted, StartPc,
               CheckEnded, ClientLeaves
  <1>9. CASE CreatePod(r) \/ AwaitReady(r) \/ CreateServices(r) \/ WatchDelete(r)
    <2>0. req[r] \in ReqType /\ req \in [Request -> ReqType]
      BY DEF Sound, TypeInv, ReqOK
    <2>1. CASE CreatePod(r)
      <3> DEFINE next == IF Tainr(r) \in Setup THEN "copy" ELSE "await"
      <3>1. \/ Goto(r, next) \/ Goto(r, "rollback")
            \/ req' = [req EXCEPT ![r] = [req[r] EXCEPT !.pc = next, !.dup = TRUE]]
        BY <2>1 DEF CreatePod, Failed
      <3>2. next \in {"copy", "await"}
        OBVIOUS
      <3> HIDE DEF next
      <3>3. req' # [req EXCEPT ![r] = [req[r] EXCEPT !.pc = next, !.dup = TRUE]]
        BY <2>0, <3>2 DEF ReqType
      <3> QED BY <1>2, <1>p, <3>1, <3>2, <3>3
    <2>2. CASE AwaitReady(r)
      <3>1. req'[r].pc = "services" \/ Goto(r, "rollback")
        BY <2>0, <2>2 DEF AwaitReady, Failed, ReqType
      <3> QED BY <1>2, <1>p, <3>1
    <2>3. CASE CreateServices(r)
      <3>1. req'[r].pc = "services" \/ Goto(r, "podip") \/ Return(r)
        BY <2>0, <2>3 DEF CreateServices, ReqType, At
      <3> QED BY <1>2, <1>3, <1>p, <3>1
    <2>4. CASE WatchDelete(r)
      BY <2>0, <2>4 DEF WatchDelete, ReqType
    <2> QED BY <1>9, <2>1, <2>2, <2>3, <2>4
  <1> QED BY <1>4, <1>5, <1>6, <1>7, <1>8, <1>9 DEF Step

\* The arcs of the control flow.
Moves(r) ==
    LET pc == req[r].pc
        to == req'[r].pc
        op == req[r].op
    IN
    /\ req'[r] = Idle \/ (req'[r].op = op /\ req'[r].c = req[r].c)
    /\ req'[r] = Idle \/ pc = "await" \/ req'[r].state = req[r].state
    /\ pc = "watch" => to = "delservices"
    /\ pc = "delservices" => to = "delconfigmaps"
    /\ pc = "delconfigmaps" => to = "delpods"
    /\ pc = "delpods" => \/ to = "dbdelete" /\ op = "reap"
                         \/ to = "publish" /\ op = "delete"
                         \/ to = "write" /\ op \in {"stop", "kill", "restart"}
    /\ pc = "dbdelete" => req'[r] = Idle
    /\ pc = "configmap" => to \in {"create", "rollback"}
    /\ pc = "create" => to \in {"copy", "await", "rollback"}
    /\ pc = "copy" => to \in {"touch", "await", "rollback"}
    /\ pc = "touch" => to \in {"await", "rollback"}
    /\ pc = "await" => to \in {"services", "rollback"}
    /\ pc = "services" => to \in {"services", "podip"} \/ req'[r] = Idle
    /\ pc = "podip" => to = "write" \/ req'[r] = Idle
    /\ pc = "rollback" => req'[r] = Idle
    /\ pc = "write" => \/ to = "write"
                       \/ to = "check" /\ op \in {"wait", "inspect"}
                       \/ to = "save" /\ op \in {"start", "attach", "stop", "kill", "restart"}
    /\ pc = "save" => \/ to = "publish" /\ op \in {"start", "stop", "kill"}
                      \/ to = "awaitdeleted" /\ op = "restart" /\ req[r].state = "none"
                      \/ req'[r] = Idle /\ op \in {"restart", "attach"}
                         /\ (op = "restart" => req[r].state # "none")
    /\ pc = "publish" => \/ to = "dbdelete" /\ op = "delete"
                         \/ req'[r] = Idle /\ op \in {"start", "stop", "kill"}
    /\ pc = "awaitdeleted" => to \in {"configmap", "create"}
    /\ pc = "poll" => to \in {"check", "write"} \/ req'[r] = Idle
    /\ pc = "check" => to = "poll" \/ req'[r] = Idle

\* Where a step takes a handler.
LEMMA StepMoves ==
    ASSUME TypeInv, FlowInv, NEW r \in Request, Step(r)
    PROVE  Moves(r)
  <1>0. req[r] \in ReqType /\ req \in [Request -> ReqType] /\ Flow(req[r])
    BY DEF TypeInv, ReqOK, FlowInv
  <1>p. PC \ {"idle", "write"} = {"delservices", "delconfigmaps", "delpods", "dbdelete",
         "configmap", "create", "copy", "touch", "await", "services", "podip",
         "rollback", "save", "publish", "watch", "awaitdeleted", "poll", "check"}
    BY DEF PC
  <1>1. ASSUME NEW pc \in PC, Goto(r, pc)
        PROVE  /\ req'[r].pc = pc /\ req'[r].op = req[r].op /\ req'[r].c = req[r].c
               /\ req'[r].state = req[r].state
    BY <1>1, GotoFields
  <1>2. ASSUME Return(r) PROVE req'[r] = Idle
    BY <1>2, ReturnFields
  <1>3. ASSUME NEW ws \in Seq(Write), Assign(r, ws)
        PROVE  /\ req'[r].pc = "write" /\ req'[r].op = req[r].op /\ req'[r].c = req[r].c
               /\ req'[r].state = req[r].state
    BY <1>3, AssignFields
  <1>4. CASE DeleteServices(r)
    BY <1>1, <1>4, <1>p DEF DeleteServices, At, Moves
  <1>5. CASE DeleteConfigMaps(r)
    BY <1>1, <1>5, <1>p DEF DeleteConfigMaps, At, Moves
  <1>6. CASE DeletePods(r)
    <2>1. \/ Goto(r, "dbdelete") /\ req[r].op = "reap"
          \/ Goto(r, "publish") /\ req[r].op = "delete"
          \/ Assign(r, EndWrites(req[r].op)) /\ req[r].op \notin {"delete", "reap"}
      BY <1>6, Zenon DEF DeletePods, AfterDelete
    <2>2. req[r].pc = "delpods" /\ req[r].op \in {"stop", "kill", "restart", "delete", "reap"}
      BY <1>0, <1>6 DEF DeletePods, At, Flow, DeletePhase
    <2> QED BY <1>1, <1>3, <1>p, <2>1, <2>2, EndWritesType DEF Moves
  <1>7. CASE DeleteRecord(r)
    BY <1>2, <1>7 DEF DeleteRecord, At, Moves
  <1>8. CASE CreateConfigMap(r)
    BY <1>1, <1>8, <1>p DEF CreateConfigMap, Failed, At, Moves
  <1>9. CASE CreatePod(r)
    <2> DEFINE next == IF Tainr(r) \in Setup THEN "copy" ELSE "await"
    <2>1. \/ Goto(r, next) \/ Goto(r, "rollback")
          \/ req' = [req EXCEPT ![r] = [req[r] EXCEPT !.pc = next, !.dup = TRUE]]
      BY <1>9 DEF CreatePod, Failed
    <2>2. next \in {"copy", "await"} /\ req[r].pc = "create"
      BY <1>9 DEF CreatePod, At
    <2> HIDE DEF next
    <2>3. CASE req' = [req EXCEPT ![r] = [req[r] EXCEPT !.pc = next, !.dup = TRUE]]
      <3>1. /\ req'[r].pc = next /\ req'[r].op = req[r].op /\ req'[r].c = req[r].c
            /\ req'[r].state = req[r].state
        BY <1>0, <2>3 DEF ReqType
      <3> QED BY <2>2, <3>1 DEF Moves
    <2> QED BY <1>1, <1>p, <2>1, <2>2, <2>3 DEF Moves
  <1>10. CASE AwaitInit(r)
    BY <1>1, <1>10, <1>p DEF AwaitInit, Failed, At, Moves
  <1>11. CASE TouchDone(r)
    BY <1>1, <1>11, <1>p DEF TouchDone, Failed, At, Moves
  <1>12. CASE AwaitReady(r)
    <2>1. \/ req'[r].pc = "services" /\ req'[r].op = req[r].op /\ req'[r].c = req[r].c
          \/ Goto(r, "rollback")
      BY <1>0, <1>12 DEF AwaitReady, Failed, ReqType
    <2> QED BY <1>1, <1>12, <1>p, <2>1 DEF AwaitReady, At, Moves
  <1>13. CASE CreateServices(r)
    <2>1. \/ /\ req'[r].pc = "services" /\ req'[r].op = req[r].op /\ req'[r].c = req[r].c
             /\ req'[r].state = req[r].state
          \/ Goto(r, "podip") \/ Return(r)
      BY <1>0, <1>13 DEF CreateServices, ReqType, At
    <2> QED BY <1>1, <1>2, <1>13, <1>p, <2>1 DEF CreateServices, At, Moves
  <1>14. CASE GetPodIP(r)
    <2>1. Return(r) \/ Assign(r, StartWrites(req[r].state))
      BY <1>14 DEF GetPodIP
    <2> QED BY <1>2, <1>3, <1>14, <2>1, StartWritesType DEF GetPodIP, At, Moves
  <1>15. CASE Rollback(r)
    BY <1>2, <1>15 DEF Rollback, At, Moves
  <1>16. CASE AssignFlag(r)
    BY <1>16, AssignFlagFields DEF AssignFlag, At, Moves
  <1>17. CASE SaveContainer(r)
    <2>1. \/ Goto(r, "publish") /\ req[r].op \notin {"restart", "attach"}
          \/ Goto(r, "awaitdeleted") /\ req[r].op = "restart" /\ req[r].state = "none"
          \/ Return(r) /\ (req[r].op = "restart" => req[r].state # "none") /\ req[r].op \in {"restart", "attach"}
      BY <1>17, Zenon DEF SaveContainer
    <2>2. req[r].pc = "save" /\ req[r].op \in {"start", "attach", "stop", "kill", "restart"}
      BY <1>0, <1>17 DEF SaveContainer, At, Flow
    <2> QED BY <1>1, <1>2, <1>p, <2>1, <2>2 DEF Moves
  <1>18. CASE Publish(r)
    <2>1. req[r].pc = "publish" /\ req[r].op \in {"start", "stop", "kill", "delete"}
      BY <1>0, <1>18 DEF Publish, At, Flow
    <2> QED BY <1>1, <1>2, <1>18, <1>p, <2>1 DEF Publish, Moves
  <1>19. CASE WatchDelete(r)
    <2>1. /\ req'[r].pc = "delservices" /\ req'[r].op = req[r].op /\ req'[r].c = req[r].c
          /\ req'[r].state = req[r].state
      BY <1>0, <1>19 DEF WatchDelete, ReqType
    <2> QED BY <1>19, <2>1 DEF WatchDelete, At, Moves
  <1>20. CASE AwaitDeleted(r)
    BY <1>1, <1>20, <1>p DEF AwaitDeleted, StartPc, At, Moves
  <1>21. CASE UpdateContainerStatus(r)
    <2>1. \/ Return(r) \/ Goto(r, "check")
          \/ Assign(r, <<<<"Failed", TRUE>>>>)
          \/ Assign(r, <<<<"Completed", TRUE>>, <<"Running", FALSE>>>>)
      BY <1>21, Zenon DEF UpdateContainerStatus
    <2>2. CASE Assign(r, <<<<"Failed", TRUE>>>>)
                 \/ Assign(r, <<<<"Completed", TRUE>>, <<"Running", FALSE>>>>)
      BY <1>3, <1>21, <2>2, PollWritesType DEF UpdateContainerStatus, At, Moves
    <2>3. CASE Return(r) \/ Goto(r, "check")
      BY <1>1, <1>2, <1>21, <1>p, <2>3 DEF UpdateContainerStatus, At, Moves
    <2> QED BY <2>1, <2>2, <2>3
  <1>22. CASE CheckEnded(r)
    BY <1>1, <1>2, <1>22, <1>p DEF CheckEnded, At, Moves
  <1>23. CASE ClientLeaves(r)
    BY <1>2, <1>23 DEF ClientLeaves, At, Moves
  <1> QED BY <1>4, <1>5, <1>6, <1>7, <1>8, <1>9, <1>10, <1>11, <1>12, <1>13, <1>14, <1>15,
             <1>16, <1>17, <1>18, <1>19, <1>20, <1>21, <1>22, <1>23 DEF Step

----------------------------------------------------------------------------
(* The services of a container. *)

\* A start that creates services owns the ones it is done with.
Claimed(r) ==
    /\ At(r, "services") =>
         \A a \in ServiceAliases[Tainr(r)] \ req[r].todo : Owns(Tainr(r), a)
    /\ At(r, "podip") /\ ~req[r].dup =>
         \A a \in ServiceAliases[Tainr(r)] : Owns(Tainr(r), a)

ClaimInv == \A r \in Request : Claimed(r)

\* Only createServices and what leads to it get there.
LEMMA OtherSteps ==
    ASSUME Sound, NEW r \in Request, Step(r), ~AwaitReady(r), ~CreateServices(r)
    PROVE  req'[r].pc \notin {"services", "podip"}
  <1>1. req[r].pc \notin {"idle", "await", "services"} /\ req[r].pc \in PC
    BY DEF Sound, TypeInv, ReqOK, ReqType, Step, DeleteServices, DeleteConfigMaps, DeletePods,
           DeleteRecord, CreateConfigMap, CreatePod, AwaitInit, TouchDone, GetPodIP, Rollback,
           AssignFlag, SaveContainer, Publish, WatchDelete, AwaitDeleted,
           UpdateContainerStatus, CheckEnded, ClientLeaves, At
  <1>2. Moves(r)
    BY StepMoves DEF Sound
  <1> QED BY <1>1, <1>2, IdleFields DEF Moves, PC

\* ClaimInv is kept by every step.
LEMMA ClaimInvNext ==
    ASSUME ~Overlap PROVE Sound /\ ClaimInv /\ [Next]_vars => ClaimInv'
  <1> SUFFICES ASSUME Sound, ClaimInv, [Next]_vars, NEW q \in Request PROVE Claimed(q)'
    BY DEF ClaimInv
  <1> USE DEF At, Tainr, Owns
  <1>0. /\ TypeInv /\ FlowInv /\ req \in [Request -> ReqType] /\ Claimed(q)
        /\ svc \in [Alias -> Container \cup {NoContainer}]
    BY DEF Sound, TypeInv, TypeOK, ReqOK, ClaimInv
  <1>1. CASE UNCHANGED vars
    BY <1>0, <1>1 DEF vars, Claimed
  <1>2. ASSUME NEW r \in Request, Arrive(r) PROVE Claimed(q)'
    <2>1. PICK c \in Container : Arriving(r, c) /\ Arrived(r, c)
      BY <1>0, <1>2, ArriveShape
    <2>2. svc' = svc /\ (q # r => req'[q] = req[q])
      BY <2>1 DEF Arriving
    <2>3. req'[r].pc \notin {"services", "podip"}
      BY <2>1 DEF Arrived, StartPc
    <2> QED BY <1>0, <2>2, <2>3 DEF Claimed
  <1>3. ASSUME NEW r \in Request, Step(r) PROVE Claimed(q)'
    <2>0. Local(r) /\ req[r].pc # "idle" /\ Tainr(r) \in Container
      BY <1>0, <1>3, StepIsLocal, WorkerContainer
    <2>a. ServiceAliases[Tainr(r)] \subseteq Alias
      BY <2>0, ShapeAssumption
    <2>1. CASE q # r
      <3>1. req'[q] = req[q]
        BY <2>0, <2>1 DEF Local
      <3>2. CASE req[q].pc \in {"services", "podip"}
        <4>1. Tainr(q) \in Container \ {Tainr(r)}
          BY <1>0, <2>0, <2>1, <3>2, WorkerContainer DEF Sound, Exclusive
        <4>2. \A a \in Alias : svc[a] = Tainr(q) => svc'[a] = Tainr(q)
          BY <2>0, <4>1 DEF Local, Untouched
        <4>3. ServiceAliases[Tainr(q)] \subseteq Alias
          BY <4>1, ShapeAssumption
        <4> QED BY <1>0, <3>1, <4>2, <4>3 DEF Claimed
      <3>3. CASE req[q].pc \notin {"services", "podip"}
        BY <3>1, <3>3 DEF Claimed
      <3> QED BY <3>2, <3>3
    <2>2. CASE q = r /\ AwaitReady(r)
      <3>1. \/ /\ req'[r].pc = "services" /\ req'[r].c = req[r].c
               /\ req'[r].todo = ServiceAliases[req[r].c]
            \/ req'[r].pc = "rollback"
        BY <1>0, <2>2 DEF AwaitReady, Failed, Goto, ReqType
      <3> QED BY <2>2, <3>1 DEF Claimed
    <2>3. CASE q = r /\ CreateServices(r)
      <3>1. CASE req[r].todo = {} /\ Goto(r, "podip") /\ svc' = svc
        <4>1. req'[r].pc = "podip" /\ req'[r].c = req[r].c
          BY <1>0, <3>1 DEF Goto, ReqType
        <4> QED BY <1>0, <2>3, <3>1, <4>1 DEF Claimed, CreateServices
      <3>2. ASSUME NEW a \in req[r].todo, svc[a] = NoContainer,
                   svc' = [svc EXCEPT ![a] = Tainr(r)],
                   req' = [req EXCEPT ![r].todo = @ \ {a}]
            PROVE  Claimed(q)'
        <4>1. req'[r].pc = "services" /\ req'[r].c = req[r].c /\ req'[r].todo = req[r].todo \ {a}
          BY <1>0, <2>3, <3>2 DEF ReqType, CreateServices
        <4>2. \A b \in ServiceAliases[Tainr(r)] \ req[r].todo : svc[b] = Tainr(r)
          BY <1>0, <2>3 DEF Claimed, CreateServices
        <4>3. \A b \in ServiceAliases[Tainr(r)] \ (req[r].todo \ {a}) : svc'[b] = Tainr(r)
          BY <1>0, <2>a, <3>2, <4>2
        <4> QED BY <2>3, <4>1, <4>3 DEF Claimed
      <3>3. CASE req[r].dup /\ Goto(r, "podip")
        <4>1. req'[r].pc = "podip" /\ req'[r].dup
          BY <1>0, <3>3 DEF Goto, ReqType
        <4> QED BY <2>3, <4>1 DEF Claimed
      <3>4. CASE Return(r)
        BY <1>0, <2>3, <3>4, ReturnFields, IdleFields DEF Claimed
      <3> QED BY <2>3, <3>1, <3>2, <3>3, <3>4 DEF CreateServices
    <2>4. CASE q = r /\ ~AwaitReady(r) /\ ~CreateServices(r)
      BY <1>3, <2>4, OtherSteps DEF Claimed
    <2> QED BY <2>1, <2>2, <2>3, <2>4
  <1>4. CASE Environment
    <2>1. svc' = svc
      BY <1>4 DEF Environment, ContainerCreate, PodProgress, PodGone, Age, kubVars
    <2> QED BY <1>0, <1>4, <2>1, EnvironmentFields DEF Claimed
  <1> QED BY <1>1, <1>2, <1>3, <1>4 DEF Next

\* A start that created its pod gets past createServices only with every
\* service of its container, whatever fails and whichever other containers
\* claim the same names, when requests on one container do not overlap.
THEOREM CreatorAlwaysOwns ==
    ASSUME ~Overlap PROVE Spec => []CreatorOwnsServices
  <1>1. Init => ClaimInv
    BY IdleFields DEF Init, ClaimInv, Claimed, At
  <1>2. Spec => []ClaimInv
    BY <1>1, SoundInvariant, ClaimInvNext, PTL DEF Spec
  <1>3. ClaimInv => CreatorOwnsServices
    BY DEF ClaimInv, Claimed, CreatorOwnsServices
  <1> QED BY <1>2, <1>3, PTL

\* The container d of no handler at work in this step.
Bystander(d) ==
    /\ Same(d) /\ Untouched(d)
    /\ \A q \in Request : (req'[q].c = d <=> req[q].c = d) /\ (req[q].c = d => req'[q] = req[q])

\* A step of a handler does not touch other containers.
LEMMA StepBystander ==
    ASSUME Sound, Sound', NEW r \in Request, Step(r), NEW d \in Container, Tainr(r) # d
    PROVE  Bystander(d)
  <1>1. Local(r) /\ req[r].pc # "idle"
    BY StepIsLocal DEF Sound
  <1>2. Same(d)
    BY <1>1, SameElsewhere
  <1>3. Untouched(d)
    BY <1>1 DEF Local
  <1>4. \A q \in Request : (req'[q].c = d <=> req[q].c = d) /\ (req[q].c = d => req'[q] = req[q])
    BY <1>1, IdleFields, ContainerAssumption DEF Local, Tainr
  <1> QED BY <1>2, <1>3, <1>4 DEF Bystander

\* Neither does the arrival of a request.
LEMMA ArriveBystander ==
    ASSUME ~Overlap, Sound, Sound', NEW r \in Request, NEW c \in Container,
           Arriving(r, c), Arrived(r, c), NEW d \in Container, d # c
    PROVE  Bystander(d)
  <1>1. Same(d)
    BY SameArrive
  <1>2. Untouched(d)
    BY DEF Arriving, Untouched
  <1>3. req[r].c = NoContainer
    BY IdleFields DEF Sound, FlowInv, Flow, Arriving
  <1>4. \A q \in Request : (req'[q].c = d <=> req[q].c = d) /\ (req[q].c = d => req'[q] = req[q])
    BY <1>3, ContainerAssumption DEF Arriving, Arrived
  <1> QED BY <1>1, <1>2, <1>4 DEF Bystander

\* Nor a stutter.
LEMMA StutterBystander ==
    ASSUME Sound, Sound', UNCHANGED vars, NEW d \in Container
    PROVE  Bystander(d)
  <1>1. UNCHANGED <<rec, created, db, pod, svc, cm, req, event>>
    BY DEF vars
  <1>2. Same(d)
    <2>1. CASE \E q \in Request : Tainr(q) = d /\ At(q, "write")
      BY <1>1, <2>1, SameIfIdle DEF Tainr, At
    <2>2. CASE ~\E q \in Request : Tainr(q) = d /\ At(q, "write")
      BY <1>1, <2>2, SameIfQuiet DEF Tainr, At
    <2> QED BY <2>1, <2>2
  <1> QED BY <1>1, <1>2 DEF Bystander, Untouched

----------------------------------------------------------------------------
(* The completed mark. *)

\* A start at work, or a restart that has come to its second half.
Launching(q) ==
    \/ q.pc \in StartPhase \cup {"awaitdeleted"}
    \/ q.pc \in {"write", "save"} /\ q.op = "restart" /\ q.state = "none"

\* A container that is, or is about to be, marked completed has no pod at work;
\* while it is being started it is not marked.
Finished(c) ==
    /\ Settled(c, "Completed") /\ LivePod(c) => pod[c].phase = "completed"
    /\ \A r \in Request : Tainr(r) = c =>
         /\ Launching(req[r]) => ~Settled(c, "Completed")
         /\ req[r].pc \in {"services", "podip"} /\ req[r].state = "completed" /\ LivePod(c) =>
              pod[c].phase = "completed"

FinishedInv == \A c \in Container : Finished(c)

\* A container has one handler at a time.
LEMMA OnlyHandler ==
    ASSUME Sound, NEW r \in Request, Local(r), req[r].pc # "idle", NEW q \in Request
    PROVE  /\ Tainr(q) = Tainr(r) => q = r
           /\ req'[q].c = Tainr(r) => q = r
  <1>1. Tainr(q) = Tainr(r) => q = r
    BY DEF Sound, Exclusive, At
  <1> QED BY <1>1 DEF Local, Tainr

\* Where the pod of a handler's container changes.
LEMMA PodSteps ==
    ASSUME Sound, NEW r \in Request, NEW c \in Container, Tainr(r) = c, Step(r)
    PROVE  \/ pod' = pod
           \/ DeletePods(r) /\ Terminate(c)
           \/ Rollback(r) /\ Terminate(c)
           \/ CreatePod(r) /\ pod[c].phase = "none"
           \/ TouchDone(r) /\ pod[c].phase \in {"init", "initdone"}
              /\ pod' = [pod EXCEPT ![c].phase = "initdone"]
  BY DEF Step, DeleteServices, DeleteConfigMaps, DeletePods, DeleteRecord,
         CreateConfigMap, CreatePod, AwaitInit, TouchDone, AwaitReady, CreateServices,
         GetPodIP, Rollback, AssignFlag, SaveContainer, Publish, WatchDelete,
         AwaitDeleted, UpdateContainerStatus, CheckEnded, ClientLeaves, kubVars

\* A pod that is deleted is not live.
LEMMA TerminatedIsNotLive ==
    ASSUME TypeOK, NEW c \in Container, Terminate(c)
    PROVE  ~LivePod(c)'
  <1>1. pod'[c].phase = pod[c].phase /\ pod'[c].terminating = (pod[c].phase # "none")
    BY Zenon DEF Terminate, TypeOK
  <1> QED BY <1>1, Zenon DEF LivePod

\* A step of the handler of c.
LEMMA StepFinishes ==
    ASSUME Sound, Sound', NEW r \in Request, NEW c \in Container, Tainr(r) = c, Step(r),
           Finished(c)
    PROVE  Finished(c)'
  <1>0. /\ Local(r) /\ req[r].pc # "idle" /\ Moves(r) /\ Flow(req[r]) /\ TypeOK
        /\ req[r].pc \in PC
    BY StepIsLocal, StepMoves DEF Sound, FlowInv, TypeInv, ReqOK, ReqType
  <1>1. \A q \in Request : req'[q].c = c => q = r
    BY <1>0, OnlyHandler
  <1> DEFINE S == Settled(c, "Completed")
  <1>2. SUFFICES /\ S' /\ LivePod(c)' => pod'[c].phase = "completed"
                 /\ req'[r].c = c => 
                      /\ Launching(req'[r]) => ~S'
                      /\ req'[r].pc \in {"services", "podip"} /\ req'[r].state = "completed"
                           /\ LivePod(c)' => pod'[c].phase = "completed"
    BY <1>1 DEF Finished, Tainr
  <1>3. /\ S /\ LivePod(c) => pod[c].phase = "completed"
        /\ Launching(req[r]) => ~S
        /\ req[r].pc \in {"services", "podip"} /\ req[r].state = "completed" /\ LivePod(c) =>
             pod[c].phase = "completed"
    BY DEF Finished
  <1>f. "Completed" \in Flag
    BY DEF Flag
  <1>4. CASE ~AssignFlag(r) /\ req'[r].pc = "write"
    <2>1. /\ S <=> rec[c]["Completed"]
          /\ S' <=> Ahead(req'[r].writes, rec[c], "Completed")
          /\ req'[r].op = req[r].op /\ req'[r].state = req[r].state
      BY <1>4, <1>f, StepAhead
    <2>2. CASE DeletePods(r) /\ req'[r].writes = EndWrites(req[r].op)
      BY <1>4, <2>1, <2>2, EndAhead
    <2>3. CASE GetPodIP(r) /\ req[r].op \in {"start", "attach", "restart"} /\ pod' = pod
               /\ req'[r].writes = StartWrites(req[r].state)
      <3>1. S' <=> req[r].state = "completed"
        BY <2>1, <2>3, StartAhead
      <3>2. req[r].pc = "podip" /\ req[r].state \in {"running", "completed"}
        BY <1>0, <2>3 DEF GetPodIP, At, Flow
      <3>3. LivePod(c)' <=> LivePod(c)
        BY <2>3 DEF LivePod
      <3> HIDE DEF S
      <3> QED BY <1>3, <1>4, <2>1, <2>3, <3>1, <3>2, <3>3 DEF Launching, StartPhase
    <2>4. CASE UpdateContainerStatus(r) /\ req[r].op \in {"wait", "inspect"} /\ pod' = pod
               /\ \/ req'[r].writes = <<<<"Failed", TRUE>>>>
                  \/ /\ req'[r].writes = <<<<"Completed", TRUE>>, <<"Running", FALSE>>>>
                     /\ pod[c].phase = "completed"
      <3>1. (S' <=> S) \/ pod[c].phase = "completed"
        BY <1>f, <2>1, <2>4, FailedAhead
      <3>3. LivePod(c)' <=> LivePod(c)
        BY <2>4 DEF LivePod
      <3> HIDE DEF S
      <3> QED BY <1>3, <1>4, <2>1, <2>4, <3>1, <3>3 DEF Launching, StartPhase
    <2> QED BY <1>4, <2>2, <2>3, <2>4, StepAhead
  <1>5. CASE AssignFlag(r) \/ req'[r].pc # "write"
    <2>1. S' <=> S
      BY <1>5, <1>f, StepSame DEF Same
    <2>2. req'[r] # Idle => req'[r].op = req[r].op
      BY <1>0 DEF Moves
    <2>3. req'[r].pc # "idle" /\ Launching(req'[r]) => Launching(req[r])
      <3>1. req'[r].pc = "idle" => ~Launching(req'[r])
        BY DEF Launching, StartPhase
      <3>2. AssignFlag(r) => req[r].pc = "write"
        BY DEF AssignFlag, At
      <3> QED BY <1>0, <1>5, <2>2, <3>1, <3>2, IdleFields DEF Moves, Launching, StartPhase, PC
    <2>4. req'[r].pc = "idle" => ~Launching(req'[r])
      BY DEF Launching, StartPhase
    <2>5. CASE AwaitReady(r) \/ CreateServices(r)
      <3>1. pod' = pod
        BY <2>5 DEF AwaitReady, CreateServices, kubVars
      <3>2. LivePod(c)' <=> LivePod(c)
        BY <3>1 DEF LivePod
      <3>3. CASE AwaitReady(r)
        <4>1. req'[r].pc = "services" => req'[r].state = pod[c].phase
          BY <3>3, GotoFields DEF AwaitReady, Sound, TypeInv, ReqOK, ReqType, Failed, Goto
        <4>2. req'[r].pc \in {"services", "rollback"}
          BY <1>0, <3>3 DEF Moves, AwaitReady, At
        <4> HIDE DEF S
        <4> QED BY <1>3, <2>1, <2>3, <2>4, <3>1, <3>2, <4>1, <4>2
      <3>4. CASE CreateServices(r)
        <4>1. req[r].pc = "services" /\ (req'[r] # Idle => req'[r].state = req[r].state)
          BY <1>0, <3>4 DEF CreateServices, At, Moves
        <4> HIDE DEF S
        <4> QED BY <1>3, <2>1, <2>3, <2>4, <3>1, <3>2, <4>1, IdleFields
      <3> QED BY <2>5, <3>3, <3>4
    <2>6. CASE ~AwaitReady(r) /\ ~CreateServices(r)
      <3>1. req'[r].pc \notin {"services", "podip"}
        BY <2>6, OtherSteps
      <3>2. S /\ LivePod(c)' => pod'[c].phase = "completed"
        <4> SUFFICES ASSUME S, LivePod(c)' PROVE pod'[c].phase = "completed"
          OBVIOUS
        <4>1. req[r].pc \notin StartPhase
          BY <1>3 DEF Launching
        <4>2. ~Terminate(c)
          BY <1>0, TerminatedIsNotLive
        <4>3. pod' = pod
          BY <4>1, <4>2, PodSteps DEF CreatePod, TouchDone, At, StartPhase
        <4> QED BY <1>3, <4>3 DEF LivePod
      <3> HIDE DEF S
      <3> QED BY <1>3, <2>1, <2>3, <2>4, <3>1, <3>2
    <2> QED BY <2>5, <2>6
  <1> QED BY <1>4, <1>5

\* A container that a step does not touch stays as finished as it was.
LEMMA FinishedBystander ==
    ASSUME NEW c \in Container, Finished(c), Bystander(c)
    PROVE  Finished(c)'
  <1>1. Settled(c, "Completed")' <=> Settled(c, "Completed")
    BY DEF Bystander, Same, Flag
  <1>2. (LivePod(c)' <=> LivePod(c)) /\ pod'[c] = pod[c]
    BY DEF Bystander, Untouched, LivePod
  <1> QED BY <1>1, <1>2 DEF Finished, Bystander, Tainr

\* FinishedInv is kept by every step.
LEMMA FinishedInvNext ==
    ASSUME ~Overlap PROVE Sound /\ Sound' /\ FinishedInv /\ [Next]_vars => FinishedInv'
  <1> SUFFICES ASSUME Sound, Sound', FinishedInv, [Next]_vars, NEW c \in Container
               PROVE  Finished(c)'
    BY DEF FinishedInv
  <1>0. Finished(c) /\ TypeInv /\ TypeOK
    BY DEF FinishedInv, Sound, TypeInv
  <1>f. "Completed" \in Flag
    BY DEF Flag
  <1>1. CASE UNCHANGED vars
    BY <1>0, <1>1, StutterBystander, FinishedBystander
  <1>2. ASSUME NEW r \in Request, Arrive(r) PROVE Finished(c)'
    <2>1. PICK d \in Container : Arriving(r, d) /\ Arrived(r, d)
      BY <1>0, <1>2, ArriveShape
    <2>2. /\ pod' = pod /\ \A q \in Request \ {r} : req'[q] = req[q]
          /\ req'[r].c = d /\ \A q \in Request : Tainr(q) # d
      BY <2>1 DEF Arriving, Arrived
    <2>3. CASE d # c
      BY <1>0, <2>1, <2>3, ArriveBystander, FinishedBystander
    <2>4. CASE d = c
      <3>1. LivePod(c)' <=> LivePod(c)
        BY <2>2 DEF LivePod
      <3>2. \A q \in Request : req'[q].c = c => q = r
        BY <2>2, <2>4 DEF Tainr
      <3>3. req'[r].pc \notin {"services", "podip"}
        BY <2>1 DEF Arrived, StartPc
      <3>4. Settled(c, "Completed") <=> rec[c]["Completed"]
        BY <1>f, <2>1, <2>4, SameArrive
      <3>5. CASE req'[r].pc = "write"
        <4>1. req'[r].op \in {"stop", "kill"} /\ req'[r].writes = EndWrites(req'[r].op)
          BY <2>1, <3>5 DEF Arrived, StartPc
        <4>2. ~Settled(c, "Completed")'
          BY <1>f, <2>1, <2>4, <3>5, <4>1, SameArrive, EndAhead
        <4> QED BY <3>2, <3>3, <4>2 DEF Finished, Tainr
      <3>6. CASE req'[r].pc # "write"
        <4>1. Settled(c, "Completed")' <=> Settled(c, "Completed")
          BY <1>f, <2>1, <2>4, <3>6, SameArrive DEF Same
        <4>2. Launching(req'[r]) => ~rec[c]["Completed"]
          BY <2>1, <2>4, <3>6 DEF Arrived, Launching, StartPhase
        <4> QED BY <1>0, <2>2, <3>1, <3>2, <3>3, <3>4, <4>1, <4>2 DEF Finished, Tainr
      <3> QED BY <3>5, <3>6
    <2> QED BY <2>3, <2>4
  <1>3. ASSUME NEW r \in Request, Step(r) PROVE Finished(c)'
    <2>2. CASE Tainr(r) = c
      BY <1>0, <1>3, <2>2, StepFinishes
    <2>3. CASE Tainr(r) # c
      BY <1>0, <1>3, <2>3, StepBystander, FinishedBystander
    <2> QED BY <2>2, <2>3
  <1>4. CASE Environment
    <2>1. Settled(c, "Completed")' <=> Settled(c, "Completed")
      BY <1>4, <1>f, SameEnvironment DEF Same
    <2>2. \A q \in Request : /\ req'[q].pc = req[q].pc /\ req'[q].op = req[q].op
                             /\ req'[q].c = req[q].c /\ req'[q].state = req[q].state
      BY <1>0, <1>4, EnvironmentFields
    <2>3. \A q \in Request : Launching(req'[q]) <=> Launching(req[q])
      BY <2>2 DEF Launching
    <2>4. LivePod(c)' => LivePod(c) /\ (pod[c].phase = "completed" => pod'[c].phase = "completed")
      <3>1. PICK d \in Container : ContainerCreate(d) \/ PodProgress(d) \/ PodGone(d) \/ Age(d)
        BY <1>4 DEF Environment
      <3>2. CASE ContainerCreate(d) \/ Age(d)
        BY <3>2 DEF ContainerCreate, Age, kubVars, LivePod
      <3>3. CASE PodProgress(d)
        <4>1. PICK p \in Phase : /\ pod[d].phase \notin {"none", "completed"}
                                 /\ pod' = [pod EXCEPT ![d].phase = p]
          BY <3>3 DEF PodProgress, PendingPhase
        <4> QED BY <1>0, <4>1 DEF LivePod, TypeOK
      <3>4. CASE PodGone(d)
        BY <1>0, <3>4 DEF PodGone, LivePod, TypeOK, NoPod
      <3> QED BY <3>1, <3>2, <3>3, <3>4
    <2> QED BY <1>0, <2>1, <2>2, <2>3, <2>4 DEF Finished, Tainr
  <1> QED BY <1>1, <1>2, <1>3, <1>4 DEF Next

\* The flags of a container at rest are settled.
LEMMA SettledAtRest ==
    ASSUME Sound, NEW c \in Container, Quiescent(c), NEW f \in Flag
    PROVE  Settled(c, f) <=> rec[c][f]
  BY SoundSettled DEF SettledFacts, Quiescent

\* A container recorded as completed has no pod that is still at work, whatever
\* kubernetes calls fail and however long pods take to go, as long as the
\* requests on one container do not overlap.
THEOREM CompletedAlwaysFinished ==
    ASSUME ~Overlap PROVE Spec => []CompletedIsFinished
  <1>1. Init => FinishedInv
    BY IdleFields, ContainerAssumption
       DEF Init, FinishedInv, Finished, LivePod, NoPod, Tainr
  <1>2. Spec => []FinishedInv
    BY <1>1, SoundInvariant, FinishedInvNext, PTL DEF Spec
  <1>3. Sound /\ FinishedInv => CompletedIsFinished
    <2> SUFFICES ASSUME Sound, FinishedInv, NEW c \in db, Quiescent(c), rec[c]["Completed"],
                        LivePod(c)
                 PROVE  pod[c].phase = "completed"
      BY DEF CompletedIsFinished
    <2>1. c \in Container
      BY DEF Sound, TypeInv, TypeOK
    <2> QED BY <2>1, SettledAtRest DEF FinishedInv, Finished, Flag
  <1> QED BY <1>2, <1>3, SoundInvariant, PTL

----------------------------------------------------------------------------
(* The database and the events. *)

\* Where the database and the events change.
LEMMA RecordSteps ==
    ASSUME NEW r \in Request, NEW c \in Container, Tainr(r) = c, Step(r)
    PROVE  /\ db' = db \/ (DeleteRecord(r) /\ c \notin db') \/ At(r, "save")
           /\ event' = event \/ Publish(r)
  BY DEF Step, DeleteServices, DeleteConfigMaps, DeletePods, DeleteRecord,
         CreateConfigMap, CreatePod, AwaitInit, TouchDone, AwaitReady, CreateServices,
         GetPodIP, Rollback, AssignFlag, SaveContainer, Publish, WatchDelete,
         AwaitDeleted, UpdateContainerStatus, CheckEnded, ClientLeaves

----------------------------------------------------------------------------
(* What the record says of the namespace. *)

\* No two containers claim the same service name.
DistinctServices ==
    \A c, d \in Container : c # d => ServiceAliases[c] \cap ServiceAliases[d] = {}

NoServices(c) == \A a \in Alias : ~Owns(c, a)
AllServices(c) == \A a \in ServiceAliases[c] : Owns(c, a)
Mountable(c) == c \in FileVolumes => c \in cm
Unmarked(c) == ~Settled(c, "Running") /\ ~Settled(c, "Completed")

Down(c) == ~LivePod(c) /\ NoServices(c)

\* The record tells the truth once the handler at work has made its assignments.
Agrees(c) ==
    /\ Settled(c, "Running") =>
         /\ LivePod(c) /\ AllServices(c) /\ Mountable(c)
         /\ Settled(c, "Failed") => pod[c].phase = "failed"
    /\ Unmarked(c) => Down(c)
    /\ Settled(c, "Stopped") \/ Settled(c, "Killed") => Down(c) /\ ~Settled(c, "Running")

\* How far a deletion has got.
Deleting(r, c) ==
    /\ req[r].pc \in {"delconfigmaps", "delpods"} => NoServices(c)
    /\ At(r, "dbdelete") \/ (At(r, "publish") /\ req[r].op = "delete") => Down(c)

\* How far a start has got.
Starting(r, c) ==
    /\ req[r].pc \in StartPhase => Unmarked(c)
    /\ At(r, "configmap") => c \in FileVolumes
    /\ req[r].pc \in {"configmap", "create"} => pod[c].phase = "none"
    /\ req[r].pc \in {"configmap", "create", "copy", "touch", "await", "rollback"} =>
         NoServices(c)
    /\ req[r].pc \in {"create", "copy", "touch", "await", "services", "podip"} =>
         Mountable(c)
    /\ req[r].pc \in {"copy", "touch", "await", "services", "podip"} => LivePod(c)
    /\ At(r, "services") =>
         /\ req[r].todo \subseteq ServiceAliases[c]
         /\ \A a \in ServiceAliases[c] : Owns(c, a) <=> a \notin req[r].todo
    /\ At(r, "podip") => AllServices(c)

\* Where the record tells the truth.
Truthful(r, c) ==
    /\ req[r].pc \in {"write", "save", "awaitdeleted", "poll", "check"} => Agrees(c)
    /\ At(r, "publish") /\ req[r].op # "delete" => Agrees(c)
    /\ At(r, "awaitdeleted") => Unmarked(c)
    /\ req[r].pc \in {"write", "save"} /\ req[r].op = "restart" /\ req[r].state = "none" =>
         Unmarked(c)

\* A watch that has seen a deletion has seen that of the pod there was.
WatchIsTrue(r, c) ==
    /\ req[r].watch # "nil"
    /\ req[r].watch = "closed" /\ req[r].op = "restart" /\ req[r].state = "none"
         /\ req[r].pc \in {"delservices", "delconfigmaps", "delpods", "write",
                           "save", "awaitdeleted"} =>
         pod[c].phase = "none"

Work(r, c) ==
    /\ c \in db /\ ~req[r].dup
    /\ Deleting(r, c) /\ Starting(r, c) /\ Truthful(r, c) /\ WatchIsTrue(r, c)

\* A container no handler works on.
Rest(c) == IF c \in db THEN Agrees(c) ELSE Down(c)

\* A container owns nothing it did not ask for.
Owned(c) ==
    /\ \A a \in Alias : Owns(c, a) => a \in ServiceAliases[c]
    /\ c \in cm => c \in FileVolumes

Orderly(c) ==
    /\ Owned(c)
    /\ Quiescent(c) => Rest(c)
    /\ \A r \in Request : Tainr(r) = c => Work(r, c)

\* A kubernetes call that fails may leave anything behind; up to the first one,
\* every container is in order.
OrderlyInv == faults = 0 => \A c \in Container : Orderly(c)

----------------------------------------------------------------------------
\* A handler's step, when no kubernetes call fails.

\* The record goes on telling the truth while neither the settled flags nor
\* the container's objects change.
LEMMA AgreesKept ==
    ASSUME NEW c \in Container, Same(c), Agrees(c), pod' = pod, svc' = svc, cm' = cm
    PROVE  Agrees(c)'
  BY DEF Same, Flag, Agrees, Unmarked, Down, LivePod, NoServices, AllServices, Owns, Mountable

\* A step that goes on.
LEMMA GoesOn ==
    ASSUME Sound, NEW r \in Request, NEW c \in Container, Tainr(r) = c, Local(r),
           req[r].pc # "idle", req'[r].c = c, Owned(c)', Work(r, c)'
    PROVE  Orderly(c)'
  <1>1. \A q \in Request : req'[q].c = c => q = r
    BY OnlyHandler
  <1>2. ~Quiescent(c)'
    BY DEF Quiescent, Tainr
  <1> QED BY <1>1, <1>2 DEF Orderly, Tainr

\* A step that ends its handler.
LEMMA Ends ==
    ASSUME Sound, NEW r \in Request, NEW c \in Container, Tainr(r) = c, Local(r),
           req[r].pc # "idle", req'[r] = Idle, Owned(c)', Rest(c)'
    PROVE  Orderly(c)'
  <1>1. \A q \in Request : req'[q].c = c => q = r
    BY OnlyHandler
  <1>2. req'[r].c # c
    BY IdleFields, ContainerAssumption
  <1> QED BY <1>1, <1>2 DEF Orderly, Tainr

\* What a step starts from.
Given(r, c) ==
    /\ Sound /\ Sound' /\ Step(r) /\ Local(r) /\ Flow(req[r]) /\ req[r].pc # "idle"
    /\ TypeInv /\ TypeOK /\ req[r] \in ReqType
    /\ faults' = faults /\ ~Fault
    /\ Owned(c) /\ Work(r, c)

\* The steps of a deletion keep its container in order.
LEMMA DeleteOrders ==
    ASSUME NEW r \in Request, NEW c \in Container, Tainr(r) = c, Given(r, c),
           DeleteServices(r) \/ DeleteConfigMaps(r) \/ DeletePods(r) \/ DeleteRecord(r)
    PROVE  Orderly(c)'
  <1>g. /\ Sound /\ Sound' /\ Step(r) /\ Local(r) /\ Flow(req[r]) /\ req[r].pc # "idle"
        /\ TypeInv /\ TypeOK /\ req[r].c = c /\ faults' = faults /\ ~Fault
        /\ Owned(c) /\ Work(r, c)
    BY DEF Given, Tainr
  <1>w. c \in db /\ ~req[r].dup /\ req[r].watch # "nil"
    BY <1>g DEF Work, WatchIsTrue
  <1>p. PC = {"idle", "write", "delservices", "delconfigmaps", "delpods", "dbdelete",
         "configmap", "create", "copy", "touch", "await", "services", "podip",
         "rollback", "save", "publish", "watch", "awaitdeleted", "poll", "check"}
    BY DEF PC
  <1>1. CASE DeleteServices(r)
    <2>1. /\ req[r].pc = "delservices" /\ Goto(r, "delconfigmaps")
          /\ UNCHANGED <<rec, db, pod, cm, event>>
          /\ svc' = [a \in Alias |-> IF svc[a] = c THEN NoContainer ELSE svc[a]]
      BY <1>1, <1>g DEF DeleteServices, At
    <2>2. /\ req'[r].pc = "delconfigmaps" /\ req'[r].op = req[r].op /\ req'[r].c = c
          /\ req'[r].dup = req[r].dup /\ req'[r].watch = req[r].watch
          /\ req'[r].state = req[r].state
      BY <1>g, <1>p, <2>1, GotoFields
    <2>3. NoServices(c)' /\ Owned(c)'
      BY <1>g, <2>1, ContainerAssumption DEF NoServices, Owned, Owns
    <2>4. Work(r, c)'
      BY <1>g, <1>w, <2>1, <2>2, <2>3
         DEF Work, Deleting, Starting, Truthful, WatchIsTrue, StartPhase, At
    <2> QED BY <1>g, <2>2, <2>3, <2>4, GoesOn
  <1>2. CASE DeleteConfigMaps(r)
    <2>1. /\ req[r].pc = "delconfigmaps" /\ Goto(r, "delpods")
          /\ UNCHANGED <<rec, db, pod, svc, event>>
          /\ cm' = cm \ {c}
      BY <1>2, <1>g DEF DeleteConfigMaps, At
    <2>2. /\ req'[r].pc = "delpods" /\ req'[r].op = req[r].op /\ req'[r].c = c
          /\ req'[r].dup = req[r].dup /\ req'[r].watch = req[r].watch
          /\ req'[r].state = req[r].state
      BY <1>g, <1>p, <2>1, GotoFields
    <2>3. NoServices(c)' /\ Owned(c)'
      BY <1>g, <2>1 DEF NoServices, Owned, Owns, Work, Deleting
    <2>4. Work(r, c)'
      BY <1>g, <1>w, <2>1, <2>2, <2>3
         DEF Work, Deleting, Starting, Truthful, WatchIsTrue, StartPhase, At
    <2> QED BY <1>g, <2>2, <2>3, <2>4, GoesOn
  <1>3. CASE DeletePods(r)
    <2>1. /\ req[r].pc = "delpods" /\ Terminate(c)
          /\ UNCHANGED <<rec, db, svc, cm, event>>
      BY <1>3, <1>g DEF DeletePods, At
    <2>2. /\ Down(c)' /\ Owned(c)'
      BY <1>g, <2>1, TerminatedIsNotLive DEF NoServices, Owned, Owns, Work, Deleting, Down
    <2>3. pod[c].phase = "none" => pod'[c].phase = "none"
      BY <1>g, <2>1 DEF Terminate, TypeOK
    <2>4. CASE Goto(r, "dbdelete") \/ (Goto(r, "publish") /\ req[r].op = "delete")
      <3>1. /\ req'[r].pc = "dbdelete" \/ (req'[r].pc = "publish" /\ req'[r].op = "delete")
            /\ req'[r].c = c /\ req'[r].dup = req[r].dup /\ req'[r].watch = req[r].watch
        BY <1>g, <1>p, <2>4, GotoFields
      <3>2. Work(r, c)'
        BY <1>w, <2>1, <2>2, <3>1
           DEF Work, Deleting, Starting, Truthful, WatchIsTrue, StartPhase, At
      <3> QED BY <1>g, <2>2, <3>1, <3>2, GoesOn
    <2>5. CASE Assign(r, EndWrites(req[r].op)) /\ req[r].op \notin {"delete", "reap"}
      <3>1. /\ req'[r].pc = "write" /\ req'[r].op = req[r].op /\ req'[r].c = c
            /\ req'[r].dup = req[r].dup /\ req'[r].watch = req[r].watch
            /\ req'[r].state = req[r].state /\ req'[r].writes = EndWrites(req[r].op)
        BY <1>g, <2>5, AssignFields, EndWritesType
      <3>2. \A f \in Flag : Settled(c, f)' <=> Ahead(req'[r].writes, rec[c], f)
        BY <1>g, <2>1, <3>1, SettledAt
      <3>3. Unmarked(c)'
        BY <3>1, <3>2, EndAhead DEF Unmarked, Flag
      <3>4. Agrees(c)'
        BY <2>2, <3>3 DEF Agrees, Unmarked
      <3>5. Work(r, c)'
        BY <1>g, <1>w, <2>1, <2>2, <2>3, <3>1, <3>3, <3>4
           DEF Work, Deleting, Starting, Truthful, WatchIsTrue, StartPhase, At
      <3> QED BY <1>g, <2>2, <3>1, <3>5, GoesOn
    <2> QED BY <1>3, <2>4, <2>5, Zenon DEF DeletePods, AfterDelete
  <1>4. CASE DeleteRecord(r)
    <2>1. /\ req[r].pc = "dbdelete" /\ Return(r) /\ c \notin db'
          /\ UNCHANGED <<pod, svc, cm>>
      BY <1>4 DEF DeleteRecord, At, kubVars
    <2>2. Rest(c)' /\ Owned(c)'
      BY <1>g, <2>1 DEF Work, Deleting, At, Rest, Down, LivePod, NoServices, Owned, Owns
    <2> QED BY <1>g, <2>1, <2>2, ReturnFields, Ends
  <1> QED BY <1>1, <1>2, <1>3, <1>4

\* The steps of a start up to the ready pod keep it in order.
LEMMA LaunchOrders ==
    ASSUME NEW r \in Request, NEW c \in Container, Tainr(r) = c, Given(r, c),
           CreateConfigMap(r) \/ CreatePod(r) \/ AwaitInit(r) \/ TouchDone(r) \/ AwaitReady(r)
           \/ Rollback(r)
    PROVE  Orderly(c)'
  <1>g. /\ Sound /\ Sound' /\ Step(r) /\ Local(r) /\ Flow(req[r]) /\ req[r].pc # "idle"
        /\ TypeInv /\ TypeOK /\ req[r].c = c /\ faults' = faults /\ ~Fault
        /\ Owned(c) /\ Work(r, c) /\ req[r] \in ReqType /\ req \in [Request -> ReqType]
    BY DEF Given, Tainr, TypeInv, ReqOK
  <1>w. /\ c \in db /\ ~req[r].dup /\ req[r].watch # "nil"
        /\ req[r].pc \in StartPhase => Unmarked(c)
        /\ req[r].pc = "configmap" => c \in FileVolumes
        /\ req[r].pc \in {"configmap", "create"} => pod[c].phase = "none"
        /\ req[r].pc \in {"configmap", "create", "copy", "touch", "await", "rollback"} =>
             NoServices(c)
        /\ req[r].pc \in {"create", "copy", "touch", "await"} => Mountable(c)
        /\ req[r].pc \in {"copy", "touch", "await"} => LivePod(c)
    BY <1>g DEF Work, WatchIsTrue, Starting, At
  <1>p. PC = {"idle", "write", "delservices", "delconfigmaps", "delpods", "dbdelete",
         "configmap", "create", "copy", "touch", "await", "services", "podip",
         "rollback", "save", "publish", "watch", "awaitdeleted", "poll", "check"}
    BY DEF PC
  <1>f. ASSUME Unmarked(c), req'[r].pc # "write" PROVE Unmarked(c)'
    BY <1>f, <1>g, StepSame DEF Same, Flag, Unmarked
  \* A start that has failed, or gone on to a step before the services.
  <1>1. ASSUME NEW pc \in {"create", "copy", "touch", "await", "rollback"}, Goto(r, pc),
               Unmarked(c), NoServices(c), svc' = svc, db' = db, Owned(c)',
               pc # "rollback" => Mountable(c)',
               pc = "create" => pod'[c].phase = "none",
               pc \in {"copy", "touch", "await"} => LivePod(c)'
        PROVE  Orderly(c)'
    <2>1. /\ req'[r].pc = pc /\ req'[r].op = req[r].op /\ req'[r].c = c
          /\ req'[r].dup = req[r].dup /\ req'[r].watch = req[r].watch
      BY <1>g, <1>p, <1>1, GotoFields
    <2>2. Unmarked(c)' /\ NoServices(c)'
      BY <1>f, <1>1, <2>1 DEF NoServices, Owns
    <2>3. Work(r, c)'
      BY <1>w, <1>1, <2>1, <2>2
         DEF Work, Deleting, Starting, Truthful, WatchIsTrue, StartPhase, At
    <2> QED BY <1>g, <1>1, <2>1, <2>3, GoesOn
  <1>2. CASE CreateConfigMap(r)
    <2>1. /\ req[r].pc = "configmap" /\ UNCHANGED <<db, pod, svc>>
          /\ \/ cm' = cm \cup {c} /\ Goto(r, "create")
             \/ cm' = cm /\ Goto(r, "rollback")
      BY <1>2, <1>g DEF CreateConfigMap, Failed, At
    <2>2. Owned(c)'
      BY <1>g, <1>w, <2>1 DEF Owned, Owns
    <2> QED BY <1>1, <1>w, <2>1, <2>2 DEF StartPhase, Mountable
  <1>3. CASE CreatePod(r)
    <2> DEFINE next == IF c \in Setup THEN "copy" ELSE "await"
    <2>1. /\ req[r].pc = "create" /\ UNCHANGED <<db, svc, cm>>
          /\ Goto(r, next)
          /\ \E p \in {"pending", "starting"} :
               pod' = [pod EXCEPT ![c] = [phase |-> p, terminating |-> FALSE]]
      BY <1>3, <1>g, <1>w DEF CreatePod, At
    <2>2. Owned(c)' /\ LivePod(c)'
      BY <1>g, <2>1 DEF Owned, Owns, LivePod, TypeOK
    <2>3. next \in {"copy", "await"}
      OBVIOUS
    <2> HIDE DEF next
    <2> QED BY <1>1, <1>w, <2>1, <2>2, <2>3 DEF StartPhase, Mountable
  <1>4. CASE AwaitInit(r)
    <2>1. /\ req[r].pc = "copy" /\ UNCHANGED <<db, pod, svc, cm>>
          /\ Goto(r, "touch") \/ Goto(r, "await") \/ Goto(r, "rollback")
      BY <1>4 DEF AwaitInit, Failed, At, kubVars
    <2>2. Owned(c)'
      BY <1>g, <2>1 DEF Owned, Owns
    <2> QED BY <1>1, <1>w, <2>1, <2>2 DEF StartPhase, Mountable, LivePod
  <1>5. CASE TouchDone(r)
    <2>1. /\ req[r].pc = "touch" /\ UNCHANGED <<db, svc, cm>>
          /\ \/ Goto(r, "await") /\ pod' = [pod EXCEPT ![c].phase = "initdone"]
             \/ Goto(r, "rollback") /\ pod' = pod
      BY <1>5, <1>g DEF TouchDone, Failed, At
    <2>2. Owned(c)'
      BY <1>g, <2>1 DEF Owned, Owns
    <2>3. LivePod(c)'
      <3>1. pod[c].phase # "none" /\ ~pod[c].terminating
        BY <1>w, <2>1 DEF LivePod
      <3>2. pod'[c].phase # "none" /\ pod'[c].terminating = pod[c].terminating
        BY <1>g, <2>1, <3>1 DEF TypeOK
      <3> QED BY <3>1, <3>2 DEF LivePod
    <2> QED BY <1>1, <1>w, <2>1, <2>2, <2>3 DEF StartPhase, Mountable
  <1>6. CASE AwaitReady(r)
    <2>1. /\ req[r].pc = "await" /\ UNCHANGED <<db, pod, svc, cm>>
          /\ \/ /\ req'[r].pc = "services" /\ req'[r].c = c /\ req'[r].dup = req[r].dup
                /\ req'[r].watch = req[r].watch /\ req'[r].todo = ServiceAliases[c]
             \/ Goto(r, "rollback")
      BY <1>6, <1>g DEF AwaitReady, Failed, At, kubVars, ReqType
    <2>2. Owned(c)' /\ Mountable(c)' /\ LivePod(c)' /\ NoServices(c)'
      BY <1>g, <1>w, <2>1 DEF Owned, Owns, LivePod, Mountable, NoServices
    <2>3. CASE /\ req'[r].pc = "services" /\ req'[r].c = c /\ req'[r].dup = req[r].dup
               /\ req'[r].watch = req[r].watch /\ req'[r].todo = ServiceAliases[c]
      <3>1. Unmarked(c)'
        BY <1>f, <1>w, <2>1, <2>3 DEF StartPhase
      <3>2. ServiceAliases[c] \subseteq Alias
        BY ShapeAssumption
      <3>3. Work(r, c)'
        BY <1>w, <2>1, <2>2, <2>3, <3>1, <3>2
           DEF Work, Deleting, Starting, Truthful, WatchIsTrue, StartPhase, At, NoServices
      <3> QED BY <1>g, <2>2, <2>3, <3>3, GoesOn
    <2> QED BY <1>1, <1>w, <2>1, <2>2, <2>3 DEF StartPhase
  <1>7. CASE Rollback(r)
    <2>1. /\ req[r].pc = "rollback" /\ UNCHANGED <<db, svc, cm>>
          /\ Return(r) /\ Terminate(c)
      BY <1>7, <1>g DEF Rollback, At
    <2>2. Owned(c)' /\ Down(c)'
      BY <1>g, <1>w, <2>1, TerminatedIsNotLive DEF Owned, Owns, NoServices, Down
    <2>3. req'[r] = Idle /\ req'[r].pc # "write"
      BY <1>g, <2>1, ReturnFields, IdleFields
    <2>4. Unmarked(c)'
      BY <1>f, <1>w, <2>1, <2>3 DEF StartPhase
    <2>5. Rest(c)'
      BY <1>w, <2>1, <2>2, <2>4 DEF Rest, Agrees, Unmarked
    <2> QED BY <1>g, <2>2, <2>3, <2>5, Ends
  <1> QED BY <1>2, <1>3, <1>4, <1>5, <1>6, <1>7

\* So do the creation of its services and the reading of its address.
LEMMA ServeOrders ==
    ASSUME DistinctServices, \A d \in Container : Owned(d),
           NEW r \in Request, NEW c \in Container, Tainr(r) = c, Given(r, c),
           CreateServices(r) \/ GetPodIP(r)
    PROVE  Orderly(c)'
  <1>g. /\ Sound /\ Sound' /\ Step(r) /\ Local(r) /\ Flow(req[r]) /\ req[r].pc # "idle"
        /\ TypeInv /\ TypeOK /\ req[r].c = c /\ faults' = faults /\ ~Fault
        /\ Owned(c) /\ Work(r, c) /\ req[r] \in ReqType /\ req \in [Request -> ReqType]
    BY DEF Given, Tainr, TypeInv, ReqOK
  <1>w. /\ c \in db /\ ~req[r].dup /\ req[r].watch # "nil"
        /\ req[r].pc \in {"services", "podip"} => Unmarked(c) /\ Mountable(c) /\ LivePod(c)
        /\ req[r].pc = "services" =>
             /\ req[r].todo \subseteq ServiceAliases[c]
             /\ \A a \in ServiceAliases[c] : Owns(c, a) <=> a \notin req[r].todo
        /\ req[r].pc = "podip" => AllServices(c)
    BY <1>g DEF Work, WatchIsTrue, Starting, At, StartPhase
  <1>a. ServiceAliases[c] \subseteq Alias
    BY ShapeAssumption
  <1>p. "podip" \in PC
    BY DEF PC
  <1>1. CASE CreateServices(r)
    <2>1. req[r].pc = "services" /\ UNCHANGED <<db, pod, cm>>
      BY <1>1 DEF CreateServices, At
    <2>2. Mountable(c)' /\ LivePod(c)'
      BY <1>w, <2>1 DEF Mountable, LivePod
    <2>3. ASSUME NEW a \in req[r].todo PROVE svc[a] = NoContainer
      <3>1. a \in ServiceAliases[c] /\ svc[a] # c /\ a \in Alias
        BY <1>w, <1>a, <2>1, <2>3 DEF Owns
      <3>2. ASSUME NEW d \in Container, svc[a] = d PROVE FALSE
        <4>1. d # c /\ a \in ServiceAliases[d]
          BY <3>1, <3>2 DEF Owned, Owns
        <4> QED BY <3>1, <4>1 DEF DistinctServices
      <3> QED BY <1>g, <3>1, <3>2 DEF TypeOK
    <2>4. CASE req[r].todo = {} /\ Goto(r, "podip") /\ svc' = svc
      <3>1. /\ req'[r].pc = "podip" /\ req'[r].op = req[r].op /\ req'[r].c = c
            /\ req'[r].dup = req[r].dup /\ req'[r].watch = req[r].watch
        BY <1>g, <1>p, <2>4, GotoFields
      <3>2. AllServices(c)' /\ Owned(c)'
        BY <1>g, <1>w, <2>1, <2>4 DEF AllServices, Owned, Owns
      <3>3. Unmarked(c)'
        BY <1>g, <1>w, <2>1, <3>1, StepSame DEF Same, Flag, Unmarked
      <3>4. Work(r, c)'
        BY <1>w, <2>1, <2>2, <3>1, <3>2, <3>3
           DEF Work, Deleting, Starting, Truthful, WatchIsTrue, StartPhase, At
      <3> QED BY <1>g, <3>1, <3>2, <3>4, GoesOn
    <2>5. ASSUME NEW a \in req[r].todo, svc' = [svc EXCEPT ![a] = c],
                 req' = [req EXCEPT ![r].todo = @ \ {a}]
          PROVE  Orderly(c)'
      <3>1. /\ req'[r].pc = "services" /\ req'[r].op = req[r].op /\ req'[r].c = c
            /\ req'[r].dup = req[r].dup /\ req'[r].watch = req[r].watch
            /\ req'[r].todo = req[r].todo \ {a}
        BY <1>g, <2>1, <2>5 DEF ReqType
      <3>2. a \in ServiceAliases[c] /\ a \in Alias
        BY <1>w, <1>a, <2>1, <2>5
      <3>3. Owned(c)' /\ \A b \in ServiceAliases[c] : Owns(c, b)' <=> b \notin req'[r].todo
        <4>1. \A b \in Alias : svc'[b] = IF b = a THEN c ELSE svc[b]
          BY <1>g, <2>5, <3>2 DEF TypeOK
        <4> QED BY <1>g, <1>w, <1>a, <2>1, <3>1, <3>2, <4>1 DEF Owned, Owns
      <3>4. Unmarked(c)'
        BY <1>g, <1>w, <2>1, <3>1, StepSame DEF Same, Flag, Unmarked
      <3>5. req'[r].todo \subseteq ServiceAliases[c]
        BY <1>w, <2>1, <3>1
      <3>6. Work(r, c)'
        BY <1>w, <2>1, <2>2, <3>1, <3>3, <3>4, <3>5
           DEF Work, Deleting, Starting, Truthful, WatchIsTrue, StartPhase, At
      <3> QED BY <1>g, <3>1, <3>3, <3>6, GoesOn
    <2> QED BY <1>g, <1>1, <2>3, <2>4, <2>5 DEF CreateServices
  <1>2. CASE GetPodIP(r)
    <2>1. /\ req[r].pc = "podip" /\ UNCHANGED <<rec, db, pod, svc, cm>>
          /\ Assign(r, StartWrites(req[r].state))
          /\ req[r].state \in {"running", "completed"}
      BY <1>2, <1>g, <1>w DEF GetPodIP, At, kubVars, LivePod, Flow
    <2>2. /\ req'[r].pc = "write" /\ req'[r].op = req[r].op /\ req'[r].c = c
          /\ req'[r].dup = req[r].dup /\ req'[r].watch = req[r].watch
          /\ req'[r].state = req[r].state /\ req'[r].writes = StartWrites(req[r].state)
      BY <1>g, <2>1, AssignFields, StartWritesType
    <2>3. \A f \in Flag : Settled(c, f)' <=> Ahead(req'[r].writes, rec[c], f)
      BY <1>g, <2>1, <2>2, SettledAt
    <2>4. /\ Settled(c, "Running")' <=> req[r].state = "running"
          /\ Settled(c, "Completed")' <=> req[r].state = "completed"
          /\ ~Settled(c, "Stopped")' /\ ~Settled(c, "Killed")' /\ ~Settled(c, "Failed")'
      BY <2>2, <2>3, StartAhead DEF Flag
    <2>5. LivePod(c)' /\ AllServices(c)' /\ Mountable(c)' /\ Owned(c)'
      BY <1>g, <1>w, <2>1 DEF LivePod, AllServices, Mountable, Owned, Owns
    <2>6. Agrees(c)'
      BY <2>1, <2>4, <2>5 DEF Agrees, Unmarked
    <2>7. Work(r, c)'
      BY <1>w, <2>1, <2>2, <2>6
         DEF Work, Deleting, Starting, Truthful, WatchIsTrue, StartPhase, At
    <2> QED BY <1>g, <2>2, <2>5, <2>7, GoesOn
  <1> QED BY <1>1, <1>2

\* So do the steps that bring the record up to date and wait.
LEMMA AnswerOrders ==
    ASSUME PromptDeletion, NEW r \in Request, NEW c \in Container, Tainr(r) = c, Given(r, c),
           AssignFlag(r) \/ SaveContainer(r) \/ Publish(r) \/ WatchDelete(r) \/ AwaitDeleted(r)
           \/ UpdateContainerStatus(r) \/ CheckEnded(r) \/ ClientLeaves(r)
    PROVE  Orderly(c)'
  <1>g. /\ Sound /\ Sound' /\ Step(r) /\ Local(r) /\ Flow(req[r]) /\ req[r].pc # "idle"
        /\ TypeInv /\ TypeOK /\ req[r].c = c /\ faults' = faults /\ ~Fault
        /\ Owned(c) /\ Work(r, c) /\ req[r] \in ReqType /\ req \in [Request -> ReqType]
        /\ FlowInv
    BY DEF Given, Tainr, TypeInv, ReqOK, Sound
  <1>w. /\ c \in db /\ ~req[r].dup /\ req[r].watch # "nil"
        /\ Truthful(r, c) /\ WatchIsTrue(r, c)
    BY <1>g DEF Work, WatchIsTrue
  <1>p. PC = {"idle", "write", "delservices", "delconfigmaps", "delpods", "dbdelete",
         "configmap", "create", "copy", "touch", "await", "services", "podip",
         "rollback", "save", "publish", "watch", "awaitdeleted", "poll", "check"}
    BY DEF PC
  <1>k. UNCHANGED <<pod, svc, cm>> /\ Owned(c)'
    <2>1. UNCHANGED <<pod, svc, cm>>
      BY DEF AssignFlag, SaveContainer, Publish, WatchDelete, AwaitDeleted,
             UpdateContainerStatus, CheckEnded, ClientLeaves, kubVars
    <2> QED BY <1>g, <2>1 DEF Owned, Owns
  \* What stays true while the flags stay settled.
  <1>s. ASSUME AssignFlag(r) \/ req'[r].pc # "write"
        PROVE  (Agrees(c) => Agrees(c)') /\ (Unmarked(c) => Unmarked(c)')
    <2>1. Same(c)
      BY <1>g, <1>s, StepSame
    <2> QED BY <1>k, <2>1, AgreesKept DEF Same, Flag, Unmarked
  <1>r. ASSUME Agrees(c), Return(r), c \in db' PROVE Orderly(c)'
    <2>1. req'[r] = Idle /\ req'[r].pc # "write"
      BY <1>g, <1>r, ReturnFields, IdleFields
    <2>2. Rest(c)'
      BY <1>r, <1>s, <2>1 DEF Rest
    <2> QED BY <1>g, <1>k, <2>1, <2>2, Ends
  <1>1. CASE AssignFlag(r)
    <2>1. req[r].pc = "write" /\ db' = db
      BY <1>1 DEF AssignFlag, At
    <2>2. /\ req'[r].op = req[r].op /\ req'[r].c = c /\ req'[r].dup = req[r].dup
          /\ req'[r].state = req[r].state /\ req'[r].watch = req[r].watch
          /\ req'[r].pc \in {"write", "check", "save"}
      BY <1>1, <1>g, AssignFlagFields
    <2>3. Work(r, c)'
      BY <1>1, <1>w, <1>k, <1>s, <2>1, <2>2
         DEF Work, Deleting, Starting, Truthful, WatchIsTrue, StartPhase, At
    <2> QED BY <1>g, <1>k, <2>2, <2>3, GoesOn
  <1>2. CASE SaveContainer(r)
    <2>1. req[r].pc = "save" /\ c \in db' /\ Agrees(c)
      BY <1>2, <1>w DEF SaveContainer, At, Truthful
    <2>2. ASSUME NEW pc \in {"publish", "awaitdeleted"}, Goto(r, pc),
                 IF pc = "publish" THEN req[r].op \notin {"restart", "attach"}
                                   ELSE req[r].op = "restart" /\ req[r].state = "none"
          PROVE  Orderly(c)'
      <3>1. /\ req'[r].pc = pc /\ req'[r].op = req[r].op /\ req'[r].c = c
            /\ req'[r].dup = req[r].dup /\ req'[r].watch = req[r].watch
            /\ req'[r].state = req[r].state
        BY <1>g, <1>p, <2>2, GotoFields
      <3>2. req[r].op \in {"start", "attach", "stop", "kill", "restart"}
        BY <1>g, <2>1 DEF Flow
      <3>3. Work(r, c)'
        BY <1>w, <1>k, <1>s, <2>1, <2>2, <3>1, <3>2
           DEF Work, Deleting, Starting, Truthful, WatchIsTrue, StartPhase, At
      <3> QED BY <1>g, <1>k, <3>1, <3>3, GoesOn
    <2>3. \/ Goto(r, "publish") /\ req[r].op \notin {"restart", "attach"}
          \/ Goto(r, "awaitdeleted") /\ req[r].op = "restart" /\ req[r].state = "none"
          \/ Return(r)
      BY <1>2, Zenon DEF SaveContainer
    <2> QED BY <1>r, <2>1, <2>2, <2>3
  <1>3. CASE Publish(r)
    <2>1. req[r].pc = "publish" /\ db' = db
      BY <1>3 DEF Publish, At
    <2>2. CASE req[r].op = "delete"
      <3>1. /\ req'[r].pc = "dbdelete" /\ req'[r].c = c
            /\ req'[r].dup = req[r].dup /\ req'[r].watch = req[r].watch
        BY <1>3, <1>g, <1>p, <2>2, GotoFields DEF Publish
      <3>2. Down(c)'
        BY <1>g, <1>k, <2>1, <2>2 DEF Work, Deleting, At, Down, LivePod, NoServices, Owns
      <3>3. Work(r, c)'
        BY <1>w, <2>1, <3>1, <3>2
           DEF Work, Deleting, Starting, Truthful, WatchIsTrue, StartPhase, At
      <3> QED BY <1>g, <1>k, <3>1, <3>3, GoesOn
    <2>3. CASE req[r].op # "delete"
      BY <1>3, <1>r, <1>w, <2>1, <2>3 DEF Publish, Truthful, At
    <2> QED BY <2>2, <2>3
  <1>4. CASE WatchDelete(r)
    <2>1. /\ db' = db /\ req'[r].pc = "delservices" /\ req'[r].c = c
          /\ req'[r].dup = req[r].dup /\ req'[r].watch = "armed"
      BY <1>4, <1>g DEF WatchDelete, ReqType
    <2>2. Work(r, c)'
      BY <1>w, <2>1 DEF Work, Deleting, Starting, Truthful, WatchIsTrue, StartPhase, At
    <2> QED BY <1>g, <1>k, <2>1, <2>2, GoesOn
  <1>5. CASE AwaitDeleted(r)
    <2>1. /\ req[r].pc = "awaitdeleted" /\ db' = db /\ Goto(r, StartPc(c))
          /\ Agrees(c) /\ Unmarked(c) /\ req[r].op = "restart" /\ req[r].state = "none"
      BY <1>5, <1>g, <1>w DEF AwaitDeleted, At, Truthful, Flow
    <2>2. StartPc(c) \in {"configmap", "create"} /\ (StartPc(c) = "configmap" <=> c \in FileVolumes)
      BY DEF StartPc
    <2>3. /\ req'[r].pc = StartPc(c) /\ req'[r].c = c
          /\ req'[r].dup = req[r].dup /\ req'[r].watch = req[r].watch
      BY <1>g, <1>p, <2>1, <2>2, GotoFields
    <2>4. pod[c].phase = "none"
      <3>1. ~LivePod(c)
        BY <2>1 DEF Agrees, Down
      <3>2. req[r].watch = "closed" \/ ~pod[c].terminating
        BY <1>5 DEF AwaitDeleted
      <3> QED BY <1>w, <2>1, <3>1, <3>2 DEF LivePod, WatchIsTrue
    <2>5. NoServices(c)' /\ Unmarked(c)'
      BY <1>k, <1>s, <2>1, <2>2, <2>3 DEF Agrees, Down, NoServices, Owns
    <2>6. Work(r, c)'
      BY <1>w, <1>k, <2>1, <2>2, <2>3, <2>4, <2>5
         DEF Work, Deleting, Starting, Truthful, WatchIsTrue, StartPhase, At, Mountable
    <2> QED BY <1>g, <1>k, <2>3, <2>6, GoesOn
  <1>6. CASE UpdateContainerStatus(r)
    <2>1. req[r].pc = "poll" /\ db' = db /\ rec' = rec /\ Agrees(c)
          /\ req[r].op \in {"wait", "inspect"}
      BY <1>6, <1>g, <1>w DEF UpdateContainerStatus, At, Truthful, Flow
    <2>2. CASE Goto(r, "check")
      <3>1. /\ req'[r].pc = "check" /\ req'[r].op = req[r].op /\ req'[r].c = c
            /\ req'[r].dup = req[r].dup /\ req'[r].watch = req[r].watch
        BY <1>g, <1>p, <2>2, GotoFields
      <3>2. Work(r, c)'
        BY <1>w, <1>k, <1>s, <2>1, <3>1
           DEF Work, Deleting, Starting, Truthful, WatchIsTrue, StartPhase, At
      <3> QED BY <1>g, <1>k, <3>1, <3>2, GoesOn
    <2>3. ASSUME NEW ws \in Seq(Write), Assign(r, ws),
                 (\A f \in Flag : /\ Settled(c, f) <=> rec[c][f]
                                  /\ Settled(c, f)' <=> Ahead(ws, rec[c], f)) => Agrees(c)'
          PROVE  Orderly(c)'
      <3>1. /\ req'[r].pc = "write" /\ req'[r].op = req[r].op /\ req'[r].c = c
            /\ req'[r].dup = req[r].dup /\ req'[r].watch = req[r].watch
        BY <1>g, <2>3, AssignFields
      <3>2. Agrees(c)'
        BY <1>g, <2>1, <2>3, AheadHere
      <3>3. Work(r, c)'
        BY <1>w, <2>1, <3>1, <3>2
           DEF Work, Deleting, Starting, Truthful, WatchIsTrue, StartPhase, At
      <3> QED BY <1>g, <1>k, <3>1, <3>3, GoesOn
    <2>u. /\ LivePod(c)' <=> LivePod(c)
          /\ AllServices(c)' <=> AllServices(c)
          /\ Mountable(c)' <=> Mountable(c)
          /\ Down(c)' <=> Down(c)
      BY <1>k DEF LivePod, AllServices, NoServices, Down, Mountable, Owns
    <2>4. CASE Assign(r, <<<<"Failed", TRUE>>>>) /\ pod[c].phase \in {"none", "failed"}
      <3>1. ASSUME NEW ws, ws = <<<<"Failed", TRUE>>>>,
                   \A f \in Flag : /\ Settled(c, f) <=> rec[c][f]
                                   /\ Settled(c, f)' <=> Ahead(ws, rec[c], f)
            PROVE  Agrees(c)'
        <4>1. \A f \in Flag \ {"Failed"} : Settled(c, f)' <=> Settled(c, f)
          BY <3>1, FailedAhead
        <4>2. /\ Settled(c, "Running")' <=> Settled(c, "Running")
              /\ Settled(c, "Completed")' <=> Settled(c, "Completed")
              /\ Settled(c, "Stopped")' <=> Settled(c, "Stopped")
              /\ Settled(c, "Killed")' <=> Settled(c, "Killed")
          BY <4>1 DEF Flag
        <4>3. Settled(c, "Running")' => pod'[c].phase = "failed"
          BY <1>k, <2>1, <2>4, <4>2 DEF Agrees, LivePod
        <4> QED BY <1>k, <2>1, <2>u, <4>2, <4>3 DEF Agrees, Unmarked
      <3> QED BY <2>3, <2>4, <3>1, PollWritesType
    <2>5. CASE Assign(r, <<<<"Completed", TRUE>>, <<"Running", FALSE>>>>)
      <3>1. ASSUME NEW ws, ws = <<<<"Completed", TRUE>>, <<"Running", FALSE>>>>,
                   \A f \in Flag : /\ Settled(c, f) <=> rec[c][f]
                                   /\ Settled(c, f)' <=> Ahead(ws, rec[c], f)
            PROVE  Agrees(c)'
        <4>1. /\ Settled(c, "Completed")' /\ ~Settled(c, "Running")'
              /\ Settled(c, "Stopped")' <=> Settled(c, "Stopped")
              /\ Settled(c, "Killed")' <=> Settled(c, "Killed")
          BY <3>1, CompletedAhead DEF Flag
        <4> QED BY <1>k, <2>1, <2>u, <4>1 DEF Agrees, Unmarked
      <3> QED BY <2>3, <2>5, <3>1, PollWritesType
    <2>6. \/ Return(r) \/ Goto(r, "check")
          \/ Assign(r, <<<<"Failed", TRUE>>>>) /\ pod[c].phase \in {"none", "failed"}
          \/ Assign(r, <<<<"Completed", TRUE>>, <<"Running", FALSE>>>>)
      BY <1>6, <1>g, Zenon DEF UpdateContainerStatus
    <2> QED BY <1>r, <1>w, <2>1, <2>2, <2>4, <2>5, <2>6
  <1>7. CASE CheckEnded(r)
    <2>1. req[r].pc = "check" /\ db' = db /\ Agrees(c)
      BY <1>7, <1>w DEF CheckEnded, At, Truthful
    <2>2. CASE Goto(r, "poll")
      <3>1. /\ req'[r].pc = "poll" /\ req'[r].op = req[r].op /\ req'[r].c = c
            /\ req'[r].dup = req[r].dup /\ req'[r].watch = req[r].watch
        BY <1>g, <1>p, <2>2, GotoFields
      <3>2. Work(r, c)'
        BY <1>w, <1>k, <1>s, <2>1, <3>1
           DEF Work, Deleting, Starting, Truthful, WatchIsTrue, StartPhase, At
      <3> QED BY <1>g, <1>k, <3>1, <3>2, GoesOn
    <2> QED BY <1>7, <1>r, <1>w, <2>1, <2>2 DEF CheckEnded
  <1>8. CASE ClientLeaves(r)
    BY <1>8, <1>r, <1>w DEF ClientLeaves, At, Truthful
  <1> QED BY <1>1, <1>2, <1>3, <1>4, <1>5, <1>6, <1>7, <1>8

\* The kubelet brings no pod up or down that the handlers have not.
LEMMA EnvironmentObjects ==
    ASSUME TypeInv, Environment, NEW c \in Container
    PROVE  /\ LivePod(c)' <=> LivePod(c)
           /\ pod[c].phase = "none" => pod'[c].phase = "none"
           /\ LivePod(c) /\ pod[c].phase = "failed" => pod'[c].phase = "failed"
           /\ svc' = svc /\ cm' = cm /\ faults' = faults
           /\ c \in db => c \in db'
           /\ c \in db' => c \in db \/ c \notin created
           /\ \A q \in Request : req[q].c = c =>
                \/ req'[q] = req[q]
                \/ pod'[c].phase = "none" /\ req'[q].watch = "closed"
  <1>0. TypeOK /\ req \in [Request -> ReqType]
    BY DEF TypeInv, ReqOK
  <1>1. PICK d \in Container : ContainerCreate(d) \/ PodProgress(d) \/ PodGone(d) \/ Age(d)
    BY DEF Environment
  <1>2. CASE ContainerCreate(d) \/ Age(d)
    BY <1>2 DEF ContainerCreate, Age, kubVars, LivePod
  <1>3. CASE PodProgress(d)
    <2>1. PICK p \in Phase : /\ pod[d].phase \notin {"none", "completed", "failed"}
                             /\ p # "none"
                             /\ pod' = [pod EXCEPT ![d].phase = p]
      BY <1>3 DEF PodProgress, PendingPhase
    <2>2. UNCHANGED <<db, svc, cm, req, faults>>
      BY <1>3 DEF PodProgress, recVars
    <2>3. /\ pod'[c].terminating = pod[c].terminating
          /\ pod'[c].phase = IF c = d THEN p ELSE pod[c].phase
      BY <1>0, <2>1 DEF TypeOK
    <2> QED BY <2>1, <2>2, <2>3 DEF LivePod
  <1>4. CASE PodGone(d)
    <2>1. /\ UNCHANGED <<db, svc, cm, faults>> /\ pod[d].terminating
          /\ pod'[c] = IF c = d THEN NoPod ELSE pod[c]
      BY <1>0, <1>4 DEF PodGone, recVars, TypeOK
    <2>2. NoPod.phase = "none"
      BY DEF NoPod
    <2>3. \A q \in Request : req'[q] = IF req[q].c = d /\ req[q].watch = "armed"
                                       THEN [req[q] EXCEPT !.watch = "closed"] ELSE req[q]
      BY <1>4 DEF PodGone, Tainr
    <2>4. \A q \in Request : req[q].c = c /\ c = d => req'[q] = req[q] \/ req'[q].watch = "closed"
      BY <1>0, <2>3 DEF ReqType
    <2>5. \A q \in Request : req[q].c = c /\ c # d => req'[q] = req[q]
      BY <2>3
    <2> QED BY <2>1, <2>2, <2>4, <2>5 DEF LivePod
  <1> QED BY <1>1, <1>2, <1>3, <1>4

\* So do the steps of the kubelet and of time.
LEMMA EnvironmentOrders ==
    ASSUME Sound, Sound', Environment, NEW c \in Container, Orderly(c)
    PROVE  Orderly(c)'
  <1>1. /\ LivePod(c)' <=> LivePod(c)
        /\ pod[c].phase = "none" => pod'[c].phase = "none"
        /\ LivePod(c) /\ pod[c].phase = "failed" => pod'[c].phase = "failed"
        /\ svc' = svc /\ cm' = cm
        /\ c \in db => c \in db'
        /\ c \in db' => c \in db \/ c \notin created
    BY EnvironmentObjects DEF Sound
  <1>2. /\ Settled(c, "Running")' <=> Settled(c, "Running")
        /\ Settled(c, "Completed")' <=> Settled(c, "Completed")
        /\ Settled(c, "Failed")' <=> Settled(c, "Failed")
        /\ Settled(c, "Stopped")' <=> Settled(c, "Stopped")
        /\ Settled(c, "Killed")' <=> Settled(c, "Killed")
    BY SameEnvironment DEF Same, Flag
  <1>3. /\ NoServices(c)' <=> NoServices(c)
        /\ AllServices(c)' <=> AllServices(c)
        /\ Mountable(c)' <=> Mountable(c)
        /\ Owned(c)' <=> Owned(c)
        /\ \A a \in Alias : Owns(c, a)' <=> Owns(c, a)
    BY <1>1 DEF NoServices, AllServices, Mountable, Owned, Owns
  <1>4. /\ Down(c)' <=> Down(c)
        /\ Unmarked(c)' <=> Unmarked(c)
    BY <1>1, <1>2, <1>3 DEF Down, Unmarked
  <1>5. Agrees(c) => Agrees(c)'
    BY <1>1, <1>2, <1>3, <1>4 DEF Agrees
  <1>6. \A q \in Request : /\ req'[q].pc = req[q].pc /\ req'[q].op = req[q].op
                           /\ req'[q].c = req[q].c /\ req'[q].dup = req[q].dup
                           /\ req'[q].state = req[q].state /\ req'[q].todo = req[q].todo
    BY EnvironmentFields DEF Sound
  <1>7. ASSUME NEW q \in Request, req'[q].c = c PROVE Work(q, c)'
    <2>1. Work(q, c) /\ req[q].c = c
      BY <1>6, <1>7 DEF Orderly, Tainr
    <2>2. \/ req'[q].watch = req[q].watch
          \/ pod'[c].phase = "none" /\ req'[q].watch = "closed"
      BY <2>1, EnvironmentObjects DEF Sound
    <2>3. WatchIsTrue(q, c)'
      BY <1>1, <1>6, <2>1, <2>2 DEF Work, WatchIsTrue
    <2>4. Deleting(q, c)' /\ Truthful(q, c)'
      BY <1>3, <1>4, <1>5, <1>6, <2>1 DEF Work, Deleting, Truthful, At
    <2>5. Starting(q, c)'
      <3>1. ServiceAliases[c] \subseteq Alias
        BY ShapeAssumption
      <3> QED BY <1>1, <1>3, <1>4, <1>6, <2>1, <3>1 DEF Work, Starting, At
    <2> QED BY <1>1, <1>6, <2>1, <2>3, <2>4, <2>5 DEF Work
  <1>8. ASSUME Quiescent(c)' PROVE Rest(c)'
    <2>1. Quiescent(c) /\ Rest(c)
      BY <1>6, <1>8 DEF Quiescent, Tainr, Orderly
    <2>2. CASE c \in db
      BY <1>1, <1>5, <2>1, <2>2 DEF Rest
    <2>3. CASE c \notin db /\ c \in db'
      <3>1. Unmarked(c) /\ ~Settled(c, "Stopped") /\ ~Settled(c, "Killed")
        <4>1. \A f \in Flag : ~rec[c][f] /\ (Settled(c, f) <=> rec[c][f])
          BY <1>1, <2>1, <2>3, SettledAtRest DEF Sound, Fresh
        <4> QED BY <4>1 DEF Unmarked, Flag
      <3> QED BY <1>2, <1>4, <2>1, <2>3, <3>1 DEF Rest, Agrees, Unmarked
    <2>4. CASE c \notin db /\ c \notin db'
      BY <1>4, <2>1, <2>4 DEF Rest
    <2> QED BY <2>2, <2>3, <2>4
  <1> QED BY <1>3, <1>7, <1>8 DEF Orderly, Tainr

\* A container that a step does not touch stays in order.
LEMMA BystanderOrders ==
    ASSUME NEW d \in Container, Bystander(d), Orderly(d)
    PROVE  Orderly(d)'
  <1>1. /\ pod'[d] = pod[d] /\ (d \in db' <=> d \in db) /\ (d \in cm' <=> d \in cm)
        /\ \A a \in Alias : svc'[a] = d <=> svc[a] = d
        /\ \A q \in Request : (req'[q].c = d <=> req[q].c = d) /\ (req[q].c = d => req'[q] = req[q])
    BY DEF Bystander, Untouched
  <1>2. /\ Settled(d, "Running")' <=> Settled(d, "Running")
        /\ Settled(d, "Completed")' <=> Settled(d, "Completed")
        /\ Settled(d, "Failed")' <=> Settled(d, "Failed")
        /\ Settled(d, "Stopped")' <=> Settled(d, "Stopped")
        /\ Settled(d, "Killed")' <=> Settled(d, "Killed")
    BY DEF Bystander, Same, Flag
  <1>a. ServiceAliases[d] \subseteq Alias
    BY ShapeAssumption
  <1>3. /\ NoServices(d)' <=> NoServices(d)
        /\ AllServices(d)' <=> AllServices(d)
        /\ Mountable(d)' <=> Mountable(d)
        /\ Owned(d)' <=> Owned(d)
        /\ \A a \in Alias : Owns(d, a)' <=> Owns(d, a)
        /\ LivePod(d)' <=> LivePod(d)
    BY <1>1, <1>a DEF NoServices, AllServices, Mountable, Owned, Owns, LivePod
  <1>4. /\ Down(d)' <=> Down(d)
        /\ Unmarked(d)' <=> Unmarked(d)
    BY <1>2, <1>3 DEF Down, Unmarked
  <1>5. Agrees(d) => Agrees(d)'
    BY <1>1, <1>2, <1>3, <1>4 DEF Agrees
  <1>7. ASSUME NEW q \in Request, req'[q].c = d PROVE Work(q, d)'
    <2>1. Work(q, d) /\ req'[q] = req[q]
      BY <1>1, <1>7 DEF Orderly, Tainr
    <2>2. WatchIsTrue(q, d)' /\ Deleting(q, d)' /\ Truthful(q, d)'
      BY <1>1, <1>3, <1>4, <1>5, <2>1 DEF Work, WatchIsTrue, Deleting, Truthful, At
    <2>3. Starting(q, d)'
      BY <1>1, <1>3, <1>4, <1>a, <2>1 DEF Work, Starting, At
    <2> QED BY <1>1, <2>1, <2>2, <2>3 DEF Work
  <1>8. ASSUME Quiescent(d)' PROVE Rest(d)'
    <2>1. Quiescent(d) /\ Rest(d)
      BY <1>1, <1>8 DEF Quiescent, Tainr, Orderly
    <2> QED BY <1>1, <1>4, <1>5, <2>1 DEF Rest
  <1> QED BY <1>3, <1>7, <1>8 DEF Orderly, Tainr

\* A request that arrives at a container at rest keeps it in order.
LEMMA ArriveOrders ==
    ASSUME ~Overlap, PromptDeletion, Sound, Sound', NEW r \in Request, NEW c \in Container,
           Arriving(r, c), Arrived(r, c), Orderly(c)
    PROVE  Orderly(c)'
  <1>1. /\ UNCHANGED <<rec, db, pod, svc, cm>> /\ c \in db /\ req'[r].c = c
        /\ \A q \in Request : req[q].c # c
        /\ \A q \in Request \ {r} : req'[q] = req[q]
        /\ ~req'[r].dup /\ req'[r].state = "none" /\ req'[r].watch = "none"
    BY DEF Arriving, Arrived, Tainr
  <1>2. Agrees(c) /\ Owned(c) /\ Quiescent(c)
    BY <1>1 DEF Orderly, Rest, Quiescent, Tainr
  <1>3. \A q \in Request : req'[q].c = c => q = r
    BY <1>1
  <1>4. /\ Owned(c)'
        /\ Down(c)' <=> Down(c)
        /\ LivePod(c)' <=> LivePod(c)
        /\ NoServices(c)' <=> NoServices(c)
    BY <1>1, <1>2 DEF Owned, Owns, Down, LivePod, NoServices
  <1>5. /\ Settled(c, "Running") <=> rec[c]["Running"]
        /\ Settled(c, "Completed") <=> rec[c]["Completed"]
        /\ Settled(c, "Stopped") <=> rec[c]["Stopped"]
        /\ Settled(c, "Killed") <=> rec[c]["Killed"]
    BY <1>2, SettledAtRest DEF Flag
  <1>6. Ended(c) => Down(c)
    BY <1>2, <1>5 DEF Agrees, Ended
  <1>7. CASE req'[r].pc = "write"
    <2>1. Ended(c) /\ req'[r].writes = EndWrites(req'[r].op) /\ req'[r].op \in {"stop", "kill"}
      BY <1>7 DEF Arrived, StartPc
    <2>2. \A f \in Flag : Settled(c, f)' <=> Ahead(req'[r].writes, rec[c], f)
      BY <1>7, SameArrive
    <2>3. Unmarked(c)'
      BY <2>1, <2>2, EndAhead DEF Unmarked, Flag
    <2>4. Agrees(c)'
      BY <1>4, <1>6, <2>1, <2>3 DEF Agrees, Unmarked
    <2>5. Work(r, c)'
      BY <1>1, <1>7, <2>1, <2>4
         DEF Work, Deleting, Starting, Truthful, WatchIsTrue, StartPhase, At
    <2> QED BY <1>1, <1>3, <1>4, <2>5 DEF Orderly, Quiescent, Tainr
  <1>8. CASE req'[r].pc # "write"
    <2>1. Same(c)
      BY <1>8, SameArrive
    <2>2. Agrees(c)' /\ (Unmarked(c)' <=> Unmarked(c))
      BY <1>1, <1>2, <2>1, AgreesKept DEF Same, Flag, Unmarked
    <2>3. CASE req'[r].pc = StartPc(c) /\ ~rec[c]["Running"] /\ ~rec[c]["Completed"]
               /\ ~pod[c].terminating
      <3>1. Unmarked(c) /\ Down(c)
        BY <1>2, <1>5, <2>3 DEF Agrees, Unmarked
      <3>2. pod'[c].phase = "none"
        BY <1>1, <2>3, <3>1 DEF Down, LivePod
      <3>3. /\ StartPc(c) \in {"configmap", "create"}
            /\ StartPc(c) = "configmap" <=> c \in FileVolumes
        BY DEF StartPc
      <3>4. NoServices(c)' /\ Unmarked(c)'
        BY <1>4, <2>2, <3>1 DEF Down
      <3>5. Work(r, c)'
        BY <1>1, <2>3, <3>2, <3>3, <3>4
           DEF Work, Deleting, Starting, Truthful, WatchIsTrue, StartPhase, At, Mountable
      <3> QED BY <1>1, <1>3, <1>4, <3>5 DEF Orderly, Quiescent, Tainr
    <2>4. CASE \/ req'[r].pc = "publish" /\ req'[r].op = "start"
               \/ req'[r].pc \in {"delservices", "watch", "poll"}
               \/ req'[r].pc = "dbdelete" /\ Ended(c)
      <3>1. Work(r, c)'
        BY <1>1, <1>4, <1>6, <2>2, <2>4
           DEF Work, Deleting, Starting, Truthful, WatchIsTrue, StartPhase, At
      <3> QED BY <1>1, <1>3, <1>4, <3>1 DEF Orderly, Quiescent, Tainr
    <2> QED BY <1>8, <2>3, <2>4 DEF Arrived
  <1> QED BY <1>7, <1>8

\* OrderlyInv is kept by every step.
LEMMA OrderlyInvNext ==
    ASSUME ~Overlap, PromptDeletion, DistinctServices
    PROVE  Sound /\ Sound' /\ OrderlyInv /\ [Next]_vars => OrderlyInv'
  <1> SUFFICES ASSUME Sound, Sound', OrderlyInv, [Next]_vars, faults' = 0, NEW c \in Container
               PROVE  Orderly(c)'
    BY DEF OrderlyInv
  <1>t. TypeInv /\ TypeOK /\ FlowInv /\ faults \in Nat
    BY BoundAssumption DEF Sound, TypeInv, TypeOK
  <1>1. CASE UNCHANGED vars
    <2>1. Orderly(c)
      BY <1>1 DEF OrderlyInv, vars
    <2> QED BY <1>1, <2>1, StutterBystander, BystanderOrders
  <1>2. ASSUME NEW r \in Request, Arrive(r) PROVE Orderly(c)'
    <2>1. PICK d \in Container : Arriving(r, d) /\ Arrived(r, d)
      BY <1>t, <1>2, ArriveShape
    <2>2. Orderly(c)
      BY <2>1 DEF Arriving, OrderlyInv
    <2>3. CASE d = c
      BY <2>1, <2>2, <2>3, ArriveOrders
    <2>4. CASE d # c
      BY <2>1, <2>2, <2>4, ArriveBystander, BystanderOrders
    <2> QED BY <2>3, <2>4
  <1>3. ASSUME NEW r \in Request, Step(r) PROVE Orderly(c)'
    <2>1. faults' = faults \/ Fault
      BY <1>3 DEF Step, DeleteServices, DeleteConfigMaps, DeletePods, DeleteRecord,
           CreateConfigMap, CreatePod, AwaitInit, TouchDone, AwaitReady, CreateServices,
           GetPodIP, Rollback, AssignFlag, SaveContainer, Publish, WatchDelete,
           AwaitDeleted, UpdateContainerStatus, CheckEnded, ClientLeaves, NoFault
    <2>2. ~Fault /\ faults = 0 /\ faults' = faults
      BY <1>t, <2>1 DEF Fault
    <2>3. \A d \in Container : Orderly(d) /\ Owned(d)
      BY <2>2 DEF OrderlyInv, Orderly
    <2>4. CASE Tainr(r) = c
      <3>1. Local(r) /\ req[r].pc # "idle" /\ Flow(req[r]) /\ req[r] \in ReqType
        BY <1>t, <1>3, StepIsLocal DEF FlowInv, TypeInv, ReqOK
      <3>2. Given(r, c)
        BY <1>t, <1>3, <2>2, <2>3, <2>4, <3>1 DEF Given, Orderly
      <3> QED BY <1>3, <2>3, <2>4, <3>2, DeleteOrders, LaunchOrders, ServeOrders, AnswerOrders
              DEF Step
    <2>5. CASE Tainr(r) # c
      BY <1>3, <2>3, <2>5, StepBystander, BystanderOrders
    <2> QED BY <2>4, <2>5
  <1>4. CASE Environment
    <2>1. Orderly(c)
      BY <1>t, <1>4, EnvironmentObjects DEF OrderlyInv
    <2> QED BY <1>4, <2>1, EnvironmentOrders
  <1> QED BY <1>1, <1>2, <1>3, <1>4 DEF Next

\* OrderlyInv is an invariant.
LEMMA OrderlyInvariant ==
    ASSUME ~Overlap, PromptDeletion, DistinctServices PROVE Spec => []OrderlyInv
  <1>1. Init => OrderlyInv
    <2> SUFFICES ASSUME Init, NEW c \in Container PROVE Orderly(c)
      BY DEF OrderlyInv
    <2>1. c \notin db /\ c \notin cm /\ \A q \in Request : Tainr(q) # c
      BY IdleFields, ContainerAssumption DEF Init, Tainr
    <2>2. \A a \in Alias : ~Owns(c, a)
      BY ContainerAssumption DEF Init, Owns
    <2>3. ~LivePod(c)
      BY DEF Init, LivePod, NoPod
    <2> QED BY <2>1, <2>2, <2>3 DEF Orderly, Owned, Rest, Down, NoServices
  <1> QED BY <1>1, SoundInvariant, OrderlyInvNext, PTL DEF Spec

\* A container recorded as running has a live pod, all of its services and its
\* configmap, when requests on one container do not overlap, pods go promptly,
\* no two containers claim one name, and until a kubernetes call fails.
THEOREM RunningAlwaysBacked ==
    ASSUME ~Overlap, PromptDeletion, DistinctServices
    PROVE  Spec => [](faults = 0 => RunningIsBacked)
  <1>1. Sound /\ OrderlyInv => (faults = 0 => RunningIsBacked)
    <2> SUFFICES ASSUME Sound, OrderlyInv, faults = 0, NEW c \in db, Quiescent(c),
                        rec[c]["Running"]
                 PROVE  /\ LivePod(c)
                        /\ \A a \in ServiceAliases[c] : Owns(c, a)
                        /\ c \in FileVolumes => c \in cm
      BY DEF RunningIsBacked
    <2>1. c \in Container
      BY DEF Sound, TypeInv, TypeOK
    <2>2. Settled(c, "Running")
      BY <2>1, SettledAtRest DEF Flag
    <2> QED BY <2>1, <2>2
            DEF OrderlyInv, Orderly, Rest, Agrees, AllServices, Mountable
  <1> QED BY <1>1, SoundInvariant, OrderlyInvariant, PTL

\* A container that was removed has left nothing in the namespace, under the same
\* conditions, for containers without a configmap: the one a failed start leaves
\* is not deleted when the container was stopped before.
THEOREM DeletedAlwaysClean ==
    ASSUME ~Overlap, PromptDeletion, DistinctServices, FileVolumes = {}
    PROVE  Spec => [](faults = 0 => DeletedIsClean)
  <1>1. Sound /\ OrderlyInv => (faults = 0 => DeletedIsClean)
    <2> SUFFICES ASSUME Sound, OrderlyInv, faults = 0, NEW c \in created \ db, Quiescent(c)
                 PROVE  Clean(c)
      BY DEF DeletedIsClean
    <2>1. c \in Container
      BY DEF Sound, TypeInv, TypeOK
    <2> QED BY <2>1
            DEF OrderlyInv, Orderly, Owned, Rest, Down, NoServices, Clean
  <1> QED BY <1>1, SoundInvariant, OrderlyInvariant, PTL

----------------------------------------------------------------------------
(* Lifecycle implements ContainerService. *)

StatusOf == [c \in Container |-> StateString(c)]
Live == {c \in Container : LivePod(c)}

Ailing(c) == Settled(c, "Stopped") \/ Settled(c, "Killed") \/ Settled(c, "Failed")

\* The status by the settled flags.
StatusFacts ==
    \A c \in Container :
        /\ Settled(c, "Running") => StateString(c) = "running"
        /\ ~Settled(c, "Running") /\ Ailing(c) => StateString(c) = "dead"
        /\ ~Settled(c, "Running") /\ ~Ailing(c) /\ Settled(c, "Completed") =>
             StateString(c) = "exited"
        /\ ~Settled(c, "Running") /\ ~Ailing(c) /\ ~Settled(c, "Completed") =>
             StateString(c) = "created"

\* What the status of a container says about its settled flags.
LEMMA StatusMeans == StatusFacts
  <1> SUFFICES ASSUME NEW c \in Container
               PROVE  /\ Settled(c, "Running") => StateString(c) = "running"
                      /\ ~Settled(c, "Running") /\ Ailing(c) => StateString(c) = "dead"
                      /\ ~Settled(c, "Running") /\ ~Ailing(c) /\ Settled(c, "Completed") =>
                           StateString(c) = "exited"
                      /\ ~Settled(c, "Running") /\ ~Ailing(c) /\ ~Settled(c, "Completed") =>
                           StateString(c) = "created"
    BY DEF StatusFacts
  <1>1. ASSUME Settled(c, "Running") PROVE StateString(c) = "running"
    BY <1>1, Zenon DEF StateString
  <1>2. ASSUME ~Settled(c, "Running"), Ailing(c) PROVE StateString(c) = "dead"
    BY <1>2, Zenon DEF StateString, Ailing
  <1>3. ASSUME ~Settled(c, "Running"), ~Ailing(c), Settled(c, "Completed")
        PROVE  StateString(c) = "exited"
    BY <1>3, Zenon DEF StateString, Ailing
  <1>4. ASSUME ~Settled(c, "Running"), ~Ailing(c), ~Settled(c, "Completed")
        PROVE  StateString(c) = "created"
    BY <1>4, Zenon DEF StateString, Ailing
  <1> QED BY <1>1, <1>2, <1>3, <1>4

\* The same after a step.
LEMMA StatusMeansNext == StatusFacts'
  BY StatusMeans, PTL

\* A container whose settled flags stay keeps its status.
LEMMA SameStatus ==
    ASSUME NEW c \in Container, Same(c)
    PROVE  StateString(c)' = StateString(c)
  <1>1. /\ Settled(c, "Running")' <=> Settled(c, "Running")
        /\ Settled(c, "Completed")' <=> Settled(c, "Completed")
        /\ Ailing(c)' <=> Ailing(c)
    BY DEF Same, Flag, Ailing
  <1> QED BY <1>1, StatusMeans, StatusMeansNext DEF StatusFacts

\* A step the clients of c do not see.
Unseen(c) ==
    /\ StateString(c)' = StateString(c)
    /\ LivePod(c)' <=> LivePod(c)
    /\ c \in Addressable' <=> c \in Addressable
    /\ c \in created' <=> c \in created

\* Clients see nothing of a step at a container it does not touch.
LEMMA BystanderUnseen ==
    ASSUME NEW d \in Container, Bystander(d)
    PROVE  Unseen(d)
  <1>1. /\ pod'[d] = pod[d] /\ (d \in db' <=> d \in db) /\ (d \in created' <=> d \in created)
        /\ \A q \in Request : (req'[q].c = d <=> req[q].c = d) /\ (req[q].c = d => req'[q] = req[q])
    BY DEF Bystander, Untouched
  <1>2. Removing(d)' <=> Removing(d)
    BY <1>1 DEF Removing, Tainr
  <1>3. StateString(d)' = StateString(d)
    BY SameStatus DEF Bystander
  <1> QED BY <1>1, <1>2, <1>3 DEF Unseen, Addressable, LivePod

\* A step of which nothing is seen is a stutter of the service.
LEMMA StutterUnseen ==
    ASSUME TypeInv, TypeInv', \A d \in Container : Unseen(d)
    PROVE  UNCHANGED Service!vars
  <1>1. created' = created /\ Addressable' = Addressable
    BY DEF Unseen, TypeInv, TypeOK, Addressable
  <1>2. [d \in Container |-> StateString(d)]' = [d \in Container |-> StateString(d)]
    BY DEF Unseen
  <1>3. {d \in Container : LivePod(d)}' = {d \in Container : LivePod(d)}
    BY DEF Unseen
  <1> QED BY <1>1, <1>2, <1>3 DEF Service!vars

\* A step only the clients of c see.
LEMMA OneSeen ==
    ASSUME TypeInv, TypeInv', NEW c \in Container, \A d \in Container \ {c} : Unseen(d)
    PROVE  /\ StatusOf' = [StatusOf EXCEPT ![c] = StateString(c)']
           /\ Live' = IF LivePod(c)' THEN Live \cup {c} ELSE Live \ {c}
           /\ Addressable' = IF c \in Addressable' THEN Addressable \cup {c}
                                                   ELSE Addressable \ {c}
           /\ created' = IF c \in created' THEN created \cup {c} ELSE created \ {c}
           /\ Addressable \subseteq created /\ Addressable' \subseteq created'
           /\ created \subseteq Container
           /\ StatusOf[c] = StateString(c) /\ (c \in Live <=> LivePod(c))
  <1>1. StatusOf' = [StatusOf EXCEPT ![c] = StateString(c)']
    BY DEF StatusOf, Unseen
  <1>2. Live' = IF LivePod(c)' THEN Live \cup {c} ELSE Live \ {c}
    BY DEF Live, Unseen
  <1>3. /\ Addressable \subseteq created /\ Addressable' \subseteq created'
        /\ created \subseteq Container /\ created' \subseteq Container
    BY DEF TypeInv, TypeOK, Addressable
  <1>4. Addressable' = IF c \in Addressable' THEN Addressable \cup {c}
                                             ELSE Addressable \ {c}
    BY <1>3 DEF Unseen
  <1>5. created' = IF c \in created' THEN created \cup {c} ELSE created \ {c}
    BY <1>3 DEF Unseen
  <1>6. StatusOf[c] = StateString(c) /\ (c \in Live <=> LivePod(c))
    BY DEF StatusOf, Live
  <1> QED BY <1>1, <1>2, <1>3, <1>4, <1>5, <1>6

\* The abstract steps, from what changes for c.
LEMMA AbstractSteps ==
    ASSUME TypeInv, TypeInv', NEW c \in Container, \A d \in Container \ {c} : Unseen(d)
    PROVE  /\ /\ c \notin created /\ c \in created' /\ c \in Addressable'
              /\ StateString(c)' = StateString(c) /\ (LivePod(c)' <=> LivePod(c))
              => Service!Create(c)
           /\ /\ c \in created' <=> c \in created
              /\ c \in Addressable /\ c \in Addressable'
              /\ StateString(c) \in {"created", "dead"}
              /\ StateString(c)' = StateString(c) /\ ~LivePod(c) /\ LivePod(c)'
              => Service!Deploy(c)
           /\ /\ c \in created' <=> c \in created
              /\ c \in Addressable /\ c \in Addressable'
              /\ StateString(c) \in {"created", "dead"}
              /\ StateString(c)' = StateString(c) /\ LivePod(c) /\ ~LivePod(c)'
              => Service!Withdraw(c)
           /\ /\ c \in created' <=> c \in created
              /\ c \in Addressable /\ c \in Addressable'
              /\ StateString(c) \in {"created", "dead"}
              /\ StateString(c)' \in {"running", "exited"} /\ LivePod(c) /\ LivePod(c)'
              => Service!Run(c)
           /\ /\ c \in created' <=> c \in created
              /\ c \in Addressable /\ c \in Addressable'
              /\ LivePod(c)' <=> LivePod(c)
              /\ \/ /\ \/ StateString(c) = "running" /\ LivePod(c)
                       \/ StateString(c) = "created" /\ ~LivePod(c)
                    /\ StateString(c)' = "exited"
                 \/ StateString(c) \in {"created", "dead"} /\ StateString(c)' = "dead"
              => Service!Observe(c)
           /\ /\ c \in created' <=> c \in created
              /\ c \in Addressable /\ c \in Addressable'
              /\ StateString(c)' = "dead" /\ ~LivePod(c)'
              => Service!End(c)
           /\ /\ c \in created' <=> c \in created
              /\ c \in Addressable /\ c \notin Addressable'
              /\ StateString(c)' = StateString(c) /\ ~LivePod(c)'
              => Service!Remove(c)
  <1> DEFINE st == StateString(c)'
  <1>1. /\ StatusOf' = [StatusOf EXCEPT ![c] = st]
        /\ Live' = IF LivePod(c)' THEN Live \cup {c} ELSE Live \ {c}
        /\ Addressable' = IF c \in Addressable' THEN Addressable \cup {c}
                                                ELSE Addressable \ {c}
        /\ created' = IF c \in created' THEN created \cup {c} ELSE created \ {c}
        /\ Addressable \subseteq created /\ Addressable' \subseteq created'
        /\ StatusOf[c] = StateString(c) /\ (c \in Live <=> LivePod(c))
        /\ StatusOf = [d \in Container |-> StateString(d)]
        /\ StatusOf' = [d \in Container |-> StateString(d)']
        /\ Live = {d \in Container : LivePod(d)}
        /\ Live' = {d \in Container : LivePod(d)'}
    BY OneSeen DEF StatusOf, Live
  <1>2. st = StateString(c) => StatusOf' = StatusOf
    BY <1>1 DEF StatusOf
  <1>3. (LivePod(c)' <=> LivePod(c)) => Live' = Live
    BY <1>1
  <1>4. (c \in created' <=> c \in created) => created' = created
    BY <1>1
  <1> HIDE DEF st
  <1>5. ASSUME c \notin created, c \in created', c \in Addressable',
               st = StateString(c), LivePod(c)' <=> LivePod(c)
        PROVE  Service!Create(c)
    BY <1>1, <1>2, <1>3, <1>5 DEF Service!Create
  <1>6. ASSUME c \in created' <=> c \in created, c \in Addressable, c \in Addressable',
               StateString(c) \in {"created", "dead"}
        PROVE  /\ st = StateString(c) /\ ~LivePod(c) /\ LivePod(c)' => Service!Deploy(c)
               /\ st = StateString(c) /\ LivePod(c) /\ ~LivePod(c)' => Service!Withdraw(c)
               /\ st \in {"running", "exited"} /\ LivePod(c) /\ LivePod(c)' => Service!Run(c)
    <2>1. Addressable' = Addressable /\ created' = created
      BY <1>1, <1>4, <1>6
    <2>2. StatusOf[c] \in {"created", "dead"}
      BY <1>1, <1>6
    <2>3. CASE st = StateString(c) /\ ~LivePod(c) /\ LivePod(c)'
      BY <1>1, <1>2, <1>6, <2>1, <2>2, <2>3 DEF Service!Deploy, Service!Startable
    <2>4. CASE st = StateString(c) /\ LivePod(c) /\ ~LivePod(c)'
      BY <1>1, <1>2, <1>6, <2>1, <2>2, <2>4 DEF Service!Withdraw, Service!Startable
    <2>5. CASE st \in {"running", "exited"} /\ LivePod(c) /\ LivePod(c)'
      BY <1>1, <1>3, <1>6, <2>1, <2>2, <2>5 DEF Service!Run, Service!Startable
    <2> QED BY <2>3, <2>4, <2>5
  <1>7. ASSUME c \in created' <=> c \in created, c \in Addressable, c \in Addressable',
               LivePod(c)' <=> LivePod(c),
               \/ /\ \/ StateString(c) = "running" /\ LivePod(c)
                     \/ StateString(c) = "created" /\ ~LivePod(c)
                  /\ st = "exited"
               \/ StateString(c) \in {"created", "dead"} /\ st = "dead"
        PROVE  Service!Observe(c)
    <2>1. Addressable' = Addressable /\ created' = created /\ Live' = Live
      BY <1>1, <1>3, <1>4, <1>7
    <2>2. \/ /\ \/ StatusOf[c] = "running" /\ c \in Live
                \/ StatusOf[c] = "created" /\ c \notin Live
             /\ StatusOf' = [StatusOf EXCEPT ![c] = "exited"]
          \/ StatusOf[c] \in {"created", "dead"} /\ StatusOf' = [StatusOf EXCEPT ![c] = "dead"]
      BY <1>1, <1>7
    <2> QED BY <1>1, <1>7, <2>1, <2>2 DEF Service!Observe, Service!Startable
  <1>8. ASSUME c \in created' <=> c \in created, c \in Addressable, ~LivePod(c)'
        PROVE  /\ c \in Addressable' /\ st = "dead" => Service!End(c)
               /\ c \notin Addressable' /\ st = StateString(c) => Service!Remove(c)
    <2>1. created' = created /\ Live' = Live \ {c}
      BY <1>1, <1>4, <1>8
    <2>2. CASE c \in Addressable' /\ st = "dead"
      BY <1>1, <1>8, <2>1, <2>2 DEF Service!End
    <2>3. CASE c \notin Addressable' /\ st = StateString(c)
      BY <1>1, <1>2, <1>8, <2>1, <2>3 DEF Service!Remove
    <2> QED BY <2>2, <2>3
  <1> QED BY <1>5, <1>6, <1>7, <1>8 DEF st

\* A handler's step is one of the service's, or is not seen.
LEMMA StepRefines ==
    ASSUME Sound, Sound', NEW r \in Request, NEW c \in Container,
           Tainr(r) = c, Step(r), ~Fault, Orderly(c)
    PROVE  [Service!Next]_(Service!vars)
  <1>0. /\ Local(r) /\ Moves(r) /\ Flow(req[r]) /\ req[r].pc # "idle" /\ req[r].c = c
        /\ TypeInv /\ TypeInv' /\ TypeOK /\ req[r].pc \in PC
        /\ created' = created /\ req[r] \in ReqType
    BY StepIsLocal, StepMoves DEF Sound, FlowInv, TypeInv, ReqOK, ReqType, Tainr
  <1>1. \A q \in Request : (req'[q].c = c => q = r) /\ (req[q].c = c => q = r)
    BY <1>0, OnlyHandler DEF Tainr
  <1>w. Work(r, c) /\ c \in db
    BY DEF Orderly, Work
  <1>2. \A d \in Container \ {c} : Unseen(d)
    BY StepBystander, BystanderUnseen
  <1>a. /\ c \in Addressable <=>
             ~(req[r].op \in {"delete", "reap"} /\ req[r].pc \in {"publish", "dbdelete"})
        /\ c \in Addressable' <=>
             /\ c \in db'
             /\ ~(/\ req'[r].c = c /\ req'[r].op \in {"delete", "reap"}
                  /\ req'[r].pc \in {"publish", "dbdelete"})
    BY <1>0, <1>1, <1>w DEF Addressable, Removing, Tainr
  <1>u. ASSUME Unseen(c) PROVE [Service!Next]_(Service!vars)
    BY <1>0, <1>2, <1>u, StutterUnseen
  <1>n. ASSUME \/ Service!Create(c) \/ Service!Deploy(c) \/ Service!Withdraw(c)
               \/ Service!Run(c) \/ Service!Observe(c) \/ Service!End(c) \/ Service!Remove(c)
        PROVE  [Service!Next]_(Service!vars)
    BY <1>n DEF Service!Next
  <1>i. Idle.c # c /\ Idle.pc = "idle" /\ Idle.op = "none"
    BY IdleFields, ContainerAssumption
  <1>s. AssignFlag(r) \/ req'[r].pc # "write" => StateString(c)' = StateString(c)
    BY StepSame, SameStatus
  <1>m. Unmarked(c) => StateString(c) \in {"created", "dead"}
    BY StatusMeans DEF StatusFacts, Unmarked
  <1>d. req[r].pc \in StartPhase \cup {"poll"} => c \in Addressable /\ req[r].op \notin {"delete", "reap"}
    BY <1>0, <1>a DEF Flow, StartPhase
  <1>3. CASE DeletePods(r)
    <2>1. /\ req[r].pc = "delpods" /\ Terminate(c) /\ db' = db
      BY <1>3 DEF DeletePods, At
    <2>2. ~LivePod(c)'
      BY <1>0, <2>1, TerminatedIsNotLive
    <2>3. c \in Addressable
      BY <1>a, <2>1
    <2>4. CASE req[r].op \in {"delete", "reap"}
      <3>1. /\ req'[r].pc \in {"dbdelete", "publish"} /\ req'[r].op = req[r].op /\ req'[r].c = c
        BY <1>0, <1>i, <2>1, <2>4 DEF Moves
      <3>2. c \notin Addressable' /\ StateString(c)' = StateString(c)
        BY <1>a, <1>s, <2>4, <3>1
      <3> QED BY <1>0, <1>2, <1>n, <2>2, <2>3, <3>2, AbstractSteps
    <2>5. CASE req[r].op \notin {"delete", "reap"}
      <3>1. req'[r].pc = "write" /\ req'[r].op = req[r].op /\ req[r].op \in {"stop", "kill", "restart"}
        BY <1>0, <1>i, <2>1, <2>5 DEF Moves
      <3>2. /\ req'[r].writes = EndWrites(req[r].op)
            /\ \A f \in Flag : Settled(c, f)' <=> Ahead(req'[r].writes, rec[c], f)
        <4>1. ~AssignFlag(r) /\ ~GetPodIP(r) /\ ~UpdateContainerStatus(r)
          BY <2>1 DEF AssignFlag, GetPodIP, UpdateContainerStatus, At
        <4> QED BY <3>1, <4>1, StepAhead
      <3>3. ~Settled(c, "Running")' /\ Ailing(c)'
        BY <3>2, EndAhead DEF Flag, Ailing
      <3>4. StateString(c)' = "dead"
        BY <3>3, StatusMeansNext DEF StatusFacts
      <3>5. c \in Addressable'
        BY <1>a, <1>w, <2>1, <2>5, <3>1
      <3> QED BY <1>0, <1>2, <1>n, <2>2, <2>3, <3>4, <3>5, AbstractSteps
    <2> QED BY <2>4, <2>5
  <1>4. CASE CreatePod(r)
    <2>1. /\ req[r].pc = "create" /\ db' = db
          /\ \E p \in {"pending", "starting"} :
               pod' = [pod EXCEPT ![c] = [phase |-> p, terminating |-> FALSE]]
          /\ pod[c].phase = "none" /\ Unmarked(c)
      BY <1>4, <1>w DEF CreatePod, At, Work, Starting, StartPhase
    <2>2. ~LivePod(c) /\ LivePod(c)'
      BY <1>0, <2>1 DEF LivePod, TypeOK
    <2>3. /\ req'[r].pc \in {"copy", "await", "rollback"} /\ StateString(c)' = StateString(c)
      BY <1>0, <1>i, <1>s, <2>1 DEF Moves
    <2>4. c \in Addressable /\ c \in Addressable'
      BY <1>a, <1>d, <1>w, <2>1, <2>3 DEF StartPhase
    <2> QED BY <1>0, <1>2, <1>m, <1>n, <2>1, <2>2, <2>3, <2>4, AbstractSteps
  <1>5. CASE Rollback(r)
    <2>1. /\ req[r].pc = "rollback" /\ db' = db /\ Terminate(c) /\ Unmarked(c)
      BY <1>5, <1>w DEF Rollback, At, Work, Starting, StartPhase
    <2>2. ~LivePod(c)'
      BY <1>0, <2>1, TerminatedIsNotLive
    <2>3. req'[r] = Idle /\ StateString(c)' = StateString(c)
      BY <1>0, <1>i, <1>s, <2>1 DEF Moves
    <2>4. c \in Addressable /\ c \in Addressable'
      BY <1>a, <1>d, <1>i, <1>w, <2>1, <2>3 DEF StartPhase
    <2>5. CASE LivePod(c)
      BY <1>0, <1>2, <1>m, <1>n, <2>1, <2>2, <2>3, <2>4, <2>5, AbstractSteps
    <2>6. CASE ~LivePod(c)
      BY <1>0, <1>u, <2>2, <2>3, <2>4, <2>6 DEF Unseen
    <2> QED BY <2>5, <2>6
  <1>6. CASE GetPodIP(r)
    <2>1. /\ req[r].pc = "podip" /\ LivePod(c) /\ Unmarked(c) /\ UNCHANGED <<db, pod>>
          /\ req[r].state \in {"running", "completed"}
      BY <1>0, <1>6, <1>w DEF GetPodIP, At, Work, Starting, StartPhase, Flow, kubVars
    <2>2. Assign(r, StartWrites(req[r].state))
      BY <1>6, <2>1 DEF GetPodIP, LivePod
    <2>3. req'[r].pc = "write" /\ req'[r].op = req[r].op
      BY <1>0, <2>2, AssignFields, StartWritesType
    <2>4. /\ req'[r].writes = StartWrites(req[r].state)
          /\ \A f \in Flag : Settled(c, f)' <=> Ahead(req'[r].writes, rec[c], f)
      <3>1. ~AssignFlag(r) /\ ~DeletePods(r) /\ ~UpdateContainerStatus(r)
        BY <2>1 DEF AssignFlag, DeletePods, UpdateContainerStatus, At
      <3> QED BY <2>3, <3>1, StepAhead
    <2>5. /\ Settled(c, "Running")' <=> req[r].state = "running"
          /\ Settled(c, "Completed")' <=> req[r].state = "completed"
          /\ ~Ailing(c)'
      BY <2>4, StartAhead DEF Flag, Ailing
    <2>6. StateString(c)' \in {"running", "exited"}
      BY <2>1, <2>5, StatusMeansNext DEF StatusFacts
    <2>7. c \in Addressable /\ c \in Addressable' /\ LivePod(c)'
      BY <1>a, <1>d, <1>w, <2>1, <2>3 DEF StartPhase, LivePod
    <2> QED BY <1>0, <1>2, <1>m, <1>n, <2>1, <2>6, <2>7, AbstractSteps
  <1>7. CASE UpdateContainerStatus(r) /\ req'[r].pc = "write"
    <2>1. req[r].pc = "poll" /\ Agrees(c) /\ UNCHANGED <<db, pod>>
      BY <1>7, <1>w DEF UpdateContainerStatus, At, Work, Truthful, kubVars
    <2>2. ~AssignFlag(r) /\ ~DeletePods(r) /\ ~GetPodIP(r)
      BY <2>1 DEF AssignFlag, DeletePods, GetPodIP, At
    <2>3. /\ \A f \in Flag : /\ Settled(c, f) <=> rec[c][f]
                             /\ Settled(c, f)' <=> Ahead(req'[r].writes, rec[c], f)
          /\ ~rec[c]["Completed"] /\ req'[r].op = req[r].op
          /\ \/ /\ req'[r].writes = <<<<"Failed", TRUE>>>>
             \/ /\ req'[r].writes = <<<<"Completed", TRUE>>, <<"Running", FALSE>>>>
                /\ pod[c].phase = "completed"
      BY <1>7, <2>2, StepAhead
    <2>4. ~Settled(c, "Completed")
      BY <2>3 DEF Flag
    <2>5. c \in Addressable /\ c \in Addressable' /\ (LivePod(c)' <=> LivePod(c))
      BY <1>7, <1>a, <1>d, <1>w, <2>1, <2>3 DEF LivePod
    <2>6. CASE req'[r].writes = <<<<"Failed", TRUE>>>>
      <3>1. /\ Settled(c, "Running")' <=> Settled(c, "Running")
            /\ Settled(c, "Failed")'
        BY <2>3, <2>6, FailedAhead DEF Flag
      <3>2. CASE Settled(c, "Running")
        <4>1. StateString(c)' = StateString(c)
          BY <3>1, <3>2, StatusMeans, StatusMeansNext DEF StatusFacts
        <4> QED BY <1>0, <1>u, <2>5, <4>1 DEF Unseen
      <3>3. CASE ~Settled(c, "Running")
        <4>1. StateString(c)' = "dead" /\ StateString(c) \in {"created", "dead"}
          BY <2>4, <3>1, <3>3, StatusMeans, StatusMeansNext DEF StatusFacts, Ailing
        <4> QED BY <1>0, <1>2, <1>n, <2>5, <4>1, AbstractSteps
      <3> QED BY <3>2, <3>3
    <2>7. CASE req'[r].writes = <<<<"Completed", TRUE>>, <<"Running", FALSE>>>>
               /\ pod[c].phase = "completed"
      <3>1. /\ Settled(c, "Completed")' /\ ~Settled(c, "Running")'
            /\ Ailing(c)' <=> Ailing(c)
        BY <2>3, <2>7, CompletedAhead DEF Flag, Ailing
      <3>2. CASE Settled(c, "Running")
        <4>1. LivePod(c) /\ ~Ailing(c)
          BY <2>1, <2>7, <3>2 DEF Agrees, Ailing
        <4>2. StateString(c) = "running" /\ StateString(c)' = "exited"
          BY <3>1, <3>2, <4>1, StatusMeans, StatusMeansNext DEF StatusFacts
        <4> QED BY <1>0, <1>2, <1>n, <2>5, <4>1, <4>2, AbstractSteps
      <3>3. CASE ~Settled(c, "Running")
        <4>1. ~LivePod(c)
          BY <2>1, <2>4, <3>3 DEF Agrees, Unmarked, Down
        <4>2. CASE Ailing(c)
          <5>1. StateString(c)' = StateString(c)
            BY <3>1, <3>3, <4>2, StatusMeans, StatusMeansNext DEF StatusFacts
          <5> QED BY <1>0, <1>u, <2>5, <5>1 DEF Unseen
        <4>3. CASE ~Ailing(c)
          <5>1. StateString(c) = "created" /\ StateString(c)' = "exited"
            BY <2>4, <3>1, <3>3, <4>3, StatusMeans, StatusMeansNext DEF StatusFacts
          <5> QED BY <1>0, <1>2, <1>n, <2>5, <4>1, <5>1, AbstractSteps
        <4> QED BY <4>2, <4>3
      <3> QED BY <3>2, <3>3
    <2> QED BY <2>3, <2>6, <2>7
  <1>8. CASE ~DeletePods(r) /\ ~CreatePod(r) /\ ~Rollback(r) /\ ~GetPodIP(r)
             /\ ~(UpdateContainerStatus(r) /\ req'[r].pc = "write")
    <2>1. StateString(c)' = StateString(c)
      <3>1. AssignFlag(r) \/ req'[r].pc # "write"
        BY <1>8, StepAhead
      <3> QED BY <1>s, <3>1
    <2>2. LivePod(c)' <=> LivePod(c)
      <3>1. CASE pod' = pod
        BY <3>1 DEF LivePod
      <3>2. CASE pod[c].phase \in {"init", "initdone"} /\ pod' = [pod EXCEPT ![c].phase = "initdone"]
        <4>1. pod'[c].phase = "initdone" /\ pod'[c].terminating = pod[c].terminating
          BY <1>0, <3>2 DEF TypeOK
        <4> QED BY <3>2, <4>1 DEF LivePod
      <3> QED BY <1>8, <3>1, <3>2, PodSteps
    <2>3. c \in Addressable' <=> c \in Addressable
      <3>1. CASE req[r].pc = "dbdelete"
        <4>1. c \notin db' /\ req[r].op \in {"delete", "reap"}
          BY <1>0, <3>1 DEF Flow, Step, DeleteServices, DeleteConfigMaps, DeletePods, DeleteRecord,
             CreateConfigMap, CreatePod, AwaitInit, TouchDone, AwaitReady, CreateServices,
             GetPodIP, Rollback, AssignFlag, SaveContainer, Publish, WatchDelete,
             AwaitDeleted, UpdateContainerStatus, CheckEnded, ClientLeaves, At
        <4> QED BY <1>a, <3>1, <4>1
      <3>2. CASE req[r].pc # "dbdelete"
        <4>1. c \in db'
          BY <1>w, <3>2, RecordSteps DEF DeleteRecord, SaveContainer, At, Step,
             DeleteServices, DeleteConfigMaps, DeletePods, 
             CreateConfigMap, CreatePod, AwaitInit, TouchDone, AwaitReady, CreateServices,
             GetPodIP, Rollback, AssignFlag, Publish, WatchDelete,
             AwaitDeleted, UpdateContainerStatus, CheckEnded, ClientLeaves
        <4>2. req[r].pc # "delpods"
          BY <1>8 DEF Step, DeleteServices, DeleteConfigMaps, DeletePods, DeleteRecord,
             CreateConfigMap, CreatePod, AwaitInit, TouchDone, AwaitReady, CreateServices,
             GetPodIP, Rollback, AssignFlag, SaveContainer, Publish, WatchDelete,
             AwaitDeleted, UpdateContainerStatus, CheckEnded, ClientLeaves, At
        <4>3. (/\ req'[r].c = c /\ req'[r].op \in {"delete", "reap"}
               /\ req'[r].pc \in {"publish", "dbdelete"}) <=>
              (req[r].op \in {"delete", "reap"} /\ req[r].pc \in {"publish", "dbdelete"})
          BY <1>0, <1>i, <3>2, <4>2 DEF Moves, PC, Flow
        <4> QED BY <1>a, <4>1, <4>3
      <3> QED BY <3>1, <3>2
    <2> QED BY <1>0, <1>u, <2>1, <2>2, <2>3 DEF Unseen
  <1> QED BY <1>3, <1>4, <1>5, <1>6, <1>7, <1>8

\* A request that arrives is a step of the service or a stutter.
LEMMA ArriveRefines ==
    ASSUME ~Overlap, Sound, Sound', NEW r \in Request, NEW c \in Container,
           Arriving(r, c), Arrived(r, c), Orderly(c)
    PROVE  [Service!Next]_(Service!vars)
  <1>0. /\ TypeInv /\ TypeInv' /\ created' = created /\ UNCHANGED <<db, pod>> /\ c \in db
        /\ req'[r].c = c
        /\ \A q \in Request : req[q].c # c
        /\ \A q \in Request \ {r} : req'[q] = req[q]
    BY DEF Sound, Arriving, Arrived, Tainr
  <1>1. \A d \in Container \ {c} : Unseen(d)
    BY ArriveBystander, BystanderUnseen
  <1>2. /\ c \in Addressable /\ (LivePod(c)' <=> LivePod(c))
        /\ c \in Addressable' <=>
             ~(req'[r].op \in {"delete", "reap"} /\ req'[r].pc \in {"publish", "dbdelete"})
    BY <1>0 DEF Addressable, Removing, Tainr, LivePod
  <1>3. Ended(c) => ~LivePod(c)
    <2>1. Quiescent(c) /\ Agrees(c)
      BY <1>0 DEF Quiescent, Tainr, Orderly, Rest
    <2>2. (Settled(c, "Stopped") <=> rec[c]["Stopped"]) /\ (Settled(c, "Killed") <=> rec[c]["Killed"])
      BY <2>1, SettledAtRest DEF Flag
    <2> QED BY <2>1, <2>2 DEF Agrees, Down, Ended
  <1>4. CASE req'[r].pc = "write"
    <2>1. Ended(c) /\ req'[r].writes = EndWrites(req'[r].op) /\ req'[r].op \in {"stop", "kill"}
      BY <1>4 DEF Arrived, StartPc
    <2>2. \A f \in Flag : Settled(c, f)' <=> Ahead(req'[r].writes, rec[c], f)
      BY <1>4, SameArrive
    <2>3. ~Settled(c, "Running")' /\ Ailing(c)'
      BY <2>1, <2>2, EndAhead DEF Flag, Ailing
    <2>4. StateString(c)' = "dead"
      BY <2>3, StatusMeansNext DEF StatusFacts
    <2>5. c \in Addressable'
      BY <1>2, <1>4
    <2>6. Service!End(c)
      BY <1>0, <1>1, <1>2, <1>3, <2>1, <2>4, <2>5, AbstractSteps
    <2> QED BY <2>6 DEF Service!Next
  <1>5. CASE req'[r].pc # "write"
    <2>1. StateString(c)' = StateString(c)
      BY <1>5, SameArrive, SameStatus
    <2>2. CASE req'[r].pc = "dbdelete"
      <3>1. Ended(c) /\ req'[r].op = "delete"
        BY <2>2 DEF Arrived, StartPc
      <3>2. Service!Remove(c)
        BY <1>0, <1>1, <1>2, <1>3, <2>1, <2>2, <3>1, AbstractSteps
      <3> QED BY <3>2 DEF Service!Next
    <2>3. CASE req'[r].pc # "dbdelete"
      <3>1. req'[r].pc = "publish" => req'[r].op = "start"
        BY DEF Arrived, StartPc
      <3>2. Unseen(c)
        BY <1>0, <1>2, <2>1, <2>3, <3>1 DEF Unseen
      <3> QED BY <1>0, <1>1, <3>2, StutterUnseen
    <2> QED BY <2>2, <2>3
  <1> QED BY <1>4, <1>5

\* So is a step of the kubelet or of time.
LEMMA EnvironmentRefines ==
    ASSUME Sound, Sound', Environment, \A c \in Container : Orderly(c)
    PROVE  [Service!Next]_(Service!vars)
  <1>0. TypeInv /\ TypeInv' /\ TypeOK
    BY DEF Sound, TypeInv
  <1>1. \A d \in Container : /\ StateString(d)' = StateString(d)
                             /\ LivePod(d)' <=> LivePod(d)
                             /\ Removing(d)' <=> Removing(d)
    <2>1. \A q \in Request : /\ req'[q].pc = req[q].pc /\ req'[q].op = req[q].op
                             /\ req'[q].c = req[q].c
      BY <1>0, EnvironmentFields
    <2>2. \A d \in Container : Removing(d)' <=> Removing(d)
      BY <2>1 DEF Removing, Tainr
    <2>3. \A d \in Container : StateString(d)' = StateString(d)
      BY SameEnvironment, SameStatus
    <2>4. \A d \in Container : LivePod(d)' <=> LivePod(d)
      BY <1>0, EnvironmentObjects
    <2> QED BY <2>2, <2>3, <2>4
  <1>2. PICK c \in Container : ContainerCreate(c) \/ PodProgress(c) \/ PodGone(c) \/ Age(c)
    BY DEF Environment
  <1>3. CASE ContainerCreate(c)
    <2>1. c \notin created /\ created' = created \cup {c} /\ db' = db \cup {c}
      BY <1>3 DEF ContainerCreate
    <2>2. ~Removing(c)
      BY <1>0, <2>1 DEF Orderly, Work, Removing, TypeOK
    <2>3. \A d \in Container \ {c} : Unseen(d)
      BY <1>1, <2>1 DEF Unseen, Addressable
    <2>4. c \in created' /\ c \in Addressable'
      BY <1>1, <2>1, <2>2 DEF Addressable
    <2>5. Service!Create(c)
      BY <1>0, <1>1, <2>1, <2>3, <2>4, AbstractSteps
    <2> QED BY <2>5 DEF Service!Next
  <1>4. CASE PodProgress(c) \/ PodGone(c) \/ Age(c)
    <2>1. db' = db /\ created' = created
      BY <1>4 DEF PodProgress, PodGone, Age, recVars
    <2>2. \A d \in Container : Unseen(d)
      BY <1>1, <2>1 DEF Unseen, Addressable
    <2> QED BY <1>0, <2>2, StutterUnseen
  <1> QED BY <1>2, <1>3, <1>4

\* So is every step, while no call has failed.
LEMMA NextRefines ==
    ASSUME ~Overlap
    PROVE  /\ Sound /\ Sound' /\ OrderlyInv /\ faults = 0 /\ faults' = 0 /\ [Next]_vars
           => [Service!Next]_(Service!vars)
  <1> SUFFICES ASSUME Sound, Sound', OrderlyInv, faults = 0, faults' = 0, [Next]_vars
               PROVE  [Service!Next]_(Service!vars)
    OBVIOUS
  <1>0. TypeInv /\ TypeInv' /\ \A c \in Container : Orderly(c)
    BY DEF Sound, OrderlyInv
  <1>1. CASE UNCHANGED vars
    BY <1>0, <1>1, StutterBystander, BystanderUnseen, StutterUnseen
  <1>2. ASSUME NEW r \in Request, Arrive(r) PROVE [Service!Next]_(Service!vars)
    BY <1>0, <1>2, ArriveShape, ArriveRefines
  <1>3. ASSUME NEW r \in Request, Step(r) PROVE [Service!Next]_(Service!vars)
    <2>1. ~Fault
      BY DEF Fault
    <2>2. PICK c \in Container : Tainr(r) = c
      BY <1>0, <1>3, StepIsLocal, WorkerContainer
    <2> QED BY <1>0, <1>3, <2>1, <2>2, StepRefines
  <1>4. CASE Environment
    BY <1>0, <1>4, EnvironmentRefines
  <1> QED BY <1>1, <1>2, <1>3, <1>4 DEF Next

\* An initial state maps to an initial state of the service.
LEMMA InitRefines == Init => Service!Init
  <1> SUFFICES ASSUME Init PROVE Service!Init
    OBVIOUS
  <1>1. \A c \in Container : StateString(c) = "created"
    <2> SUFFICES ASSUME NEW c \in Container PROVE StateString(c) = "created"
      OBVIOUS
    <2>1. \A q \in Request : Tainr(q) # c
      BY IdleFields, ContainerAssumption DEF Init, Tainr
    <2>2. \A f \in Flag : ~Settled(c, f)
      BY <2>1 DEF Settled, PendingWrites, Init
    <2> QED BY <2>2, StatusMeans DEF StatusFacts, Ailing, Flag
  <1>2. \A c \in Container : ~LivePod(c)
    BY DEF Init, LivePod, NoPod
  <1>3. Addressable = {} /\ created = {}
    BY DEF Init, Addressable
  <1> QED BY <1>1, <1>2, <1>3 DEF Service!Init

\* When requests on one container do not overlap, pods go promptly, no two
\* containers claim one name and no kubernetes call fails, the handlers' many
\* steps are those of the atomic container service.
THEOREM LifecycleImplementsService ==
    ASSUME ~Overlap, PromptDeletion, DistinctServices, MaxFaults = 0
    PROVE  Spec => ImplementsService
  <1> DEFINE Calm == Sound /\ OrderlyInv /\ faults = 0
  <1>1. Sound => faults = 0
    BY DEF Sound, TypeInv, TypeOK
  <1>2. Spec => []Calm
    BY <1>1, SoundInvariant, OrderlyInvariant, PTL
  <1>3. Calm /\ Calm' /\ [Next]_vars => [Service!Next]_(Service!vars)
    BY NextRefines
  <1> HIDE DEF Calm
  <1> QED BY <1>2, <1>3, InitRefines, PTL DEF Spec, ImplementsService, Service!Spec

=============================================================================
