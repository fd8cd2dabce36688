----------------------------- MODULE Lifecycle -----------------------------
(***************************************************************************)
(* The life of a container in kubedock: the API handlers that start, stop,  *)
(* kill, restart, attach to, remove, poll and reap it, the backend routines *)
(* they call, and the kubernetes objects those routines create and delete.  *)
(*                                                                          *)
(* Every handler runs in a goroutine of its own and takes no lock on the    *)
(* container: requests share one in-memory record, one database table and   *)
(* the namespace.  A step of the model is one kubernetes call, one database *)
(* call, or one assignment to a flag of the shared record.                  *)
(***************************************************************************)
EXTENDS Naturals, Sequences, FiniteSets

CONSTANTS
    Container,       \* containers the clients create
    Request,         \* handler goroutines: http requests and the reaper
    Reaper,          \* the reaper's goroutine
    Alias,           \* service names, shared by the whole namespace
    NoContainer,     \* not a container
    ServiceAliases,  \* the names getServices yields for each container
    FileVolumes,     \* containers that need a configmap (files, archives)
    Setup,           \* containers with volumes or archives: setup init container
    Ports,           \* containers with service ports: GetPodIP is called
    Ops,             \* operations the clients of this instance issue
    MaxOps,          \* bound: requests issued in a behaviour
    MaxFaults,       \* bound: kubernetes calls that fail in a behaviour
    Overlap,         \* may two requests on one container overlap?
    PromptDeletion   \* is a terminating pod gone before its next start?

OpNames == {"start", "attach", "stop", "kill", "restart", "delete",
            "wait", "inspect", "reap"}

ASSUME ContainerAssumption == NoContainer \notin Container
ASSUME ReaperAssumption == Reaper \in Request
ASSUME ShapeAssumption ==
    /\ ServiceAliases \in [Container -> SUBSET Alias]
    /\ FileVolumes \subseteq Setup
    /\ Setup \subseteq Container
    /\ Ports \subseteq Container
    /\ \A c \in Container : ServiceAliases[c] # {} => c \in Ports
ASSUME BoundAssumption ==
    /\ Ops \subseteq OpNames
    /\ MaxOps \in Nat
    /\ MaxFaults \in Nat
    /\ Overlap \in BOOLEAN
    /\ PromptDeletion \in BOOLEAN

VARIABLES
    rec,      \* the flags of each container's in-memory record
    created,  \* containers that have been created
    db,       \* containers the in-memory database holds
    pod,      \* each container's pod: its phase and whether it is terminating
    svc,      \* the owner of each service, by service name
    cm,       \* containers whose configmap exists
    req,      \* the handler goroutines
    event,    \* the last event published for each container
    aged,     \* containers created longer than keepMax ago
    issued,   \* requests issued so far
    faults    \* kubernetes calls that failed so far

recVars == <<rec, created, db, aged>>
kubVars == <<pod, svc, cm>>
vars == <<rec, created, db, pod, svc, cm, req, event, aged, issued, faults>>

Flag == {"Running", "Completed", "Failed", "Stopped", "Killed"}
Write == Flag \X BOOLEAN
Phase == {"none", "pending", "init", "initdone", "starting",
          "running", "completed", "failed"}
\* waitReadyState sees DeployPending in these phases
PendingPhase == {"pending", "init", "initdone", "starting"}
DeployState == {"none", "running", "completed"}
Watch == {"none", "armed", "closed", "nil"}
PC == {"idle", "delservices", "delconfigmaps", "delpods", "dbdelete",
       "configmap", "create", "copy", "touch", "await", "services", "podip",
       "rollback", "write", "save", "publish", "watch", "awaitdeleted",
       "poll", "check"}

Idle == [op |-> "none", c |-> NoContainer, pc |-> "idle", dup |-> FALSE,
         state |-> "none", todo |-> {}, writes |-> <<>>, watch |-> "none"]

NoPod == [phase |-> "none", terminating |-> FALSE]

\* Type correctness of the record, the namespace and the handlers.
TypeOK ==
    /\ rec \in [Container -> [Flag -> BOOLEAN]]
    /\ created \subseteq Container
    /\ db \subseteq created
    /\ aged \subseteq created
    /\ pod \in [Container -> [phase : Phase, terminating : BOOLEAN]]
    /\ \A c \in Container : pod[c].terminating => pod[c].phase # "none"
    /\ svc \in [Alias -> Container \cup {NoContainer}]
    /\ cm \subseteq Container
    /\ req \in [Request -> [op : OpNames \cup {"none"},
                            c : Container \cup {NoContainer}, pc : PC,
                            dup : BOOLEAN, state : DeployState,
                            todo : SUBSET Alias, writes : Seq(Write),
                            watch : Watch]]
    /\ event \in [Container -> {"none", "start", "die"}]
    /\ issued \in 0..MaxOps
    /\ faults \in 0..MaxFaults

Init ==
    /\ rec = [c \in Container |-> [f \in Flag |-> FALSE]]
    /\ created = {}
    /\ db = {}
    /\ pod = [c \in Container |-> NoPod]
    /\ svc = [a \in Alias |-> NoContainer]
    /\ cm = {}
    /\ req = [r \in Request |-> Idle]
    /\ event = [c \in Container |-> "none"]
    /\ aged = {}
    /\ issued = 0
    /\ faults = 0

----------------------------------------------------------------------------
\* A kubernetes call fails.
Fault == /\ faults < MaxFaults
         /\ faults' = faults + 1

NoFault == UNCHANGED faults

Goto(r, pc) == req' = [req EXCEPT ![r].pc = pc]

Return(r) == req' = [req EXCEPT ![r] = Idle]

\* The handler goes on to assign ws to the record's flags, one at a time.
Assign(r, ws) == req' = [req EXCEPT ![r].pc = "write", ![r].writes = ws]

At(r, pc) == req[r].pc = pc

\* The container the request is about.
Tainr(r) == req[r].c

\* Everything a handler goroutine does after its first step ends up here
\* unchanged: the bounds and the environment's variables.
EnvUnchanged == UNCHANGED <<created, aged, issued>>

\* A request arrives, finds the container in the database and gets as far
\* as pc.
Begin(r, op, c, pc, writes) ==
    /\ At(r, "idle")
    /\ op \in Ops
    /\ c \in db
    /\ Overlap \/ \A q \in Request : Tainr(q) # c
    /\ IF op = "reap" THEN r = Reaper /\ issued' = issued
                      ELSE r # Reaper /\ issued < MaxOps /\ issued' = issued + 1
    /\ req' = [req EXCEPT ![r] = [Idle EXCEPT !.op = op, !.c = c, !.pc = pc,
                                              !.writes = writes]]
    /\ UNCHANGED <<recVars, kubVars, event, faults>>

\* Where the backend's startContainer makes its first kubernetes call.
StartPc(c) == IF c \in FileVolumes THEN "configmap" ELSE "create"

\* The assignments at the end of ContainerStop, ContainerRestart (first
\* half) and ContainerKill.
EndWrites(op) ==
    IF op = "kill"
    THEN <<<<"Killed", TRUE>>, <<"Running", FALSE>>, <<"Completed", FALSE>>>>
    ELSE <<<<"Running", FALSE>>, <<"Completed", FALSE>>, <<"Stopped", TRUE>>>>

\* The assignments at the end of StartContainer.
StartWrites(state) ==
    <<<<"Stopped", FALSE>>, <<"Killed", FALSE>>, <<"Failed", FALSE>>,
      <<"Completed", state = "completed">>, <<"Running", state = "running">>>>

\* Mutant: a completed container counts as ended.
EndedOrCompleted(c) ==
    rec[c]["Stopped"] \/ rec[c]["Killed"] \/ rec[c]["Completed"]

\* Stop, kill and delete skip the backend for a container marked ended.
Ended(c) == rec[c]["Stopped"] \/ rec[c]["Killed"]

----------------------------------------------------------------------------
\* The handlers' first steps.

ContainerCreate(c) ==
    /\ c \notin created
    /\ created' = created \cup {c}
    /\ db' = db \cup {c}
    /\ UNCHANGED <<rec, aged, kubVars, req, event, issued, faults>>

ContainerStart(r, c) ==
    /\ PromptDeletion => ~pod[c].terminating
    /\ Begin(r, "start", c,
             IF rec[c]["Running"] \/ rec[c]["Completed"] THEN "publish"
                                                         ELSE StartPc(c), <<>>)

\* Attach, and put-archive without pre-archives, start a container on their
\* own account, and publish no start event.  On one that runs or has
\* completed they touch neither the record nor the namespace.
ContainerAttach(r, c) ==
    /\ PromptDeletion => ~pod[c].terminating
    /\ ~rec[c]["Running"] /\ ~rec[c]["Completed"]
    /\ Begin(r, "attach", c, StartPc(c), <<>>)

ContainerStop(r, c) ==
    IF Ended(c) THEN Begin(r, "stop", c, "write", EndWrites("stop"))
                ELSE Begin(r, "stop", c, "delservices", <<>>)

ContainerKill(r, c) ==
    IF Ended(c) THEN Begin(r, "kill", c, "write", EndWrites("kill"))
                ELSE Begin(r, "kill", c, "delservices", <<>>)

ContainerRestart(r, c) == Begin(r, "restart", c, "watch", <<>>)

ContainerDelete(r, c) ==
    Begin(r, "delete", c, IF Ended(c) THEN "dbdelete" ELSE "delservices", <<>>)

ContainerWait(r, c) == Begin(r, "wait", c, "poll", <<>>)

ContainerInfo(r, c) == Begin(r, "inspect", c, "poll", <<>>)

\* Mutant: the reaper skips containers marked stopped or killed.
CleanUnendedContainers(r, c) ==
    /\ c \in aged
    /\ ~Ended(c)
    /\ Begin(r, "reap", c, "delservices", <<>>)

\* The reaper takes on a container of the database older than keepMax.
CleanContainers(r, c) ==
    /\ c \in aged
    /\ Begin(r, "reap", c, "delservices", <<>>)

----------------------------------------------------------------------------
\* The backend's DeleteContainer: services, configmaps, pods; the error of
\* one step is logged and the next step runs.

\* deleteServices lists the container's services and deletes them one by
\* one, returning at the first error with some of them deleted.
DeleteServices(r) ==
    /\ At(r, "delservices")
    /\ LET own == {a \in Alias : svc[a] = Tainr(r)} IN
       \E gone \in SUBSET own :
         /\ svc' = [a \in Alias |-> IF a \in gone THEN NoContainer ELSE svc[a]]
         /\ IF gone = own THEN NoFault ELSE Fault
    /\ Goto(r, "delconfigmaps")
    /\ EnvUnchanged /\ UNCHANGED <<rec, db, pod, cm, event>>

DeleteConfigMaps(r) ==
    /\ At(r, "delconfigmaps")
    /\ \/ cm' = cm \ {Tainr(r)} /\ NoFault
       \/ cm' = cm /\ Fault
    /\ Goto(r, "delpods")
    /\ EnvUnchanged /\ UNCHANGED <<rec, db, pod, svc, event>>

\* Deleting a pod only marks it; the kubelet ends it later.
Terminate(c) ==
    pod' = [pod EXCEPT ![c].terminating = pod[c].phase # "none"]

\* Where a handler goes on once the backend has deleted the container.
AfterDelete(r) ==
    CASE req[r].op = "reap" -> Goto(r, "dbdelete")
      [] req[r].op = "delete" -> Goto(r, "publish")
      [] OTHER -> Assign(r, EndWrites(req[r].op))

DeletePods(r) ==
    /\ At(r, "delpods")
    /\ \/ Terminate(Tainr(r)) /\ NoFault
       \/ pod' = pod /\ Fault
    /\ AfterDelete(r)
    /\ EnvUnchanged /\ UNCHANGED <<rec, db, svc, cm, event>>

\* The database's DeleteContainer; a missing record makes it an error, which
\* ends the handler just the same.
DeleteRecord(r) ==
    /\ At(r, "dbdelete")
    /\ db' = db \ {Tainr(r)}
    /\ Return(r)
    /\ EnvUnchanged /\ UNCHANGED <<rec, kubVars, event, faults>>

----------------------------------------------------------------------------
\* The backend's StartContainer.

\* startContainer returned DeployFailed: the pod, and only the pod, is
\* deleted.
Failed(r) == Goto(r, "rollback")

CreateConfigMap(r) ==
    /\ At(r, "configmap")
    /\ \/ /\ Tainr(r) \notin cm
          /\ cm' = cm \cup {Tainr(r)}
          /\ Goto(r, "create")
          /\ NoFault
       \/ /\ Tainr(r) \in cm       \* AlreadyExists
          /\ cm' = cm
          /\ Failed(r)
          /\ NoFault
       \/ /\ cm' = cm
          /\ Failed(r)
          /\ Fault
    /\ EnvUnchanged /\ UNCHANGED <<rec, db, pod, svc, event>>

\* A pod that exists already makes the request a duplicate.
CreatePod(r) ==
    LET c == Tainr(r)
        next == IF c \in Setup THEN "copy" ELSE "await"
    IN
    /\ At(r, "create")
    /\ \/ /\ pod[c].phase = "none"
          /\ pod' = [pod EXCEPT ![c] =
                       [phase |-> IF c \in Setup THEN "pending" ELSE "starting",
                        terminating |-> FALSE]]
          /\ Goto(r, next)
          /\ NoFault
       \/ /\ pod[c].phase # "none"
          /\ pod' = pod
          /\ req' = [req EXCEPT ![r].pc = next, ![r].dup = TRUE]
          /\ NoFault
       \/ /\ pod' = pod
          /\ Failed(r)
          /\ Fault
    /\ EnvUnchanged /\ UNCHANGED <<rec, db, svc, cm, event>>

\* waitInitContainerRunning, then the check whether the init container is
\* done already.
AwaitInit(r) ==
    LET p == pod[Tainr(r)].phase IN
    /\ At(r, "copy")
    /\ \/ p \in {"init", "initdone"} /\ Goto(r, "touch") /\ NoFault
       \/ p \in {"starting", "running", "completed"} /\ Goto(r, "await") /\ NoFault
       \/ p \in {"none", "failed", "pending"} /\ Failed(r) /\ NoFault
       \/ Failed(r) /\ Fault
    /\ EnvUnchanged /\ UNCHANGED <<rec, db, kubVars, event>>

\* Copying the folders, of which errors are only logged, and touching
\* /tmp/done, which fails once the init container has ended.
TouchDone(r) ==
    LET c == Tainr(r) IN
    /\ At(r, "touch")
    /\ \/ /\ pod[c].phase \in {"init", "initdone"}
          /\ pod' = [pod EXCEPT ![c].phase = "initdone"]
          /\ Goto(r, "await")
          /\ NoFault
       \/ /\ pod[c].phase \notin {"init", "initdone"}
          /\ pod' = pod
          /\ Failed(r)
          /\ NoFault
       \/ /\ pod' = pod
          /\ Failed(r)
          /\ Fault
    /\ EnvUnchanged /\ UNCHANGED <<rec, db, svc, cm, event>>

\* Mutant: the first status is the answer, pending or not.
AwaitReadyOnce(r) ==
    LET p == pod[Tainr(r)].phase IN
    /\ At(r, "await")
    /\ IF p \in {"none", "failed"}
       THEN Failed(r)
       ELSE req' = [req EXCEPT ![r].pc = "services", ![r].state = p,
                               ![r].todo = ServiceAliases[Tainr(r)]]
    /\ EnvUnchanged /\ UNCHANGED <<rec, db, kubVars, event, faults>>

\* waitReadyState: it returns when GetContainerStatus is no longer pending,
\* or when its time is up.
AwaitReady(r) ==
    LET p == pod[Tainr(r)].phase IN
    /\ At(r, "await")
    /\ \/ /\ p \in {"running", "completed"}
          /\ req' = [req EXCEPT ![r].pc = "services", ![r].state = p,
                                ![r].todo = ServiceAliases[Tainr(r)]]
          /\ NoFault
       \/ /\ p \in {"none", "failed"} \cup PendingPhase
          /\ Failed(r)
          /\ NoFault
       \/ /\ Failed(r)
          /\ Fault
    /\ EnvUnchanged /\ UNCHANGED <<rec, db, kubVars, event>>

\* Mutant: AlreadyExists is dropped for every request.
CreateServicesTolerant(r) ==
    LET c == Tainr(r) IN
    /\ At(r, "services")
    /\ \/ /\ req[r].todo = {}
          /\ Goto(r, "podip")
          /\ svc' = svc
       \/ \E a \in req[r].todo :
            \/ /\ svc[a] = NoContainer
               /\ svc' = [svc EXCEPT ![a] = c]
               /\ req' = [req EXCEPT ![r].todo = @ \ {a}]
            \/ /\ svc[a] # NoContainer
               /\ svc' = svc
               /\ Goto(r, "podip")
    /\ EnvUnchanged /\ UNCHANGED <<rec, db, pod, cm, event, faults>>

\* createServices stops at the first error.  AlreadyExists is dropped for a
\* duplicate request; any other error ends the handler and keeps the pod.
CreateServices(r) ==
    LET c == Tainr(r) IN
    /\ At(r, "services")
    /\ \/ /\ req[r].todo = {}
          /\ Goto(r, "podip")
          /\ svc' = svc
          /\ NoFault
       \/ \E a \in req[r].todo :
            \/ /\ svc[a] = NoContainer
               /\ svc' = [svc EXCEPT ![a] = c]
               /\ req' = [req EXCEPT ![r].todo = @ \ {a}]
               /\ NoFault
            \/ /\ svc[a] # NoContainer
               /\ svc' = svc
               /\ IF req[r].dup THEN Goto(r, "podip") ELSE Return(r)
               /\ NoFault
            \/ /\ svc' = svc
               /\ Return(r)
               /\ Fault
    /\ EnvUnchanged /\ UNCHANGED <<rec, db, pod, cm, event>>

\* GetPodIP, for a container with ports: without a pod the start fails.
GetPodIP(r) ==
    LET c == Tainr(r) IN
    /\ At(r, "podip")
    /\ \/ /\ c \in Ports => pod[c].phase # "none"
          /\ Assign(r, StartWrites(req[r].state))
          /\ NoFault
       \/ /\ c \in Ports
          /\ pod[c].phase = "none"
          /\ Return(r)
          /\ NoFault
       \/ /\ c \in Ports
          /\ Return(r)
          /\ Fault
    /\ EnvUnchanged /\ UNCHANGED <<rec, db, kubVars, event>>

\* The pod of a failed deployment is deleted; an error is ignored.
Rollback(r) ==
    /\ At(r, "rollback")
    /\ \/ Terminate(Tainr(r)) /\ NoFault
       \/ pod' = pod /\ Fault
    /\ Return(r)
    /\ EnvUnchanged /\ UNCHANGED <<rec, db, svc, cm, event>>

----------------------------------------------------------------------------
\* The rest of the handlers.

\* One assignment to a flag of the shared record.
AssignFlag(r) ==
    LET w == Head(req[r].writes)
        rest == Tail(req[r].writes)
    IN
    /\ At(r, "write")
    /\ rec' = [rec EXCEPT ![Tainr(r)][w[1]] = w[2]]
    /\ req' = [req EXCEPT ![r].writes = rest,
                 ![r].pc = CASE rest # <<>> -> "write"
                             [] rest = <<>> /\ req[r].op \in {"wait", "inspect"} -> "check"
                             [] OTHER -> "save"]
    /\ EnvUnchanged /\ UNCHANGED <<db, kubVars, event, faults>>

\* The database's SaveContainer inserts the record, deleted or not.  A
\* restart saves twice: before it awaits the deletion, and after the start.
\* Restart and attach publish no event of their start.
SaveContainer(r) ==
    /\ At(r, "save")
    /\ db' = db \cup {Tainr(r)}
    /\ CASE req[r].op \notin {"restart", "attach"} -> Goto(r, "publish")
         [] req[r].op = "restart" /\ req[r].state = "none" -> Goto(r, "awaitdeleted")
         [] OTHER -> Return(r)
    /\ EnvUnchanged /\ UNCHANGED <<rec, kubVars, event, faults>>

\* Mutant: delete leaves the record in the database.
PublishOnly(r) ==
    /\ At(r, "publish")
    /\ event' = [event EXCEPT ![Tainr(r)] =
                   IF req[r].op = "start" THEN "start" ELSE "die"]
    /\ Return(r)
    /\ EnvUnchanged /\ UNCHANGED <<rec, db, kubVars, faults>>

\* Events.Publish: the last step of start, stop and kill; delete publishes
\* before it deletes the record.  Publish sends to one subscriber's channel
\* after the other and blocks while one is full, for ever if its subscriber has
\* left (see Events): this step may never come, and no fairness is assumed of it.
Publish(r) ==
    /\ At(r, "publish")
    /\ event' = [event EXCEPT ![Tainr(r)] =
                   IF req[r].op = "start" THEN "start" ELSE "die"]
    /\ IF req[r].op = "delete" THEN Goto(r, "dbdelete") ELSE Return(r)
    /\ EnvUnchanged /\ UNCHANGED <<rec, db, kubVars, faults>>

\* WatchDeleteContainer; if the watch fails the channel is nil, and the
\* error is only logged.
WatchDelete(r) ==
    /\ At(r, "watch")
    /\ \/ req' = [req EXCEPT ![r].pc = "delservices", ![r].watch = "armed"] /\ NoFault
       \/ req' = [req EXCEPT ![r].pc = "delservices", ![r].watch = "nil"] /\ Fault
    /\ EnvUnchanged /\ UNCHANGED <<rec, db, kubVars, event>>

\* Mutant: the handler does not receive from the channel.
AwaitNothing(r) ==
    /\ At(r, "awaitdeleted")
    /\ Goto(r, StartPc(Tainr(r)))
    /\ EnvUnchanged /\ UNCHANGED <<rec, db, kubVars, event, faults>>

\* Mutant: the watch has no timer.
AwaitDeletedForever(r) ==
    /\ At(r, "awaitdeleted")
    /\ req[r].watch = "closed"
    /\ Goto(r, StartPc(Tainr(r)))
    /\ EnvUnchanged /\ UNCHANGED <<rec, db, kubVars, event, faults>>

\* The receive from the watch's channel: it is closed when the pod's deletion
\* has been seen or the timer of the watch has fired.  A nil channel blocks.
AwaitDeleted(r) ==
    /\ At(r, "awaitdeleted")
    /\ \/ req[r].watch = "closed"
       \/ /\ req[r].watch = "armed"
          /\ PromptDeletion => ~pod[Tainr(r)].terminating
    /\ Goto(r, StartPc(Tainr(r)))
    /\ EnvUnchanged /\ UNCHANGED <<rec, db, kubVars, event, faults>>

\* Mutant: every status other than pending counts as completed.
UpdateContainerStatusEager(r) ==
    /\ At(r, "poll")
    /\ IF pod[Tainr(r)].phase \in PendingPhase
       THEN Goto(r, "check")
       ELSE Assign(r, <<<<"Completed", TRUE>>, <<"Running", FALSE>>>>)
    /\ EnvUnchanged /\ UNCHANGED <<rec, db, kubVars, event, faults>>

\* UpdateContainerStatus, up to its assignments.  Wait looks the container
\* up again on every tick; the rate limiter may skip the status request.
UpdateContainerStatus(r) ==
    LET c == Tainr(r)
        p == pod[c].phase
    IN
    /\ At(r, "poll")
    /\ \/ /\ req[r].op = "wait" /\ c \notin db
          /\ Return(r)
          /\ NoFault
       \/ /\ req[r].op = "wait" => c \in db
          /\ \/ Goto(r, "check") /\ NoFault           \* completed or rate-limited
             \/ /\ ~rec[c]["Completed"]
                /\ \/ p \in {"none", "failed"}
                      /\ Assign(r, <<<<"Failed", TRUE>>>>) /\ NoFault
                   \/ p = "completed" /\ NoFault
                      /\ Assign(r, <<<<"Completed", TRUE>>, <<"Running", FALSE>>>>)
                   \/ p \in PendingPhase \cup {"running"}
                      /\ Goto(r, "check") /\ NoFault
                   \/ Assign(r, <<<<"Failed", TRUE>>>>) /\ Fault
    /\ EnvUnchanged /\ UNCHANGED <<rec, db, kubVars, event>>

\* The end of a tick of ContainerWait, and of ContainerInfo.
CheckEnded(r) ==
    /\ At(r, "check")
    /\ IF req[r].op = "inspect" \/ Ended(Tainr(r)) \/ rec[Tainr(r)]["Completed"]
       THEN Return(r)
       ELSE Goto(r, "poll")
    /\ EnvUnchanged /\ UNCHANGED <<rec, db, kubVars, event, faults>>

\* The client of ContainerWait goes away.
ClientLeaves(r) ==
    /\ At(r, "poll")
    /\ req[r].op = "wait"
    /\ Return(r)
    /\ EnvUnchanged /\ UNCHANGED <<rec, db, kubVars, event, faults>>

----------------------------------------------------------------------------
\* Kubernetes and time.

\* The kubelet moves a pod on.  A terminating pod starts nothing new, and a
\* setup container cannot mount a configmap that is not there.
PodProgress(c) ==
    /\ \E p \in Phase :
         /\ \/ /\ ~pod[c].terminating
               /\ \/ pod[c].phase = "pending" /\ p = "init"
                     /\ (c \in FileVolumes => c \in cm)
                  \/ pod[c].phase = "initdone" /\ p = "starting"
                  \/ pod[c].phase = "starting" /\ p \in {"running", "completed"}
                  \/ pod[c].phase \in PendingPhase /\ p = "failed"
            \/ pod[c].phase = "running" /\ p \in {"completed", "failed"}
         /\ pod' = [pod EXCEPT ![c].phase = p]
    /\ UNCHANGED <<recVars, svc, cm, req, event, issued, faults>>

\* A terminating pod is removed, and the watches on it see that.
PodGone(c) ==
    /\ pod[c].terminating
    /\ pod' = [pod EXCEPT ![c] = NoPod]
    /\ req' = [r \in Request |->
                 IF Tainr(r) = c /\ req[r].watch = "armed"
                 THEN [req[r] EXCEPT !.watch = "closed"] ELSE req[r]]
    /\ UNCHANGED <<recVars, svc, cm, event, issued, faults>>

\* The container becomes older than keepMax.
Age(c) ==
    /\ c \in created \ aged
    /\ "reap" \in Ops
    /\ aged' = aged \cup {c}
    /\ UNCHANGED <<rec, created, db, kubVars, req, event, issued, faults>>

----------------------------------------------------------------------------
Arrive(r) ==
    \E c \in Container :
        \/ ContainerStart(r, c) \/ ContainerAttach(r, c)
        \/ ContainerStop(r, c) \/ ContainerKill(r, c)
        \/ ContainerRestart(r, c) \/ ContainerDelete(r, c)
        \/ ContainerWait(r, c) \/ ContainerInfo(r, c) \/ CleanContainers(r, c)

Step(r) ==
    \/ DeleteServices(r) \/ DeleteConfigMaps(r) \/ DeletePods(r) \/ DeleteRecord(r)
    \/ CreateConfigMap(r) \/ CreatePod(r) \/ AwaitInit(r) \/ TouchDone(r)
    \/ AwaitReady(r) \/ CreateServices(r) \/ GetPodIP(r) \/ Rollback(r)
    \/ AssignFlag(r) \/ SaveContainer(r) \/ Publish(r)
    \/ WatchDelete(r) \/ AwaitDeleted(r)
    \/ UpdateContainerStatus(r) \/ CheckEnded(r) \/ ClientLeaves(r)

Environment ==
    \E c \in Container :
        ContainerCreate(c) \/ PodProgress(c) \/ PodGone(c) \/ Age(c)

Next == Environment \/ \E r \in Request : Arrive(r) \/ Step(r)

Spec == Init /\ [][Next]_vars

\* Goroutines keep running, but for the sends of Publish, which may block for
\* ever; terminating pods go away, containers age and the reaper's ticker keeps
\* firing.
Fairness ==
    /\ \A r \in Request : WF_vars(~At(r, "publish") /\ Step(r))
    /\ \A c \in Container : WF_vars(PodGone(c)) /\ WF_vars(Age(c))
    /\ \A c \in Container : WF_vars(CleanContainers(Reaper, c))

FairSpec == Spec /\ Fairness

----------------------------------------------------------------------------
\* Properties

Quiescent(c) == \A r \in Request : Tainr(r) # c

LivePod(c) == pod[c].phase # "none" /\ ~pod[c].terminating

Owns(c, a) == svc[a] = c

Clean(c) == ~LivePod(c) /\ c \notin cm /\ \A a \in Alias : ~Owns(c, a)

\* Once a container has been removed and no handler works on it any more,
\* its pod is gone or going, and its services and configmap are gone
\* (README.md: "If kubedock is requested to delete a container, it will
\* remove the pod and related services").
DeletedIsClean ==
    \A c \in created \ db : Quiescent(c) => Clean(c)

\* A container recorded as running has a live pod, all of its services and
\* the configmap its pod mounts (README.md: "Starting a container is a
\* blocking call that will wait until it results in a running pod").
RunningIsBacked ==
    \A c \in db : Quiescent(c) /\ rec[c]["Running"] =>
        /\ LivePod(c)
        /\ \A a \in ServiceAliases[c] : Owns(c, a)
        /\ c \in FileVolumes => c \in cm

\* A container recorded as completed has no pod that is still at work
\* (UpdateContainerStatus "will check if the started container is finished
\* and will update the container database record accordingly").
CompletedIsFinished ==
    \A c \in db : Quiescent(c) /\ rec[c]["Completed"] /\ LivePod(c) =>
        pod[c].phase = "completed"

\* The start request that created the pod (every other one is a duplicate)
\* gets past createServices only with every service of its container.
CreatorOwnsServices ==
    \A r \in Request : At(r, "podip") /\ ~req[r].dup =>
        \A a \in ServiceAliases[Tainr(r)] : Owns(Tainr(r), a)

\* There are two places where a handler can stay for ever, and no third, with a
\* call that fails anywhere and requests that overlap: the blocking sends of
\* Publish, and in restart the receive from the nil channel of a watch that
\* could not be set up.  Every other wait is bounded by a timer or by the pod's
\* end; the wait request is as long as its container or its client wants it.
HangsOnlyOnChannels ==
    \A r \in Request :
        req[r].op \notin {"none", "wait"} ~>
            \/ At(r, "idle")
            \/ At(r, "publish")
            \/ At(r, "awaitdeleted") /\ req[r].watch = "nil"

\* A container older than keepMax ends up out of the database, although a
\* handler still at work may save it again after the reaper deleted it.
AgedIsReaped == \A c \in Container : <>[](c \notin db \/ c \notin aged)

=============================================================================
