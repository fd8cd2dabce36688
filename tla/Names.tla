------------------------------- MODULE Names -------------------------------
(***************************************************************************)
(* How containers are found: the container table of the in-memory database *)
(* with its indexes on id and name, the lookups over them, and the handlers *)
(* that create, rename, save and remove a record or keep a name for later   *)
(* (exec).  The name of a container's pod is made of the container's name   *)
(* when it is started, and made again whenever the pod is looked for.       *)
(*                                                                          *)
(* The table holds pointers.  A handler changes the record it looked up in  *)
(* place and then inserts it again; what go-memdb takes for the old version *)
(* of the record is the same, already changed, record.  The name index is   *)
(* not unique: an entry is a name together with the container's id.         *)
(***************************************************************************)
EXTENDS Naturals, FiniteSets

CONSTANTS
    Container,    \* containers, identified by their ids
    Name,         \* names clients use
    Request,      \* handler goroutines
    Exec,         \* exec records
    NoContainer,  \* not a container
    NoName,       \* the empty name
    LastPart,     \* what follows the last "-" of a name that has one
    ExecArg,      \* bound: what clients give as the container of an exec
    MaxOps        \* bound: requests issued in a behaviour

Arg == Container \cup Name

ASSUME ValueAssumption ==
    /\ NoContainer \notin Arg
    /\ NoName \notin Name
    /\ Container \cap Name = {}
ASSUME BoundAssumption == MaxOps \in Nat /\ ExecArg \subseteq Arg
ASSUME PartAssumption ==
    /\ DOMAIN LastPart \subseteq Name
    /\ \A n \in DOMAIN LastPart : LastPart[n] \in Arg

VARIABLES
    created,  \* containers that have been created
    name,     \* the Name field of each record
    table,    \* the ids in the table
    index,    \* the name index
    pods,     \* the pods: a container and the name it had at the start
    kept,     \* history: pods left by a start or a deletion that failed
    state,    \* what the flags of each record say
    exec,     \* the exec records
    req,      \* the handler goroutines
    issued,   \* requests issued so far
    used,     \* history: the names each container has had
    raced     \* history: did a request begin while another one was at work?

counts == <<issued, used, raced>>
vars == <<created, name, table, index, pods, kept, state, exec, req, issued, used, raced>>

Idle == [op |-> "none", c |-> NoContainer, to |-> NoName, pc |-> "idle"]

\* An exec record keeps the argument of the request; meant and ran are
\* history: the container found at its creation and the one it ran in.
NoExec == [arg |-> NoContainer, meant |-> NoContainer, ran |-> NoContainer]

\* Type correctness of the table, the index, the execs and the handlers.
TypeOK ==
    /\ created \subseteq Container
    /\ name \in [Container -> Name \cup {NoName}]
    /\ table \subseteq created
    /\ index \subseteq Name \X created
    /\ pods \subseteq created \X (Name \cup {NoName})
    /\ kept \subseteq pods
    /\ state \in [Container -> {"created", "running", "stopped"}]
    /\ exec \in [Exec -> [arg : Arg \cup {NoContainer},
                          meant : Container \cup {NoContainer},
                          ran : Container \cup {NoContainer}]]
    /\ req \in [Request -> [op : {"none", "start", "stop", "delete", "rename"},
                            c : created \cup {NoContainer},
                            to : Name \cup {NoName},
                            pc : {"idle", "check", "assign", "pod", "ready",
                                  "unpod", "save", "delete"}]]
    /\ \A r \in Request : req[r].pc = "idle" <=> req[r].c = NoContainer
    /\ issued \in 0..MaxOps
    /\ used \subseteq (Name \cup {NoName}) \X created
    /\ raced \in BOOLEAN

Init ==
    /\ created = {}
    /\ name = [c \in Container |-> NoName]
    /\ table = {}
    /\ index = {}
    /\ pods = {}
    /\ kept = {}
    /\ state = [c \in Container |-> "created"]
    /\ exec = [e \in Exec |-> NoExec]
    /\ req = [r \in Request |-> Idle]
    /\ issued = 0
    /\ used = {}
    /\ raced = FALSE

----------------------------------------------------------------------------
\* Lookups

\* The entries of the name index for n; the iteration starts with the
\* smallest id.
getContainerByName(n) ==
    LET found == {c \in Container : <<n, c>> \in index} IN
    IF found = {} THEN NoContainer ELSE CHOOSE c \in found : TRUE

\* Mutant: the last part of a name is tried here as well.
GetContainerLoose(id) ==
    IF id \in table THEN id
    ELSE IF getContainerByName(id) = NoContainer /\ id \in DOMAIN LastPart
    THEN getContainerByName(LastPart[id])
    ELSE getContainerByName(id)

\* By id (or short id, which identifies the same record), then by name.
GetContainer(id) == IF id \in table THEN id ELSE getContainerByName(id)

\* Mutant: only the record of this id is looked for.
GetContainerByNameStrict(n) ==
    IF n \in table THEN n ELSE NoContainer

\* By name; a name that is not found and has a "-" is taken for the name of
\* a pod, which ends in the short id.
GetContainerByName(n) ==
    IF getContainerByName(n) = NoContainer /\ n \in DOMAIN LastPart
    THEN GetContainer(LastPart[n])
    ELSE getContainerByName(n)

GetContainerByNameOrID(id) ==
    IF GetContainer(id) # NoContainer THEN GetContainer(id)
                                      ELSE GetContainerByName(id)

\* The transaction of save: an entry under the record's name as it is now.
\* No entry is deleted, since the existing record is the same one.
SaveContainer(c, n) ==
    /\ table' = table \cup {c}
    /\ index' = IF n = NoName THEN index ELSE index \cup {<<n, c>>}

\* The transaction of delete; a record that is not there is an error.
DeleteContainer(c) ==
    /\ table' = table \ {c}
    /\ index' = IF c \in table THEN index \ {<<name[c], c>>} ELSE index

----------------------------------------------------------------------------
\* Handlers

AllIdle == \A r \in Request : req[r].pc = "idle"

\* A request finds container c and goes on at pc.
Begin(r, op, c, to, pc) ==
    /\ req[r].pc = "idle"
    /\ c # NoContainer
    /\ issued < MaxOps
    /\ issued' = issued + 1
    /\ req' = [req EXCEPT ![r] = [op |-> op, c |-> c, to |-> to, pc |-> pc]]
    /\ raced' = (raced \/ ~AllIdle)
    /\ UNCHANGED <<created, name, table, index, pods, kept, state, exec, used>>

Goto(r, pc) == req' = [req EXCEPT ![r].pc = pc]

Return(r) == req' = [req EXCEPT ![r] = Idle]

\* Whether the name is in use is not checked.
ContainerCreate(c, n) ==
    /\ c \notin created
    /\ created' = created \cup {c}
    /\ name' = [name EXCEPT ![c] = n]
    /\ SaveContainer(c, n)
    /\ used' = used \cup {<<n, c>>}
    /\ raced' = (raced \/ ~AllIdle)
    /\ UNCHANGED <<pods, kept, state, exec, req, issued>>

ContainerRename(r, id, n) ==
    Begin(r, "rename", GetContainerByNameOrID(id), n, "check")

\* StartContainer, for a container that is not running.
StartFound(r, c) ==
    /\ c # NoContainer => state[c] # "running"
    /\ Begin(r, "start", c, NoName, "pod")

ContainerStart(r, id) == StartFound(r, GetContainer(id))

\* The implicit start.
ContainerAttach(r, id) == StartFound(r, GetContainerByNameOrID(id))

\* A container marked stopped or killed has no pod to delete.
StopFound(r, c) ==
    Begin(r, "stop", c, NoName,
          IF c # NoContainer /\ state[c] = "stopped" THEN "save" ELSE "unpod")

ContainerStop(r, id) == StopFound(r, GetContainer(id))

ContainerKill(r, id) == StopFound(r, GetContainerByNameOrID(id))

ContainerDelete(r, id) ==
    LET c == GetContainerByNameOrID(id) IN
    Begin(r, "delete", c, NoName,
          IF c # NoContainer /\ state[c] = "stopped" THEN "delete" ELSE "unpod")

\* A rename to a name that leads to a container is refused.
RenameCheck(r) ==
    /\ req[r].pc = "check"
    /\ IF GetContainerByName(req[r].to) = NoContainer THEN Goto(r, "assign")
                                                      ELSE Return(r)
    /\ UNCHANGED <<created, name, table, index, pods, kept, state, exec, counts>>

RenameAssign(r) ==
    /\ req[r].pc = "assign"
    /\ name' = [name EXCEPT ![req[r].c] = req[r].to]
    /\ used' = used \cup {<<req[r].to, req[r].c>>}
    /\ Goto(r, "save")
    /\ UNCHANGED <<created, table, index, pods, kept, state, exec, issued, raced>>

\* The pod a lookup by GetPodName leads to.
PodName(c) == <<c, name[c]>>

\* startContainer creates the pod; one that is there already is kept.
CreatePod(r) ==
    /\ req[r].pc = "pod"
    /\ pods' = pods \cup {PodName(req[r].c)}
    /\ Goto(r, "ready")
    /\ UNCHANGED <<created, name, table, index, kept, state, exec, counts>>

\* The pod is looked up again.  It runs; or the start has failed (no such pod,
\* pod failed or not ready in time) and the pod of the name is deleted; or a
\* service cannot be created or the pod's address cannot be read, or that
\* deletion fails, and the start returns with the pod as it is.
AwaitReady(r) ==
    LET c == req[r].c IN
    /\ req[r].pc = "ready"
    /\ \/ /\ PodName(c) \in pods
          /\ state' = [state EXCEPT ![c] = "running"]
          /\ pods' = pods
          /\ kept' = {p \in kept : p[1] # c}
          /\ Goto(r, "save")
       \/ /\ state' = state
          /\ pods' = pods \ {PodName(c)}
          /\ kept' = kept \ {PodName(c)}
          /\ Return(r)
       \/ /\ PodName(c) \in pods
          /\ state' = state
          /\ pods' = pods
          /\ kept' = kept \cup {PodName(c)}
          /\ Return(r)
    /\ UNCHANGED <<created, name, table, index, exec, counts>>

\* How stop, kill and delete go on, whether or not the deletion failed.
AfterDeletePods(r) ==
    IF req[r].op = "delete"
    THEN Goto(r, "delete") /\ state' = state
    ELSE Goto(r, "save") /\ state' = [state EXCEPT ![req[r].c] = "stopped"]

\* Mutant: the pod is deleted by its name.
DeletePodByName(r) ==
    /\ req[r].pc = "unpod"
    /\ pods' = pods \ {PodName(req[r].c)}
    /\ kept' = kept \ {PodName(req[r].c)}
    /\ AfterDeletePods(r)
    /\ UNCHANGED <<created, name, table, index, exec, counts>>

\* The backend's DeleteContainer selects the pods by the container's id.  The
\* list or one of the deletions may fail, which is logged.
DeletePods(r) ==
    LET own == {p \in pods : p[1] = req[r].c} IN
    /\ req[r].pc = "unpod"
    /\ \E gone \in SUBSET own :
         /\ pods' = pods \ gone
         /\ kept' = (kept \cup own) \ gone
    /\ AfterDeletePods(r)
    /\ UNCHANGED <<created, name, table, index, exec, counts>>

Save(r) ==
    /\ req[r].pc = "save"
    /\ SaveContainer(req[r].c, name[req[r].c])
    /\ Return(r)
    /\ UNCHANGED <<created, name, pods, kept, state, exec, counts>>

\* Mutant: the handler saves the record at its end, like the others.
DeleteAndSave(r) ==
    /\ req[r].pc = "delete"
    /\ DeleteContainer(req[r].c)
    /\ Goto(r, "save")
    /\ UNCHANGED <<created, name, pods, kept, state, exec, counts>>

Delete(r) ==
    /\ req[r].pc = "delete"
    /\ DeleteContainer(req[r].c)
    /\ Return(r)
    /\ UNCHANGED <<created, name, pods, kept, state, exec, counts>>

\* The exec's record is saved with the argument, not with the id it led to.
ContainerExec(e, id) ==
    /\ exec[e] = NoExec
    /\ GetContainer(id) # NoContainer
    /\ exec' = [exec EXCEPT ![e] = [NoExec EXCEPT !.arg = id, !.meant = GetContainer(id)]]
    /\ UNCHANGED <<created, name, table, index, pods, kept, state, req, counts>>

ExecStart(e) ==
    /\ exec[e] # NoExec
    /\ GetContainer(exec[e].arg) # NoContainer
    /\ PodName(GetContainer(exec[e].arg)) \in pods
    /\ exec' = [exec EXCEPT ![e].ran = GetContainer(exec[e].arg)]
    /\ UNCHANGED <<created, name, table, index, pods, kept, state, req, counts>>

----------------------------------------------------------------------------
Arrive(r) ==
    \E id \in Arg :
        \/ \E n \in Name \cup {NoName} : ContainerRename(r, id, n)
        \/ ContainerStart(r, id) \/ ContainerAttach(r, id)
        \/ ContainerStop(r, id) \/ ContainerKill(r, id) \/ ContainerDelete(r, id)

Step(r) ==
    \/ RenameCheck(r) \/ RenameAssign(r) \/ CreatePod(r) \/ AwaitReady(r)
    \/ DeletePods(r) \/ Save(r) \/ Delete(r)

Next ==
    \/ \E c \in Container, n \in Name \cup {NoName} : ContainerCreate(c, n)
    \/ \E r \in Request : Arrive(r) \/ Step(r)
    \/ \E e \in Exec : (\E id \in ExecArg : ContainerExec(e, id)) \/ ExecStart(e)

Spec == Init /\ [][Next]_vars

----------------------------------------------------------------------------
\* Properties

\* Has the container had another name than the one it was created with?
Renamed(c) == \E u, v \in used : u # v /\ u[2] = c /\ v[2] = c

\* A name leads to the container that bears it and that is still there
\* (the comment of GetContainerByName: "will return a container with given
\* name, or an error if the instance does not exist").
NameLeadsToHolder ==
    \A n \in Name :
        LET c == getContainerByName(n) IN
        c # NoContainer /\ AllIdle => c \in table /\ name[c] = n

\* When nothing overlaps, a container that was removed comes back to the
\* table only if it had been renamed: the handlers save what they looked up,
\* and the name index is the only way to a record outside of the table.
DeletedStaysDeleted ==
    [][\A c \in created \ table : c \in table' => raced' \/ Renamed(c)]_vars

\* When nothing overlaps, a rename never gives a container a name that another
\* one of the table bears, although clients may create containers of the same
\* name and the index holds names nobody bears any more.
SerialRenameIsUnique ==
    [][\A c \in created, d \in table :
         c # d /\ name'[c] \notin {name[c], NoName} => raced \/ name[d] # name'[c]]_vars

\* When nothing overlaps, a container that was removed has no pod, also if it
\* was renamed while its pod ran and the pod's name is not found any more.  The
\* only exception is a pod that a start or a deletion has left behind when it
\* failed, with no start or deletion since then that did not fail: delete skips
\* the deletion if the record is marked stopped, and ignores its errors.
OnlyFailuresLeavePods ==
    ~raced /\ AllIdle => \A p \in pods : p[1] \in table \/ p \in kept

\* As long as no name has been given to two containers, an exec that keeps a
\* name runs its command in the container the name led to when the exec was
\* created, whatever has been renamed, saved or removed meanwhile.
ExecIsMeant ==
    (\A n \in Name, c, d \in Container :
        <<n, c>> \in used /\ <<n, d>> \in used => c = d) =>
    \A e \in Exec : exec[e].ran \in {NoContainer, exec[e].meant}

=============================================================================
