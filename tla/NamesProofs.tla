---------------------------- MODULE NamesProofs ----------------------------
(***************************************************************************)
(* Proofs about Names, for any containers, names, handlers and execs and    *)
(* any bound on the requests.                                               *)
(*                                                                          *)
(* BookInv says how the table, the index and the history belong together    *)
(* whatever overlaps; SerialInv says what the one handler at work has done  *)
(* and has left to do as long as no request has begun beside another.       *)
(***************************************************************************)
EXTENDS Names, TLAPS

----------------------------------------------------------------------------
(* The inductive invariants. *)

\* The history knows the name a container bears and every name of the index.
NamesAreRecorded ==
    /\ \A c \in created : <<name[c], c>> \in used
    /\ index \subseteq used

\* Is a handler about to save the record of c?
Saving(c) == \E r \in Request : req[r].c = c /\ req[r].pc = "save"

\* The name of a container of the table is in the index, or will be when the
\* handler that has just changed it saves the record.
BearerIsListed ==
    \A c \in table : name[c] # NoName => <<name[c], c>> \in index \/ Saving(c)

\* The index leads out of the table only to containers that were renamed:
\* DeleteContainer removes the entry of the current name.
StaleIsRenamed ==
    \A n \in Name, c \in created : <<n, c>> \in index => c \in table \/ Renamed(c)

\* An exec keeps an id, or a name that its container has borne, and has run in
\* no container but one with that id or of that name.
ExecIsTraced ==
    \A e \in Exec :
        LET x == exec[e] IN
        \/ x = NoExec
        \/ x.arg \in Container /\ x.meant = x.arg /\ x.ran \in {NoContainer, x.arg}
        \/ /\ x.arg \in Name /\ <<x.arg, x.meant>> \in used
           /\ x.ran # NoContainer => <<x.arg, x.ran>> \in used

BookInv ==
    TypeOK /\ NamesAreRecorded /\ BearerIsListed /\ StaleIsRenamed /\ ExecIsTraced

\* Two handlers are not at work at the same time.
Alone ==
    \A r, q \in Request : r # q => req[r].pc = "idle" \/ req[q].pc = "idle"

\* Is p the pod that a start has created and waits for?
Awaited(p) ==
    \E r \in Request : req[r].c = p[1] /\ req[r].pc = "ready" /\ p = PodName(p[1])

\* A pod that no failure has left belongs to a container of the table, or to
\* one that is being started and that will be saved or lose the pod.
PodsAreHeld ==
    \A p \in pods \ kept : p[1] \in table \/ Awaited(p) \/ Saving(p[1])

\* A record marked stopped has no pod but the one a new start waits for and
\* those a failure has left, so that the handlers may skip the deletion.
StoppedIsDown ==
    \A p \in pods \ kept : state[p[1]] = "stopped" => Awaited(p)

\* What a handler is about to remove has no pod that no failure has left.
RemovedIsDown ==
    \A r \in Request : req[r].pc = "delete" => \A p \in pods \ kept : p[1] # req[r].c

\* A handler works on a container of the table, or on one that was renamed.
FoundIsThere ==
    \A r \in Request :
        req[r].pc # "idle" => req[r].c \in table \/ Renamed(req[r].c)

\* A rename that has passed its check still finds the name free.
NameIsFree ==
    \A r \in Request : req[r].pc = "assign" =>
        \A c \in Container : <<req[r].to, c>> \notin index

Serial ==
    /\ Alone /\ PodsAreHeld /\ StoppedIsDown /\ RemovedIsDown
    /\ FoundIsThere /\ NameIsFree

SerialInv == ~raced => Serial

----------------------------------------------------------------------------
(* Lookups: what each of them leads to. *)

\* An indexed name leads to one of its entries, any other to nothing.
LEMMA ByIndex ==
    ASSUME TypeOK, NEW n
    PROVE  \/ /\ getContainerByName(n) = NoContainer
              /\ \A c \in Container : <<n, c>> \notin index
           \/ /\ getContainerByName(n) \in created
              /\ n \in Name
              /\ <<n, getContainerByName(n)>> \in index
  <1> DEFINE found == {c \in Container : <<n, c>> \in index}
  <1>1. CASE found = {}
    BY <1>1 DEF getContainerByName
  <1>2. CASE found # {}
    <2>1. getContainerByName(n) = CHOOSE c \in found : TRUE
      BY <1>2 DEF getContainerByName
    <2>2. getContainerByName(n) \in found
      BY <1>2, <2>1
    <2> QED BY <2>2 DEF TypeOK
  <1> QED BY <1>1, <1>2

\* An id leads to its record of the table, a name to an entry of the index.
LEMMA ById ==
    ASSUME TypeOK, NEW id \in Arg
    PROVE  \/ GetContainer(id) = NoContainer
           \/ id \in Container /\ id \in table /\ GetContainer(id) = id
           \/ /\ id \in Name /\ GetContainer(id) \in created
              /\ <<id, GetContainer(id)>> \in index
  BY ByIndex, ValueAssumption DEF GetContainer, TypeOK, Arg

\* Is there a way to the record of c?
Reachable(c) == c \in table \/ \E n \in Name : <<n, c>> \in index

\* A lookup by id finds a container that can be reached.
LEMMA ByIdReaches ==
    ASSUME TypeOK, NEW id \in Arg, GetContainer(id) # NoContainer
    PROVE  GetContainer(id) \in created /\ Reachable(GetContainer(id))
  BY ById DEF Reachable, TypeOK

\* So does a lookup by name or id.
LEMMA ByNameReaches ==
    ASSUME TypeOK, NEW id \in Arg, GetContainerByNameOrID(id) # NoContainer
    PROVE  /\ GetContainerByNameOrID(id) \in created
           /\ Reachable(GetContainerByNameOrID(id))
  <1>1. CASE GetContainer(id) # NoContainer
    BY <1>1, ByIdReaches DEF GetContainerByNameOrID
  <1>2. CASE GetContainer(id) = NoContainer /\ getContainerByName(id) = NoContainer
    <2>1. id \in DOMAIN LastPart
      BY <1>2 DEF GetContainerByNameOrID, GetContainerByName
    <2>2. LastPart[id] \in Arg
      BY <2>1, PartAssumption
    <2>3. GetContainerByNameOrID(id) = GetContainer(LastPart[id])
      BY <1>2, <2>1 DEF GetContainerByNameOrID, GetContainerByName
    <2> QED BY <2>2, <2>3, ByIdReaches
  <1>3. CASE GetContainer(id) = NoContainer /\ getContainerByName(id) # NoContainer
    <2>1. GetContainerByNameOrID(id) = getContainerByName(id)
      BY <1>3 DEF GetContainerByNameOrID, GetContainerByName
    <2> QED BY <1>3, <2>1, ByIndex DEF Reachable
  <1> QED BY <1>1, <1>2, <1>3

\* A name that leads to no container is not in the index.
LEMMA NotFoundIsFree ==
    ASSUME TypeOK, NEW n, GetContainerByName(n) = NoContainer
    PROVE  \A c \in Container : <<n, c>> \notin index
  <1>1. getContainerByName(n) = NoContainer
    BY DEF GetContainerByName
  <1> QED BY <1>1, ByIndex, ValueAssumption DEF TypeOK, Arg

\* A request that arrives finds a container there is a way to, and skips the
\* deletion of its pods only if it is marked stopped.
LEMMA ArriveBegins ==
    ASSUME TypeOK, NEW r \in Request, Arrive(r)
    PROVE  \E op \in {"start", "stop", "delete", "rename"}, c \in created,
              to \in Name \cup {NoName}, pc \in {"check", "pod", "unpod", "save", "delete"} :
                /\ Begin(r, op, c, to, pc)
                /\ Reachable(c)
                /\ pc = "delete" => state[c] = "stopped"
  <1>1. PICK id \in Arg :
           \/ \E n \in Name \cup {NoName} : ContainerRename(r, id, n)
           \/ ContainerStart(r, id) \/ ContainerAttach(r, id)
           \/ ContainerStop(r, id) \/ ContainerKill(r, id) \/ ContainerDelete(r, id)
    BY DEF Arrive
  <1>2. ASSUME NEW n \in Name \cup {NoName}, ContainerRename(r, id, n)
        PROVE  \E c \in created : Begin(r, "rename", c, n, "check") /\ Reachable(c)
    <2>1. GetContainerByNameOrID(id) # NoContainer
      BY <1>2 DEF ContainerRename, Begin
    <2> QED BY <1>2, <2>1, ByNameReaches DEF ContainerRename
  <1>0. \A c \in {GetContainer(id), GetContainerByNameOrID(id)} :
           c # NoContainer => c \in created /\ Reachable(c)
    BY ByIdReaches, ByNameReaches
  <1>3. ASSUME ContainerStart(r, id) \/ ContainerAttach(r, id)
        PROVE  \E c \in created : Begin(r, "start", c, NoName, "pod") /\ Reachable(c)
    <2>1. PICK c \in {GetContainer(id), GetContainerByNameOrID(id)} : StartFound(r, c)
      BY <1>3 DEF ContainerStart, ContainerAttach
    <2>2. c # NoContainer /\ Begin(r, "start", c, NoName, "pod")
      BY <2>1 DEF StartFound, Begin
    <2> QED BY <1>0, <2>2
  <1>4. ASSUME ContainerStop(r, id) \/ ContainerKill(r, id)
        PROVE  \E c \in created, pc \in {"save", "unpod"} :
                  Begin(r, "stop", c, NoName, pc) /\ Reachable(c)
    <2>1. PICK c \in {GetContainer(id), GetContainerByNameOrID(id)} : StopFound(r, c)
      BY <1>4 DEF ContainerStop, ContainerKill
    <2> DEFINE pc == IF c # NoContainer /\ state[c] = "stopped" THEN "save" ELSE "unpod"
    <2>2. Begin(r, "stop", c, NoName, pc)
      BY <2>1 DEF StopFound
    <2>3. c # NoContainer
      BY <2>2 DEF Begin
    <2>4. pc \in {"save", "unpod"}
      OBVIOUS
    <2> HIDE DEF pc
    <2> QED BY <1>0, <2>2, <2>3, <2>4
  <1>5. ASSUME ContainerDelete(r, id)
        PROVE  \E c \in created, pc \in {"delete", "unpod"} :
                  /\ Begin(r, "delete", c, NoName, pc) /\ Reachable(c)
                  /\ pc = "delete" => state[c] = "stopped"
    <2> DEFINE c == GetContainerByNameOrID(id)
               pc == IF c # NoContainer /\ state[c] = "stopped" THEN "delete" ELSE "unpod"
    <2>1. Begin(r, "delete", c, NoName, pc)
      BY <1>5 DEF ContainerDelete
    <2>2. c # NoContainer
      BY <2>1 DEF Begin
    <2>3. c \in created /\ Reachable(c)
      BY <2>2, ByNameReaches
    <2>4. pc \in {"delete", "unpod"} /\ (pc = "delete" => state[c] = "stopped")
      OBVIOUS
    <2> HIDE DEF c, pc
    <2> QED BY <2>1, <2>3, <2>4
  <1> QED BY <1>1, <1>2, <1>3, <1>4, <1>5

----------------------------------------------------------------------------
(* Type correctness. *)

\* The part of TypeOK about the handlers, and about one of them.
Handler ==
    [op : {"none", "start", "stop", "delete", "rename"},
     c : created \cup {NoContainer},
     to : Name \cup {NoName},
     pc : {"idle", "check", "assign", "pod", "ready", "unpod", "save", "delete"}]

HandlersOK ==
    /\ req \in [Request -> Handler]
    /\ \A r \in Request : req[r].pc = "idle" <=> req[r].c = NoContainer

\* The initial state is well typed.
LEMMA TypeInit == Init => TypeOK
  <1> SUFFICES ASSUME Init PROVE TypeOK
    OBVIOUS
  <1> USE ValueAssumption, BoundAssumption
  <1>1. raced \in BOOLEAN
    BY Zenon DEF Init
  <1>2. /\ exec \in [Exec -> [arg : Arg \cup {NoContainer},
                              meant : Container \cup {NoContainer},
                              ran : Container \cup {NoContainer}]]
        /\ HandlersOK
    BY DEF Init, Idle, NoExec, HandlersOK, Handler
  <1>3. issued \in 0..MaxOps
    BY DEF Init
  <1> QED BY <1>1, <1>2, <1>3 DEF Init, TypeOK, HandlersOK, Handler

\* The history of overlaps stays a Boolean.
LEMMA RacedType ==
    ASSUME TypeOK, raced' \in {raced, raced \/ ~AllIdle}
    PROVE  raced' \in BOOLEAN
  <1>1. (raced \/ ~AllIdle) \in BOOLEAN
    BY Zenon
  <1> QED BY <1>1 DEF TypeOK

\* Type correctness of a create.
LEMMA CreateKeepsType ==
    ASSUME TypeOK, NEW c \in Container, NEW n \in Name \cup {NoName},
           ContainerCreate(c, n)
    PROVE  TypeOK'
  <1>1. raced' \in BOOLEAN
    BY RacedType DEF ContainerCreate
  <1>2. UNCHANGED <<pods, kept, state, exec, req, issued>>
    BY DEF ContainerCreate
  <1>3. /\ created' = created \cup {c}
        /\ name' = [name EXCEPT ![c] = n]
        /\ table' = table \cup {c}
        /\ index' \in {index, index \cup {<<n, c>>}}
        /\ n = NoName => index' = index
        /\ used' = used \cup {<<n, c>>}
    BY DEF ContainerCreate, SaveContainer
  <1>4. index' \subseteq Name \X created'
    BY <1>3 DEF TypeOK
  <1>5. pods' \subseteq created' \X (Name \cup {NoName}) /\ kept' \subseteq pods'
    BY <1>2, <1>3 DEF TypeOK
  <1>6. used' \subseteq (Name \cup {NoName}) \X created'
    BY <1>3 DEF TypeOK
  <1>7. /\ created' \subseteq Container /\ table' \subseteq created'
        /\ name' \in [Container -> Name \cup {NoName}]
    BY <1>3 DEF TypeOK
  <1>8. HandlersOK'
    BY <1>2, <1>3 DEF TypeOK, HandlersOK, Handler
  <1>9. /\ state' \in [Container -> {"created", "running", "stopped"}]
        /\ exec' \in [Exec -> [arg : Arg \cup {NoContainer},
                               meant : Container \cup {NoContainer},
                               ran : Container \cup {NoContainer}]]
        /\ issued' \in 0..MaxOps
    BY <1>2 DEF TypeOK
  <1> QED BY <1>1, <1>4, <1>5, <1>6, <1>7, <1>8, <1>9 DEF TypeOK, HandlersOK, Handler

\* Type correctness of a request that arrives.
LEMMA ArriveKeepsType ==
    ASSUME TypeOK, NEW r \in Request, Arrive(r)
    PROVE  TypeOK'
  <1>1. PICK op \in {"start", "stop", "delete", "rename"}, c \in created,
             to \in Name \cup {NoName}, pc \in {"check", "pod", "unpod", "save", "delete"} :
                Begin(r, op, c, to, pc)
    BY ArriveBegins
  <1>2. raced' \in BOOLEAN
    BY <1>1, RacedType DEF Begin
  <1>3. issued' \in 0..MaxOps
    BY <1>1, BoundAssumption DEF Begin, TypeOK
  <1>4. UNCHANGED <<created, name, table, index, pods, kept, state, exec, used>>
    BY <1>1 DEF Begin
  <1>5. HandlersOK'
    BY <1>1 DEF Begin, TypeOK, HandlersOK, Handler
  <1> QED BY <1>2, <1>3, <1>4, <1>5 DEF TypeOK, HandlersOK, Handler

\* A handler that goes on or returns keeps the type of the handlers.
LEMMA HandlersKeepType ==
    ASSUME TypeOK, NEW r \in Request, req[r].pc # "idle", UNCHANGED created,
           \/ Return(r)
           \/ \E pc \in {"assign", "ready", "save", "delete"} : Goto(r, pc)
    PROVE  HandlersOK'
  <1> USE DEF HandlersOK, Handler
  <1>1. CASE Return(r)
    BY <1>1 DEF Return, Idle, TypeOK
  <1>2. ASSUME NEW pc \in {"assign", "ready", "save", "delete"}, Goto(r, pc)
        PROVE  HandlersOK'
    <2> DEFINE h == [req[r] EXCEPT !.pc = pc]
    <2>1. h \in Handler /\ h.pc # "idle" /\ h.c # NoContainer
      BY DEF TypeOK
    <2>2. req' = [req EXCEPT ![r] = h]
      BY <1>2 DEF Goto
    <2> HIDE DEF h
    <2> QED BY <2>1, <2>2 DEF TypeOK
  <1> QED BY <1>1, <1>2

\* The container of a handler at work has been created.
LEMMA BusyHasContainer ==
    ASSUME TypeOK, NEW r \in Request, req[r].pc # "idle"
    PROVE  req[r].c \in created /\ req[r].c \in Container /\ req[r].to \in Name \cup {NoName}
  BY DEF TypeOK

\* Goto moves one handler and keeps what it is about.
LEMMA GotoMoves ==
    ASSUME TypeOK, NEW r \in Request, NEW pc, Goto(r, pc)
    PROVE  /\ req'[r].pc = pc /\ req'[r].c = req[r].c /\ req'[r].to = req[r].to
           /\ \A q \in Request \ {r} : req'[q] = req[q]
  BY DEF Goto, TypeOK

\* Return makes one handler idle.
LEMMA ReturnMoves ==
    ASSUME TypeOK, NEW r \in Request, Return(r)
    PROVE  req'[r] = Idle /\ \A q \in Request \ {r} : req'[q] = req[q]
  BY DEF Return, TypeOK

\* Type correctness of a step of a handler.
LEMMA StepKeepsType ==
    ASSUME TypeOK, NEW r \in Request, Step(r)
    PROVE  TypeOK'
  <1> DEFINE c == req[r].c
  <1>0. /\ req[r].pc # "idle"
        /\ UNCHANGED <<created, exec, issued, raced>>
        /\ \/ Return(r)
           \/ \E pc \in {"assign", "ready", "save", "delete"} : Goto(r, pc)
    BY DEF Step, RenameCheck, RenameAssign, CreatePod, AwaitReady, DeletePods, AfterDeletePods, Save,
           Delete, counts
  <1>1. c \in created /\ c \in Container /\ req[r].to \in Name \cup {NoName}
    BY <1>0, BusyHasContainer
  <1>2. HandlersOK'
    BY <1>0, HandlersKeepType
  <1>3. /\ exec' \in [Exec -> [arg : Arg \cup {NoContainer},
                               meant : Container \cup {NoContainer},
                               ran : Container \cup {NoContainer}]]
        /\ created' \subseteq Container
        /\ issued' \in 0..MaxOps
        /\ raced' \in BOOLEAN
    BY <1>0 DEF TypeOK
  <1>4. /\ name' \in {name, [name EXCEPT ![c] = req[r].to]}
        /\ table' \subseteq table \cup {c}
        /\ \/ index' \subseteq index
           \/ index' = index \cup {<<name[c], c>>} /\ name[c] # NoName
        /\ pods' \subseteq pods \cup {<<c, name[c]>>}
        /\ kept' \subseteq pods'
        /\ \/ state' = state
           \/ state' = [state EXCEPT ![c] = "running"]
           \/ state' = [state EXCEPT ![c] = "stopped"]
        /\ used' \in {used, used \cup {<<req[r].to, c>>}}
    <2>1. CASE RenameCheck(r) \/ RenameAssign(r)
      BY <2>1 DEF RenameCheck, RenameAssign, counts, TypeOK
    <2>2. CASE CreatePod(r)
      BY <2>2 DEF CreatePod, PodName, counts, TypeOK
    <2>3. CASE AwaitReady(r)
      BY <2>3 DEF AwaitReady, counts, TypeOK
    <2>4. CASE DeletePods(r)
      BY <2>4 DEF DeletePods, AfterDeletePods, counts, TypeOK
    <2>5. CASE Save(r)
      BY <2>5 DEF Save, SaveContainer, counts, TypeOK
    <2>6. CASE Delete(r)
      BY <2>6 DEF Delete, DeleteContainer, counts, TypeOK
    <2> QED BY <2>1, <2>2, <2>3, <2>4, <2>5, <2>6 DEF Step
  <1>5. name[c] \in Name \cup {NoName}
    BY <1>1 DEF TypeOK
  <1>6. name' \in [Container -> Name \cup {NoName}]
    BY <1>1, <1>4 DEF TypeOK
  <1>7. table' \subseteq created /\ index' \subseteq Name \X created
    BY <1>1, <1>4, <1>5 DEF TypeOK
  <1>8. pods' \subseteq created \X (Name \cup {NoName}) /\ kept' \subseteq pods'
    BY <1>1, <1>4, <1>5 DEF TypeOK
  <1>9. state' \in [Container -> {"created", "running", "stopped"}]
    BY <1>1, <1>4 DEF TypeOK
  <1>10. used' \subseteq (Name \cup {NoName}) \X created
    BY <1>1, <1>4 DEF TypeOK
  <1> HIDE DEF c
  <1> QED
    BY <1>0, <1>2, <1>3, <1>6, <1>7, <1>8, <1>9, <1>10 DEF TypeOK, HandlersOK, Handler

\* Type correctness of an exec.
LEMMA ExecKeepsType ==
    ASSUME TypeOK, NEW e \in Exec, (\E id \in ExecArg : ContainerExec(e, id)) \/ ExecStart(e)
    PROVE  TypeOK'
  <1>1. UNCHANGED <<created, name, table, index, pods, kept, state, req, issued, used, raced>>
    BY DEF ContainerExec, ExecStart, counts
  <1>2. exec' \in [Exec -> [arg : Arg \cup {NoContainer},
                            meant : Container \cup {NoContainer},
                            ran : Container \cup {NoContainer}]]
    <2>1. ASSUME NEW id \in Arg, ContainerExec(e, id)
          PROVE  exec' \in [Exec -> [arg : Arg \cup {NoContainer},
                                     meant : Container \cup {NoContainer},
                                     ran : Container \cup {NoContainer}]]
      <3>1. GetContainer(id) \in Container
        BY <2>1, ByIdReaches DEF ContainerExec, TypeOK
      <3> QED BY <2>1, <3>1 DEF ContainerExec, NoExec, TypeOK
    <2>2. CASE ExecStart(e)
      <3>1. exec[e].arg \in Arg
        BY <2>2, ByIndex, ValueAssumption DEF ExecStart, GetContainer, TypeOK, Arg
      <3>2. GetContainer(exec[e].arg) \in Container
        BY <2>2, <3>1, ByIdReaches DEF ExecStart, TypeOK
      <3> QED BY <2>2, <3>2 DEF ExecStart, TypeOK
    <2> QED BY <2>1, <2>2, BoundAssumption
  <1> QED BY <1>1, <1>2 DEF TypeOK

\* Type correctness of every step.
LEMMA TypeNext == TypeOK /\ [Next]_vars => TypeOK'
  <1> SUFFICES ASSUME TypeOK, [Next]_vars PROVE TypeOK'
    OBVIOUS
  <1>1. CASE UNCHANGED vars
    BY <1>1 DEF vars, TypeOK
  <1> QED
    BY <1>1, CreateKeepsType, ArriveKeepsType, StepKeepsType, ExecKeepsType DEF Next

\* Type correctness of the container table, its index, the handlers and the
\* execs, for any number of each.
THEOREM NamesTypeCorrect == Spec => []TypeOK
  BY TypeInit, TypeNext, PTL DEF Spec

----------------------------------------------------------------------------
(* The table, the index and the history, whatever overlaps. *)

\* Nothing is forgotten: a container that was renamed stays a renamed one.
LEMMA RenamedStays ==
    ASSUME NEW c, Renamed(c), used \subseteq used'
    PROVE  Renamed(c)'
  BY DEF Renamed

\* BookInv holds initially.
LEMMA BookInit == Init => BookInv
  <1> SUFFICES ASSUME Init PROVE BookInv
    OBVIOUS
  <1>1. NamesAreRecorded /\ BearerIsListed /\ StaleIsRenamed
    BY DEF Init, NamesAreRecorded, BearerIsListed, StaleIsRenamed
  <1>2. ExecIsTraced
    BY DEF Init, ExecIsTraced
  <1> QED BY <1>1, <1>2, TypeInit DEF BookInv

\* The parts of BookInv that an exec does not touch, and its own part.
Records == NamesAreRecorded /\ BearerIsListed /\ StaleIsRenamed

\* A create enters the name it gives into the records.
LEMMA CreateKeepsRecords ==
    ASSUME BookInv, NEW c \in Container, NEW n \in Name \cup {NoName},
           ContainerCreate(c, n)
    PROVE  Records'
  <1> USE DEF BookInv
  <1>1. /\ c \notin created
        /\ created' = created \cup {c}
        /\ name' = [name EXCEPT ![c] = n]
        /\ table' = table \cup {c}
        /\ index' = IF n = NoName THEN index ELSE index \cup {<<n, c>>}
        /\ used' = used \cup {<<n, c>>}
        /\ req' = req
    BY DEF ContainerCreate, SaveContainer
  <1>2. \A d \in Container : name'[d] = IF d = c THEN n ELSE name[d]
    BY <1>1 DEF TypeOK
  <1>3. NamesAreRecorded'
    BY <1>1, <1>2 DEF NamesAreRecorded, TypeOK
  <1>4. BearerIsListed'
    BY <1>1, <1>2 DEF BearerIsListed, Saving, TypeOK
  <1>5. StaleIsRenamed'
    <2> SUFFICES ASSUME NEW m \in Name, NEW d \in created', <<m, d>> \in index',
                        d \notin table'
                 PROVE  Renamed(d)'
      BY DEF StaleIsRenamed
    <2>1. d # c /\ d \in created /\ d \notin table /\ <<m, d>> \in index
      BY <1>1
    <2>2. Renamed(d)
      BY <2>1 DEF StaleIsRenamed
    <2> QED BY <1>1, <2>2, RenamedStays
  <1> QED BY <1>3, <1>4, <1>5 DEF Records

\* A request that arrives changes no name.
LEMMA ArriveKeepsRecords ==
    ASSUME BookInv, NEW r \in Request, Arrive(r)
    PROVE  Records'
  <1> USE DEF BookInv
  <1>1. PICK op \in {"start", "stop", "delete", "rename"}, c \in created,
             to \in Name \cup {NoName}, pc \in {"check", "pod", "unpod", "save", "delete"} :
                Begin(r, op, c, to, pc)
    BY ArriveBegins
  <1>2. UNCHANGED <<created, name, table, index, used>>
    BY <1>1 DEF Begin
  <1>3. req[r].pc = "idle" /\ \A q \in Request \ {r} : req'[q] = req[q]
    BY <1>1 DEF Begin, TypeOK
  <1>4. \A d : Saving(d) => Saving(d)'
    BY <1>3 DEF Saving
  <1> QED
    BY <1>2, <1>4 DEF Records, NamesAreRecorded, BearerIsListed, StaleIsRenamed, Renamed

\* A step of a handler, a rename included, keeps the records.
LEMMA StepKeepsRecords ==
    ASSUME BookInv, NEW r \in Request, Step(r)
    PROVE  Records'
  <1> USE DEF BookInv
  <1> DEFINE c == req[r].c
  <1>0. req[r].pc # "idle" /\ created' = created
    BY DEF Step, RenameCheck, RenameAssign, CreatePod, AwaitReady, DeletePods, AfterDeletePods, Save, Delete
  <1>1. c \in created /\ c \in Container /\ req[r].to \in Name \cup {NoName}
    BY <1>0, BusyHasContainer
  <1>2. \A q \in Request \ {r} : req'[q] = req[q]
    BY GotoMoves, ReturnMoves
    DEF Step, RenameCheck, RenameAssign, CreatePod, AwaitReady, DeletePods, AfterDeletePods, Save, Delete
  <1>3. ASSUME req[r].pc # "save"
        PROVE  \A d : Saving(d) => Saving(d)'
    BY <1>2, <1>3 DEF Saving
  <1>4. ASSUME UNCHANGED <<name, table, index, used>>, req[r].pc # "save"
        PROVE  Records'
    BY <1>0, <1>3, <1>4
    DEF Records, NamesAreRecorded, BearerIsListed, StaleIsRenamed, Renamed
  <1>5. CASE RenameCheck(r) \/ CreatePod(r) \/ AwaitReady(r) \/ DeletePods(r)
    BY <1>4, <1>5 DEF RenameCheck, CreatePod, AwaitReady, DeletePods, AfterDeletePods, counts
  <1>6. CASE RenameAssign(r)
    <2>1. /\ \A d \in Container : name'[d] = IF d = c THEN req[r].to ELSE name[d]
          /\ used' = used \cup {<<req[r].to, c>>}
          /\ UNCHANGED <<table, index>>
      BY <1>1, <1>6 DEF RenameAssign, TypeOK
    <2>2. \A d : d = c \/ Saving(d) => Saving(d)'
      <3>1. Goto(r, "save") /\ req[r].pc # "save"
        BY <1>6 DEF RenameAssign
      <3>2. req'[r].pc = "save" /\ req'[r].c = c
        BY <3>1, GotoMoves
      <3>3. \A d : d = c => Saving(d)'
        BY <3>2 DEF Saving
      <3> QED BY <1>3, <3>1, <3>3
    <2>3. NamesAreRecorded'
      BY <1>0, <2>1 DEF NamesAreRecorded, TypeOK
    <2>4. BearerIsListed'
      BY <1>0, <2>1, <2>2 DEF BearerIsListed, TypeOK
    <2>5. StaleIsRenamed'
      BY <1>0, <2>1, RenamedStays DEF StaleIsRenamed
    <2> QED BY <2>3, <2>4, <2>5 DEF Records
  <1>7. CASE Save(r)
    <2>1. /\ table' = table \cup {c}
          /\ index' = IF name[c] = NoName THEN index ELSE index \cup {<<name[c], c>>}
          /\ UNCHANGED <<name, used>>
      BY <1>7 DEF Save, SaveContainer, counts
    <2>2. \A d : d # c /\ Saving(d) => Saving(d)'
      BY <1>2 DEF Saving
    <2>3. NamesAreRecorded'
      BY <1>0, <1>1, <2>1 DEF NamesAreRecorded
    <2>4. BearerIsListed'
      BY <1>0, <2>1, <2>2 DEF BearerIsListed
    <2>5. StaleIsRenamed'
      BY <1>0, <2>1 DEF StaleIsRenamed, Renamed
    <2> QED BY <2>3, <2>4, <2>5 DEF Records
  <1>8. CASE Delete(r)
    <2>1. /\ table' = table \ {c}
          /\ index' = IF c \in table THEN index \ {<<name[c], c>>} ELSE index
          /\ UNCHANGED <<name, used>>
          /\ req[r].pc # "save"
      BY <1>8 DEF Delete, DeleteContainer, counts
    <2>2. NamesAreRecorded'
      BY <1>0, <2>1 DEF NamesAreRecorded
    <2>3. BearerIsListed'
      BY <1>0, <1>3, <2>1 DEF BearerIsListed
    <2>4. StaleIsRenamed'
      <3> SUFFICES ASSUME NEW m \in Name, NEW d \in created, <<m, d>> \in index',
                          d \notin table'
                   PROVE  Renamed(d)'
        BY <1>0 DEF StaleIsRenamed
      <3>1. <<m, d>> \in index
        BY <2>1
      <3>2. CASE d \in table
        <4>1. m # name[d] /\ <<m, d>> \in used /\ <<name[d], d>> \in used
          BY <2>1, <3>1, <3>2 DEF NamesAreRecorded
        <4> QED BY <2>1, <4>1 DEF Renamed
      <3>3. CASE d \notin table
        <4>1. Renamed(d)
          BY <3>1, <3>3 DEF StaleIsRenamed
        <4> QED BY <2>1, <4>1, RenamedStays
      <3> QED BY <3>2, <3>3
    <2> QED BY <2>2, <2>3, <2>4 DEF Records
  <1> QED BY <1>5, <1>6, <1>7, <1>8 DEF Step

\* The container an argument leads to: that of the id, or one that has had
\* the name.
LEMMA ByIdIsTraced ==
    ASSUME BookInv, NEW id \in Arg, GetContainer(id) # NoContainer
    PROVE  \/ id \in Container /\ GetContainer(id) = id
           \/ id \in Name /\ <<id, GetContainer(id)>> \in used
  BY ById DEF BookInv, NamesAreRecorded

\* An exec is traced to the container its argument led to.
LEMMA ExecKeepsTrace ==
    ASSUME BookInv, NEW e \in Exec, (\E id \in ExecArg : ContainerExec(e, id)) \/ ExecStart(e)
    PROVE  ExecIsTraced'
  <1> USE DEF BookInv
  <1>0. used' = used
    BY DEF ContainerExec, ExecStart, counts
  <1>1. ASSUME NEW id \in Arg, ContainerExec(e, id)
        PROVE  ExecIsTraced'
    <2> DEFINE x == [NoExec EXCEPT !.arg = id, !.meant = GetContainer(id)]
    <2>1. exec' = [exec EXCEPT ![e] = x] /\ GetContainer(id) # NoContainer
      BY <1>1 DEF ContainerExec
    <2>2. \/ id \in Container /\ GetContainer(id) = id
          \/ id \in Name /\ <<id, GetContainer(id)>> \in used
      BY <2>1, ByIdIsTraced
    <2>3. \/ x.arg \in Container /\ x.meant = x.arg /\ x.ran = NoContainer
          \/ x.arg \in Name /\ <<x.arg, x.meant>> \in used /\ x.ran = NoContainer
      BY <2>2 DEF NoExec
    <2> HIDE DEF x
    <2>4. \A f \in Exec : exec'[f] = IF f = e THEN x ELSE exec[f]
      BY <2>1 DEF TypeOK
    <2> QED BY <1>0, <2>3, <2>4 DEF ExecIsTraced
  <1>2. CASE ExecStart(e)
    <2> DEFINE d == GetContainer(exec[e].arg)
    <2>1. exec' = [exec EXCEPT ![e].ran = d] /\ d # NoContainer /\ exec[e] # NoExec
      BY <1>2 DEF ExecStart
    <2>2. exec[e].arg \in Arg
      BY <2>1 DEF ExecIsTraced, Arg
    <2>3. \/ exec[e].arg \in Container /\ d = exec[e].arg
          \/ exec[e].arg \in Name /\ <<exec[e].arg, d>> \in used
      BY <2>1, <2>2, ByIdIsTraced
    <2> HIDE DEF d
    <2>4. /\ \A f \in Exec \ {e} : exec'[f] = exec[f]
          /\ exec'[e].arg = exec[e].arg /\ exec'[e].meant = exec[e].meant
          /\ exec'[e].ran = d
      BY <2>1 DEF TypeOK
    <2>5. \/ /\ exec[e].arg \in Container /\ exec[e].meant = exec[e].arg
             /\ d = exec[e].arg
          \/ /\ exec[e].arg \in Name /\ <<exec[e].arg, exec[e].meant>> \in used
             /\ <<exec[e].arg, d>> \in used
      BY <2>1, <2>3, ValueAssumption DEF ExecIsTraced
    <2> QED BY <1>0, <2>4, <2>5 DEF ExecIsTraced
  <1> QED BY <1>1, <1>2, BoundAssumption

\* BookInv is kept by every step.
LEMMA BookNext == BookInv /\ [Next]_vars => BookInv'
  <1> SUFFICES ASSUME BookInv, [Next]_vars PROVE BookInv'
    OBVIOUS
  <1>1. TypeOK'
    BY TypeNext DEF BookInv
  <1>2. ASSUME exec' = exec, used \subseteq used' PROVE ExecIsTraced'
    BY <1>2 DEF BookInv, ExecIsTraced
  <1>3. ASSUME UNCHANGED <<created, name, table, index, req, used>> PROVE Records'
    BY <1>3
    DEF BookInv, Records, NamesAreRecorded, BearerIsListed, StaleIsRenamed, Saving, Renamed
  <1>4. Records'
    <2>1. CASE \E e \in Exec : (\E id \in ExecArg : ContainerExec(e, id)) \/ ExecStart(e)
      BY <1>3, <2>1 DEF ContainerExec, ExecStart, counts
    <2>2. CASE UNCHANGED vars
      BY <1>3, <2>2 DEF vars
    <2> QED
      BY <2>1, <2>2, CreateKeepsRecords, ArriveKeepsRecords, StepKeepsRecords DEF Next
  <1>5. ExecIsTraced'
    <2>1. ASSUME NEW c \in Container, NEW n \in Name \cup {NoName}, ContainerCreate(c, n)
          PROVE  ExecIsTraced'
      BY <1>2, <2>1 DEF ContainerCreate
    <2>2. ASSUME NEW r \in Request, Arrive(r)
          PROVE  ExecIsTraced'
      <3>1. UNCHANGED <<exec, used>>
        BY <2>2, ArriveBegins DEF Begin, BookInv
      <3> QED BY <1>2, <3>1
    <2>3. ASSUME NEW r \in Request, Step(r)
          PROVE  ExecIsTraced'
      BY <1>2, <2>3
      DEF Step, RenameCheck, RenameAssign, CreatePod, AwaitReady, DeletePods, AfterDeletePods, Save,
          Delete, counts
    <2>4. CASE UNCHANGED vars
      BY <1>2, <2>4 DEF vars
    <2> QED BY <2>1, <2>2, <2>3, <2>4, ExecKeepsTrace DEF Next
  <1> QED BY <1>1, <1>4, <1>5 DEF BookInv, Records

\* BookInv is an invariant.
LEMMA BookAlways == Spec => []BookInv
  BY BookInit, BookNext, PTL DEF Spec

\* An exec keeps the argument of its request and not the id it led to, and the
\* name index holds stale entries.  As long as no name has been given to two
\* containers the command runs all the same in the container the client meant.
THEOREM ExecAlwaysMeant == Spec => []ExecIsMeant
  <1>1. BookInv => ExecIsMeant
    <2> SUFFICES ASSUME BookInv,
                        \A n \in Name, c, d \in Container :
                           <<n, c>> \in used /\ <<n, d>> \in used => c = d,
                        NEW e \in Exec
                 PROVE  exec[e].ran \in {NoContainer, exec[e].meant}
      BY DEF ExecIsMeant
    <2>1. /\ exec[e].ran \in Container \cup {NoContainer}
          /\ used \subseteq (Name \cup {NoName}) \X Container
      BY DEF BookInv, TypeOK
    <2>2. CASE exec[e] = NoExec
      BY <2>2 DEF NoExec
    <2>3. CASE exec[e].arg \in Container /\ exec[e].meant = exec[e].arg
               /\ exec[e].ran \in {NoContainer, exec[e].arg}
      BY <2>3
    <2>4. CASE /\ exec[e].arg \in Name /\ <<exec[e].arg, exec[e].meant>> \in used
               /\ exec[e].ran # NoContainer => <<exec[e].arg, exec[e].ran>> \in used
      BY <2>1, <2>4
    <2> QED BY <2>2, <2>3, <2>4 DEF BookInv, ExecIsTraced
  <1> QED BY <1>1, BookAlways, PTL

----------------------------------------------------------------------------
(* The handlers, while no request has begun beside another. *)

\* While no handler is at work every pod belongs to a container of the table
\* that is not marked stopped.
LEMMA QuietPods ==
    ASSUME Serial, AllIdle, NEW p \in pods \ kept
    PROVE  p[1] \in table /\ state[p[1]] # "stopped"
  BY DEF Serial, AllIdle, PodsAreHeld, StoppedIsDown, Awaited, Saving

\* A create while no request is at work.
LEMMA CreateKeepsSerial ==
    ASSUME BookInv, Serial, NEW c \in Container, NEW n \in Name \cup {NoName},
           ContainerCreate(c, n), ~raced'
    PROVE  Serial'
  <1>1. AllIdle
    BY DEF ContainerCreate
  <1>2. req' = req /\ UNCHANGED <<pods, kept, state>> /\ table \subseteq table'
    BY DEF ContainerCreate, SaveContainer
  <1>3. \A r \in Request : req'[r].pc = "idle"
    BY <1>1, <1>2 DEF AllIdle
  <1>4. PodsAreHeld' /\ StoppedIsDown'
    BY <1>1, <1>2, QuietPods DEF PodsAreHeld, StoppedIsDown
  <1>5. Alone' /\ RemovedIsDown' /\ FoundIsThere' /\ NameIsFree'
    BY <1>3 DEF Alone, RemovedIsDown, FoundIsThere, NameIsFree
  <1> QED BY <1>4, <1>5 DEF Serial

\* A request that arrives while no other is at work.
LEMMA ArriveKeepsSerial ==
    ASSUME BookInv, Serial, NEW r \in Request, Arrive(r), ~raced'
    PROVE  Serial'
  <1> USE DEF BookInv
  <1>1. PICK op \in {"start", "stop", "delete", "rename"}, c \in created,
             to \in Name \cup {NoName}, pc \in {"check", "pod", "unpod", "save", "delete"} :
                /\ Begin(r, op, c, to, pc)
                /\ Reachable(c)
                /\ pc = "delete" => state[c] = "stopped"
    BY ArriveBegins
  <1>2. AllIdle
    BY <1>1 DEF Begin
  <1>3. UNCHANGED <<created, name, table, index, pods, kept, state, used>>
    BY <1>1 DEF Begin
  <1>4. /\ req'[r].pc = pc /\ req'[r].c = c
        /\ \A q \in Request \ {r} : req'[q].pc = "idle"
    BY <1>1, <1>2 DEF Begin, AllIdle, TypeOK
  <1>5. PodsAreHeld' /\ StoppedIsDown'
    BY <1>2, <1>3, QuietPods DEF PodsAreHeld, StoppedIsDown
  <1>6. Alone' /\ NameIsFree'
    BY <1>4 DEF Alone, NameIsFree
  <1>7. RemovedIsDown'
    BY <1>1, <1>2, <1>3, <1>4, QuietPods DEF RemovedIsDown
  <1>8. FoundIsThere'
    <2>1. c \in table \/ Renamed(c)
      BY <1>1 DEF Reachable, StaleIsRenamed
    <2>2. c \in table' \/ Renamed(c)'
      BY <1>3, <2>1, RenamedStays
    <2>3. \A d : d = c /\ Renamed(c)' => Renamed(d)'
      BY DEF Renamed
    <2> QED BY <1>4, <2>2, <2>3 DEF FoundIsThere, Renamed
  <1> QED BY <1>5, <1>6, <1>7, <1>8 DEF Serial

\* The handler at work is the only one, before and after its step.
LEMMA StepIsAlone ==
    ASSUME BookInv, Serial, NEW r \in Request, Step(r)
    PROVE  /\ req[r].pc # "idle"
           /\ \A q \in Request \ {r} : req[q].pc = "idle" /\ req'[q].pc = "idle"
           /\ Alone'
  <1>1. req[r].pc # "idle"
    BY DEF Step, RenameCheck, RenameAssign, CreatePod, AwaitReady, DeletePods, AfterDeletePods, Save, Delete
  <1>2. \A q \in Request \ {r} : req'[q] = req[q]
    BY GotoMoves, ReturnMoves
    DEF Step, RenameCheck, RenameAssign, CreatePod, AwaitReady, DeletePods, AfterDeletePods, Save, Delete,
        BookInv
  <1>3. \A q \in Request \ {r} : req[q].pc = "idle"
    BY <1>1 DEF Serial, Alone
  <1> QED BY <1>1, <1>2, <1>3 DEF Alone

\* A step of the only request at work keeps what that request has found.
LEMMA StepKeepsFound ==
    ASSUME BookInv, Serial, NEW r \in Request, Step(r)
    PROVE  FoundIsThere' /\ NameIsFree'
  <1> USE DEF BookInv
  <1> DEFINE c == req[r].c
  <1>0. /\ req[r].pc # "idle"
        /\ \A q \in Request \ {r} : req[q].pc = "idle" /\ req'[q].pc = "idle"
    BY StepIsAlone
  <1>1. c \in table \/ Renamed(c)
    BY <1>0 DEF Serial, FoundIsThere
  <1>2. CASE Return(r)
    <2>1. req'[r].pc = "idle"
      BY <1>2, ReturnMoves DEF Idle
    <2> QED BY <1>0, <2>1 DEF FoundIsThere, NameIsFree
  <1>3. ASSUME table \subseteq table', used \subseteq used',
               NEW pc, Goto(r, pc),
               pc = "assign" => /\ index' = index
                                /\ \A d \in Container : <<req[r].to, d>> \notin index
        PROVE  FoundIsThere' /\ NameIsFree'
    <2>1. req'[r].pc = pc /\ req'[r].c = c /\ req'[r].to = req[r].to
      BY <1>3, GotoMoves
    <2>2. NameIsFree'
      BY <1>0, <1>3, <2>1 DEF NameIsFree
    <2>3. \A d : d = c => d \in table' \/ Renamed(d)'
      BY <1>1, <1>3 DEF Renamed
    <2>4. FoundIsThere'
      BY <1>0, <2>1, <2>3 DEF FoundIsThere
    <2> QED BY <2>2, <2>4
  <1>4. CASE RenameCheck(r)
    <2>1. ASSUME GetContainerByName(req[r].to) = NoContainer, Goto(r, "assign")
          PROVE  FoundIsThere' /\ NameIsFree'
      <3>1. \A d \in Container : <<req[r].to, d>> \notin index
        BY <2>1, NotFoundIsFree
      <3> QED BY <1>3, <1>4, <2>1, <3>1 DEF RenameCheck, counts
    <2> QED BY <1>2, <1>4, <2>1 DEF RenameCheck
  <1>5. CASE RenameAssign(r) \/ CreatePod(r)
    BY <1>3, <1>5 DEF RenameAssign, CreatePod, counts
  <1>6. CASE AwaitReady(r)
    BY <1>2, <1>3, <1>6 DEF AwaitReady, counts
  <1>7. CASE DeletePods(r)
    BY <1>3, <1>7 DEF DeletePods, AfterDeletePods, counts
  <1>8. CASE Save(r) \/ Delete(r)
    BY <1>2, <1>8 DEF Save, Delete
  <1> QED BY <1>4, <1>5, <1>6, <1>7, <1>8 DEF Step

\* A step of the only request at work keeps pods and table in agreement.
LEMMA StepKeepsPods ==
    ASSUME BookInv, Serial, NEW r \in Request, Step(r)
    PROVE  PodsAreHeld' /\ StoppedIsDown' /\ RemovedIsDown'
  <1> USE DEF BookInv
  <1> DEFINE c == req[r].c
  <1>0. /\ req[r].pc # "idle"
        /\ \A q \in Request \ {r} : req[q].pc = "idle" /\ req'[q].pc = "idle"
    BY StepIsAlone
  <1>1. c \in created /\ c \in Container
    BY <1>0, BusyHasContainer
  <1>2. \A p \in pods :
           /\ Awaited(p) => p[1] = c /\ req[r].pc = "ready" /\ p = PodName(c)
           /\ Saving(p[1]) => p[1] = c /\ req[r].pc = "save"
    BY <1>0 DEF Awaited, Saving
  <1>3. \A p \in pods \ kept :
           /\ \/ p[1] \in table
              \/ p[1] = c /\ req[r].pc = "ready" /\ p = PodName(c)
              \/ p[1] = c /\ req[r].pc = "save"
           /\ state[p[1]] = "stopped" =>
                p[1] = c /\ req[r].pc = "ready" /\ p = PodName(c)
           /\ req[r].pc = "delete" => p[1] # c
    BY <1>2 DEF Serial, PodsAreHeld, StoppedIsDown, RemovedIsDown
  <1>4. ASSUME UNCHANGED <<pods, kept, state>>, table \subseteq table',
               req[r].pc \in {"check", "assign"},
               Return(r) \/ Goto(r, "assign") \/ Goto(r, "save")
        PROVE  PodsAreHeld' /\ StoppedIsDown' /\ RemovedIsDown'
    <2>1. req'[r].pc # "delete"
      BY <1>4, ReturnMoves, GotoMoves DEF Idle
    <2> QED BY <1>0, <1>3, <1>4, <2>1 DEF PodsAreHeld, StoppedIsDown, RemovedIsDown
  <1>5. CASE RenameCheck(r) \/ RenameAssign(r)
    BY <1>4, <1>5 DEF RenameCheck, RenameAssign, counts
  <1>6. CASE CreatePod(r)
    <2>1. /\ pods' = pods \cup {PodName(c)} /\ req[r].pc = "pod"
          /\ UNCHANGED <<name, table, kept, state>>
          /\ req'[r].pc = "ready" /\ req'[r].c = c
      BY <1>6, GotoMoves DEF CreatePod
    <2>2. \A p : p = PodName(c) => Awaited(p)'
      BY <2>1 DEF Awaited, PodName
    <2>3. \A p \in pods' \ kept' : p = PodName(c) \/ (p[1] \in table /\ state[p[1]] # "stopped")
      BY <1>3, <2>1
    <2>4. PodsAreHeld' /\ StoppedIsDown'
      BY <2>1, <2>2, <2>3 DEF PodsAreHeld, StoppedIsDown
    <2>5. RemovedIsDown'
      BY <1>0, <2>1 DEF RemovedIsDown
    <2> QED BY <2>4, <2>5
  <1>7. CASE AwaitReady(r)
    <2>0. req[r].pc = "ready" /\ table' = table /\ name' = name
      BY <1>7 DEF AwaitReady
    <2>1. CASE /\ state' = [state EXCEPT ![c] = "running"] /\ pods' = pods
               /\ kept' = {p \in kept : p[1] # c}
               /\ Goto(r, "save")
      <3>1. req'[r].pc = "save" /\ req'[r].c = c
        BY <2>1, GotoMoves
      <3>2. \A d : d = c => Saving(d)'
        BY <3>1 DEF Saving
      <3>3. /\ \A d \in Container : state'[d] = IF d = c THEN "running" ELSE state[d]
            /\ \A p \in pods : p[1] \in Container
        BY <1>1, <2>1 DEF TypeOK
      <3> QED
        BY <1>0, <1>3, <2>0, <2>1, <3>1, <3>2, <3>3
        DEF PodsAreHeld, StoppedIsDown, RemovedIsDown
    <2>2. CASE /\ state' = state /\ Return(r)
               /\ pods' \ kept' \subseteq (pods \ kept) \ {PodName(c)}
      <3>1. req'[r].pc = "idle"
        BY <2>2, ReturnMoves DEF Idle
      <3> QED
        BY <1>0, <1>3, <2>0, <2>2, <3>1 DEF PodsAreHeld, StoppedIsDown, RemovedIsDown
    <2> QED BY <1>7, <2>1, <2>2 DEF AwaitReady
  <1>8. CASE DeletePods(r)
    <2>1. /\ req[r].pc = "unpod" /\ UNCHANGED <<name, table>>
          /\ \A p \in pods' \ kept' : p \in pods \ kept /\ p[1] # c
          /\ state' = state \/ state' = [state EXCEPT ![c] = "stopped"]
          /\ Goto(r, "delete") \/ Goto(r, "save")
      BY <1>8 DEF DeletePods, AfterDeletePods
    <2>2. req'[r].c = c
      BY <2>1, GotoMoves
    <2>3. \A d \in Container : d # c => state'[d] = state[d]
      BY <1>1, <2>1 DEF TypeOK
    <2>4. \A p \in pods' \ kept' : p \in pods \ kept /\ p[1] # c /\ p[1] \in Container
      BY <2>1 DEF TypeOK
    <2> QED
      BY <1>0, <1>3, <2>1, <2>2, <2>3, <2>4 DEF PodsAreHeld, StoppedIsDown, RemovedIsDown
  <1>9. CASE Save(r)
    <2>1. /\ req[r].pc = "save" /\ UNCHANGED <<pods, kept, state>>
          /\ table' = table \cup {c} /\ req'[r].pc = "idle"
      BY <1>9, ReturnMoves DEF Save, SaveContainer, Idle
    <2> QED BY <1>0, <1>3, <2>1 DEF PodsAreHeld, StoppedIsDown, RemovedIsDown
  <1>10. CASE Delete(r)
    <2>1. /\ req[r].pc = "delete" /\ UNCHANGED <<pods, kept, state>>
          /\ table' = table \ {c} /\ req'[r].pc = "idle"
      BY <1>10, ReturnMoves DEF Delete, DeleteContainer, Idle
    <2> QED BY <1>0, <1>3, <2>1 DEF PodsAreHeld, StoppedIsDown, RemovedIsDown
  <1> QED BY <1>5, <1>6, <1>7, <1>8, <1>9, <1>10 DEF Step

\* SerialInv holds initially.
LEMMA SerialInit == Init => SerialInv
  <1> SUFFICES ASSUME Init PROVE Serial
    BY DEF SerialInv
  <1>1. \A r \in Request : req[r].pc = "idle"
    BY DEF Init, Idle
  <1> QED
    BY <1>1
    DEF Init, Serial, Alone, PodsAreHeld, StoppedIsDown, RemovedIsDown, FoundIsThere, NameIsFree

\* SerialInv is kept by every step.
LEMMA SerialNext == BookInv /\ SerialInv /\ [Next]_vars => SerialInv'
  <1> SUFFICES ASSUME BookInv, SerialInv, [Next]_vars, ~raced' PROVE Serial'
    BY DEF SerialInv
  <1>1. ASSUME NEW r \in Request, Step(r) PROVE UNCHANGED raced
    BY <1>1
    DEF Step, RenameCheck, RenameAssign, CreatePod, AwaitReady, DeletePods, AfterDeletePods, Save, Delete,
        counts
  <1>2. ASSUME NEW r \in Request, Arrive(r) PROVE raced' = (raced \/ ~AllIdle)
    BY <1>2, ArriveBegins DEF Begin, BookInv
  <1>3. ASSUME NEW e \in Exec, (\E id \in ExecArg : ContainerExec(e, id)) \/ ExecStart(e)
        PROVE  UNCHANGED <<name, table, index, pods, kept, state, req, used, raced>>
    BY <1>3 DEF ContainerExec, ExecStart, counts
  <1>4. ~raced
    BY <1>1, <1>2, <1>3 DEF Next, ContainerCreate, vars
  <1>5. Serial
    BY <1>4 DEF SerialInv
  <1>6. ASSUME UNCHANGED <<name, table, index, pods, kept, state, req, used>> PROVE Serial'
    <2>1. Alone' /\ RemovedIsDown' /\ NameIsFree'
      BY <1>5, <1>6 DEF Serial, Alone, RemovedIsDown, NameIsFree
    <2>2. PodsAreHeld' /\ StoppedIsDown'
      BY <1>5, <1>6 DEF Serial, PodsAreHeld, StoppedIsDown, Awaited, Saving, PodName
    <2>3. FoundIsThere'
      BY <1>5, <1>6 DEF Serial, FoundIsThere, Renamed
    <2> QED BY <2>1, <2>2, <2>3 DEF Serial
  <1>7. ASSUME NEW r \in Request, Step(r) PROVE Serial'
    BY <1>5, <1>7, StepIsAlone, StepKeepsFound, StepKeepsPods DEF Serial
  <1>8. CASE UNCHANGED vars
    BY <1>6, <1>8 DEF vars
  <1> QED
    BY <1>3, <1>5, <1>6, <1>7, <1>8, CreateKeepsSerial, ArriveKeepsSerial DEF Next

\* Both invariants hold always.
LEMMA SerialAlways == Spec => [](BookInv /\ SerialInv)
  BY BookInit, BookNext, SerialInit, SerialNext, PTL DEF Spec

\* When nothing overlaps, a container that was removed has no pod but one that
\* a failed start or a failed deletion has left: the backend selects the pods by
\* id, and a record marked stopped, for which the handlers skip that, has no
\* other pod (StoppedIsDown).
THEOREM PodsAlwaysAccounted == Spec => []OnlyFailuresLeavePods
  <1>1. BookInv /\ SerialInv => OnlyFailuresLeavePods
    BY QuietPods DEF SerialInv, OnlyFailuresLeavePods
  <1> QED BY <1>1, SerialAlways, PTL

\* When nothing overlaps, a rename never gives a container a name another one
\* of the table bears: the check of ContainerRename sees every name that is
\* borne (BearerIsListed), and stale entries only make it refuse more.
THEOREM RenameAlwaysUnique == Spec => SerialRenameIsUnique
  <1> DEFINE Unique == \A c \in created, d \in table :
                 c # d /\ name'[c] \notin {name[c], NoName} => raced \/ name[d] # name'[c]
  <1>1. BookInv /\ SerialInv /\ [Next]_vars => [Unique]_vars
    <2> SUFFICES ASSUME BookInv, SerialInv, Next, NEW c \in created, NEW d \in table,
                        c # d, name'[c] # name[c], name'[c] # NoName, ~raced,
                        name[d] = name'[c]
                 PROVE  FALSE
      OBVIOUS
    <2> USE DEF BookInv
    <2>0. c \in Container /\ d \in Container
      BY DEF TypeOK
    <2>1. PICK r \in Request : RenameAssign(r)
      <3>1. ASSUME NEW b \in Container, NEW n \in Name \cup {NoName}, ContainerCreate(b, n)
            PROVE  FALSE
        BY <2>0, <3>1 DEF ContainerCreate, TypeOK
      <3>2. ASSUME NEW r \in Request, Arrive(r)
            PROVE  name' = name
        BY <3>2, ArriveBegins DEF Begin
      <3> QED
        BY <3>1, <3>2
        DEF Next, Step, RenameCheck, CreatePod, AwaitReady, DeletePods, AfterDeletePods, Save, Delete,
            ContainerExec, ExecStart
    <2>2. req[r].c = c /\ req[r].to = name[d] /\ req[r].pc = "assign"
      BY <2>0, <2>1 DEF RenameAssign, TypeOK
    <2>3. <<name[d], d>> \notin index
      BY <2>0, <2>2 DEF SerialInv, Serial, NameIsFree
    <2>4. PICK q \in Request : req[q].c = d /\ req[q].pc = "save"
      BY <2>3 DEF BearerIsListed, Saving
    <2> QED BY <2>2, <2>4 DEF SerialInv, Serial, Alone
  <1> QED BY <1>1, SerialAlways, PTL DEF Spec, SerialRenameIsUnique

\* When nothing overlaps, a container that was removed comes back to the table
\* only if it had been renamed: the one way to a record outside of the table is
\* a stale entry of the name index (StaleIsRenamed).
THEOREM DeletedAlwaysStays == Spec => DeletedStaysDeleted
  <1> DEFINE Stays == \A c \in created \ table : c \in table' => raced' \/ Renamed(c)
  <1>1. BookInv /\ SerialInv /\ [Next]_vars => [Stays]_vars
    <2> SUFFICES ASSUME BookInv, SerialInv, Next, NEW c \in created \ table, c \in table',
                        ~raced'
                 PROVE  Renamed(c)
      OBVIOUS
    <2> USE DEF BookInv
    <2>1. PICK r \in Request : Save(r)
      <3>1. ASSUME NEW r \in Request, Arrive(r)
            PROVE  table' = table
        BY <3>1, ArriveBegins DEF Begin
      <3>2. ASSUME NEW b \in Container, NEW n \in Name \cup {NoName}, ContainerCreate(b, n)
            PROVE  FALSE
        BY <3>2 DEF ContainerCreate, SaveContainer
      <3> QED
        BY <3>1, <3>2
        DEF Next, Step, RenameCheck, RenameAssign, CreatePod, AwaitReady, DeletePods, AfterDeletePods,
            Delete, DeleteContainer, ContainerExec, ExecStart
    <2>2. req[r].c = c /\ req[r].pc = "save" /\ ~raced
      BY <2>1 DEF Save, SaveContainer, counts
    <2> QED BY <2>2 DEF SerialInv, Serial, FoundIsThere
  <1> QED BY <1>1, SerialAlways, PTL DEF Spec, DeletedStaysDeleted
=============================================================================
