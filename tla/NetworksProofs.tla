--------------------------- MODULE NetworksProofs ---------------------------
(* Proofs about Networks, for any sets of names, ids, containers and        *)
(* requests: first what holds whether or not requests overlap and names are *)
(* unique (NetInv), then what distinct names (NamesLead) and requests that   *)
(* keep apart on a network (Sound) add to it.                               *)
EXTENDS Networks, TLAPS

\* The networks requests are about to remove, or to look at, had an id; the
\* ones about to be removed are not predefined.  Ids are not reused, so that
\* this cannot change under a request.
RemovalsAreSafe ==
    \A r \in Request :
        /\ req[r].pc \in {"attached", "remove", "pruneremove"} =>
             /\ req[r].net \in used
             /\ table[req[r].net] \notin Predefined
        /\ req[r].todo \subseteq used

\* Requests that save a container have one.
SaversHaveContainer ==
    \A r \in Request :
        req[r].pc \in {"connect", "disconnect", "create"} =>
            req[r].c \in Container /\ req[r].net \in NetId

\* The inductive invariant.
NetInv ==
    /\ TypeOK
    /\ PredefinedResolvable
    /\ IndexIsSound
    /\ RemovalsAreSafe
    /\ SaversHaveContainer

ReqType == [pc : {"idle", "attached", "remove", "connect", "create",
                  "disconnect", "prune", "pruneremove"},
            net : NetId \cup {NoNet},
            c : Container \cup {NoContainer},
            todo : SUBSET NetId]

----------------------------------------------------------------------------
\* The fields of a request determine its type.
LEMMA ReqFields ==
    ASSUME NEW pc0 \in {"idle", "attached", "remove", "connect", "create",
                        "disconnect", "prune", "pruneremove"},
           NEW net0 \in NetId \cup {NoNet}, NEW c0 \in Container \cup {NoContainer},
           NEW todo0 \in SUBSET NetId
    PROVE  [pc |-> pc0, net |-> net0, c |-> c0, todo |-> todo0] \in ReqType
  BY DEF ReqType

\* The idle request is well typed.
LEMMA IdleType == Idle \in ReqType
  <1>1. [pc |-> "idle", net |-> NoNet, c |-> NoContainer, todo |-> {}] \in ReqType
    BY ReqFields, Zenon
  <1> QED BY <1>1 DEF Idle

\* The fields of the idle request.
LEMMA IdleFields == /\ Idle.pc = "idle" /\ Idle.net = NoNet
                    /\ Idle.c = NoContainer /\ Idle.todo = {}
  BY Zenon DEF Idle

\* Whatever can be named is in the database, and has been given out.
LEMMA FoundIsUsed ==
    ASSUME TypeOK, IndexIsSound, NEW id \in NetId, Found(id)
    PROVE  Exists(id) /\ id \in used
  BY NetAssumption DEF TypeOK, IndexIsSound, Found, Exists

\* Removing a network that is not predefined keeps the index sound and the
\* predefined names in it.
LEMMA DeleteKeepsIndex ==
    ASSUME TypeOK, PredefinedResolvable, IndexIsSound,
           NEW id \in NetId, Exists(id), table[id] \notin Predefined,
           DeleteNetwork(id)
    PROVE  /\ table' \in [NetId -> Name \cup {NoName}]
           /\ index' \in [Name -> NetId \cup {NoNet}]
           /\ \A i \in NetId : table'[i] = table[i] \/ table'[i] = NoName
           /\ PredefinedResolvable'
           /\ IndexIsSound'
  BY NetAssumption, PredefinedAssumption
  DEF TypeOK, PredefinedResolvable, IndexIsSound, Exists, DeleteNetwork

\* A step that changes no network and no id.
LEMMA NetworksUntouched ==
    ASSUME NetInv, UNCHANGED <<table, index, used>>,
           cdb' \subseteq Container,
           conn' \in [Container -> SUBSET NetId],
           NEW r0 \in Request, NEW q \in ReqType,
           req' = [req EXCEPT ![r0] = q],
           q.pc \in {"attached", "remove", "pruneremove"} =>
             q.net \in used /\ table[q.net] \notin Predefined,
           q.todo \subseteq used,
           q.pc \in {"connect", "disconnect", "create"} =>
             q.c \in Container /\ q.net \in NetId
    PROVE  NetInv'
  <1>1. TypeOK'
    BY DEF NetInv, TypeOK, ReqType
  <1>2. PredefinedResolvable' /\ IndexIsSound'
    BY DEF NetInv, PredefinedResolvable, IndexIsSound
  <1>3. \A r \in Request : req'[r] = IF r = r0 THEN q ELSE req[r]
    BY DEF NetInv, TypeOK
  <1>4. RemovalsAreSafe'
    BY <1>3 DEF NetInv, RemovalsAreSafe
  <1>5. SaversHaveContainer'
    BY <1>3 DEF NetInv, SaversHaveContainer
  <1> QED BY <1>1, <1>2, <1>4, <1>5 DEF NetInv

\* A step that removes a network, or finds it gone.
LEMMA NetworkRemoved ==
    ASSUME NetInv, UNCHANGED <<used, cdb, conn>>,
           NEW r0 \in Request, NEW q \in ReqType,
           req' = [req EXCEPT ![r0] = q],
           q.pc \in {"idle", "prune"}, q.todo \subseteq used,
           NEW id \in NetId, table[id] \notin Predefined,
           \/ Exists(id) /\ DeleteNetwork(id)
           \/ UNCHANGED <<table, index>>
    PROVE  NetInv'
  <1>1. /\ table' \in [NetId -> Name \cup {NoName}]
        /\ index' \in [Name -> NetId \cup {NoNet}]
        /\ \A i \in NetId : table'[i] = table[i] \/ table'[i] = NoName
        /\ PredefinedResolvable'
        /\ IndexIsSound'
    <2>1. CASE Exists(id) /\ DeleteNetwork(id)
      BY <2>1, DeleteKeepsIndex DEF NetInv
    <2>2. CASE UNCHANGED <<table, index>>
      BY <2>2 DEF NetInv, TypeOK, PredefinedResolvable, IndexIsSound
    <2> QED BY <2>1, <2>2
  <1>2. TypeOK'
    BY <1>1 DEF NetInv, TypeOK, ReqType
  <1>3. \A r \in Request : req'[r] = IF r = r0 THEN q ELSE req[r]
    BY DEF NetInv, TypeOK
  <1>4. RemovalsAreSafe'
    <2>1. NoName \notin Predefined
      BY NetAssumption, PredefinedAssumption
    <2>2. \A i \in NetId : table[i] \notin Predefined => table'[i] \notin Predefined
      BY <1>1, <2>1
    <2> QED BY <1>3, <2>2 DEF NetInv, TypeOK, RemovalsAreSafe
  <1>5. SaversHaveContainer'
    BY <1>3 DEF NetInv, SaversHaveContainer
  <1> QED BY <1>1, <1>2, <1>4, <1>5 DEF NetInv

----------------------------------------------------------------------------
\* NetInv holds initially.
LEMMA NetInvInit == Init => NetInv
  <1> SUFFICES ASSUME Init PROVE NetInv
    OBVIOUS
  <1>1. \A n \in Predefined : table[PreId[n]] = n
    BY PredefinedAssumption DEF Init, DefaultTable
  <1>2. \A id \in NetId : table[id] # NoName =>
            table[id] \in Predefined /\ PreId[table[id]] = id
    BY DEF Init, DefaultTable
  <1>3. TypeOK
    <2>1. req \in [Request -> ReqType]
      BY IdleType DEF Init
    <2>2. table \in [NetId -> Name \cup {NoName}]
      BY <1>2, PredefinedAssumption DEF Init
    <2>3. /\ index \in [Name -> NetId \cup {NoNet}]
          /\ used \subseteq NetId
      BY PredefinedAssumption DEF Init
    <2>4. cdb \subseteq Container /\ conn \in [Container -> SUBSET NetId]
      BY DEF Init
    <2>5. \A id \in NetId : table[id] # NoName => id \in used
      BY <1>2 DEF Init
    <2> QED BY <2>1, <2>2, <2>3, <2>4, <2>5 DEF TypeOK, ReqType
  <1>4. PredefinedResolvable
    BY NetAssumption, PredefinedAssumption DEF Init, PredefinedResolvable
  <1>5. IndexIsSound
    BY <1>1 DEF Init, IndexIsSound
  <1>6. \A r \in Request : req[r].pc = "idle" /\ req[r].todo = {}
    BY IdleFields, Zenon DEF Init
  <1>7. RemovalsAreSafe /\ SaversHaveContainer
    BY <1>6 DEF RemovalsAreSafe, SaversHaveContainer
  <1> QED BY <1>3, <1>4, <1>5, <1>7 DEF NetInv

\* NetInv is kept by every step.
LEMMA NetInvNext == NetInv /\ [Next]_vars => NetInv'
  <1> SUFFICES ASSUME NetInv, [Next]_vars PROVE NetInv'
    OBVIOUS
  <1>t. TypeOK /\ PredefinedResolvable /\ IndexIsSound /\ RemovalsAreSafe
        /\ SaversHaveContainer /\ used \subseteq NetId
        /\ cdb \subseteq Container /\ conn \in [Container -> SUBSET NetId]
        /\ req \in [Request -> ReqType]
    BY DEF NetInv, TypeOK, ReqType
  \* A request that goes on to pc for a network and a container ...
  <1>g. ASSUME NEW r \in Request, NEW id \in NetId, NEW c \in Container \cup {NoContainer},
               NEW pc \in {"attached", "remove", "connect", "create", "disconnect"},
               Go(r, pc, id, c), UNCHANGED <<table, index, used>>,
               cdb' \subseteq Container, conn' \in [Container -> SUBSET NetId],
               pc \in {"attached", "remove"} =>
                 id \in used /\ table[id] \notin Predefined,
               pc \in {"connect", "create", "disconnect"} => c \in Container
        PROVE  NetInv'
    <2> DEFINE q == [pc |-> pc, net |-> id, c |-> c, todo |-> {}]
    <2>1. q \in ReqType
      BY ReqFields, Zenon
    <2>2. q.pc = pc /\ q.net = id /\ q.c = c /\ q.todo = {}
      OBVIOUS
    <2>3. req' = [req EXCEPT ![r] = q]
      BY <1>g DEF Go
    <2> HIDE DEF q
    <2> QED BY <1>g, <2>1, <2>2, <2>3, NetworksUntouched
  \* ... and one that returns.
  <1>r. ASSUME NEW r \in Request, Return(r), UNCHANGED <<table, index, used>>,
               cdb' \subseteq Container, conn' \in [Container -> SUBSET NetId]
        PROVE  NetInv'
    <2>1. {} \subseteq used
      OBVIOUS
    <2> QED BY <1>r, <2>1, IdleType, IdleFields, NetworksUntouched DEF Return
  <1>1. ASSUME NEW r \in Request, NEW n \in Name, NEW id \in NetId,
               NetworksCreate(r, n, id)
        PROVE  NetInv'
    <2>1. TypeOK'
      BY <1>t, <1>1 DEF TypeOK, NetworksCreate
    <2>2. PredefinedResolvable' /\ IndexIsSound'
      BY <1>t, <1>1, NetAssumption
      DEF TypeOK, PredefinedResolvable, IndexIsSound, NetworksCreate
    <2>3. RemovalsAreSafe'
      BY <1>t, <1>1 DEF TypeOK, RemovalsAreSafe, NetworksCreate
    <2>4. SaversHaveContainer'
      BY <1>t, <1>1 DEF SaversHaveContainer, NetworksCreate
    <2> QED BY <2>1, <2>2, <2>3, <2>4 DEF NetInv
  <1>2. ASSUME NEW r \in Request, NEW id \in NetId, NetworksDelete(r, id)
        PROVE  NetInv'
    BY <1>t, <1>2, <1>g, FoundIsUsed DEF NetworksDelete, IsPredefined
  <1>3. ASSUME NEW r \in Request, NetworksDeleteCheck(r) PROVE NetInv'
    <2>1. /\ req[r].net \in used /\ table[req[r].net] \notin Predefined
          /\ req[r].net \in NetId
      BY <1>t, <1>3 DEF NetworksDeleteCheck, RemovalsAreSafe
    <2>2. UNCHANGED <<table, index, used, cdb, conn>>
      BY <1>3 DEF NetworksDeleteCheck
    <2>3. Return(r) \/ Go(r, "remove", req[r].net, NoContainer)
      BY <1>3 DEF NetworksDeleteCheck
    <2> QED BY <1>t, <2>1, <2>2, <2>3, <1>g, <1>r
  <1>4. ASSUME NEW r \in Request, NetworksDeleteRemove(r) PROVE NetInv'
    <2>1. /\ req[r].net \in NetId /\ table[req[r].net] \notin Predefined
          /\ UNCHANGED <<used, cdb, conn>>
          /\ req' = [req EXCEPT ![r] = Idle]
          /\ \/ Exists(req[r].net) /\ DeleteNetwork(req[r].net)
             \/ UNCHANGED <<table, index>>
      BY <1>t, <1>4 DEF NetworksDeleteRemove, RemovalsAreSafe, Return
    <2>2. {} \subseteq used
      OBVIOUS
    <2> QED BY <2>1, <2>2, IdleType, IdleFields, NetworkRemoved
  <1>5. ASSUME NEW r \in Request, NEW id \in NetId, NEW c \in Container,
               NetworksConnect(r, id, c)
        PROVE  NetInv'
    BY <1>t, <1>5, <1>g DEF NetworksConnect
  <1>6. ASSUME NEW r \in Request, NetworksConnectSave(r) PROVE NetInv'
    <2>1. req[r].c \in Container /\ req[r].net \in NetId
      BY <1>t, <1>6 DEF NetworksConnectSave, SaversHaveContainer
    <2> QED BY <1>t, <1>6, <2>1, <1>r DEF NetworksConnectSave
  <1>7. ASSUME NEW r \in Request, NEW id \in NetId, NEW c \in Container,
               NetworksDisconnect(r, id, c)
        PROVE  NetInv'
    BY <1>t, <1>7, <1>g DEF NetworksDisconnect
  <1>8. ASSUME NEW r \in Request, NetworksDisconnectSave(r) \/ ContainerCreateSave(r)
        PROVE  NetInv'
    <2>1. req[r].c \in Container
      BY <1>t, <1>8 DEF NetworksDisconnectSave, ContainerCreateSave, SaversHaveContainer
    <2> QED BY <1>t, <1>8, <2>1, <1>r DEF NetworksDisconnectSave, ContainerCreateSave
  <1>9. ASSUME NEW r \in Request, NetworksPrune(r) PROVE NetInv'
    <2> DEFINE q == [Idle EXCEPT !.pc = "prune", !.todo = Existing]
    <2>1. Existing \subseteq used
      BY <1>t DEF TypeOK, Existing, Exists
    <2>2. q \in ReqType /\ q.pc = "prune" /\ q.todo = Existing
      BY <1>t, <2>1, IdleType DEF ReqType
    <2>3. req' = [req EXCEPT ![r] = q] /\ UNCHANGED <<table, index, used, cdb, conn>>
      BY <1>9 DEF NetworksPrune
    <2> HIDE DEF q
    <2> QED BY <1>t, <2>1, <2>2, <2>3, NetworksUntouched
  <1>10. ASSUME NEW r \in Request, NetworksPruneNext(r) PROVE NetInv'
    <2>1. UNCHANGED <<table, index, used, cdb, conn>>
      BY <1>10 DEF NetworksPruneNext
    <2>2. CASE Return(r)
      BY <1>t, <2>1, <2>2, <1>r
    <2>3. ASSUME NEW id \in req[r].todo,
                 req' = [req EXCEPT ![r].todo = @ \ {id}, ![r].net = id,
                      ![r].pc = IF IsPredefined(id) \/ ContainersInNetwork(id) # {}
                                THEN "prune" ELSE "pruneremove"]
          PROVE  NetInv'
      <3> DEFINE p == IF IsPredefined(id) \/ ContainersInNetwork(id) # {}
                      THEN "prune" ELSE "pruneremove"
                 q == [req[r] EXCEPT !.todo = @ \ {id}, !.net = id, !.pc = p]
      <3>1. /\ p \in {"prune", "pruneremove"}
            /\ p = "pruneremove" => table[id] \notin Predefined
        BY DEF IsPredefined
      <3>2. req[r] \in ReqType /\ req[r].todo \subseteq used /\ id \in used /\ id \in NetId
        BY <1>t DEF RemovalsAreSafe
      <3>3. req' = [req EXCEPT ![r] = q]
        BY <2>3
      <3> HIDE DEF p
      <3>4. q \in ReqType /\ q.pc = p /\ q.net = id /\ q.todo \subseteq used
        BY <3>1, <3>2 DEF ReqType
      <3> HIDE DEF q
      <3> QED BY <1>t, <2>1, <3>1, <3>2, <3>3, <3>4, NetworksUntouched
    <2> QED BY <1>10, <2>2, <2>3 DEF NetworksPruneNext
  <1>11. ASSUME NEW r \in Request, NetworksPruneRemove(r) PROVE NetInv'
    <2>1. /\ req[r].net \in NetId /\ table[req[r].net] \notin Predefined
          /\ req[r] \in ReqType /\ req[r].todo \subseteq used
          /\ UNCHANGED <<used, cdb, conn>>
      BY <1>t, <1>11 DEF NetworksPruneRemove, RemovalsAreSafe
    <2>2. CASE Exists(req[r].net)
      <3> DEFINE q == [req[r] EXCEPT !.pc = "prune"]
      <3>1. q \in ReqType /\ q.pc = "prune" /\ q.todo \subseteq used
        BY <2>1 DEF ReqType
      <3>2. req' = [req EXCEPT ![r] = q] /\ DeleteNetwork(req[r].net)
        BY <1>11, <2>2 DEF NetworksPruneRemove
      <3> HIDE DEF q
      <3> QED BY <2>1, <2>2, <3>1, <3>2, NetworkRemoved
    <2>3. CASE ~Exists(req[r].net)
      <3>1. UNCHANGED <<table, index>> /\ Return(r)
        BY <1>11, <2>3 DEF NetworksPruneRemove
      <3> QED BY <1>t, <2>1, <3>1, <1>r
    <2> QED BY <2>2, <2>3
  <1>12. ASSUME NEW r \in Request, NEW id \in NetId, NEW c \in Container,
                ContainerCreate(r, id, c)
         PROVE  NetInv'
    BY <1>t, <1>12, <1>g DEF ContainerCreate
  <1>13. ASSUME NEW r \in Request, NEW c \in Container, ContainerDelete(r, c)
         PROVE  NetInv'
    BY <1>t, <1>13 DEF ContainerDelete, NetInv, TypeOK, PredefinedResolvable,
       IndexIsSound, RemovalsAreSafe, SaversHaveContainer
  <1>14. CASE UNCHANGED vars
    BY <1>t, <1>14 DEF vars, NetInv, TypeOK, PredefinedResolvable,
       IndexIsSound, RemovalsAreSafe, SaversHaveContainer
  <1> QED
    BY <1>1, <1>2, <1>3, <1>4, <1>5, <1>6, <1>7, <1>8, <1>9, <1>10, <1>11, <1>12,
       <1>13, <1>14 DEF Next, Arrive, Step

\* NetInv is an invariant.
LEMMA NetInvariant == Spec => []NetInv
  BY NetInvInit, NetInvNext, PTL DEF Spec

----------------------------------------------------------------------------
\* Type correctness, for any networks, containers and requests.
THEOREM NetworksTypeCorrect == Spec => []TypeOK
  <1>1. NetInv => TypeOK
    BY DEF NetInv
  <1> QED BY <1>1, NetInvariant, PTL

\* However requests interleave, and even if clients create networks with the
\* names of predefined ones, ContainerCreate finds bridge by its name.
THEOREM PredefinedAlwaysResolves == Spec => []PredefinedResolvable
  <1>1. NetInv => PredefinedResolvable
    BY DEF NetInv
  <1> QED BY <1>1, NetInvariant, PTL

\* However requests interleave, the index on the name leads only to networks
\* in the database, with that name.
THEOREM IndexAlwaysSound == Spec => []IndexIsSound
  <1>1. NetInv => IndexIsSound
    BY DEF NetInv
  <1> QED BY <1>1, NetInvariant, PTL

----------------------------------------------------------------------------
(* Names, as long as they are distinct. *)

\* The index leads from the name of each network to that network.
NamesLead == \A id \in Existing : index[table[id]] = id

\* Initially the names of the predefined networks lead to them.
LEMMA NamesLeadInit == Init => NamesLead
  <1> SUFFICES ASSUME Init, NEW id \in Existing PROVE index[table[id]] = id
    BY DEF NamesLead
  <1>1. table[id] \in Predefined /\ PreId[table[id]] = id
    BY DEF Init, DefaultTable, Existing, Exists
  <1> QED BY <1>1, PredefinedAssumption DEF Init

\* What a step may do to the networks: nothing, create one, or delete one.
LEMMA NetworkSteps ==
    ASSUME NetInv, Next
    PROVE  \/ UNCHANGED <<table, index>>
           \/ \E n \in Name, id \in NetId \ used :
                /\ table' = [table EXCEPT ![id] = n]
                /\ index' = [index EXCEPT ![n] = id]
           \/ \E id \in Existing : DeleteNetwork(id)
  <1>1. ASSUME NEW r \in Request, Arrive(r)
        PROVE  \/ UNCHANGED <<table, index>>
               \/ \E n \in Name, id \in NetId \ used :
                    /\ table' = [table EXCEPT ![id] = n]
                    /\ index' = [index EXCEPT ![n] = id]
    BY <1>1
    DEF Arrive, NetworksPrune, NetworksDelete, NetworksCreate, NetworksConnect,
        NetworksDisconnect, ContainerCreate, ContainerDelete
  <1>2. ASSUME NEW r \in Request, Step(r)
        PROVE  \/ UNCHANGED <<table, index>>
               \/ \E id \in Existing : DeleteNetwork(id)
    <2>1. CASE NetworksDeleteRemove(r) \/ NetworksPruneRemove(r)
      <3>1. req[r].net \in NetId
        BY <2>1 DEF NetInv, TypeOK, RemovalsAreSafe, NetworksDeleteRemove, NetworksPruneRemove
      <3> QED BY <2>1, <3>1 DEF NetworksDeleteRemove, NetworksPruneRemove, Existing
    <2> QED
      BY <1>2, <2>1
      DEF Step, NetworksDeleteCheck, NetworksConnectSave, NetworksDisconnectSave,
          NetworksPruneNext, ContainerCreateSave
  <1> QED BY <1>1, <1>2 DEF Next

\* Names keep leading to their networks while all names differ.
LEMMA NamesLeadNext ==
    NetInv /\ NamesLead /\ DistinctNames /\ DistinctNames' /\ [Next]_vars => NamesLead'
  <1> SUFFICES ASSUME NetInv, NamesLead, DistinctNames, DistinctNames', [Next]_vars,
                      NEW id \in Existing'
               PROVE  index'[table'[id]] = id
    BY DEF NamesLead
  <1>0. /\ id \in NetId /\ table'[id] # NoName
        /\ table \in [NetId -> Name \cup {NoName}]
        /\ index \in [Name -> NetId \cup {NoNet}]
    BY DEF Existing, Exists, NetInv, TypeOK
  <1>1. CASE UNCHANGED <<table, index>>
    BY <1>0, <1>1 DEF NamesLead, Existing, Exists
  <1>2. ASSUME NEW n \in Name, NEW i \in NetId \ used,
               table' = [table EXCEPT ![i] = n], index' = [index EXCEPT ![n] = i]
        PROVE  index'[table'[id]] = id
    <2>1. CASE id = i
      BY <1>0, <1>2, <2>1
    <2>2. CASE id # i
      <3>1. table'[id] = table[id] /\ id \in Existing
        BY <1>0, <1>2, <2>2 DEF Existing, Exists
      <3>2. i \in Existing' /\ table'[i] = n
        BY <1>0, <1>2, NetAssumption DEF Existing, Exists
      <3>3. table[id] # n
        BY <2>2, <3>1, <3>2 DEF DistinctNames
      <3> QED BY <1>0, <1>2, <3>1, <3>3 DEF NamesLead
    <2> QED BY <2>1, <2>2
  <1>3. ASSUME NEW i \in Existing, DeleteNetwork(i)
        PROVE  index'[table'[id]] = id
    <2>1. i \in NetId /\ id # i /\ table'[id] = table[id]
      BY <1>0, <1>3 DEF DeleteNetwork, Existing
    <2>2. id \in Existing
      BY <1>0, <2>1 DEF Existing, Exists
    <2>3. table[id] # table[i] /\ table[i] \in Name
      BY <1>0, <2>1, <2>2 DEF DistinctNames, Existing, Exists
    <2> QED BY <1>0, <1>3, <2>1, <2>2, <2>3 DEF DeleteNetwork, NamesLead
  <1>4. CASE UNCHANGED vars
    BY <1>1, <1>4 DEF vars
  <1> QED BY <1>1, <1>2, <1>3, <1>4, NetworkSteps

\* As long as clients choose distinct names every network in the database is
\* found by its name, however their requests overlap.
THEOREM NameAlwaysResolves == Spec => NameResolves
  <1>1. NetInv /\ NamesLead => \A id \in Existing : index[table[id]] # NoNet
    BY NetAssumption DEF NamesLead, Existing
  <1> QED
    BY <1>1, NetInvariant, NamesLeadInit, NamesLeadNext, PTL DEF Spec, NameResolves

----------------------------------------------------------------------------
(* Connections, as long as no two requests are at work on one network. *)

\* Containers of the database are connected to networks of the database.
ConnectedExist == \A c \in cdb : conn[c] \subseteq Existing

\* So is the network a request is about to connect a container to ...
SoughtExist ==
    \A r \in Request : req[r].pc \in {"connect", "create"} => req[r].net \in Existing

\* ... and a container about to be created is connected to that one alone.
NewIsConnected ==
    \A r \in Request : req[r].pc = "create" =>
        conn[req[r].c] = {req[r].net} /\ req[r].c \notin cdb

\* Nothing is attached to a network that a request is about to remove.
RemovedIsDetached ==
    \A r \in Request : req[r].pc \in {"remove", "pruneremove"} =>
        \A c \in cdb : req[r].net \notin conn[c]

Sound == ConnectedExist /\ SoughtExist /\ NewIsConnected /\ RemovedIsDetached

\* Initially no container is on a network that is gone.
LEMMA SoundInit == Init => Sound
  <1> SUFFICES ASSUME Init PROVE Sound
    OBVIOUS
  <1>1. \A r \in Request : req[r].pc = "idle"
    BY IdleFields, Zenon DEF Init
  <1> QED BY <1>1 DEF Init, Sound, ConnectedExist, SoughtExist, NewIsConnected, RemovedIsDetached

\* A request that arrives has done no more than look things up, or has
\* changed what no request at work relies on.
LEMMA ArriveKeepsSound ==
    ASSUME NetInv, Sound, NEW r \in Request, Arrive(r)
    PROVE  Sound'
  <1> USE DEF Sound, ConnectedExist, SoughtExist, NewIsConnected, RemovedIsDetached
  <1>t. /\ TypeOK /\ IndexIsSound /\ SaversHaveContainer
        /\ conn \in [Container -> SUBSET NetId] /\ cdb \subseteq Container
    BY DEF NetInv, TypeOK
  <1>e. \A id \in NetId : Found(id) => id \in Existing
    BY <1>t, FoundIsUsed DEF Existing
  <1>s. ASSUME table' = table PROVE Existing' = Existing
    BY <1>s DEF Existing, Exists
  \* The request goes on and the containers stay as they are.
  <1>g. ASSUME NEW pc \in {"attached", "connect", "disconnect", "prune"},
               req'[r].pc = pc, \A q \in Request \ {r} : req'[q] = req[q],
               UNCHANGED <<table, cdb>>,
               \A c \in cdb : conn'[c] \subseteq conn[c],
               \A c \in Container \ cdb : conn'[c] = conn[c],
               pc = "connect" => req'[r].net \in Existing
        PROVE  Sound'
    <2>1. ConnectedExist' /\ SoughtExist' /\ RemovedIsDetached'
      BY <1>g, <1>s
    <2>2. NewIsConnected'
      BY <1>g, <1>t DEF SaversHaveContainer
    <2> QED BY <2>1, <2>2
  <1>1. CASE NetworksPrune(r)
    <2>1. req'[r].pc = "prune" /\ \A q \in Request \ {r} : req'[q] = req[q]
      BY <1>1 DEF NetworksPrune, Idle, NetInv, TypeOK
    <2>2. UNCHANGED <<table, cdb, conn>>
      BY <1>1 DEF NetworksPrune
    <2> QED BY <2>1, <2>2, <1>g
  <1>2. ASSUME NEW id \in NetId, NEW c \in Container \cup {NoContainer}, NEW pc,
               Go(r, pc, id, c)
        PROVE  /\ req'[r].pc = pc /\ req'[r].c = c /\ req'[r].net = id
               /\ \A q \in Request \ {r} : req'[q] = req[q]
    BY <1>2 DEF Go, NetInv, TypeOK
  <1>3. ASSUME NEW id \in NetId, NetworksDelete(r, id) PROVE Sound'
    <2>1. Go(r, "attached", id, NoContainer) /\ UNCHANGED <<table, cdb, conn>>
      BY <1>3 DEF NetworksDelete
    <2>2. req'[r].pc = "attached" /\ \A q \in Request \ {r} : req'[q] = req[q]
      BY <1>2, <2>1
    <2> QED BY <2>1, <2>2, <1>g
  <1>4. ASSUME NEW id \in NetId, NEW n \in Name, NetworksCreate(r, n, id) PROVE Sound'
    <2>1. Existing \subseteq Existing' /\ UNCHANGED <<cdb, conn, req>>
      BY <1>4, NetAssumption DEF NetworksCreate, Existing, Exists, NetInv, TypeOK
    <2> QED BY <2>1
  <1>5. ASSUME NEW id \in NetId, NEW c \in Container, NetworksConnect(r, id, c)
        PROVE  Sound'
    <2>1. /\ Go(r, "connect", id, c) /\ UNCHANGED <<table, cdb, conn>>
          /\ id \in Existing
      BY <1>5, <1>e DEF NetworksConnect
    <2>2. /\ req'[r].pc = "connect" /\ req'[r].net = id
          /\ \A q \in Request \ {r} : req'[q] = req[q]
      BY <1>2, <2>1
    <2> QED BY <2>1, <2>2, <1>g
  <1>6. ASSUME NEW id \in NetId, NEW c \in Container, NetworksDisconnect(r, id, c)
        PROVE  Sound'
    <2>1. /\ Go(r, "disconnect", id, c) /\ UNCHANGED <<table, cdb>> /\ c \in cdb
          /\ conn' = [conn EXCEPT ![c] = @ \ {id}]
      BY <1>6 DEF NetworksDisconnect
    <2>2. req'[r].pc = "disconnect" /\ \A q \in Request \ {r} : req'[q] = req[q]
      BY <1>2, <2>1
    <2>3. /\ \A d \in cdb : conn'[d] \subseteq conn[d]
          /\ \A d \in Container \ cdb : conn'[d] = conn[d]
      BY <1>t, <2>1
    <2> QED BY <2>1, <2>2, <2>3, <1>g
  <1>7. ASSUME NEW id \in NetId, NEW c \in Container, ContainerCreate(r, id, c)
        PROVE  Sound'
    <2>1. /\ Go(r, "create", id, c) /\ UNCHANGED <<table, cdb>> /\ c \notin cdb
          /\ conn' = [conn EXCEPT ![c] = {id}] /\ id \in Existing /\ conn[c] = {}
      BY <1>7, <1>e DEF ContainerCreate
    <2>2. /\ req'[r].pc = "create" /\ req'[r].c = c /\ req'[r].net = id
          /\ \A q \in Request \ {r} : req'[q] = req[q]
      BY <1>2, <2>1
    <2>3. conn'[c] = {id} /\ \A d \in Container \ {c} : conn'[d] = conn[d]
      BY <1>t, <2>1
    <2>4. ConnectedExist' /\ SoughtExist' /\ RemovedIsDetached'
      BY <1>t, <1>s, <2>1, <2>2, <2>3
    \* No other request is creating the container: it has no network yet.
    <2>5. NewIsConnected'
      <3> SUFFICES ASSUME NEW q \in Request, req'[q].pc = "create"
                   PROVE  conn'[req'[q].c] = {req'[q].net} /\ req'[q].c \notin cdb'
        OBVIOUS
      <3>1. CASE q = r
        BY <2>1, <2>2, <2>3, <3>1
      <3>2. CASE q # r
        <4>1. req'[q] = req[q] /\ req[q].pc = "create" /\ req[q].c \in Container
          BY <1>t, <2>2, <3>2 DEF SaversHaveContainer
        <4>2. conn[req[q].c] = {req[q].net} /\ req[q].c \notin cdb
          BY <4>1
        <4>3. req[q].c # c
          BY <2>1, <4>2
        <4> QED BY <2>1, <2>3, <4>1, <4>2, <4>3
      <3> QED BY <3>1, <3>2
    <2> QED BY <2>4, <2>5
  <1>8. ASSUME NEW c \in Container, ContainerDelete(r, c) PROVE Sound'
    <2>1. cdb' \subseteq cdb /\ UNCHANGED <<table, conn, req>>
      BY <1>8 DEF ContainerDelete
    <2> QED BY <2>1, <1>s
  <1> QED BY <1>1, <1>3, <1>4, <1>5, <1>6, <1>7, <1>8 DEF Arrive

\* No other request is at work on the network of a request.
LEMMA AloneOnNetwork ==
    ASSUME NetInv, Apart, NEW q \in Request, NEW r \in Request, q # r,
           req[q].pc \in {"remove", "pruneremove", "connect", "create"},
           req[r].pc \in {"remove", "pruneremove", "connect", "create"}
    PROVE  req[q].net # req[r].net
  <1>1. req[q].net \in NetId
    BY DEF NetInv, TypeOK, RemovalsAreSafe, SaversHaveContainer
  <1> QED BY <1>1, NetAssumption DEF Apart, On

\* The next step of a request at work.
LEMMA StepKeepsSound ==
    ASSUME NetInv, Sound, Apart, NobodyReturns, NEW r \in Request, Step(r)
    PROVE  Sound'
  <1> USE DEF Sound, ConnectedExist, SoughtExist, NewIsConnected, RemovedIsDetached
  <1>t. /\ SaversHaveContainer
        /\ conn \in [Container -> SUBSET NetId] /\ cdb \subseteq Container
        /\ req \in [Request -> ReqType] /\ table \in [NetId -> Name \cup {NoName}]
    BY DEF NetInv, TypeOK, ReqType
  <1>i. ASSUME Return(r)
        PROVE  req'[r].pc = "idle" /\ \A q \in Request \ {r} : req'[q] = req[q]
    BY <1>t, <1>i, IdleFields DEF Return
  <1>s. ASSUME table' = table PROVE Existing' = Existing
    BY <1>s DEF Existing, Exists
  \* It returns, or goes on with the prune or the removal ...
  <1>r. ASSUME req'[r].pc \in {"idle", "prune", "remove", "pruneremove"},
               \A q \in Request \ {r} : req'[q] = req[q],
               UNCHANGED <<table, cdb, conn>>,
               req'[r].pc \in {"remove", "pruneremove"} =>
                  \A c \in cdb : req'[r].net \notin conn[c]
        PROVE  Sound'
    BY <1>r, <1>s
  \* ... or takes away a network nothing is connected to, nor about to be.
  <1>d. ASSUME req[r].pc \in {"remove", "pruneremove"}, Exists(req[r].net),
               DeleteNetwork(req[r].net), UNCHANGED <<cdb, conn>>,
               req'[r].pc \in {"idle", "prune"},
               \A q \in Request \ {r} : req'[q] = req[q]
        PROVE  Sound'
    <2>1. Existing \ {req[r].net} \subseteq Existing'
      BY <1>t, <1>d DEF DeleteNetwork, Existing, Exists
    <2>2. ConnectedExist'
      BY <1>d, <2>1
    <2>3. SoughtExist'
      <3> SUFFICES ASSUME NEW q \in Request, req'[q].pc \in {"connect", "create"}
                   PROVE  req'[q].net \in Existing'
        OBVIOUS
      <3>1. q # r /\ req'[q] = req[q] /\ req[q].net \in Existing
        BY <1>d
      <3>2. req[q].net # req[r].net
        BY <1>d, <3>1, AloneOnNetwork
      <3> QED BY <2>1, <3>1, <3>2
    <2>4. NewIsConnected' /\ RemovedIsDetached'
      BY <1>d
    <2> QED BY <2>2, <2>3, <2>4
  <1>1. CASE NetworksDeleteCheck(r)
    <2>1. UNCHANGED <<table, cdb, conn>>
      BY <1>1 DEF NetworksDeleteCheck
    <2>3. CASE Return(r)
      BY <2>1, <2>3, <1>i, <1>r
    <2>4. CASE ContainersInNetwork(req[r].net) = {} /\ Go(r, "remove", req[r].net, NoContainer)
      <3>1. /\ req'[r].pc = "remove" /\ req'[r].net = req[r].net
            /\ \A q \in Request \ {r} : req'[q] = req[q]
        BY <1>t, <2>4 DEF Go
      <3>2. \A c \in cdb : req'[r].net \notin conn[c]
        BY <2>4, <3>1 DEF ContainersInNetwork
      <3> QED BY <2>1, <3>1, <3>2, <1>r
    <2> QED BY <1>1, <2>3, <2>4 DEF NetworksDeleteCheck
  <1>2. CASE NetworksDeleteRemove(r)
    <2>1. /\ req[r].pc = "remove" /\ Return(r) /\ UNCHANGED <<cdb, conn>>
          /\ \/ Exists(req[r].net) /\ DeleteNetwork(req[r].net)
             \/ table' = table
      BY <1>2 DEF NetworksDeleteRemove
    <2> QED BY <2>1, <1>d, <1>i, <1>r
  <1>3. CASE NetworksConnectSave(r)
    <2>1. /\ req[r].pc = "connect" /\ Return(r) /\ table' = table
          /\ req[r].c \in cdb /\ req[r].net \in Existing
          /\ conn' = [conn EXCEPT ![req[r].c] = @ \cup {req[r].net}]
          /\ cdb' = cdb
      BY <1>t, <1>3 DEF NetworksConnectSave, NobodyReturns
    <2>2. /\ conn'[req[r].c] = conn[req[r].c] \cup {req[r].net}
          /\ \A c \in Container \ {req[r].c} : conn'[c] = conn[c]
      BY <1>t, <2>1
    <2>i. req'[r].pc = "idle" /\ \A q \in Request \ {r} : req'[q] = req[q]
      BY <2>1, <1>i
    <2>3. ConnectedExist' /\ SoughtExist'
      BY <1>t, <1>s, <2>1, <2>2, <2>i
    <2>4. NewIsConnected'
      <3> SUFFICES ASSUME NEW q \in Request, req'[q].pc = "create"
                   PROVE  conn'[req'[q].c] = {req'[q].net} /\ req'[q].c \notin cdb'
        OBVIOUS
      <3>1. req'[q] = req[q] /\ req[q].c \in Container /\ req[q].c \notin cdb
        BY <1>t, <2>i DEF SaversHaveContainer
      <3> QED BY <2>1, <2>2, <3>1
    <2>5. RemovedIsDetached'
      <3> SUFFICES ASSUME NEW q \in Request, req'[q].pc \in {"remove", "pruneremove"},
                          NEW c \in cdb
                   PROVE  req'[q].net \notin conn'[c]
        BY <2>1
      <3>1. q # r /\ req'[q] = req[q] /\ req[q].net \notin conn[c]
        BY <2>i
      <3>2. req[q].net # req[r].net
        BY <2>1, <3>1, AloneOnNetwork
      <3> QED BY <1>t, <2>2, <3>1, <3>2
    <2> QED BY <2>3, <2>4, <2>5
  <1>4. CASE NetworksDisconnectSave(r)
    <2>1. /\ Return(r) /\ UNCHANGED <<table, conn, cdb>>
      BY <1>4 DEF NetworksDisconnectSave, NobodyReturns
    <2> QED BY <2>1, <1>i, <1>r
  <1>7. CASE ContainerCreateSave(r)
    <2>1. /\ req[r].pc = "create" /\ Return(r) /\ table' = table /\ conn' = conn
          /\ conn[req[r].c] = {req[r].net} /\ req[r].net \in Existing
          /\ cdb' = cdb \cup {req[r].c}
      BY <1>7 DEF ContainerCreateSave
    <2>i. req'[r].pc = "idle" /\ \A q \in Request \ {r} : req'[q] = req[q]
      BY <2>1, <1>i
    <2>2. ConnectedExist' /\ SoughtExist'
      BY <1>s, <2>1, <2>i
    \* Two requests that create the container would be at work on one network.
    <2>3. NewIsConnected'
      <3> SUFFICES ASSUME NEW q \in Request, req'[q].pc = "create"
                   PROVE  conn'[req'[q].c] = {req'[q].net} /\ req'[q].c \notin cdb'
        OBVIOUS
      <3>1. /\ q # r /\ req'[q] = req[q] /\ req[q].pc = "create"
            /\ conn[req[q].c] = {req[q].net} /\ req[q].c \notin cdb
        BY <2>i
      <3>2. req[q].net # req[r].net
        BY <2>1, <3>1, AloneOnNetwork
      <3>3. req[q].c # req[r].c
        BY <2>1, <3>1, <3>2
      <3> QED BY <2>1, <3>1, <3>3
    <2>4. RemovedIsDetached'
      <3> SUFFICES ASSUME NEW q \in Request, req'[q].pc \in {"remove", "pruneremove"},
                          NEW c \in cdb'
                   PROVE  req'[q].net \notin conn'[c]
        OBVIOUS
      <3>1. q # r /\ req'[q] = req[q]
        BY <2>i
      <3>2. req[q].net # req[r].net
        BY <2>1, <3>1, AloneOnNetwork
      <3> QED BY <2>1, <3>1, <3>2
    <2> QED BY <2>2, <2>3, <2>4
  <1>5. CASE NetworksPruneNext(r)
    <2>1. UNCHANGED <<table, cdb, conn>>
      BY <1>5 DEF NetworksPruneNext
    <2>3. CASE Return(r)
      BY <2>1, <2>3, <1>i, <1>r
    <2>4. ASSUME NEW id \in req[r].todo,
                 req' = [req EXCEPT ![r].todo = @ \ {id}, ![r].net = id,
                      ![r].pc = IF IsPredefined(id) \/ ContainersInNetwork(id) # {}
                                THEN "prune" ELSE "pruneremove"]
          PROVE  Sound'
      <3>1. /\ req'[r].net = id
            /\ req'[r].pc \in {"prune", "pruneremove"}
            /\ req'[r].pc = "pruneremove" => ContainersInNetwork(id) = {}
            /\ \A q \in Request \ {r} : req'[q] = req[q]
        BY <1>t, <2>4 DEF ReqType
      <3>2. req'[r].pc = "pruneremove" => \A c \in cdb : req'[r].net \notin conn[c]
        BY <3>1 DEF ContainersInNetwork
      <3> QED BY <2>1, <3>1, <3>2, <1>r
    <2> QED BY <1>5, <2>3, <2>4 DEF NetworksPruneNext
  <1>6. CASE NetworksPruneRemove(r)
    <2>1. /\ req[r].pc = "pruneremove" /\ UNCHANGED <<cdb, conn>>
          /\ \/ Exists(req[r].net) /\ DeleteNetwork(req[r].net)
             \/ table' = table
          /\ Return(r) \/ req' = [req EXCEPT ![r].pc = "prune"]
      BY <1>6 DEF NetworksPruneRemove
    <2>3. req'[r].pc \in {"idle", "prune"} /\ \A q \in Request \ {r} : req'[q] = req[q]
      BY <1>t, <2>1, <1>i DEF ReqType
    <2> QED BY <2>1, <2>3, <1>d, <1>r
  <1> QED BY <1>1, <1>2, <1>3, <1>4, <1>5, <1>6, <1>7 DEF Step

\* That stays so while requests keep apart on a network.
LEMMA SoundNext ==
    NetInv /\ Sound /\ Apart /\ NobodyReturns /\ [Next]_vars => Sound'
  <1>1. NetInv /\ Sound /\ UNCHANGED vars => Sound'
    BY DEF vars, Sound, ConnectedExist, SoughtExist, NewIsConnected, RemovedIsDetached,
       Existing, Exists
  <1> QED BY <1>1, ArriveKeepsSound, StepKeepsSound DEF Next

\* A container is left connected to a network that NetworksDelete or
\* NetworksPrune has removed only if two requests were at work on one network
\* at the same time, or a container was removed under a request on it.
THEOREM NeverDangling == Spec => NoDangling
  <1>1. Sound => \A c \in cdb : conn[c] \subseteq Existing
    BY DEF Sound, ConnectedExist
  <1> QED
    BY <1>1, NetInvariant, SoundInit, SoundNext, PTL DEF Spec, NoDangling

=============================================================================
