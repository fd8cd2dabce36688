------------------------------ MODULE Networks ------------------------------
(***************************************************************************)
(* The networks kubedock keeps in its in-memory database, and the handlers  *)
(* that create, connect, disconnect, remove and prune them.  A handler makes*)
(* several database calls without holding a lock.  The database's index on  *)
(* the name of a network overwrites: it does not refuse a name in use.      *)
(***************************************************************************)
EXTENDS Naturals, FiniteSets

CONSTANTS
    NetId,        \* ids of networks
    Name,         \* names of networks
    Predefined,   \* names of the networks loadDefaults creates
    PreId,        \* their ids
    NoNet, NoName,
    Container, NoContainer,
    Request

ASSUME NetAssumption == NoNet \notin NetId /\ NoName \notin Name
ASSUME PredefinedAssumption ==
    /\ Predefined \subseteq Name
    /\ Predefined # {}
    /\ PreId \in [Predefined -> NetId]
    /\ \A m, n \in Predefined : PreId[m] = PreId[n] => m = n
ASSUME NetContainerAssumption == NoContainer \notin Container

VARIABLES
    table,  \* the name of each network in the database
    index,  \* the database's index on the name
    used,   \* ids handed out: a network id is random and never reused
    cdb,    \* containers in the database
    conn,   \* the networks each container's record is connected to
    req     \* the handlers

vars == <<table, index, used, cdb, conn, req>>

Idle == [pc |-> "idle", net |-> NoNet, c |-> NoContainer, todo |-> {}]

\* Type correctness.
TypeOK ==
    /\ table \in [NetId -> Name \cup {NoName}]
    /\ index \in [Name -> NetId \cup {NoNet}]
    /\ used \subseteq NetId
    /\ cdb \subseteq Container
    /\ conn \in [Container -> SUBSET NetId]
    /\ \A id \in NetId : table[id] # NoName => id \in used
    /\ req \in [Request -> [pc : {"idle", "attached", "remove", "connect", "create",
                                  "disconnect", "prune", "pruneremove"},
                            net : NetId \cup {NoNet},
                            c : Container \cup {NoContainer},
                            todo : SUBSET NetId]]

\* The id loadDefaults gave to a predefined network.
DefaultTable(id) ==
    IF \E n \in Predefined : PreId[n] = id
    THEN CHOOSE n \in Predefined : PreId[n] = id
    ELSE NoName

Init ==
    /\ table = [id \in NetId |-> DefaultTable(id)]
    /\ index = [n \in Name |-> IF n \in Predefined THEN PreId[n] ELSE NoNet]
    /\ used = {PreId[n] : n \in Predefined}
    /\ cdb = {}
    /\ conn = [c \in Container |-> {}]
    /\ req = [r \in Request |-> Idle]

Exists(id) == table[id] # NoName
Existing == {id \in NetId : Exists(id)}

\* Mutant: a network is predefined if loadDefaults created it.
IsPredefinedById(id) == \E n \in Predefined : PreId[n] = id

\* A network is predefined by its name.
IsPredefined(id) == table[id] \in Predefined

\* getContainersInNetwork
ContainersInNetwork(id) == {c \in cdb : id \in conn[c]}

\* GetNetworkByNameOrID: what a client can name, by its id or by its name.
Found(id) == Exists(id) \/ \E n \in Name : index[n] = id

Begin(r) == req[r].pc = "idle"

Go(r, pc, id, c) ==
    req' = [req EXCEPT ![r] = [pc |-> pc, net |-> id, c |-> c, todo |-> {}]]

Return(r) == req' = [req EXCEPT ![r] = Idle]

\* Mutant: the index on the name is left alone.
DeleteNetworkKeepName(id) ==
    /\ table' = [table EXCEPT ![id] = NoName]
    /\ index' = index

\* The database deletes the record and the index entry for its name, no
\* matter whose entry that is.
DeleteNetwork(id) ==
    /\ table' = [table EXCEPT ![id] = NoName]
    /\ index' = [index EXCEPT ![table[id]] = NoNet]

----------------------------------------------------------------------------
\* Mutant: the index on the name is not written.
NetworksCreateUnnamed(r, n, id) ==
    /\ Begin(r)
    /\ id \notin used
    /\ used' = used \cup {id}
    /\ table' = [table EXCEPT ![id] = n]
    /\ UNCHANGED <<index, cdb, conn, req>>

NetworksCreate(r, n, id) ==
    /\ Begin(r)
    /\ id \notin used
    /\ used' = used \cup {id}
    /\ table' = [table EXCEPT ![id] = n]
    /\ index' = [index EXCEPT ![n] = id]
    /\ UNCHANGED <<cdb, conn, req>>

\* The lookup of NetworksDelete, and its refusal of predefined networks.
NetworksDelete(r, id) ==
    /\ Begin(r)
    /\ Found(id)
    /\ ~IsPredefined(id)
    /\ Go(r, "attached", id, NoContainer)
    /\ UNCHANGED <<table, index, used, cdb, conn>>

\* Mutant: the check is missing.
NetworksDeleteUnchecked(r) ==
    /\ req[r].pc = "attached"
    /\ Go(r, "remove", req[r].net, NoContainer)
    /\ UNCHANGED <<table, index, used, cdb, conn>>

\* Its check that no container is attached.
NetworksDeleteCheck(r) ==
    /\ req[r].pc = "attached"
    /\ IF ContainersInNetwork(req[r].net) # {}
       THEN Return(r)
       ELSE Go(r, "remove", req[r].net, NoContainer)
    /\ UNCHANGED <<table, index, used, cdb, conn>>

\* The deletion; a network deleted by another request is an error.
NetworksDeleteRemove(r) ==
    /\ req[r].pc = "remove"
    /\ IF Exists(req[r].net) THEN DeleteNetwork(req[r].net)
                             ELSE UNCHANGED <<table, index>>
    /\ Return(r)
    /\ UNCHANGED <<used, cdb, conn>>

\* Mutant: the handler loses the container it looked up.
NetworksConnectNobody(r, id, c) ==
    /\ Begin(r)
    /\ Found(id)
    /\ c \in cdb
    /\ Go(r, "connect", id, NoContainer)
    /\ UNCHANGED <<table, index, used, cdb, conn>>

\* NetworksConnect looks up the network and the container ...
NetworksConnect(r, id, c) ==
    /\ Begin(r)
    /\ Found(id)
    /\ c \in cdb
    /\ Go(r, "connect", id, c)
    /\ UNCHANGED <<table, index, used, cdb, conn>>

\* ... connects the record and saves it, which also inserts one deleted in
\* the meantime.
NetworksConnectSave(r) ==
    /\ req[r].pc = "connect"
    /\ conn' = [conn EXCEPT ![req[r].c] = @ \cup {req[r].net}]
    /\ cdb' = cdb \cup {req[r].c}
    /\ Return(r)
    /\ UNCHANGED <<table, index, used>>

\* NetworksDisconnect refuses predefined networks and networks the container
\* is not connected to.
NetworksDisconnect(r, id, c) ==
    /\ Begin(r)
    /\ Found(id)
    /\ ~IsPredefined(id)
    /\ c \in cdb
    /\ id \in conn[c]
    /\ conn' = [conn EXCEPT ![c] = @ \ {id}]
    /\ Go(r, "disconnect", id, c)
    /\ UNCHANGED <<table, index, used, cdb>>

NetworksDisconnectSave(r) ==
    /\ req[r].pc = "disconnect"
    /\ cdb' = cdb \cup {req[r].c}
    /\ Return(r)
    /\ UNCHANGED <<table, index, used, conn>>

\* NetworksPrune lists the networks ...
NetworksPrune(r) ==
    /\ Begin(r)
    /\ req' = [req EXCEPT ![r] = [Idle EXCEPT !.pc = "prune", !.todo = Existing]]
    /\ UNCHANGED <<table, index, used, cdb, conn>>

\* ... skips the predefined ones and the ones with containers ...
NetworksPruneNext(r) ==
    /\ req[r].pc = "prune"
    /\ \/ /\ req[r].todo = {}
          /\ Return(r)
       \/ \E id \in req[r].todo :
            req' = [req EXCEPT ![r].todo = @ \ {id}, ![r].net = id,
                      ![r].pc = IF IsPredefined(id) \/ ContainersInNetwork(id) # {}
                                THEN "prune" ELSE "pruneremove"]
    /\ UNCHANGED <<table, index, used, cdb, conn>>

\* ... and deletes the others, giving up at the first error.
NetworksPruneRemove(r) ==
    /\ req[r].pc = "pruneremove"
    /\ IF Exists(req[r].net)
       THEN DeleteNetwork(req[r].net) /\ req' = [req EXCEPT ![r].pc = "prune"]
       ELSE UNCHANGED <<table, index>> /\ Return(r)
    /\ UNCHANGED <<used, cdb, conn>>

\* ContainerCreate connects a new record to the network asked for, or else
\* to bridge, both found in the database ...
ContainerCreate(r, id, c) ==
    /\ Begin(r)
    /\ c \notin cdb
    /\ conn[c] = {}
    /\ Found(id)
    /\ conn' = [conn EXCEPT ![c] = {id}]
    /\ Go(r, "create", id, c)
    /\ UNCHANGED <<table, index, used, cdb>>

\* ... and saves it.
ContainerCreateSave(r) ==
    /\ req[r].pc = "create"
    /\ cdb' = cdb \cup {req[r].c}
    /\ Return(r)
    /\ UNCHANGED <<table, index, used, conn>>

ContainerDelete(r, c) ==
    /\ Begin(r)
    /\ c \in cdb
    /\ cdb' = cdb \ {c}
    /\ UNCHANGED <<table, index, used, conn, req>>

----------------------------------------------------------------------------
Arrive(r) ==
    \/ NetworksPrune(r)
    \/ \E id \in NetId :
         \/ NetworksDelete(r, id)
         \/ \E n \in Name : NetworksCreate(r, n, id)
         \/ \E c \in Container :
              NetworksConnect(r, id, c) \/ NetworksDisconnect(r, id, c)
              \/ ContainerCreate(r, id, c)
    \/ \E c \in Container : ContainerDelete(r, c)

Step(r) ==
    \/ NetworksDeleteCheck(r) \/ NetworksDeleteRemove(r)
    \/ NetworksConnectSave(r) \/ NetworksDisconnectSave(r)
    \/ NetworksPruneNext(r) \/ NetworksPruneRemove(r) \/ ContainerCreateSave(r)

Next == \E r \in Request : Arrive(r) \/ Step(r)

Spec == Init /\ [][Next]_vars

----------------------------------------------------------------------------
\* Properties

\* ContainerCreate can always find the predefined networks by name, whatever
\* the clients create, remove and prune.
PredefinedResolvable == \A n \in Predefined : index[n] # NoNet

\* The index on the name only leads to networks in the database that have
\* this name.
IndexIsSound == \A n \in Name : index[n] # NoNet => table[index[n]] = n

DistinctNames == \A i, j \in Existing : table[i] = table[j] => i = j

\* As long as clients choose distinct names, a network in the database is
\* found by its name, however their requests overlap (the comment of
\* GetNetworkByName: it "will return a network with given name, or an error
\* if the instance does not exist").
NameResolves ==
    []DistinctNames => [](\A id \in Existing : index[table[id]] # NoNet)

\* The network a request is at work on.
On(r) == IF req[r].pc \in {"idle", "prune"} THEN NoNet ELSE req[r].net

\* No two requests are at work on one network.
Apart == \A q, r \in Request : q # r /\ On(q) # NoNet => On(q) # On(r)

\* No container was removed under a request that will save it again.
NobodyReturns ==
    \A r \in Request : req[r].pc \in {"connect", "disconnect"} => req[r].c \in cdb

\* There are two ways in which a container can end up connected to a network
\* that is gone, and no third, however else the requests overlap: a request on
\* the same network comes between the check and the removal (or has looked the
\* network up before the removal), or a container removed meanwhile is saved
\* again with the networks it had (NetworksDelete: "cannot delete network,
\* containers attachd"; NetworksPrune).
NoDangling ==
    [](Apart /\ NobodyReturns) => [](\A c \in cdb : conn[c] \subseteq Existing)

=============================================================================
