------------------------------ MODULE Proxies ------------------------------
(***************************************************************************)
(* What runs beside a started container and ends with it: a reverse proxy   *)
(* (or a port-forward) for every local port, with its listener, its accept  *)
(* loop and its connections, and the clients that follow the log.  Each of  *)
(* them has a stop channel of the container, see SignalChannels.  One       *)
(* container is started and stopped repeatedly; a proxy is identified by    *)
(* the start it belongs to and the container port it leads to.              *)
(***************************************************************************)
EXTENDS SignalChannels

CONSTANTS
    MaxStarts,  \* bound: starts of the container
    Exposed,    \* TCP ports the container exposes
    Local,      \* ports of the host kubedock runs on
    Ephemeral,  \* those the kernel picks when no port is asked for
    HostPort,   \* the local port a client chose for some of the exposed ports
    Follower,   \* clients that follow the log
    Conn,       \* connections of clients to a local port
    Dialled,    \* bound: the exposed ports that they lead to
    Overlap,    \* may stops, starts and registrations overlap?
    NoPort,     \* not a port
    Free,       \* nobody listens on the port
    NoProxy     \* not a proxy

Start == 1..MaxStarts
Proxy == Start \X Exposed

ASSUME ProxyAssumption ==
    /\ MaxStarts \in Nat
    /\ Channel = Proxy \cup Follower /\ Proxy \cap Follower = {}
    /\ Overlap \in BOOLEAN
    /\ DOMAIN HostPort \subseteq Exposed /\ Dialled \subseteq Exposed
    /\ \A e \in DOMAIN HostPort : HostPort[e] \in Local
    /\ Ephemeral \subseteq Local
    /\ NoPort \notin Local
    /\ {Free, NoProxy} \cap Channel = {}

VARIABLES
    mode,      \* configuration: "forward" (port-forward) or "proxy"
    gen,       \* starts so far; the last one is the current one
    starting,  \* is StartContainer at work?
    running,   \* the record's Running
    stopped,   \* the record's Stopped or Killed
    reaped,    \* has the reaper removed the container?
    live,      \* the starts whose pod is there
    local,     \* the local port of each exposed port, in HostPorts or MappedPorts
    host,      \* who listens on each local port
    lst,       \* each proxy's listener
    done,      \* each proxy's done flag
    acc,       \* each proxy's accept loop
    conn,      \* the connections
    reader,    \* the read loop of each follower
    restarting,\* handlers that restart: they have deleted the pod first
    finished,  \* handlers that have ended
    late       \* history: proxies that found an earlier start's still listening

chVars == <<slice, buf, closed, owner, seen, sig>>
recVars == <<mode, gen, starting, running, stopped, reaped, live, local, restarting, finished>>
netVars == <<host, lst, done, acc, conn, reader, late>>
allVars == <<chVars, recVars, netVars>>

NoConn == [at |-> NoProxy, pc |-> "none"]

\* Type correctness of the record, the proxies and the followers.
ProxyTypeOK ==
    /\ TypeOK
    /\ mode \in {"forward", "proxy"}
    /\ gen \in 0..MaxStarts
    /\ {starting, running, stopped, reaped} \subseteq BOOLEAN
    /\ live \subseteq 1..gen
    /\ local \in [Exposed -> Local \cup {NoPort}]
    /\ host \in [Local -> Proxy \cup {Free}]
    /\ lst \in [Proxy -> {"none", "open", "closed", "failed"}]
    /\ done \in [Proxy -> BOOLEAN]
    /\ acc \in [Proxy -> {"none", "probe", "accept", "ended"}]
    /\ conn \in [Conn -> [at : Proxy \cup {NoProxy},
                          pc : {"none", "dial", "copy", "closed"}]]
    /\ reader \in [Follower -> {"none", "reading", "ended"}]
    /\ restarting \subseteq Handler /\ finished \subseteq Handler
    /\ late \subseteq Proxy

ProxyInit ==
    /\ Init
    /\ mode \in {"forward", "proxy"}
    /\ gen = 0
    /\ starting = FALSE /\ running = FALSE /\ stopped = FALSE /\ reaped = FALSE
    /\ live = {}
    /\ local = [e \in Exposed |-> IF e \in DOMAIN HostPort THEN HostPort[e] ELSE NoPort]
    /\ host = [p \in Local |-> Free]
    /\ lst = [k \in Proxy |-> "none"]
    /\ done = [k \in Proxy |-> FALSE]
    /\ acc = [k \in Proxy |-> "none"]
    /\ conn = [x \in Conn |-> NoConn]
    /\ reader = [f \in Follower |-> "none"]
    /\ restarting = {} /\ finished = {}
    /\ late = {}

----------------------------------------------------------------------------
\* The goroutines in the middle of the registration of a stop channel, and the
\* handlers in the middle of a stop or a restart.
Active ==
    {k \in Channel : owner[k] = "append"}
        \cup {h \in Handler : (sig[h].pc # "idle" \/ h \in restarting) /\ h \notin finished}

Undisturbed == Overlap \/ Active = {}

\* Starting

\* Ports that have a local port keep it; the others get one on which nobody
\* listens now.  The listeners that find them out are closed on return only,
\* so the new ones are distinct.
MapContainerTCPPorts(m) ==
    \A e \in Exposed :
        IF local[e] # NoPort
        THEN m[e] = local[e]
        ELSE /\ m[e] \in Ephemeral /\ host[m[e]] = Free
             /\ \A d \in Exposed \ {e} : local[d] = NoPort => m[d] # m[e]

\* StartContainer, up to the proxies: the pod runs, the ports are mapped.
ContainerStart ==
    /\ ~running /\ ~starting /\ ~reaped
    /\ gen < MaxStarts
    /\ Undisturbed
    /\ gen' = gen + 1
    /\ starting' = TRUE
    /\ live' = live \cup {gen + 1}
    /\ \E m \in [Exposed -> Local \cup {NoPort}] :
         MapContainerTCPPorts(m) /\ local' = m
    /\ UNCHANGED <<chVars, netVars, mode, running, stopped, reaped, restarting, finished>>

\* The proxy of port e is launched: it is registered and, unless it is a
\* port-forward, has listened.
Launched(e) ==
    /\ owner[<<gen, e>>] \in {"waiting", "ended"}
    /\ mode = "proxy" => lst[<<gen, e>>] # "none"

\* The chosen ports come first, and wg.Wait stands between them and the others.
Turn(k) == k[2] \in DOMAIN HostPort \/ \A e \in DOMAIN HostPort : Launched(e)

\* The proxies whose goroutines one call of reverseProxy starts; port-forwards
\* register one after another, in the loop that starts their goroutines.
Peers(k) ==
    {j \in Proxy : /\ mode = "proxy" /\ j[1] = k[1]
                   /\ j[2] \in DOMAIN HostPort <=> k[2] \in DOMAIN HostPort}

\* A proxy registers its stop channel, beside its peers.
Register(k) ==
    /\ starting /\ k[1] = gen
    /\ \/ /\ Turn(k)
          /\ Overlap \/ Active \subseteq Peers(k)
          /\ mode = "forward" => \A j \in Proxy : owner[j] # "append"
          /\ AddRead(k)
       \/ AddWrite(k)
    /\ UNCHANGED <<recVars, netVars>>

\* The remote has been tried for a while; net.Listen fails on a port that is
\* in use, which is only logged.  The goroutines that stop and accept start.
Listen(k) ==
    LET p == local[k[2]] IN
    /\ owner[k] = "waiting"
    /\ lst[k] = "none"
    /\ IF host[p] = Free
       THEN /\ host' = [host EXCEPT ![p] = k]
            /\ lst' = [lst EXCEPT ![k] = "open"]
            /\ acc' = [acc EXCEPT ![k] = "probe"]
            /\ UNCHANGED late
       ELSE /\ lst' = [lst EXCEPT ![k] = "failed"]
            /\ late' = IF host[p][1] < k[1] THEN late \cup {k} ELSE late
            /\ UNCHANGED <<host, acc>>
    /\ UNCHANGED <<chVars, recVars, done, conn, reader>>

\* Mutant: the handler does not wait for the goroutines.
StartReturnsEarly ==
    /\ starting
    /\ \A e \in Exposed : owner[<<gen, e>>] \in {"waiting", "ended"}
    /\ starting' = FALSE
    /\ running' = TRUE
    /\ stopped' = FALSE
    /\ UNCHANGED <<chVars, netVars, mode, gen, reaped, live, local, restarting, finished>>

\* The handler returns once all are launched.
StartReturns ==
    /\ starting
    /\ \A e \in Exposed : Launched(e)
    /\ starting' = FALSE
    /\ running' = TRUE
    /\ stopped' = FALSE
    /\ UNCHANGED <<chVars, netVars, mode, gen, reaped, live, local, restarting, finished>>

----------------------------------------------------------------------------
\* A proxy at work

\* Mutant: the accept loop is not told.
StopSilently(k) ==
    /\ lst[k] = "open"
    /\ Notified(k)
    /\ UNCHANGED <<recVars, netVars>>

\* The goroutine that waits for the stop channel sets done ...
Stop(k) ==
    /\ lst[k] = "open"
    /\ Notified(k)
    /\ done' = [done EXCEPT ![k] = TRUE]
    /\ UNCHANGED <<recVars, host, lst, acc, conn, reader, late>>

\* ... and closes the listener.
CloseListener(k) ==
    /\ owner[k] = "ended"
    /\ lst[k] = "open"
    /\ lst' = [lst EXCEPT ![k] = "closed"]
    /\ host' = [host EXCEPT ![local[k[2]]] = Free]
    /\ UNCHANGED <<chVars, recVars, done, acc, conn, reader, late>>

\* The accept loop reads done and goes on to Accept, or ends.
Loop(k) == acc' = [acc EXCEPT ![k] = IF done[k] THEN "ended" ELSE "accept"]

\* It first waits for the remote, MaxRetry seconds at most.
Probe(k) ==
    /\ acc[k] = "probe"
    /\ Loop(k)
    /\ UNCHANGED <<chVars, recVars, host, lst, done, conn, reader, late>>

\* A client connects and handleConnection gets a goroutine.
Accept(k, x) ==
    /\ k[2] \in Dialled
    /\ acc[k] = "accept"
    /\ lst[k] = "open"
    /\ conn[x] = NoConn
    /\ conn' = [conn EXCEPT ![x] = [at |-> k, pc |-> "dial"]]
    /\ Loop(k)
    /\ UNCHANGED <<chVars, recVars, host, lst, done, reader, late>>

\* Accept on a closed listener is an error; the loop goes on.
AcceptError(k) ==
    /\ acc[k] = "accept"
    /\ lst[k] = "closed"
    /\ Loop(k)
    /\ UNCHANGED <<chVars, recVars, host, lst, done, conn, reader, late>>

\* The remote is dialled until it answers or MaxRetry seconds have passed.
Dial(x) ==
    /\ conn[x].pc = "dial"
    /\ \E pc \in {"copy", "closed"} :
         /\ pc = "copy" => conn[x].at[1] \in live
         /\ conn' = [conn EXCEPT ![x].pc = pc]
    /\ UNCHANGED <<chVars, recVars, host, lst, done, acc, reader, late>>

\* The copy from the remote ends when the remote closes, at the latest with
\* its pod; then both sides are closed.  A client that goes away ends nothing
\* but the copy to the remote.
RemoteCloses(x) ==
    /\ conn[x].pc = "copy"
    /\ conn' = [conn EXCEPT ![x].pc = "closed"]
    /\ UNCHANGED <<chVars, recVars, host, lst, done, acc, reader, late>>

\* The connection's pod is gone.
Orphaned(x) == conn[x].pc = "copy" /\ conn[x].at[1] \notin live

----------------------------------------------------------------------------
\* Following the log

FollowRegister(f) ==
    /\ owner[f] = "new" => running /\ ~reaped
    /\ (Undisturbed /\ AddRead(f)) \/ AddWrite(f)
    /\ UNCHANGED <<recVars, netVars>>

\* getLogs opens the stream, unless there is no pod any more.
OpenStream(f) ==
    /\ owner[f] = "waiting"
    /\ reader[f] = "none"
    /\ reader' = [reader EXCEPT ![f] = IF gen \in live THEN "reading" ELSE "ended"]
    /\ UNCHANGED <<chVars, recVars, host, lst, done, acc, conn, late>>

\* The stop channel's goroutine closes the stream, which ends the read.
StopFollower(f) ==
    /\ reader[f] # "none"
    /\ Notified(f)
    /\ reader' = [reader EXCEPT ![f] = "ended"]
    /\ UNCHANGED <<recVars, host, lst, done, acc, conn, late>>

\* The log ends, or a write to the client fails: the handler returns and the
\* goroutine stays behind with the channel.
ReaderEnds(f) ==
    /\ reader[f] = "reading"
    /\ reader' = [reader EXCEPT ![f] = "ended"]
    /\ UNCHANGED <<chVars, recVars, host, lst, done, acc, conn, late>>

----------------------------------------------------------------------------
\* Stopping

\* May a handler that ends what was started begin?
MayStop(h) ==
    /\ gen > 0 /\ ~reaped
    /\ Undisturbed /\ (starting => Overlap)
    /\ sig[h].pc = "idle" /\ h \notin restarting

\* Stop, kill and delete: SignalStop first ...
ContainerStop(h) ==
    /\ MayStop(h)
    /\ SignalBegin(h)
    /\ UNCHANGED <<recVars, netVars>>

SignalStop(h) ==
    /\ Send(h) \/ Close(h) \/ SignalEnd(h)
    /\ UNCHANGED <<recVars, netVars>>

\* The backend's DeleteContainer; when it fails, which is only logged, the pod
\* may stay.
Undeploy == live' \in {live, {}}

\* ... then the backend's DeleteContainer, unless the container is marked
\* stopped, and the record.
DeleteContainer(h) ==
    /\ sig[h].pc = "done"
    /\ h \notin finished
    /\ IF stopped \/ h \in restarting THEN UNCHANGED live ELSE Undeploy
    /\ running' = FALSE
    /\ stopped' = TRUE
    /\ finished' = finished \cup {h}
    /\ UNCHANGED <<chVars, netVars, mode, gen, starting, reaped, local, restarting>>

\* A restart deletes the pod first, stopped or not ...
ContainerRestart(h) ==
    /\ MayStop(h)
    /\ Undeploy
    /\ restarting' = restarting \cup {h}
    /\ UNCHANGED <<chVars, netVars, mode, gen, starting, running, stopped, reaped, local, finished>>

\* ... then signals, and marks the record as a stop does.  Its StartContainer
\* is a ContainerStart like any other.
RestartSignals(h) ==
    /\ h \in restarting
    /\ SignalBegin(h)
    /\ UNCHANGED <<recVars, netVars>>

\* The reaper's CleanContainers deletes the pod and the record, and signals
\* nobody.
CleanContainers ==
    /\ gen > 0 /\ ~starting /\ ~reaped
    /\ reaped' = TRUE
    /\ Undeploy
    /\ UNCHANGED <<chVars, netVars, mode, gen, starting, running, stopped, local, restarting, finished>>

----------------------------------------------------------------------------
ProxyStep(k) ==
    \/ Register(k) \/ Listen(k) \/ Stop(k) \/ CloseListener(k)
    \/ Probe(k) \/ AcceptError(k)

FollowerStep(f) == OpenStream(f) \/ StopFollower(f)

HandlerStep(h) == SignalStop(h) \/ DeleteContainer(h) \/ RestartSignals(h)

ProxyNext ==
    \/ ContainerStart \/ StartReturns \/ CleanContainers
    \/ \E k \in Proxy : ProxyStep(k) \/ \E x \in Conn : Accept(k, x)
    \/ \E x \in Conn : Dial(x) \/ RemoteCloses(x)
    \/ \E f \in Follower : FollowRegister(f) \/ FollowerStep(f) \/ ReaderEnds(f)
    \/ \E h \in Handler : ContainerStop(h) \/ ContainerRestart(h) \/ HandlerStep(h)

ProxySpec == ProxyInit /\ [][ProxyNext]_allVars

\* Goroutines keep running; an open connection ends with its pod.
ProxyFairness ==
    /\ WF_allVars(StartReturns)
    /\ \A k \in Proxy : WF_allVars(ProxyStep(k))
    /\ \A x \in Conn : WF_allVars(Dial(x) \/ (Orphaned(x) /\ RemoteCloses(x)))
    /\ \A f \in Follower : WF_allVars(FollowerStep(f) \/ (owner[f] # "new" /\ FollowRegister(f)))
    /\ \A h \in Handler : WF_allVars(HandlerStep(h))

FairProxySpec == ProxySpec /\ ProxyFairness

----------------------------------------------------------------------------
\* Properties

\* What a stop has to end of a proxy or of a follower.  A connection whose pod
\* could not be deleted goes on.
Ended(k) ==
    IF k \in Follower
    THEN reader[k] = "ended"
    ELSE /\ lst[k] \in {"closed", "failed"}
         /\ acc[k] \in {"none", "ended"}
         /\ \A x \in Conn : conn[x].at = k => conn[x].pc = "closed" \/ k[1] \in live

\* Without overlap, everything that had a stop channel when a stop or a restart
\* signalled comes to its end: the port is released, the accept loop ends and,
\* if the pod is gone, so do the connections; the log is no longer followed
\* (the comment of AddStopChannel: "channels that should be notified when
\* SignalStop is called").
StopEndsAll ==
    \A h \in Handler : h \in finished ~> \A k \in sig[h].must : Ended(k)

\* Without overlap, a running container is reached on each of its ports by the
\* proxy of the current start, and a stop would notify that proxy, however many
\* starts, stops and restarts went before.  Only a proxy that found an earlier
\* start's proxy still listening on its port is not reached.
RunningIsServed ==
    running /\ mode = "proxy" /\ Active = {} =>
        \A e \in Exposed : /\ host[local[e]] = <<gen, e>> \/ <<gen, e>> \in late
                           /\ \E i \in DOMAIN slice : slice[i] = <<gen, e>>

=============================================================================
