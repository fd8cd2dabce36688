# A TLA+ verification project for kubedock

kubedock implements the part of the Docker (and podman/libpod) HTTP API that
test suites need and runs every container as a pod in a kubernetes namespace.
It keeps its state in an in-memory database, has no queue and almost no locks:
each HTTP request is a goroutine that reads a shared record, makes kubernetes
calls that take seconds or minutes, and writes the record back. That is where
its difficulties are, and what these modules are about.

## 1. The system

| Component | State | Operations | Talks to |
|---|---|---|---|
| Container lifecycle (`server/routes/{common,docker,libpod}/containers.go`, `common/util.go`, `backend/deploy.go`, `backend/delete.go`) | flags `Running/Completed/Failed/Stopped/Killed` of the container record; pod, services, configmap in the namespace | create, start, stop, kill, restart, delete, wait, inspect, attach, rename | database, events, kubernetes, stop channels |
| Reaper (`reaper/`) | none of its own | every minute: `CleanExecs`, `CleanContainers`, `CleanContainersKubernetes` | database, backend, proxies |
| Database (`model/database.go`) | tables container, exec, network, image with indexes on id, short id and name; records are shared pointers | get, list, save, delete: one transaction each | everybody |
| Events (`events/events.go`, `/events` in `docker/system.go`) | map of observers, one channel of size 1 each | publish, subscribe, unsubscribe | lifecycle handlers, clients |
| Namespace lock, start-up, exit (`main.go`, `server/main.go`) | the lease, a timer, the signal handler | acquire, lose, time out, prune, serve, clean up | kubernetes leases, backend |
| Stop and attach channels (`model/types/container.go`) | an unlocked slice of channels per container | add, signal | proxies, attach sessions, stop/kill/restart/delete |
| Networks (`docker/networks.go`) | table and name index, each container's set of networks | create, delete, connect, disconnect, prune | database |
| Exec (`common/exec.go`, `backend/exec.go`, `util/exec`) | exec records, sessions | create, start, inspect, resize | database, reaper, output multiplexing |
| Output multiplexing (`util/ioproxy`) | a buffer and a flag per stream, a mutex per session | write, delayed flush, final flush | exec, attach, logs |
| Port mapping and proxies (`backend/deploy.go`, `util/reverseproxy`, `util/portforward`) | the record's `MappedPorts` and `HostPorts`; per port a listener, an accept loop, connections | map, listen, accept, forward, stop | stop channels, lifecycle |
| Logs and attach streams (`common/logs.go`, `backend/logs.go`) | a stream per client | follow, end | stop channels, output multiplexing |
| Archives and copy (`common/archive.go`, `backend/copy.go`, `backend/deploy.go`) | the record's `PreArchives`, a configmap, files of the pod | put, get, head | lifecycle |
| Docker-in-docker, images | a goroutine that ends the sidecar; a cache of inspections | | |
| Routing, object construction, command line | none | | |

What makes each part correct, and what makes that hard:

* **Lifecycle.** The record must agree with the namespace: *running* means a live
  pod with its services, *removed* means nothing left. Requests on the same
  container overlap without a lock, a deleted pod stays for a while as
  terminating, any kubernetes call may fail half-way, a status is applied long
  after it was read, and the reaper works next to the handlers.
* **Events.** Every event reaches every subscriber, once and in order, and a slow
  or leaving subscriber must not hold up the handlers that publish. `Publish`
  iterates without the lock and its sends block.
* **Lock.** At most one instance works in the namespace; a candidate does not wait
  for ever; an instance that is told to stop cleans up. Leases are lost,
  processes crash, the timeout races the acquisition.
* **Channels.** Every proxy and attach session of a container is told to stop,
  nobody is told twice (a panic), and telling never blocks.
* **Networks.** Names lead to the right networks, and no container is left on a
  network that is gone. Check and removal are separate transactions.
* **Names.** A name leads to the container the client means, a removed container
  stays removed, and its pod goes with it although the pod's name is made of a name
  that may have changed. The records are changed in place before they are saved,
  so the index keeps entries for names nobody bears.
* **Ports and logs.** A running container is reached on all its ports, and a stop
  ends listeners, accept loops, connections and followers of *this* start without
  getting in the way of the next one. Each proxy is four goroutines that share a
  flag, a listener and a channel.
* **Archives.** A file that was accepted is in the container after its next start,
  over restarts and failed starts. The record, the configmap and the mounts of the
  pod are three places that are brought up to date at different times.
* **Exec and output.** Both streams arrive whole, in order and completely before
  the connection is closed, and the exit code is known by then. Several
  goroutines write to one connection, one of them 100ms late.

`PROJECT.json` lists these hazards one by one, at the line where they bite, with
the properties that watch over them.

## 2. The modules

| Module | Models | Notes |
|---|---|---|
| `Lifecycle` | handlers, backend deploy/delete, `CleanContainers` | `MCLifecycle` gives the shapes of service names |
| `Events` | `Publish`, `Subscribe`, `Unsubscribe`, `/events` | |
| `ContainerService` | an abstract container service in which every operation is one step | what clients rely on |
| `LifecycleRefinement` | the refinement mapping from `Lifecycle` to `ContainerService` | extends `Lifecycle` |
| `NamespaceLock` | `Main`, `run`, lock timeout and exit handlers, `CleanContainersKubernetes` | leader election is external |
| `SignalChannels` | `AddStopChannel`, `SignalStop`, `AddAttachChannel`, `SignalDetach` | |
| `Proxies` | `MapContainerTCPPorts`, reverse proxies and port-forwards, followed logs, over starts and stops | extends `SignalChannels` |
| `Names` | the container table and its indexes, the lookups, create, rename, save, delete, exec by name | |
| `Archives` | `PutArchive`, pre-archives, their configmap and mounts | |
| `Networks` | the network handlers and the name index | |
| `Exec` | exec records, sessions, `CleanExecs`, `IoProxy` | |
| `LifecycleProofs`, `EventsProofs`, `NamespaceLockProofs`, `NetworksProofs`, `NamesProofs`, `ExecProofs`, `ArchivesProofs`, `ProxiesProofs` | theorems | section 4; no run of their own |

### How they correspond to the code

A handler goroutine is a record with a program counter (`req[r]`, `pub[p]`,
`sig[h]`, `session[a]`), and a step is what the scheduler cannot split in a way
others can see: one kubernetes call, one database transaction, one channel
operation, one assignment to a field of a shared record. Names, payloads, labels
and images are model values. Conditions that lead to an early return without any
change of state (a 404, a request that cannot be parsed) are the action's guard.

* **`Lifecycle`.** `rec` holds the flags, `db` the containers in the table, `pod`,
  `svc` and `cm` the namespace. A start is `CreateConfigMap` (`addVolumes`,
  `addPreArchives`), `CreatePod` (an existing pod makes the request a duplicate),
  `AwaitInit` and `TouchDone` (the setup init container), `AwaitReady`,
  `CreateServices` (one service at a time), `GetPodIP`, then the assignments to the
  flags one by one (`AssignFlag`), `SaveContainer`, `Publish`. A failed deployment
  goes through `Rollback`, which deletes the pod only. A deletion is
  `DeleteServices`, `DeleteConfigMaps`, `DeletePods`, each of which may fail while
  the next one still runs. Restart arms a watch, deletes, saves, waits for the
  watch and starts. Attach and put-archive start a container that does not run
  without publishing an event (`ContainerAttach`). `Publish` may block, see the
  fairness below; what it blocks on is in `Events`. The list of objects to delete and
  the single deletes of one kind are one step, so that a deletion fails as a whole and
  no object of that kind is created between the two. Wait and inspect poll the pod's status (`UpdateContainerStatus`)
  with the rate limiter as a choice. The kubelet moves pods on (`PodProgress`) and
  removes terminating ones (`PodGone`). Failures are `Fault`, bounded by
  `MaxFaults`.
* **`Events`.** The iteration over the Go map is `left`: entries it may still
  produce; one deleted before it is reached is not produced, one added meanwhile may
  or may not be. Map access that races the iteration may end the process
  (`crashed`). `audience` and `caught` are history: who was there when a publish
  began, and whether the subscriber a send waits for has left.
* **`NamespaceLock`.** `elect` is the election loop of client-go, `main` the callback
  `OnStartedLeading`, `timer` the lock timeout handler, `exit` the signal handler, and
  `res` the objects labelled with an instance's id. `old` are those of them that are
  older than the reaper keeps anything: its selector names no instance, which is how
  the objects of a crashed instance go. `LongLived` says whether an instance may
  live for so long that its own objects become old, `Made` which kinds of objects its
  requests create (a bound). A server that cannot listen is only logged, and leaves the
  instance *deaf*: with the lock and the reaper, without a server. Any deletion may fail
  and is not repeated. `missed` is history: objects the exit handler failed to delete,
  or that were created after it was done with their kind.
* **`SignalChannels`.** An append is a read and a write of the slice, signalling is a
  send and a close per channel and the reset of the slice at the end.
* **`Proxies`.** The channels of `SignalChannels` are the proxies (a start and an
  exposed port) and the followers of the log; its actions for registering,
  signalling and being notified are used as they are, the actions here add what the
  goroutine does with it. `lst` is a proxy's listener, `done` its flag, `acc` its
  accept loop, `host` who listens on a port of the machine. The backend's delete ends
  the pods (`live`), and a connection with its pod; it may fail, after which the handler
  goes on. A stop signals, deletes and marks the record, a restart deletes first; the start that
  ends a restart is an ordinary `ContainerStart`. `reverseProxy` is called twice, for the
  ports the client chose and then for the mapped ones, and within one call the proxies
  register in goroutines of their own (`Turn`, `Peers`). `Overlap` says whether starts,
  stops and the registrations of followers may overlap besides; `Dialled`, a bound, which
  ports clients connect to. `late` is history: the proxies that found the proxy of an
  earlier start still listening on their port.
* **`Names`.** `table` and `index` are the memdb table and its index on the name. A
  handler changes the shared record and inserts the same pointer, so the transaction
  finds no old version to take out of the index: `SaveContainer` only adds. A pod is
  a container with the name it had at its start; `PodName` is what a lookup by name
  asks for, while deletion selects by the label with the id. A start may fail with or
  without taking its pod back, a deletion may fail and is only logged. Stop looks its
  container up by id or exact name (`GetContainer`), kill, delete and attach also by the
  name of its pod (`GetContainerByNameOrID`); a restart is here a stop and a start. `used`, `raced` and `kept` are history: who has had which name, whether any
  requests have overlapped, and the pods that a failing start or deletion has left.
  `ExecArg` bounds what an exec is created with.
* **`Archives`.** An archive is a model value with the set of files it holds; the
  content of a file is the archive it came from. `AppendPreArchive` is the write half
  of an append to the record's slice whose read half happened when the request
  began (`seen`). A start reads `PreArchives` three times: to decide on the setup
  container, to fill the configmap, and to decide whether to wait for the setup
  container. `planned`, `owed` and `expect` are history: the archives clients were told
  would be copied, those of them a start has to take along, and what each file of
  the pod may therefore hold. A pod that a failed start has left before it was set up
  is set up by the next start that finds it, with the configmap of that time, so
  that it may then hold what that start owes as well. A pod that fails or is not ready in
  time (`PodFails`) is no failing call: it is taken back, its configmap is not, and
  `failed` remembers it. A container that has completed counts as running here, as it
  does in the conditions of `PutArchive`.
* **`ContainerService`** has `known`, `removed`, `status` and `live`. Under the mapping,
  a stop, kill or restart takes effect when the pods are deleted, a start when the
  pod's address is known, a removal when the pods are deleted or, for a container
  that is marked stopped, at once. From there on the record's flags are read as they
  will be once the handler has made the assignments it still has to make
  (`PendingWrites`, `Settled`), and a container about to be taken out of the table
  counts as removed.
* **`Networks`.** `table` and `index` are the memdb table and its unique index on the
  name, which overwrites an entry on insert and deletes it whoever it belongs to.
* **`Exec`.** `lock` is the session's mutex together with what its holder does; `Frame`
  is what it writes next: a complete line (`Write`) or the whole buffer (`Flush`). A
  header and its payload are two writes. Short writes are retried by `writeAll`
  under the lock and are not told apart.

## 3. The runs

Passing runs; each bound is the smallest with which the interesting cases still
happen, and each property has a mutant of the code that breaks it.

| Run | Bounds | Shows |
|---|---|---|
| `lifecycle_sequential` | 1 container with a setup container and 2 services, 6 requests of any kind and the reaper, which do not overlap; terminating pods are gone before the next start | `TypeOK`; `DeletedIsClean`, `RunningIsBacked`, `CompletedIsFinished`: record and namespace agree whenever no handler is at work; `ImplementsService`: every step of every handler is a step of `ContainerService` or invisible to the clients |
| `lifecycle_names` | 2 containers that claim the same 2 names, 3 requests, 1 failing call, pods that terminate slowly | `CreatorOwnsServices`: a start that created the pod has all services or an error |
| `lifecycle_live` | 1 container with a configmap, the handler of a client and the reaper, which overlap, 2 requests, 1 failing call anywhere | `HangsOnlyOnChannels`: a handler that is never done is in the sends of `Publish` or receives from the nil channel of a lost watch; `AgedIsReaped`: no handler keeps an aged container in the database by saving it again |
| `events` | 2 publishers, 2 subscribers, at most 2 events each and 3 together | `TypeOK`, `NoLostEvent`, `InOrder`, `PublishReturns` |
| `lock` | 2 instances whose requests create configmaps and pods at any time; crashes, lost leases, signals, timeouts, deletions and listeners that fail | `TypeOK`, `OneLeaseholderServes`; `ExitLeavesOnlyMissed`: an exit leaves only what was created behind the exit handler or could not be deleted; `CandidateIsSettled`: a candidate gets to start its server or exits; `LeftoversAreReaped`: what a crashed or timed out instance left is gone in the end, if some instance that got the lock keeps running |
| `signal` | 2 attach sessions and a handler | `SerialIsSafe`: without overlap everybody is notified and nobody panics; `SignalReturns` with any overlap |
| `networks` | 1 predefined and 2 other networks, 2 names, 1 container, 2 overlapping requests | `TypeOK`, `PredefinedResolvable`, `IndexIsSound` always; `NameResolves` if names are distinct; `NoDangling`: a container is on a removed network only if two requests were at work on that network, or the container was removed under a request that saves it |
| `exec` | an attached and a detached session of one record, 2 characters printed in chunks that hold up to two newlines | `FramesAreWhole`, `OutputIsComplete`, `SilentAfterClose`, `CodeBeforeClose`, `ReapedForGood`; `SessionsEnd`: whatever flushes are under way, an exec whose command has ended returns |
| `names` | 2 containers and 2 names, of which one ends in `-` and the other; 4 overlapping requests, 1 exec created by name; starts and deletions that fail | `DeletedStaysDeleted`: without overlap only a renamed container can come back; `SerialRenameIsUnique`; `OnlyFailuresLeavePods`: without overlap, the pod of a removed container is one that a failing start or deletion has left; `ExecIsMeant`: as long as no name was given twice, an exec runs where the client meant, with any overlap |
| `proxies` | 2 starts, 2 ports (one chosen by the client, one mapped), 1 connection through the first of them, 1 follower, 1 stop or restart, the reaper, deletions that fail; reverse proxies and port-forwards | `ProxyTypeOK`; `RunningIsServed`: after a restart as well, all ports are served by proxies of the current start, unless an earlier one still listened; `StopEndsAll`: listeners, accept loops, followers, and connections whose pod was deleted |
| `archives` | 4 archives (2 for the same file, 1 with two files, 1 torn), a client that puts and one that starts, stops and restarts, 6 requests, 3 failing calls, pods that fail at any time before they are ready; with and without `--pre-archive` | `AcceptedIsThere`: every file of a running pod is what was last copied or planned; `OnlyFailuresRefuseStart`: what refuses the next start was left by a failing call or a failing pod |

Four requests in `names` are a rename, a removal and two more through the names that
are left in the index. Six in `archives` are two puts, a start that fails, a stop, a
start and a copy; three calls have to fail for a pod to be left behind before it is
set up and for its configmap to be made again. Two starts in `proxies` are what it takes for a port to be listened
on again.

Two characters are enough for the proxies: one on each stream makes them compete,
and an unfinished line followed by a newline is the case in which a delayed flush
finds the buffer empty. Two publishers with two events are the least with which one
can block on what the other has sent. Three requests are the least with which one
container's start can meet what two others left behind.

One run ends in a counterexample to what the documentation says:

| Run | Property | Counterexample |
|---|---|---|
| `lifecycle_terminating` | `RunningIsBacked` | a start right after a stop finds the terminating pod, takes itself for a duplicate and records the container as running; then the pod goes |

A type invariant is checked in the runs above where it is listed. `Names`, `Archives`
and `Exec` define one too; it holds on the same instances and is there for proofs to
build on. That of `SignalChannels` is part of `ProxyTypeOK`, and is proved on its own.

### Fairness

* `Lifecycle`: a goroutine keeps running (weak fairness of `Step`) but for the sends of
  `Publish`, which block as long as an observer does not receive; the kubelet
  removes terminating pods, time passes, the reaper's ticker fires. Nothing is
  assumed about pods becoming ready: `waitReadyState` times out by itself.
* `Events`: strong fairness of `Send`, because senders that wait on a Go channel are
  served in the order in which they came; weak fairness of the rest. Clients
  need not leave or come.
* `NamespaceLock`: processes that are not killed run on and timers fire. Nothing is
  assumed about leases being lost or renewed. Objects grow old, and a pass of the
  reaper that gets through to the services happens again and again.
* `Proxies`: goroutines run on, a connection whose pod is gone ends (its peer is
  gone), clients need neither connect nor leave, pods need not end.
* `SignalChannels`: signalling goroutines run on; receivers may never listen.
* `Exec`: the reaper runs every minute, goroutines run on, and strong fairness of
  `FlushTimer` because a goroutine that waits for a `sync.Mutex` is served after at
  most a millisecond of starvation. A client reads what it is sent or goes away. A
  command need not end.

`CHECK_DEADLOCK` is off where the bounds on requests, events or output let a
behaviour end; `networks` has no such bound and is checked for deadlock.

## 4. The proofs

All theorems hold for arbitrary sets of containers, requests, publishers,
subscribers, instances, networks, names, records, sessions, output, archives, channels,
ports and starts, under
the named assumptions of the modules (which only say that the *no...* values are
different from the others, that flags are Boolean and bounds are natural numbers,
that proxies, followers and handlers are not the same things, that the predefined networks have ids of their own, and what an archive holds). No
finiteness is assumed but that an archive holds finitely many files.
Each inductive invariant was checked with TLC on the instance of its run before it
was proved.

| Module | Theorems | Inductive invariant |
|---|---|---|
| `LifecycleProofs` | `LifecycleTypeCorrect` (`TypeOK`) | `TypeInv`: types; a handler at work is about a container that was created, and one that assigns flags has an assignment left (the head of an empty sequence would be anything) |
| | `CreatorAlwaysOwns` (`CreatorOwnsServices`) | `ClaimInv`: a start at *services* owns those it is done with |
| | `CompletedAlwaysFinished` (`CompletedIsFinished`) | `FinishedInv`: a container that is, or is about to be, marked completed has no pod at work, and is not marked while it is being started |
| | `RunningAlwaysBacked` (`RunningIsBacked`), `DeletedAlwaysClean` (`DeletedIsClean`), `LifecycleImplementsService` (`ImplementsService`) | `OrderlyInv`: up to the first call that fails, the settled flags of each container tell the truth about its pod, services and configmap wherever its handler is |
| `EventsProofs` | `EventsTypeCorrect` (`TypeOK`), `EventsComplete` (`NoLostEvent`), `EventsInOrder` (`InOrder`), `EventsSendToPresent` (`NoSendToGone`, which no run repeats) | `EventsInv`: an iteration has delivered to all of its audience that is neither in `left`, nor the target, nor gone; what is in a channel is not newer than what its publisher sends |
| `NamespaceLockProofs` | `LockTypeCorrect` (`TypeOK`), `LockExcludesLeaseholders` (`OneLeaseholderServes`) | `LockInv`: who renews holds a fresh lease, and nobody gets past waiting without having acquired it |
| | `ExitAlwaysLeavesOnlyMissed` (`ExitLeavesOnlyMissed`) | `ExitProgress`: of the kinds the exit handler is done with, only what it missed is left |
| `NetworksProofs` | `NetworksTypeCorrect` (`TypeOK`), `PredefinedAlwaysResolves`, `IndexAlwaysSound` | `NetInv`: the index leads only to networks of that name; networks about to be removed are not predefined (ids are never reused); a request that saves a container has one |
| | `NameAlwaysResolves` (`NameResolves`) | `NamesLead`: the name of a network leads to it |
| | `NeverDangling` (`NoDangling`) | `Sound`: what a request is about to connect exists, nothing is attached to what it is about to remove, also while requests on other networks go on |
| `NamesProofs` | `NamesTypeCorrect`, `ExecAlwaysMeant` (`ExecIsMeant`) | `BookInv`: whatever bears a name, is indexed by it or was found by it is in the history of names |
| | `PodsAlwaysAccounted` (`OnlyFailuresLeavePods`), `RenameAlwaysUnique` (`SerialRenameIsUnique`), `DeletedAlwaysStays` (`DeletedStaysDeleted`) | `SerialInv`: as long as nothing has overlapped, a pod belongs to a container of the table or to the start that waits for it, or was kept by a failure, what the handler at work has found is still there, and the name it is about to give is free |
| `ExecProofs` | `ExecTypeCorrect`, `FramesAlwaysWhole` (`FramesAreWhole`), `OutputAlwaysComplete` (`OutputIsComplete`), `AlwaysSilentAfterClose` (`SilentAfterClose`), `CodeAlwaysBeforeClose` (`CodeBeforeClose`) | `ExecInv`: who may hold the lock, what an open header announces, where the output is, which codes are saved |
| `ArchivesProofs` | `ArchivesTypeCorrect` | `FlowInv`: types; only puts append and copy, an archive is planned only with `--pre-archive`, and then a put starts nothing |
| | `AcceptedAlwaysThere` (`AcceptedIsThere`) | `AcceptInv`: record, configmap, mounts and pod agree at each step of a start |
| | `StartRefusedOnlyByFailures` (`OnlyFailuresRefuseStart`) | `RestartInv`: how far the start or stop at work has got, as long as no call has failed and no pod has failed since the configmaps were deleted |
| `ProxiesProofs` | `SignalTypeCorrect` (`TypeOK` of `SignalChannels`), `ProxyTypeCorrect` (`ProxyTypeOK`) | `ChannelInv`: types; what is in the slice, or was when somebody read it, is registered, and once; a signaller that closes has a channel to close |
| | `SerialAlwaysSafe` (`SerialIsSafe`) | `SerialInv`: a registered channel is in the slice or closed; what is in the slice is open and empty, but for what the signaller at work has dealt with; the goroutine that registers has read the slice as it is |
| | `RunningAlwaysServed` (`RunningIsServed`) | `ServedInv`: `SerialInv`; how far the proxies of each start are; who listens on a port has its listener open and the other way round; the proxies of the current start are open until the stop at work marks the container stopped |

Why the strengthenings are needed:

* `OneLeaseholderServes`: that two serving instances do not both renew follows
  only from the fact that a renewer is the holder, of which `TypeOK` says nothing.
* The properties of `Lifecycle` speak of containers at rest, and say nothing while a
  handler is at work. Their invariants speak of the *settled* flags, the ones a
  container will have once its handler has made the assignments it still has to make
  (`Settled`), so that a handler that assigns one flag after the other does not
  break them half-way. Most of `LifecycleProofs` is about this: a step of a handler
  changes the settled flags only where it turns to its assignments (`StepSame`), and
  nothing of any other container (`StepBystander`).
* The refinement follows from `OrderlyInv` step by step: the steps that delete pods,
  learn a pod's address or apply a status are those of `ContainerService`, all others
  leave the settled flags and are stutters (`NextRefines`).
* In `Exec`, that a payload is the one its header announced needs that nobody else
  touches the buffer or the connection between the two (`HolderIsRight`,
  `HeaderIsOpen`). That the output is complete needs what the client has read as a
  function of the connection (`Reading`), and that it grows by the payload
  (`ReadingAppend`). That a late flush is silent needs that the buffers are empty
  once the deferred flushes are over (`FlushedIsEmpty`).
* In `Archives`, `AcceptedIsThere` speaks of running pods only. What a pod will show
  follows from a chain: the record yields what is planned (`PlannedIsKept`, which
  rests on `FilesAppend`: an archive that is appended is the last for its file),
  every handler at work owes it (`PlannedIsOwed`), the configmap holds what its start
  owes (`ConfigMapIsOwed`), what is not mounted is not owed (`MountsAreRight`).
* `SerialIsSafe` speaks of signals that are over. That nothing was missed needs that no
  channel is lost between its registration and the signal (`NoneIsLost`), and that the
  emptied slice had only closed channels in it (`Signalling`). Its premise is about the
  next state as well as about this one: `SerialStep` uses `Serial'` where a registration
  or a signal begins, and `Serial` where one goes on.
* `RunningIsServed` speaks of the current start only. That its proxies find their ports
  free, or held by the proxy of an earlier start, needs all the earlier ones: they were registered when their start returned
  (`Generations`), a stop that is over has told every one of them (`StoppedIsTold`),
  and a port that is taken belongs to an open listener
  (`HostIsListener`). Every step of `Proxies` is, for the channels, a step of
  `SignalChannels` (`ChannelSide`), and without overlap such steps are serial
  (`ActiveIsSerial`), so that `SerialStep` is used as it is.

The hypotheses of the theorems about `Lifecycle`, each of which TLC shows to be needed:

| Hypothesis | Where | Without it |
|---|---|---|
| `~Overlap`: requests on one container do not overlap | all but `LifecycleTypeCorrect` | a status read before a start is applied after it; section 5 |
| `PromptDeletion`: a terminating pod is gone before the next start | backed, clean, refinement | the run `lifecycle_terminating` |
| `DistinctServices`: no two containers claim one service name | backed, clean, refinement | a start fails on the name and leaves its pod |
| `faults = 0`, or `MaxFaults = 0` for the refinement: no kubernetes call has failed | backed, clean, refinement | a deletion that failed half-way is not repeated |
| `FileVolumes = {}` | clean | a deletion that skips the backend leaves the configmap of a failed start |

Those of the theorems about `Archives`, again each needed:

| Hypothesis | Where | Without it |
|---|---|---|
| `OneRunner`: starts, stops and restarts come one at a time | both | a restart replaces the configmap before the pod of another start has mounted it; a start that is refused deletes the pod of another, whose configmap stays |
| `OneCopier`: so do puts (they may overlap starts and stops) | accepted | two appends to the slice lose one; section 5 |
| `DistinctBases`: no two files have the same base name | accepted | mounts show the wrong file; section 5 |
Those of `RunningAlwaysServed`, again each needed:

| Hypothesis | Without it |
|---|---|
| `~Overlap`: starts, stops and the registrations of followers do not overlap | two registrations lose one; a container is stopped while it is started |
| `OnePortPerPhase`: at most one port the client chose and at most one it did not | the proxies of one call of `reverseProxy` register at the same time and one can be lost; section 5 |
| `DistinctPorts`: clients choose different local ports | the second proxy fails to listen |
| `DistinctPorts`: none of these is one the kernel picks | a port chosen for one container port, on which nobody listens yet, is picked for another |

The theorems about `Networks` and `Names` have their premises in the properties
themselves (distinct names; no two requests on one network and no container removed
under a request; `~raced`), so has `SerialAlwaysSafe` (registrations and signals one at
a time). Those about `NamespaceLock`, `Exec` and `Events`, like all type invariants,
have none.

`ExecProofs` needs two facts by induction, that a line is a prefix of the buffer and
that flattening a sequence with one more element appends it. The library's induction
theorems cannot be used for that by the provers at hand; `LeastNat`, that a set of
natural numbers that is not empty has a least element, takes their place, and a
claim is proved by looking at the least number for which it fails. In the same way
`GreatestIndex` gives `ArchivesProofs` the last archive for a file.

Only model-checked is liveness, which needs fairness and `ENABLED`: `HangsOnlyOnChannels`,
`AgedIsReaped`, `PublishReturns`, `CandidateIsSettled`, `LeftoversAreReaped`,
`SignalReturns`, `StopEndsAll`, `SessionsEnd`, `ReapedForGood`. All other
properties of the passing runs are proved.

## 5. Observations

What follows came up while modelling. Where a property is named it can be
reproduced by changing a constant of a configuration; the others come from
reading the code and are outside the models.

Lifecycle:

* A container that was stopped is started again, the service name is in use, the
  start fails and keeps the pod; the record still says *stopped*, so delete skips the
  backend and the pod stays (`DeletedIsClean`, with two containers,
  `Ports` being both, `ServiceAliases <- SharedName`, `Ops = {"start", "stop", "delete"}`,
  `MaxOps = 5` in `LifecycleSequential.cfg`).
  README.md:80 says that "it will remove the pod and related services".
* With `Overlap = TRUE`, a status read before a start and applied after it marks a
  restarted container as failed or completed (`CompletedIsFinished`).
* Two overlapping starts of a container with files: the second fails on the
  configmap of the first, and its rollback deletes the first one's pod
  (`RunningIsBacked`, with `FileVolumes = {c1}`).
* A container that is stopped while its completed pod terminates, and then inspected,
  is marked completed; its next start does nothing and reports success
  (`common/containers.go:31`). So does the start after a failed one that was waited
  for, which the abstract service shows as `Observe` of a container that is *created*.
* A restart whose watch could not be created waits on a nil channel for ever
  (`common/containers.go:84`). `HangsOnlyOnChannels` names this hang and the one in
  `Publish`, and shows that there is no third; it would fail without either exception.
* A container that attach, put-archive or restart starts is not announced: only
  `ContainerStart` publishes a *start* event, so that a client that follows the events
  sees a container die or stop that it never saw start.
* The table of signals that `ContainerKill` accepts contains `kil`
  (`common/containers.go:146`): `KILL` is answered with 204 and ignored.

Instances:

* An instance that loses its lease only logs it and goes on serving next to the new
  holder (`LockIsExclusive` as an invariant of `Lock.cfg`; `main.go:81`, README.md:52).
  `OneLeaseholderServes` is what holds.
* The server is not stopped before the cleanup of an exit, and a deletion that fails is
  only logged (`main.go:215`): a request at work creates objects behind the exit handler.
  `ExitLeavesOnlyMissed` shows that these two are all; the objects stay until the reaper
  of a later instance finds them old. README.md:80 says that all the resources are
  deleted before exiting.
* A server that cannot listen is only logged (`main.go:178`): the process keeps the lock
  and renews it, and no other instance gets to serve (`CandidateIsSettled` says
  *started*, not *serving*).
* `DeleteContainersOlderThan` selects services and configmaps by the name of the pod,
  which matches none of them; they go when they are old themselves.

Names:

* The names a container had before stay in the index (`NameLeadsToHolder`). A
  container that was renamed and removed is found by its old name, and a stop
  puts it back into the table; `DeletedStaysDeleted` excepts renamed containers.
* Two networks of the same name: removing one removes the other from the index
  (`NameResolves` without its premise).
* A container connected between the check and the removal of a network stays on it, and
  so does one that is removed and saved again by a request that had looked it up
  (`NoDangling` without one of its premises).
* A container that is marked stopped is deleted without a call to the backend: the pod of
  a later start that was refused on a service name stays (`OnlyFailuresLeavePods` without
  `kept`).
* While a command runs, inspecting its exec gives `Running` false and exit code 0
  (`common/exec.go:79`).

Channels, ports and logs:

* An attach session that ends and a stop both signal the same channel: the second
  close panics (`NoPanic` as an invariant of `Signal.cfg`;
  `types/container.go:514`).
* Concurrent registrations of channels lose one of them (`AllNotified`; in `Proxies`
  with two ports of one call of `reverseProxy`, or with `Overlap = TRUE`, a proxy that no
  stop ends).
* A start that follows soon may find its port still held by the proxy of the earlier one,
  which was told and has not closed yet; the failed `Listen` is only logged, and nobody
  serves the port (`RunningIsServed` without `late`).
* The reaper's `CleanContainers` signals no channel: proxies of a reaped container
  keep their ports until the process ends.
* Ephemeral ports are found by listening and released before the proxies listen, so
  that somebody else may have them by then. A client that closes its sending side
  is not passed on to the remote.

Archives:

* A put that overlaps a start is lost, or makes the start fail because the pod has no
  setup container to wait for. Two puts that overlap lose one (`AcceptedIsThere` with
  two copiers).
* A torn archive is accepted as planned, and skipped with a message in the log when
  the container starts.
* With `--pre-archive`, an archive of several files for a container that was not
  started is an error: it is neither planned nor does it start the container
  (README.md:40 speaks of single files only).
* A pod that fails or is not ready in time is deleted, its configmap is not; when that
  start followed a stop, stop and delete skip the backend, and all later starts are
  refused because the configmap exists. A restart, which does not look at the flags,
  gets out of it (`OnlyFailuresRefuseStart` without its premise `~failed`).
* Files of the same base name in different directories share an item of the
  configmap's volume, and all show the same content (`AcceptedIsThere` with such a
  `Base` and `Torn = {}`). An archive of fewer than five bytes panics the handler
  (`common/archive.go:84`).

Output:

* `Flush` returns from an empty buffer without clearing `flusher`. Once a newline
  comes between a write and its delayed flush, unfinished lines are no longer
  flushed until the next newline or the end of the command, when `OutputIsComplete`
  finds them. A comment of `ioproxy_test.go` says that there is no automatic flushing;
  there is one, until this happens.

Docker-in-docker:

* `handleDindCompleted` (`backend/deploy.go:655`) looks at the pod only when an event
  of type *modified* arrives after its watch was created, and gives up when the status
  is an error: the sidecar of a main container that ended before, or that exits with
  a failure, is not told to end.

## 6. What is not modelled

* Docker-in-docker: one goroutine that waits for the main container and touches a
  file, and a proxy without state.
* Images: a cache of inspections, one insert per pull. With them the images' table of
  the database.
* The streams of an attach session, tar encoding, reading archives out of a
  container, the wire format of logs: I/O and data. The channels that end a stream
  are in `SignalChannels` and `Proxies`, and the multiplexing of output is the same code
  as that in `Exec`.
* Routing, templates, labels, the command line: data without control that others
  could interleave with.
* `Names`, `Archives` and `Proxies` model the parts of a start and a stop that their
  state depends on; the whole of both is in `Lifecycle`.
* The memory model of Go beyond what is said above: assignments to the flags of a
  record are atomic and in order.

## 7. Plan

What section 6 lists is left out, of which the docker-in-docker sidecar would be an
addition to `Lifecycle`'s pods. In `Lifecycle`, separate steps for the list and the single
deletes of a kind would show objects created between the two. The safety properties of
all runs that pass are proved; the cases their hypotheses leave out are in section 5.
