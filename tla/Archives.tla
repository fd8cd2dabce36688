------------------------------ MODULE Archives ------------------------------
(***************************************************************************)
(* Copying archives to a container.  An archive for a container that runs   *)
(* is unpacked in its pod.  One for a container that does not run either    *)
(* starts it, or, with --pre-archive, is kept in the record and turned into *)
(* a configmap when the container is started; the files of the configmap    *)
(* are mounted, read-only, before the main container runs.                  *)
(*                                                                          *)
(* One container; every request is a goroutine of its own.  The content of  *)
(* a file is the archive it came from.                                      *)
(***************************************************************************)
EXTENDS Naturals, Sequences, FiniteSets

CONSTANTS
    Archive,    \* archives, with the path they are put to
    File,       \* paths of regular files
    Content,    \* the regular files an archive holds
    Torn,       \* archives that break off after their first regular file
    Base,       \* the last element of a path
    Copier,     \* goroutines of the requests that put archives
    Runner,     \* goroutines of the requests that start and stop
    NoArchive,  \* not an archive
    MaxOps,     \* bound: requests issued in a behaviour
    MaxFaults   \* bound: kubernetes calls that fail in a behaviour

Request == Copier \cup Runner
Files == [File -> Archive \cup {NoArchive}]
NoFiles == [f \in File |-> NoArchive]
\* For every file, what it may hold.
Choices == [File -> SUBSET (Archive \cup {NoArchive})]
NoChoices == [f \in File |-> {NoArchive}]

ASSUME ArchiveAssumption ==
    /\ NoArchive \notin Archive
    /\ Content \in [Archive -> SUBSET File]
    /\ \A a \in Archive : IsFiniteSet(Content[a])
    /\ Torn \subseteq {a \in Archive : Cardinality(Content[a]) = 1}
    /\ File = DOMAIN Base
ASSUME RequestAssumption == Copier \cap Runner = {}
ASSUME BoundAssumption == MaxOps \in Nat /\ MaxFaults \in Nat

VARIABLES
    PreArchive,  \* the --pre-archive flag
    pre,         \* the record's PreArchives
    state,       \* the record's flags; a completed container is a running one
    cm,          \* the configmap of the pre-archives: {} or its data
    pod,         \* the pod
    req,         \* the handler goroutines
    issued,      \* requests issued so far
    faults,      \* kubernetes calls that failed so far
    failed,      \* history: has a pod failed since the configmap was deleted?
    planned,     \* history: the last archive planned for each file
    expect       \* history: what each file of the pod may hold

vars == <<PreArchive, pre, state, cm, pod, req, issued, faults, failed, planned, expect>>

NoPod == [phase |-> "none", setup |-> FALSE, mounted |-> {}, files |-> NoFiles]

\* seen is the slice PutArchive appends to, mounts the files startContainer
\* found, owed the history of what was planned when the request began or since.
Idle == [op |-> "none", pc |-> "idle", archive |-> NoArchive, seen |-> <<>>,
         setup |-> FALSE, mounts |-> {}, owed |-> NoChoices]

\* Type correctness of the record, the namespace and the handlers.
TypeOK ==
    /\ PreArchive \in BOOLEAN
    /\ pre \in Seq(Archive)
    /\ state \in {"created", "running", "stopped"}
    /\ cm \subseteq Files /\ Cardinality(cm) <= 1
    /\ pod \in [phase : {"none", "setup", "starting", "running"},
                setup : BOOLEAN, mounted : SUBSET File, files : Files]
    /\ req \in [Request -> [op : {"none", "put", "start", "stop", "restart"},
                            pc : {"idle", "append", "configmap", "create", "volumes", "ready",
                                  "started", "rollback", "copy", "delcm", "delpod", "ended"},
                            archive : Archive \cup {NoArchive}, seen : Seq(Archive),
                            setup : BOOLEAN, mounts : SUBSET File, owed : Choices]]
    /\ issued \in 0..MaxOps
    /\ faults \in 0..MaxFaults
    /\ failed \in BOOLEAN
    /\ planned \in Files
    /\ expect \in Choices

Init ==
    /\ PreArchive \in BOOLEAN
    /\ pre = <<>>
    /\ state = "created"
    /\ cm = {}
    /\ pod = NoPod
    /\ req = [r \in Request |-> Idle]
    /\ issued = 0
    /\ faults = 0
    /\ failed = FALSE
    /\ planned = NoFiles
    /\ expect = NoChoices

----------------------------------------------------------------------------
\* What is in an archive

\* A reader that fails counts what it has read so far.
IsSingleFileArchive(a) == Cardinality(Content[a]) = 1

\* The names in a torn archive are an error.
Readable(a) == a \notin Torn

\* The last archive for a file wins.  An archive that cannot be read to its
\* end is skipped with a message in the log.
GetPreArchiveFiles(archives) ==
    [f \in File |->
        LET for == {i \in DOMAIN archives :
                        Content[archives[i]] = {f} /\ Readable(archives[i])}
        IN  IF for = {} THEN NoArchive
            ELSE archives[CHOOSE i \in for : \A j \in for : i >= j]]

Present(files) == {f \in File : files[f] # NoArchive}

\* What the mounts of a configmap show: the volume's items are named by the
\* last element of the path only, so that one of several files of the same
\* base name is what all of them show.
Mounted(files) ==
    {m \in Files : \A f \in File :
        IF f \notin Present(files)
        THEN m[f] = NoArchive
        ELSE \E g \in Present(files) :
               /\ Base[g] = Base[f]
               /\ m[f] = files[g]
               /\ \A h \in Present(files) : Base[h] = Base[f] => m[h] = m[f]}

----------------------------------------------------------------------------
Fault == /\ faults < MaxFaults
         /\ faults' = faults + 1
         /\ failed' = failed

NoFault == UNCHANGED <<faults, failed>>

\* The pod fails, is not ready in time or its status cannot be read.
PodFails == /\ failed' = TRUE
            /\ faults' = faults

At(r, pc) == req[r].pc = pc
Goto(r, pc) == req' = [req EXCEPT ![r].pc = pc]
Return(r) == req' = [req EXCEPT ![r] = Idle]
AllIdle == \A r \in Request : At(r, "idle")

Begin(r, op, a, pc) ==
    /\ At(r, "idle")
    /\ issued < MaxOps
    /\ issued' = issued + 1
    /\ req' = [req EXCEPT ![r] = [Idle EXCEPT !.op = op, !.archive = a, !.pc = pc,
                   !.seen = IF pc = "append" THEN pre ELSE <<>>,
                   !.owed = [f \in File |-> {planned[f]}]]]
    /\ UNCHANGED <<PreArchive, pre, state, cm, pod, faults, failed, planned, expect>>

\* PutArchive, up to its first call: the archive is planned, or the container
\* is started first, or neither.
PutArchive(r, a) ==
    Begin(r, "put", a,
          CASE state # "running" /\ PreArchive /\ IsSingleFileArchive(a) -> "append"
            [] state # "running" /\ ~PreArchive -> "configmap"
            [] OTHER -> "copy")

\* The start of a container that runs only publishes an event.
ContainerStart(r) ==
    /\ state # "running"
    /\ Begin(r, "start", NoArchive, "configmap")

\* Stop and kill skip the backend for a container marked stopped.
ContainerStop(r) ==
    Begin(r, "stop", NoArchive, IF state = "stopped" THEN "ended" ELSE "delcm")

ContainerRestart(r) == Begin(r, "restart", NoArchive, "delcm")

----------------------------------------------------------------------------
\* The slice is written back with the archive appended, and the client is told
\* "planned archive to be copied to container".
AppendPreArchive(r) ==
    LET a == req[r].archive
        files == IF Readable(a) THEN Content[a] ELSE {}
    IN
    /\ At(r, "append")
    /\ pre' = Append(req[r].seen, a)
    /\ planned' = [f \in File |-> IF f \in files THEN a ELSE planned[f]]
    /\ req' = [q \in Request |->
                 IF q = r THEN Idle
                 ELSE [req[q] EXCEPT !.owed =
                         [f \in File |-> IF f \in files THEN @[f] \cup {a} ELSE @[f]]]]
    /\ UNCHANGED <<PreArchive, state, cm, pod, issued, faults, failed, expect>>

\* Mutant: a configmap that is there already is used.
AddPreArchivesTolerant(r) ==
    LET files == GetPreArchiveFiles(pre) IN
    /\ At(r, "configmap")
    /\ cm' = IF Present(files) # {} /\ cm = {} THEN {files} ELSE cm
    /\ req' = [req EXCEPT ![r].pc = "create", ![r].setup = pre # <<>>,
                          ![r].mounts = Present(files)]
    /\ UNCHANGED <<PreArchive, pre, state, pod, issued, faults, failed, planned, expect>>

\* A configmap of the same name is an error.
CreateConfigMapFromRaw(files) == cm = {} /\ cm' = {files}

\* startContainer builds the pod: with pre-archives it has a setup container
\* and, if there is a file among them, a configmap, which must be new.
AddPreArchives(r) ==
    LET files == GetPreArchiveFiles(pre) IN
    /\ At(r, "configmap")
    /\ \/ /\ IF Present(files) = {} THEN cm' = cm ELSE CreateConfigMapFromRaw(files)
          /\ req' = [req EXCEPT ![r].pc = "create", ![r].setup = pre # <<>>,
                                ![r].mounts = Present(files)]
          /\ NoFault
       \/ /\ Present(files) # {} /\ cm # {}      \* AlreadyExists
          /\ cm' = cm
          /\ Goto(r, "rollback")
          /\ NoFault
       \/ /\ Present(files) # {}
          /\ cm' = cm
          /\ Goto(r, "rollback")
          /\ Fault
    /\ UNCHANGED <<PreArchive, pre, state, pod, issued, planned, expect>>

\* The pod is created; one that exists is kept, and set up if it was not.
CreatePod(r) ==
    /\ At(r, "create")
    /\ \/ /\ pod # NoPod
          /\ pod' = pod
          /\ expect' = IF pod.phase = "setup"
                       THEN [f \in File |-> expect[f] \cup req[r].owed[f]]
                       ELSE expect
          /\ Goto(r, "volumes")
          /\ NoFault
       \/ /\ pod = NoPod
          /\ pod' = [NoPod EXCEPT !.phase = IF req[r].setup THEN "setup" ELSE "starting",
                                  !.setup = req[r].setup, !.mounted = req[r].mounts]
          /\ expect' = req[r].owed
          /\ Goto(r, "volumes")
          /\ NoFault
       \/ /\ UNCHANGED <<pod, expect>>
          /\ Goto(r, "rollback")
          /\ Fault
    /\ UNCHANGED <<PreArchive, pre, state, cm, issued, planned>>

\* HasPreArchives is asked again.  copyVolumeFolders waits for the setup
\* container, in vain if the pod has none or cannot mount its files, and tells
\* it to end.
CopyVolumeFolders(r) ==
    /\ At(r, "volumes")
    /\ \/ pre = <<>> /\ pod' = pod /\ Goto(r, "ready") /\ NoFault
       \/ /\ pre # <<>> /\ pod.setup
          /\ \/ pod.phase # "setup" /\ pod' = pod
             \/ /\ pod.phase = "setup"
                /\ \E data \in IF pod.mounted = {} THEN {NoFiles} ELSE cm :
                   \E m \in Mounted(data) :
                     /\ pod.mounted \subseteq Present(data)
                     /\ pod' = [pod EXCEPT !.phase = "starting", !.files =
                                  [f \in File |-> IF f \in pod.mounted THEN m[f] ELSE @[f]]]
          /\ Goto(r, "ready")
          /\ NoFault
       \/ pre # <<>> /\ ~pod.setup /\ pod' = pod /\ Goto(r, "rollback") /\ NoFault
       \/ pre # <<>> /\ pod' = pod /\ Goto(r, "rollback") /\ PodFails
    /\ UNCHANGED <<PreArchive, pre, state, cm, issued, planned, expect>>

\* waitReadyState.
AwaitReady(r) ==
    /\ At(r, "ready")
    /\ \/ /\ pod.phase \in {"starting", "running"}
          /\ pod' = [pod EXCEPT !.phase = "running"]
          /\ Goto(r, "started")
          /\ NoFault
       \/ /\ pod.phase \in {"none", "setup"}
          /\ pod' = pod
          /\ Goto(r, "rollback")
          /\ NoFault
       \/ /\ pod' = pod
          /\ Goto(r, "rollback")
          /\ PodFails
    /\ UNCHANGED <<PreArchive, pre, state, cm, issued, planned, expect>>

\* The flags of a container that was started; PutArchive goes on to copy.
Started(r) ==
    /\ At(r, "started")
    /\ state' = "running"
    /\ IF req[r].op = "put" THEN Goto(r, "copy") ELSE Return(r)
    /\ UNCHANGED <<PreArchive, pre, cm, pod, issued, faults, failed, planned, expect>>

\* The pod, and only the pod, of a failed start is deleted.
Rollback(r) ==
    /\ At(r, "rollback")
    /\ \/ pod' = NoPod /\ NoFault
       \/ pod' = pod /\ Fault
    /\ Return(r)
    /\ UNCHANGED <<PreArchive, pre, state, cm, issued, planned, expect>>

\* CopyToContainer: tar in the main container.  It fails without one, on a
\* file that is mounted and on a torn archive, with some of the files written.
CopyToContainer(r) ==
    LET a == req[r].archive
        Written(fs) == [pod EXCEPT !.files = [f \in File |-> IF f \in fs THEN a ELSE @[f]]]
    IN
    /\ At(r, "copy")
    /\ \/ /\ pod.phase = "running"
          /\ Content[a] \cap pod.mounted = {}
          /\ Readable(a)
          /\ pod' = Written(Content[a])
          /\ expect' = [f \in File |-> IF f \in Content[a] THEN {a} ELSE expect[f]]
          /\ NoFault
       \/ /\ pod.phase # "running"
          /\ UNCHANGED <<pod, expect>>
          /\ NoFault
       \/ \E fs \in SUBSET (Content[a] \ pod.mounted) :
            /\ pod.phase = "running"
            /\ pod' = Written(fs)
            /\ expect' = [f \in File |-> IF f \in fs THEN expect[f] \cup {a} ELSE expect[f]]
            /\ IF Content[a] \cap pod.mounted = {} /\ Readable(a) THEN Fault ELSE NoFault
    /\ Return(r)
    /\ UNCHANGED <<PreArchive, pre, state, cm, issued, planned>>

\* Mutant: the configmaps are not deleted.
DeleteConfigMapsNot(r) ==
    /\ At(r, "delcm")
    /\ Goto(r, "delpod")
    /\ failed' = FALSE
    /\ UNCHANGED <<PreArchive, pre, state, cm, pod, issued, faults, planned, expect>>

DeleteConfigMaps(r) ==
    /\ At(r, "delcm")
    /\ \/ cm' = {} /\ failed' = FALSE /\ faults' = faults
       \/ cm' = cm /\ Fault
    /\ Goto(r, "delpod")
    /\ UNCHANGED <<PreArchive, pre, state, pod, issued, planned, expect>>

DeletePods(r) ==
    /\ At(r, "delpod")
    /\ \/ pod' = NoPod /\ NoFault
       \/ pod' = pod /\ Fault
    /\ Goto(r, "ended")
    /\ UNCHANGED <<PreArchive, pre, state, cm, issued, planned, expect>>

\* The flags of a container that was stopped; a restart starts it again.
EndedFlags(r) ==
    /\ At(r, "ended")
    /\ state' = "stopped"
    /\ IF req[r].op = "restart" THEN Goto(r, "configmap") ELSE Return(r)
    /\ UNCHANGED <<PreArchive, pre, cm, pod, issued, faults, failed, planned, expect>>

----------------------------------------------------------------------------
Step(r) ==
    \/ AppendPreArchive(r) \/ AddPreArchives(r) \/ CreatePod(r)
    \/ CopyVolumeFolders(r) \/ AwaitReady(r) \/ Started(r) \/ Rollback(r)
    \/ CopyToContainer(r) \/ DeleteConfigMaps(r) \/ DeletePods(r) \/ EndedFlags(r)

Next ==
    \/ \E r \in Copier, a \in Archive : PutArchive(r, a)
    \/ \E r \in Runner : ContainerStart(r) \/ ContainerStop(r) \/ ContainerRestart(r)
    \/ \E r \in Request : Step(r)

Spec == Init /\ [][Next]_vars

----------------------------------------------------------------------------
\* Properties

\* Every file of a running pod holds what was last copied to this pod or else
\* what had been planned, and answered, before the start that made the pod
\* began (or, overlapping it, since), over all stops, restarts and failed
\* starts (the answer of PutArchive: "planned archive to be copied to
\* container").  A pod that was left behind before it was set up may get what
\* had been planned when the start that sets it up began.  A copy that failed
\* may have written some of its files, and of a torn archive that was planned
\* nothing is expected.
AcceptedIsThere ==
    pod.phase = "running" => \A f \in File : pod.files[f] \in expect[f]

\* With --pre-archive, a container that does not run has no pod and no
\* configmap that would refuse its next start, as long as no kubernetes call
\* has failed and no pod has failed, or was not ready in time, since the
\* configmaps of the container were last deleted; even when a put that overlaps
\* a start made that start fail.
OnlyFailuresRefuseStart ==
    PreArchive /\ faults = 0 /\ ~failed /\ AllIdle /\ state # "running" =>
        cm = {} /\ pod = NoPod

=============================================================================
