--------------------------- MODULE ArchivesProofs ---------------------------
(***************************************************************************)
(* Proofs about Archives, for any archives and files, any number of failing *)
(* calls, and puts that overlap starts and stops.                           *)
(***************************************************************************)
EXTENDS Archives, SequenceTheorems, FiniteSetTheorems, WellFoundedInduction, TLAPS

----------------------------------------------------------------------------
(* Hypotheses. *)

\* Starts, stops and restarts come one at a time.
OneRunner == \A r, q \in Runner : r = q

\* So do puts: the append to the record's slice is not atomic.
OneCopier == \A r, q \in Copier : r = q

\* No two files have the same last element of their paths.
DistinctBases == \A f, g \in File : Base[f] = Base[g] => f = g

----------------------------------------------------------------------------
(* The inductive invariants. *)

StartPhase == {"configmap", "create", "volumes", "ready", "started", "rollback"}

\* Where the handlers may be: only puts append and copy, an archive is planned
\* only with --pre-archive, and then a put starts nothing.
Flow(r) ==
    /\ r \in Copier /\ ~At(r, "idle") => req[r].op = "put" /\ req[r].archive \in Archive
    /\ r \in Runner => req[r].op # "put" /\ req[r].pc \notin {"append", "copy"}
    /\ At(r, "append") => PreArchive /\ IsSingleFileArchive(req[r].archive)
    /\ PreArchive /\ r \in Copier => req[r].pc \in {"idle", "append", "copy"}

FlowInv == TypeOK /\ \A r \in Request : Flow(r)

\* What was planned is in the record, and nothing is lost by an append.
PlannedIsKept ==
    /\ planned = GetPreArchiveFiles(pre)
    /\ ~PreArchive => pre = <<>>
    /\ \A r \in Request : At(r, "append") => req[r].seen = pre

\* A handler at work owes what is planned.
PlannedIsOwed ==
    \A r \in Request : ~At(r, "idle") => \A f \in File : planned[f] \in req[r].owed[f]

\* There is a configmap only if a file is planned.  It holds what the start that
\* made it, and the pod it sets up, owe.
ConfigMapIsOwed ==
    /\ cm # {} => Present(planned) # {}
    /\ \A r \in Request :
         /\ At(r, "create") => \A data \in cm, f \in File : data[f] \in req[r].owed[f]
         /\ At(r, "volumes") /\ pod.phase = "setup" =>
              \A data \in cm, f \in File : data[f] \in expect[f]

\* What a start does not mount it does not owe; a pod with mounts has a setup
\* container.
MountsAreRight ==
    \A r \in Request : At(r, "create") =>
        /\ \A f \in File \ req[r].mounts : NoArchive \in req[r].owed[f]
        /\ req[r].mounts # {} => req[r].setup

\* The files of a pod are as expected, the mounted ones once it is set up.
PodIsExpected ==
    pod.phase # "none" =>
        \A f \in File : f \notin pod.mounted \/ pod.phase # "setup" =>
            pod.files[f] \in expect[f]

AcceptInv ==
    FlowInv /\ PlannedIsKept /\ PlannedIsOwed /\ ConfigMapIsOwed /\ MountsAreRight
    /\ PodIsExpected

\* How far a start or a stop has got, up to the first call that fails.
Progress(r) ==
    /\ req[r].pc \in StartPhase => state # "running"
    /\ req[r].pc \in {"configmap", "ended"} => cm = {} /\ pod = NoPod
    /\ At(r, "create") =>
         /\ pod = NoPod
         /\ IF req[r].setup THEN pre # <<>> ELSE cm = {}
    /\ At(r, "volumes") =>
         IF pod.setup THEN pre # <<>> /\ pod.phase = "setup"
                      ELSE cm = {} /\ pod.phase = "starting"
    /\ At(r, "ready") => pod.phase = "starting"
    /\ req[r].pc \in {"rollback", "delpod"} => cm = {}

\* No call has failed, and no pod since the configmap was last deleted.
Good == faults = 0 /\ ~failed

RestartInv ==
    PreArchive /\ Good =>
        /\ (\A r \in Runner : At(r, "idle")) /\ state # "running" => cm = {} /\ pod = NoPod
        /\ \A r \in Runner : Progress(r)

----------------------------------------------------------------------------
(* The last of the archives for a file. *)

\* The order of the natural numbers is a well-founded relation.
LEMMA NatOrder ==
    \E R : /\ IsWellFoundedOn(R, Nat)
           /\ \A x, y \in Nat : <<y, x>> \in R <=> y < x
  <1>1. IsWellFoundedOn(OpToRel(<, Nat), Nat)
    BY NatLessThanWellFounded
  <1>2. \A x, y \in Nat : <<y, x>> \in OpToRel(<, Nat) <=> y < x
    BY DEF OpToRel
  <1> QED BY <1>1, <1>2, Zenon

\* A set of indices that is not empty has a greatest one: take the index that
\* is closest to the end.
LEMMA GreatestIndex ==
    ASSUME NEW n \in Nat, NEW T \in SUBSET (1..n), T # {}
    PROVE  \E i \in T : \A j \in T : i >= j
  <1> DEFINE D == {d \in Nat : \E i \in T : d = n - i}
  <1>0. \A i \in T : n - i \in Nat
    OBVIOUS
  <1>1. D \in SUBSET Nat /\ D # {}
    BY <1>0
  <1>2. PICK R : /\ IsWellFoundedOn(R, Nat)
                 /\ \A x, y \in Nat : <<y, x>> \in R <=> y < x
    BY NatOrder
  <1>3. PICK d \in D : \A e \in D : ~ (<<e, d>> \in R)
    <2> HIDE DEF D
    <2> QED BY <1>1, <1>2, WFMin
  <1>4. PICK i \in T : d = n - i
    BY <1>3
  <1>5. ASSUME NEW j \in T PROVE i >= j
    <2>1. PICK e : e = n - j
      OBVIOUS
    <2>2. e \in D /\ e \in Nat /\ d \in Nat
      BY <1>0, <1>1, <1>3, <2>1
    <2>3. ~(e < d)
      BY <1>2, <1>3, <2>2, Zenon
    <2>4. n \in Nat /\ i \in Nat /\ j \in Nat
      OBVIOUS
    <2> HIDE DEF D
    <2> QED BY <1>4, <2>1, <2>2, <2>3, <2>4
  <1> QED BY <1>5

\* The places of the archives that GetPreArchiveFiles takes for f.
Match(s, f) == {i \in DOMAIN s : Content[s[i]] = {f} /\ Readable(s[i])}

\* GetPreArchiveFiles gives the last match, if there is one.
LEMMA LastMatch ==
    ASSUME NEW s \in Seq(Archive), NEW f \in File
    PROVE  \/ Match(s, f) = {} /\ GetPreArchiveFiles(s)[f] = NoArchive
           \/ \E i \in Match(s, f) : /\ \A j \in Match(s, f) : i >= j
                                     /\ GetPreArchiveFiles(s)[f] = s[i]
  <1> DEFINE M == Match(s, f)
             g == CHOOSE i \in M : \A j \in M : i >= j
  <1>1. GetPreArchiveFiles(s)[f] = IF M = {} THEN NoArchive ELSE s[g]
    BY DEF GetPreArchiveFiles, Match
  <1>2. M # {} => \E i \in M : \A j \in M : i >= j
    <2>1. Len(s) \in Nat /\ M \in SUBSET (1..Len(s))
      BY LenProperties DEF Match
    <2> HIDE DEF M
    <2> QED BY <2>1, GreatestIndex
  <1>3. M # {} => g \in M /\ \A j \in M : g >= j
    <2> HIDE DEF M
    <2> QED BY <1>2
  <1> HIDE DEF g
  <1> QED BY <1>1, <1>3

\* What an archive that is appended changes.
LEMMA FilesAppend ==
    ASSUME NEW s \in Seq(Archive), NEW a \in Archive, NEW f \in File
    PROVE  GetPreArchiveFiles(Append(s, a))[f] =
             IF Content[a] = {f} /\ Readable(a) THEN a ELSE GetPreArchiveFiles(s)[f]
  <1> DEFINE t == Append(s, a)
             n == Len(s)
  <1>1. /\ n \in Nat /\ DOMAIN s = 1..n /\ t \in Seq(Archive) /\ DOMAIN t = 1..(n + 1)
        /\ \A i \in 1..n : t[i] = s[i]
        /\ t[n + 1] = a
    <2>1. t \in Seq(Archive) /\ Len(t) = n + 1
      BY AppendProperties
    <2> QED BY <2>1, LenProperties, AppendProperties
  <1> HIDE DEF t, n
  <1>2. /\ Match(s, f) \in SUBSET (1..n) /\ Match(t, f) \in SUBSET (1..(n + 1))
        /\ Match(s, f) \subseteq Match(t, f)
        /\ \A i \in Match(t, f) : i \in Match(s, f) \/ i = n + 1
        /\ n + 1 \in Match(t, f) <=> Content[a] = {f} /\ Readable(a)
    BY <1>1 DEF Match
  <1>3. CASE Content[a] = {f} /\ Readable(a)
    <2>1. PICK i \in Match(t, f) : /\ \A j \in Match(t, f) : i >= j
                                   /\ GetPreArchiveFiles(t)[f] = t[i]
      BY <1>1, <1>2, <1>3, LastMatch
    <2>2. i >= n + 1 /\ i \in 1..(n + 1)
      BY <1>2, <1>3, <2>1
    <2>3. i = n + 1
      BY <1>1, <2>2
    <2> QED BY <1>1, <1>3, <2>1, <2>3 DEF t
  <1>4. CASE ~(Content[a] = {f} /\ Readable(a))
    <2>1. Match(t, f) = Match(s, f)
      BY <1>2, <1>4
    <2>2. CASE Match(s, f) = {}
      BY <1>1, <1>4, <2>1, <2>2, LastMatch DEF t
    <2>3. CASE Match(s, f) # {}
      <3>1. PICK i \in Match(s, f) : /\ \A j \in Match(s, f) : i >= j
                                     /\ GetPreArchiveFiles(t)[f] = t[i]
        BY <1>1, <2>1, <2>3, LastMatch
      <3>2. PICK k \in Match(s, f) : /\ \A j \in Match(s, f) : k >= j
                                     /\ GetPreArchiveFiles(s)[f] = s[k]
        BY <2>3, LastMatch
      <3>3. i = k /\ i \in 1..n
        BY <1>1, <1>2, <3>1, <3>2
      <3> QED BY <1>1, <1>4, <3>1, <3>2, <3>3 DEF t
    <2> QED BY <2>2, <2>3
  <1> QED BY <1>3, <1>4

\* Pre-archives are files.
LEMMA FilesType ==
    ASSUME NEW s \in Seq(Archive)
    PROVE  GetPreArchiveFiles(s) \in Files
  <1>1. ASSUME NEW f \in File PROVE GetPreArchiveFiles(s)[f] \in Archive \cup {NoArchive}
    <2>1. ASSUME NEW i \in Match(s, f) PROVE s[i] \in Archive
      BY <2>1, ElementOfSeq, LenProperties DEF Match
    <2> QED BY <2>1, LastMatch
  <1>2. GetPreArchiveFiles(s) = [f \in File |-> GetPreArchiveFiles(s)[f]]
    BY DEF GetPreArchiveFiles
  <1> QED BY <1>1, <1>2 DEF Files

\* Without pre-archives there are no files.
LEMMA FilesNothing == GetPreArchiveFiles(<<>>) = NoFiles
  <1>1. \A f \in File : GetPreArchiveFiles(<<>>)[f] = NoArchive
    <2> SUFFICES ASSUME NEW f \in File PROVE GetPreArchiveFiles(<<>>)[f] = NoArchive
      OBVIOUS
    <2>1. <<>> \in Seq(Archive) /\ Match(<<>>, f) = {}
      BY EmptySeq DEF Match
    <2> QED BY <2>1, LastMatch
  <1>2. GetPreArchiveFiles(<<>>) = [f \in File |-> GetPreArchiveFiles(<<>>)[f]]
    BY DEF GetPreArchiveFiles
  <1> QED BY <1>1, <1>2 DEF NoFiles

\* A file of an archive that holds one file is the only one in it.
LEMMA SingleFile ==
    ASSUME NEW a \in Archive, IsSingleFileArchive(a), NEW f
    PROVE  f \in Content[a] <=> Content[a] = {f}
  <1>1. PICK x : Content[a] = {x}
    BY ArchiveAssumption, FS_Singleton DEF IsSingleFileArchive
  <1> QED BY <1>1

----------------------------------------------------------------------------
(* Types. *)

PC == {"idle", "append", "configmap", "create", "volumes", "ready",
       "started", "rollback", "copy", "delcm", "delpod", "ended"}

ReqType == [op : {"none", "put", "start", "stop", "restart"}, pc : PC,
            archive : Archive \cup {NoArchive}, seen : Seq(Archive),
            setup : BOOLEAN, mounts : SUBSET File, owed : Choices]

PodType == [phase : {"none", "setup", "starting", "running"},
            setup : BOOLEAN, mounted : SUBSET File, files : Files]

\* The sets in TypeOK by their names here.
LEMMA TypeOKParts ==
    TypeOK <=>
      /\ PreArchive \in BOOLEAN
      /\ pre \in Seq(Archive)
      /\ state \in {"created", "running", "stopped"}
      /\ cm \subseteq Files /\ Cardinality(cm) <= 1
      /\ pod \in PodType
      /\ req \in [Request -> ReqType]
      /\ issued \in 0..MaxOps
      /\ faults \in 0..MaxFaults
      /\ failed \in BOOLEAN
      /\ planned \in Files
      /\ expect \in Choices
  BY Zenon DEF TypeOK, PodType, ReqType, PC

\* The idle handler, the missing pod and the missing files are of their types.
LEMMA ConstantTypes ==
    /\ Idle \in ReqType /\ NoPod \in PodType /\ NoFiles \in Files /\ NoChoices \in Choices
    /\ Idle.pc = "idle" /\ Idle.op = "none"
    /\ NoPod.phase = "none" /\ NoPod.files = NoFiles
  <1>1. <<>> \in Seq(Archive)
    BY EmptySeq
  <1>2. NoFiles \in Files /\ NoChoices \in Choices
    BY DEF NoFiles, NoChoices, Files, Choices
  <1> QED BY <1>1, <1>2 DEF Idle, NoPod, ReqType, PodType, PC

\* A handler that goes on changes its pc and nothing else.
LEMMA GotoFacts ==
    ASSUME NEW r \in Request, NEW p \in PC, req \in [Request -> ReqType], Goto(r, p)
    PROVE  /\ req' \in [Request -> ReqType]
           /\ \A q \in Request : q # r => req'[q] = req[q]
           /\ req'[r].pc = p /\ req'[r].op = req[r].op /\ req'[r].archive = req[r].archive
           /\ req'[r].seen = req[r].seen /\ req'[r].setup = req[r].setup
           /\ req'[r].mounts = req[r].mounts /\ req'[r].owed = req[r].owed
  BY DEF Goto, ReqType

\* A handler that returns is idle.
LEMMA ReturnFacts ==
    ASSUME NEW r \in Request, req \in [Request -> ReqType], Return(r)
    PROVE  /\ req' \in [Request -> ReqType]
           /\ \A q \in Request : q # r => req'[q] = req[q]
           /\ req'[r] = Idle /\ req'[r].pc = "idle" /\ req'[r].op = "none"
  BY ConstantTypes DEF Return

\* A handler that begins owes what is planned.
LEMMA BeginFacts ==
    ASSUME NEW r \in Request, NEW op \in {"put", "start", "stop", "restart"},
           NEW a \in Archive \cup {NoArchive}, NEW p \in PC, TypeOK, Begin(r, op, a, p)
    PROVE  /\ req' \in [Request -> ReqType]
           /\ \A q \in Request : q # r => req'[q] = req[q]
           /\ At(r, "idle")
           /\ req'[r].pc = p /\ req'[r].op = op /\ req'[r].archive = a
           /\ req'[r].seen = (IF p = "append" THEN pre ELSE <<>>)
           /\ \A f \in File : req'[r].owed[f] = {planned[f]}
           /\ issued' \in 0..MaxOps
           /\ UNCHANGED <<PreArchive, pre, state, cm, pod, faults, failed, planned, expect>>
  <1> DEFINE o == [f \in File |-> {planned[f]}]
             s == IF p = "append" THEN pre ELSE <<>>
             new == [Idle EXCEPT !.op = op, !.archive = a, !.pc = p, !.seen = s, !.owed = o]
  <1>1. o \in Choices /\ s \in Seq(Archive) /\ \A f \in File : o[f] = {planned[f]}
    BY TypeOKParts, EmptySeq DEF Choices, Files
  <1>2. req' = [req EXCEPT ![r] = new] /\ At(r, "idle") /\ issued < MaxOps /\ issued' = issued + 1
    BY DEF Begin
  <1>3. req \in [Request -> ReqType] /\ issued \in 0..MaxOps
    BY TypeOKParts
  <1> HIDE DEF o, s
  <1>4. new \in ReqType /\ new.pc = p /\ new.op = op /\ new.archive = a /\ new.seen = s
        /\ new.owed = o
    BY <1>1 DEF Idle, ReqType
  <1> HIDE DEF new
  <1>5. req' \in [Request -> ReqType] /\ req'[r] = new
        /\ \A q \in Request : q # r => req'[q] = req[q]
    BY <1>2, <1>3, <1>4
  <1>6. issued' \in 0..MaxOps
    BY <1>2, <1>3, BoundAssumption
  <1>7. UNCHANGED <<PreArchive, pre, state, cm, pod, faults, failed, planned, expect>>
    BY DEF Begin
  <1> QED BY <1>1, <1>2, <1>4, <1>5, <1>6, <1>7 DEF s

\* What a put begins with.
LEMMA PutBegins ==
    ASSUME NEW r \in Copier, NEW a \in Archive, PutArchive(r, a)
    PROVE  \/ Begin(r, "put", a, "append") /\ PreArchive /\ IsSingleFileArchive(a)
           \/ Begin(r, "put", a, "configmap") /\ ~PreArchive
           \/ Begin(r, "put", a, "copy")
  BY Zenon DEF PutArchive

\* A call or a pod fails, or not.
LEMMA FaultType ==
    ASSUME faults \in 0..MaxFaults, failed \in BOOLEAN, Fault \/ NoFault \/ PodFails
    PROVE  faults' \in 0..MaxFaults /\ failed' \in BOOLEAN
  <1>1. faults' \in 0..MaxFaults
    BY BoundAssumption DEF Fault, NoFault, PodFails
  <1>2. failed' \in BOOLEAN
    BY Zenon DEF Fault, NoFault, PodFails
  <1> QED BY <1>1, <1>2

\* What an append does, in terms of the fields of the handlers.
LEMMA AppendFacts ==
    ASSUME FlowInv, NEW r \in Request, AppendPreArchive(r)
    PROVE  /\ req' \in [Request -> ReqType] /\ planned' \in Files /\ pre' \in Seq(Archive)
           /\ req[r].archive \in Archive /\ IsSingleFileArchive(req[r].archive) /\ PreArchive
           /\ r \in Copier /\ At(r, "append") /\ pre' = Append(req[r].seen, req[r].archive)
           /\ req'[r].pc = "idle" /\ req'[r].op = "none"
           /\ \A f \in File : planned'[f] =
                IF Content[req[r].archive] = {f} /\ Readable(req[r].archive)
                THEN req[r].archive ELSE planned[f]
           /\ \A q \in Request : q # r =>
                /\ req'[q].pc = req[q].pc /\ req'[q].op = req[q].op
                /\ req'[q].archive = req[q].archive /\ req'[q].seen = req[q].seen
                /\ req'[q].setup = req[q].setup /\ req'[q].mounts = req[q].mounts
                /\ \A f \in File :
                     /\ req[q].owed[f] \subseteq req'[q].owed[f]
                     /\ Content[req[r].archive] = {f} /\ Readable(req[r].archive) =>
                          req[r].archive \in req'[q].owed[f]
           /\ UNCHANGED <<PreArchive, state, cm, pod, issued, faults, failed, expect>>
  <1>1. /\ req \in [Request -> ReqType] /\ planned \in Files /\ pre \in Seq(Archive)
    BY TypeOKParts DEF FlowInv
  <1>2. At(r, "append") /\ Flow(r) /\ r \in Copier \cup Runner
    BY DEF AppendPreArchive, FlowInv, Request
  <1>3. /\ r \in Copier /\ req[r].archive \in Archive /\ PreArchive
        /\ IsSingleFileArchive(req[r].archive)
    BY <1>2 DEF Flow, At
  <1>4. PICK a \in Archive : a = req[r].archive
    BY <1>3
  <1>5. PICK files : files = IF Readable(a) THEN Content[a] ELSE {}
    OBVIOUS
  <1>6. \A f \in File : f \in files <=> Content[a] = {f} /\ Readable(a)
    BY <1>3, <1>4, <1>5, SingleFile
  <1>7. /\ pre' = Append(req[r].seen, a)
        /\ planned' = [f \in File |-> IF f \in files THEN a ELSE planned[f]]
        /\ req' = [q \in Request |->
                     IF q = r THEN Idle
                     ELSE [req[q] EXCEPT !.owed =
                             [f \in File |-> IF f \in files THEN @[f] \cup {a} ELSE @[f]]]]
        /\ UNCHANGED <<PreArchive, state, cm, pod, issued, faults, failed, expect>>
    BY <1>4, <1>5 DEF AppendPreArchive
  <1>8. req[r].seen \in Seq(Archive)
    BY <1>1 DEF ReqType
  <1>9. pre' \in Seq(Archive)
    BY <1>7, <1>8, AppendProperties
  <1>10. planned' \in Files /\ \A f \in File : planned'[f] = IF f \in files THEN a ELSE planned[f]
    BY <1>1, <1>7 DEF Files
  <1>11. ASSUME NEW q \in Request, q # r
         PROVE  /\ req'[q] \in ReqType
                /\ req'[q].pc = req[q].pc /\ req'[q].op = req[q].op
                /\ req'[q].archive = req[q].archive /\ req'[q].seen = req[q].seen
                /\ req'[q].setup = req[q].setup /\ req'[q].mounts = req[q].mounts
                /\ \A f \in File :
                     /\ req[q].owed[f] \subseteq req'[q].owed[f]
                     /\ f \in files => a \in req'[q].owed[f]
    <2>1. PICK v \in ReqType : v = req[q]
      BY <1>1
    <2>2. PICK o : o = [f \in File |-> IF f \in files THEN v.owed[f] \cup {a} ELSE v.owed[f]]
      OBVIOUS
    <2>3. v.owed \in Choices
      BY DEF ReqType
    <2>4. o \in Choices /\ \A f \in File : v.owed[f] \subseteq o[f] /\ (f \in files => a \in o[f])
      BY <2>2, <2>3 DEF Choices
    <2>5. req'[q] = [v EXCEPT !.owed = o]
      BY <1>7, <1>11, <2>1, <2>2
    <2> QED BY <2>1, <2>4, <2>5 DEF ReqType
  <1>12. req'[r] = Idle
    BY <1>7
  <1>13. req' \in [Request -> ReqType]
    <2>1. req' = [q \in Request |-> req'[q]]
      BY <1>7
    <2> QED BY <2>1, <1>11, <1>12, ConstantTypes
  <1> QED BY <1>2, <1>3, <1>4, <1>6, <1>7, <1>9, <1>10, <1>11, <1>12, <1>13, ConstantTypes

\* What building the pod does to the handler.
LEMMA BuiltFacts ==
    ASSUME NEW r \in Request, NEW b \in BOOLEAN, NEW m \in SUBSET File,
           req \in [Request -> ReqType],
           req' = [req EXCEPT ![r].pc = "create", ![r].setup = b, ![r].mounts = m]
    PROVE  /\ req' \in [Request -> ReqType]
           /\ \A q \in Request : q # r => req'[q] = req[q]
           /\ req'[r].pc = "create" /\ req'[r].op = req[r].op
           /\ req'[r].archive = req[r].archive /\ req'[r].seen = req[r].seen
           /\ req'[r].setup = b /\ req'[r].mounts = m /\ req'[r].owed = req[r].owed
  BY DEF ReqType, PC

\* The steps of AddPreArchives: the pod is built without files or with a new
\* configmap, or the start fails.
LEMMA AddFacts ==
    ASSUME TypeOK, NEW r \in Request, AddPreArchives(r)
    PROVE  /\ At(r, "configmap")
           /\ UNCHANGED <<PreArchive, pre, state, pod, issued, planned, expect>>
           /\ req' \in [Request -> ReqType]
           /\ \A q \in Request : q # r => req'[q] = req[q]
           /\ req'[r].op = req[r].op /\ req'[r].archive = req[r].archive
           /\ req'[r].seen = req[r].seen /\ req'[r].owed = req[r].owed
           /\ \/ /\ req'[r].pc = "create" /\ req'[r].setup = (pre # <<>>)
                 /\ req'[r].mounts = Present(GetPreArchiveFiles(pre))
                 /\ \/ Present(GetPreArchiveFiles(pre)) = {} /\ cm' = cm
                    \/ /\ Present(GetPreArchiveFiles(pre)) # {} /\ cm = {}
                       /\ cm' = {GetPreArchiveFiles(pre)}
                 /\ NoFault
              \/ /\ req'[r].pc = "rollback" /\ cm' = cm
                 /\ Present(GetPreArchiveFiles(pre)) # {}
                 /\ Fault \/ (NoFault /\ cm # {})
  <1>1. req \in [Request -> ReqType]
    BY TypeOKParts
  <1>2. PICK files : files = GetPreArchiveFiles(pre)
    OBVIOUS
  <1>3. PICK b \in BOOLEAN : b = (pre # <<>>)
    OBVIOUS
  <1>4. Present(files) \in SUBSET File
    BY DEF Present
  <1>5. CASE /\ IF Present(files) = {} THEN cm' = cm ELSE cm = {} /\ cm' = {files}
             /\ req' = [req EXCEPT ![r].pc = "create", ![r].setup = pre # <<>>,
                                   ![r].mounts = Present(files)]
             /\ NoFault
    <2>1. PICK m \in SUBSET File : m = Present(files)
      BY <1>4
    <2>2. req' = [req EXCEPT ![r].pc = "create", ![r].setup = b, ![r].mounts = m]
      BY <1>3, <1>5, <2>1
    <2>3. /\ req' \in [Request -> ReqType]
          /\ \A q \in Request : q # r => req'[q] = req[q]
          /\ req'[r].pc = "create" /\ req'[r].op = req[r].op
          /\ req'[r].archive = req[r].archive /\ req'[r].seen = req[r].seen
          /\ req'[r].setup = b /\ req'[r].mounts = m /\ req'[r].owed = req[r].owed
      BY <1>1, <2>2, BuiltFacts
    <2> QED BY <1>2, <1>3, <1>5, <2>1, <2>3, Zenon DEF AddPreArchives
  <1>6. CASE /\ Present(files) # {} /\ cm' = cm /\ Goto(r, "rollback")
             /\ Fault \/ (NoFault /\ cm # {})
    <2>1. "rollback" \in PC
      BY DEF PC
    <2>2. /\ req' \in [Request -> ReqType]
          /\ \A q \in Request : q # r => req'[q] = req[q]
          /\ req'[r].pc = "rollback" /\ req'[r].op = req[r].op
          /\ req'[r].archive = req[r].archive /\ req'[r].seen = req[r].seen
          /\ req'[r].owed = req[r].owed
      BY <1>1, <1>6, <2>1, GotoFacts
    <2> QED BY <1>2, <1>6, <2>2, Zenon DEF AddPreArchives
  <1> QED BY <1>2, <1>5, <1>6, Zenon DEF AddPreArchives, CreateConfigMapFromRaw

----------------------------------------------------------------------------
(* What each of the other steps does. *)

\* The handler r goes to p; the others stay where they are.
Moves(r, p) ==
    /\ req' \in [Request -> ReqType]
    /\ \A q \in Request : q # r => req'[q] = req[q]
    /\ req'[r].pc = p /\ req'[r].op = req[r].op /\ req'[r].archive = req[r].archive
    /\ req'[r].seen = req[r].seen /\ req'[r].owed = req[r].owed

\* The handler r returns; the others stay where they are.
Returns(r) ==
    /\ req' \in [Request -> ReqType]
    /\ \A q \in Request : q # r => req'[q] = req[q]
    /\ req'[r].pc = "idle" /\ req'[r].op = "none"

\* Goto moves a handler.
LEMMA GotoMoves ==
    ASSUME NEW r \in Request, NEW p \in PC, TypeOK, Goto(r, p)
    PROVE  Moves(r, p)
  BY GotoFacts, TypeOKParts DEF Moves

\* Return returns.
LEMMA ReturnReturns ==
    ASSUME NEW r \in Request, TypeOK, Return(r)
    PROVE  Returns(r)
  BY ReturnFacts, TypeOKParts DEF Returns

\* CreatePod keeps a pod, makes one, or fails.
LEMMA CreateFacts ==
    ASSUME TypeOK, NEW r \in Request, CreatePod(r)
    PROVE  /\ At(r, "create") /\ pod' \in PodType /\ expect' \in Choices
           /\ UNCHANGED <<PreArchive, pre, state, cm, issued, planned>>
           /\ \/ /\ pod # NoPod /\ pod' = pod /\ Moves(r, "volumes") /\ NoFault
                 /\ \A f \in File : /\ expect[f] \subseteq expect'[f]
                                    /\ pod.phase = "setup" => req[r].owed[f] \subseteq expect'[f]
              \/ /\ pod = NoPod /\ Moves(r, "volumes") /\ NoFault
                 /\ pod'.phase = IF req[r].setup THEN "setup" ELSE "starting"
                 /\ pod'.setup = req[r].setup /\ pod'.mounted = req[r].mounts
                 /\ pod'.files = NoFiles
                 /\ expect' = req[r].owed
              \/ pod' = pod /\ expect' = expect /\ Moves(r, "rollback") /\ Fault
  <1>1. /\ req[r] \in ReqType /\ pod \in PodType /\ expect \in Choices
        /\ "volumes" \in PC /\ "rollback" \in PC
    BY TypeOKParts DEF PC
  <1>2. /\ At(r, "create")
        /\ UNCHANGED <<PreArchive, pre, state, cm, issued, planned>>
    BY DEF CreatePod
  <1>3. req[r].owed \in Choices
    BY <1>1 DEF ReqType
  <1>4. CASE /\ pod # NoPod /\ pod' = pod /\ Goto(r, "volumes") /\ NoFault
             /\ expect' = IF pod.phase = "setup"
                          THEN [f \in File |-> expect[f] \cup req[r].owed[f]]
                          ELSE expect
    <2>1. Moves(r, "volumes")
      BY <1>1, <1>4, GotoMoves
    <2>2. /\ expect' \in Choices
          /\ \A f \in File : /\ expect[f] \subseteq expect'[f]
                             /\ pod.phase = "setup" => req[r].owed[f] \subseteq expect'[f]
      BY <1>1, <1>3, <1>4 DEF Choices
    <2> QED BY <1>1, <1>2, <1>4, <2>1, <2>2
  <1>5. CASE /\ pod = NoPod /\ Goto(r, "volumes") /\ NoFault /\ expect' = req[r].owed
             /\ pod' = [NoPod EXCEPT !.phase = IF req[r].setup THEN "setup" ELSE "starting",
                                     !.setup = req[r].setup, !.mounted = req[r].mounts]
    <2>1. Moves(r, "volumes")
      BY <1>1, <1>5, GotoMoves
    <2>2. /\ pod' \in PodType
          /\ pod'.phase = IF req[r].setup THEN "setup" ELSE "starting"
          /\ pod'.setup = req[r].setup /\ pod'.mounted = req[r].mounts /\ pod'.files = NoFiles
      BY <1>1, <1>5, ConstantTypes DEF NoPod, PodType, ReqType
    <2> QED BY <1>2, <1>3, <1>5, <2>1, <2>2
  <1>6. CASE UNCHANGED <<pod, expect>> /\ Goto(r, "rollback") /\ Fault
    <2>1. Moves(r, "rollback")
      BY <1>1, <1>6, GotoMoves
    <2> QED BY <1>1, <1>2, <1>6, <2>1
  <1> QED BY <1>4, <1>5, <1>6 DEF CreatePod

\* CopyVolumeFolders has nothing to do, fails, or sets the pod up.
LEMMA VolumesFacts ==
    ASSUME TypeOK, NEW r \in Request, CopyVolumeFolders(r)
    PROVE  /\ At(r, "volumes") /\ pod' \in PodType
           /\ UNCHANGED <<PreArchive, pre, state, cm, issued, planned, expect>>
           /\ \/ /\ pod' = pod /\ Moves(r, "ready") /\ NoFault
                 /\ pre = <<>> \/ pod.phase # "setup"
              \/ /\ pod' = pod /\ Moves(r, "rollback") /\ pre # <<>>
                 /\ PodFails \/ (NoFault /\ ~pod.setup)
              \/ /\ Moves(r, "ready") /\ NoFault /\ pod.phase = "setup" /\ pre # <<>>
                 /\ pod'.phase = "starting" /\ pod'.setup = pod.setup
                 /\ pod'.mounted = pod.mounted
                 /\ \E data \in IF pod.mounted = {} THEN {NoFiles} ELSE cm :
                    \E m \in Mounted(data) :
                      /\ pod.mounted \subseteq Present(data)
                      /\ \A f \in File : pod'.files[f] =
                           IF f \in pod.mounted THEN m[f] ELSE pod.files[f]
  <1>1. /\ pod \in PodType /\ "ready" \in PC /\ "rollback" \in PC
    BY TypeOKParts DEF PC
  <1>2. /\ At(r, "volumes")
        /\ UNCHANGED <<PreArchive, pre, state, cm, issued, planned, expect>>
    BY DEF CopyVolumeFolders
  <1>3. Goto(r, "ready") => Moves(r, "ready")
    BY <1>1, GotoMoves
  <1>4. Goto(r, "rollback") => Moves(r, "rollback")
    BY <1>1, GotoMoves
  <1>5. CASE pod' = pod /\ Goto(r, "ready") /\ NoFault /\ (pre = <<>> \/ pod.phase # "setup")
    BY <1>1, <1>2, <1>3, <1>5
  <1>6. CASE /\ pod' = pod /\ Goto(r, "rollback") /\ pre # <<>>
             /\ PodFails \/ (NoFault /\ ~pod.setup)
    BY <1>1, <1>2, <1>4, <1>6
  <1>7. CASE /\ Goto(r, "ready") /\ NoFault /\ pod.phase = "setup" /\ pre # <<>>
             /\ \E data \in IF pod.mounted = {} THEN {NoFiles} ELSE cm :
                \E m \in Mounted(data) :
                  /\ pod.mounted \subseteq Present(data)
                  /\ pod' = [pod EXCEPT !.phase = "starting", !.files =
                               [f \in File |-> IF f \in pod.mounted THEN m[f] ELSE @[f]]]
    <2>0. PICK data \in IF pod.mounted = {} THEN {NoFiles} ELSE cm :
            \E m \in Mounted(data) :
                  /\ pod.mounted \subseteq Present(data)
                  /\ pod' = [pod EXCEPT !.phase = "starting", !.files =
                               [f \in File |-> IF f \in pod.mounted THEN m[f] ELSE @[f]]]
      BY <1>7
    <2>1. PICK m \in Mounted(data) :
                  /\ pod.mounted \subseteq Present(data)
                  /\ pod' = [pod EXCEPT !.phase = "starting", !.files =
                               [f \in File |-> IF f \in pod.mounted THEN m[f] ELSE @[f]]]
      BY <2>0
    <2>2. m \in Files /\ pod.files \in Files /\ pod.mounted \in SUBSET File
      BY <1>1 DEF Mounted, PodType
    <2>3. PICK fs : fs = [f \in File |-> IF f \in pod.mounted THEN m[f] ELSE pod.files[f]]
      OBVIOUS
    <2>4. fs \in Files /\ \A f \in File : fs[f] = IF f \in pod.mounted THEN m[f] ELSE pod.files[f]
      BY <2>2, <2>3 DEF Files
    <2>5. pod' = [pod EXCEPT !.phase = "starting", !.files = fs]
      BY <2>1, <2>3
    <2>6. /\ pod' \in PodType /\ pod'.phase = "starting" /\ pod'.setup = pod.setup
          /\ pod'.mounted = pod.mounted /\ pod'.files = fs
      BY <1>1, <2>4, <2>5 DEF PodType
    <2>7. /\ \A f \in File : pod'.files[f] = IF f \in pod.mounted THEN m[f] ELSE pod.files[f]
      BY <2>4, <2>6
    <2> QED BY <1>2, <1>3, <1>7, <2>1, <2>6, <2>7
  <1> QED BY <1>5, <1>6, <1>7, Zenon DEF CopyVolumeFolders

\* A pod that is ready runs; a start whose pod is not, or that is told so, fails.
LEMMA ReadyFacts ==
    ASSUME TypeOK, NEW r \in Request, AwaitReady(r)
    PROVE  /\ At(r, "ready") /\ pod' \in PodType
           /\ UNCHANGED <<PreArchive, pre, state, cm, issued, planned, expect>>
           /\ \/ /\ pod.phase \in {"starting", "running"} /\ Moves(r, "started") /\ NoFault
                 /\ pod'.phase = "running" /\ pod'.setup = pod.setup
                 /\ pod'.mounted = pod.mounted /\ pod'.files = pod.files
              \/ /\ pod' = pod /\ Moves(r, "rollback")
                 /\ PodFails \/ (NoFault /\ pod.phase \in {"none", "setup"})
  <1>1. /\ pod \in PodType /\ "started" \in PC /\ "rollback" \in PC
    BY TypeOKParts DEF PC
  <1>2. /\ At(r, "ready")
        /\ UNCHANGED <<PreArchive, pre, state, cm, issued, planned, expect>>
    BY DEF AwaitReady
  <1>3. Goto(r, "started") => Moves(r, "started")
    BY <1>1, GotoMoves
  <1>4. Goto(r, "rollback") => Moves(r, "rollback")
    BY <1>1, GotoMoves
  <1>5. CASE /\ pod.phase \in {"starting", "running"} /\ Goto(r, "started") /\ NoFault
             /\ pod' = [pod EXCEPT !.phase = "running"]
    <2>1. /\ pod' \in PodType /\ pod'.phase = "running" /\ pod'.setup = pod.setup
          /\ pod'.mounted = pod.mounted /\ pod'.files = pod.files
      BY <1>1, <1>5 DEF PodType
    <2> QED BY <1>2, <1>3, <1>5, <2>1
  <1>6. CASE /\ pod' = pod /\ Goto(r, "rollback")
             /\ PodFails \/ (NoFault /\ pod.phase \in {"none", "setup"})
    BY <1>1, <1>2, <1>4, <1>6
  <1> QED BY <1>5, <1>6, Zenon DEF AwaitReady

\* A copy writes some files of the archive that are not mounted, if the pod runs.
LEMMA CopyFacts ==
    ASSUME FlowInv, NEW r \in Request, CopyToContainer(r)
    PROVE  /\ At(r, "copy") /\ r \in Copier /\ Returns(r)
           /\ pod' \in PodType /\ expect' \in Choices
           /\ Fault \/ NoFault
           /\ UNCHANGED <<PreArchive, pre, state, cm, issued, planned>>
           /\ \/ pod' = pod /\ expect' = expect
              \/ /\ pod.phase = "running" /\ pod'.phase = "running"
                 /\ pod'.setup = pod.setup /\ pod'.mounted = pod.mounted
                 /\ \A f \in File :
                      \/ pod'.files[f] \in expect'[f]
                      \/ pod'.files[f] = pod.files[f] /\ expect'[f] = expect[f]
  <1>1. /\ pod \in PodType /\ expect \in Choices /\ TypeOK
    BY TypeOKParts DEF FlowInv
  <1>2. /\ At(r, "copy")
        /\ UNCHANGED <<PreArchive, pre, state, cm, issued, planned>>
        /\ Returns(r)
    BY <1>1, ReturnReturns DEF CopyToContainer
  <1>3. r \in Copier /\ req[r].archive \in Archive
    <2>1. Flow(r) /\ r \in Copier \cup Runner
      BY DEF FlowInv, Request
    <2> QED BY <1>2, <2>1 DEF Flow, At
  <1>4. PICK a \in Archive : a = req[r].archive
    BY <1>3
  <1>5. ASSUME NEW fs \in SUBSET File,
               pod' = [pod EXCEPT !.files = [f \in File |-> IF f \in fs THEN a ELSE @[f]]]
        PROVE  /\ pod' \in PodType /\ pod'.phase = pod.phase
               /\ pod'.setup = pod.setup /\ pod'.mounted = pod.mounted
               /\ \A f \in File : pod'.files[f] = IF f \in fs THEN a ELSE pod.files[f]
    <2>1. PICK new : new = [f \in File |-> IF f \in fs THEN a ELSE pod.files[f]]
      OBVIOUS
    <2>2. pod.files \in Files
      BY <1>1 DEF PodType
    <2>3. new \in Files /\ \A f \in File : new[f] = IF f \in fs THEN a ELSE pod.files[f]
      BY <2>1, <2>2 DEF Files
    <2>4. pod' = [pod EXCEPT !.files = new]
      BY <1>5, <2>1
    <2> QED BY <1>1, <2>3, <2>4 DEF PodType
  <1>6. Content[a] \in SUBSET File
    BY ArchiveAssumption
  <1>7. CASE /\ pod.phase = "running" /\ NoFault
             /\ pod' = [pod EXCEPT !.files =
                          [f \in File |-> IF f \in Content[a] THEN a ELSE @[f]]]
             /\ expect' = [f \in File |-> IF f \in Content[a] THEN {a} ELSE expect[f]]
    <2>1. PICK fs \in SUBSET File : fs = Content[a]
      BY <1>6
    <2>2. expect' = [f \in File |-> IF f \in fs THEN {a} ELSE expect[f]]
      BY <1>7, <2>1
    <2>3. /\ expect' \in Choices
          /\ \A f \in File : expect'[f] = IF f \in fs THEN {a} ELSE expect[f]
      BY <1>1, <2>2 DEF Choices
    <2>4. pod' = [pod EXCEPT !.files = [f \in File |-> IF f \in fs THEN a ELSE @[f]]]
      BY <1>7, <2>1
    <2> QED BY <1>2, <1>3, <1>5, <1>7, <2>3, <2>4
  <1>8. CASE UNCHANGED <<pod, expect>> /\ NoFault
    BY <1>1, <1>2, <1>3, <1>8
  <1>9. CASE \E fs \in SUBSET (Content[a] \ pod.mounted) :
               /\ pod.phase = "running"
               /\ pod' = [pod EXCEPT !.files = [f \in File |-> IF f \in fs THEN a ELSE @[f]]]
               /\ expect' = [f \in File |-> IF f \in fs THEN expect[f] \cup {a} ELSE expect[f]]
               /\ Fault \/ NoFault
    <2>1. PICK fs \in SUBSET File :
               /\ pod.phase = "running"
               /\ pod' = [pod EXCEPT !.files = [f \in File |-> IF f \in fs THEN a ELSE @[f]]]
               /\ expect' = [f \in File |-> IF f \in fs THEN expect[f] \cup {a} ELSE expect[f]]
               /\ Fault \/ NoFault
      BY <1>6, <1>9
    <2>2. /\ expect' \in Choices
          /\ \A f \in File : expect'[f] = IF f \in fs THEN expect[f] \cup {a} ELSE expect[f]
      BY <1>1, <2>1 DEF Choices
    <2> QED BY <1>2, <1>3, <1>5, <2>1, <2>2
  <1>10. ASSUME NEW fs \in SUBSET (Content[a] \ pod.mounted),
                IF Content[a] \cap pod.mounted = {} /\ Readable(a) THEN Fault ELSE NoFault
         PROVE  Fault \/ NoFault
    BY <1>10, Zenon
  <1>11. \/ /\ pod.phase = "running" /\ NoFault
            /\ pod' = [pod EXCEPT !.files =
                         [f \in File |-> IF f \in Content[a] THEN a ELSE @[f]]]
            /\ expect' = [f \in File |-> IF f \in Content[a] THEN {a} ELSE expect[f]]
         \/ UNCHANGED <<pod, expect>> /\ NoFault
         \/ \E fs \in SUBSET (Content[a] \ pod.mounted) :
              /\ pod.phase = "running"
              /\ pod' = [pod EXCEPT !.files = [f \in File |-> IF f \in fs THEN a ELSE @[f]]]
              /\ expect' = [f \in File |-> IF f \in fs THEN expect[f] \cup {a} ELSE expect[f]]
              /\ IF Content[a] \cap pod.mounted = {} /\ Readable(a) THEN Fault ELSE NoFault
    BY <1>4 DEF CopyToContainer
  <1> QED BY <1>7, <1>8, <1>9, <1>10, <1>11, Zenon

----------------------------------------------------------------------------
(* Types and the flow of control. *)

\* The sets in TypeOK by their names here, after a step.
LEMMA TypeOKNext ==
    TypeOK' <=>
      /\ PreArchive' \in BOOLEAN
      /\ pre' \in Seq(Archive)
      /\ state' \in {"created", "running", "stopped"}
      /\ cm' \subseteq Files /\ Cardinality(cm') <= 1
      /\ pod' \in PodType
      /\ req' \in [Request -> ReqType]
      /\ issued' \in 0..MaxOps
      /\ faults' \in 0..MaxFaults
      /\ failed' \in BOOLEAN
      /\ planned' \in Files
      /\ expect' \in Choices
  BY Zenon DEF TypeOK, PodType, ReqType, PC

\* A handler in the middle of a start or a stop stays in the flow.
LEMMA MovesFlow ==
    ASSUME FlowInv, NEW r \in Request, NEW p \in PC \ {"idle", "append"}, Moves(r, p),
           req[r].pc \notin {"idle", "append", "copy"}, p = "copy" => req[r].op = "put",
           PreArchive' = PreArchive
    PROVE  \A q \in Request : Flow(q)'
  <1> SUFFICES ASSUME NEW q \in Request PROVE Flow(q)'
    OBVIOUS
  <1>1. Flow(q) /\ r \in Copier \cup Runner
    BY DEF FlowInv, Request
  <1>2. CASE q # r
    BY <1>1, <1>2 DEF Moves, Flow, At
  <1>3. CASE q = r
    BY <1>1, <1>3, RequestAssumption DEF Moves, Flow, At
  <1> QED BY <1>2, <1>3

\* A handler that returns leaves the flow as it is.
LEMMA ReturnsFlow ==
    ASSUME FlowInv, NEW r \in Request, Returns(r), PreArchive' = PreArchive
    PROVE  \A q \in Request : Flow(q)'
  <1> SUFFICES ASSUME NEW q \in Request PROVE Flow(q)'
    OBVIOUS
  <1>1. Flow(q)
    BY DEF FlowInv
  <1>2. CASE q # r
    BY <1>1, <1>2 DEF Returns, Flow, At
  <1>3. CASE q = r
    BY <1>3 DEF Returns, Flow, At
  <1> QED BY <1>2, <1>3

\* A request that begins enters the flow.
LEMMA BeginFlow ==
    ASSUME FlowInv, NEW r \in Request, NEW op \in {"put", "start", "stop", "restart"},
           NEW a \in Archive \cup {NoArchive}, NEW p \in PC \ {"idle"}, Begin(r, op, a, p),
           \/ /\ r \in Copier /\ op = "put" /\ a \in Archive
              /\ p = "append" => PreArchive /\ IsSingleFileArchive(a)
              /\ PreArchive => p \in {"append", "copy"}
           \/ r \in Runner /\ op # "put" /\ p \notin {"append", "copy"}
    PROVE  FlowInv'
  <1>1. TypeOK
    BY DEF FlowInv
  <1>2. /\ req' \in [Request -> ReqType]
        /\ \A q \in Request : q # r => req'[q] = req[q]
        /\ req'[r].pc = p /\ req'[r].op = op /\ req'[r].archive = a
        /\ issued' \in 0..MaxOps
        /\ UNCHANGED <<PreArchive, pre, state, cm, pod, faults, failed, planned, expect>>
    BY <1>1, BeginFacts
  <1>3. TypeOK'
    BY <1>1, <1>2, TypeOKParts, TypeOKNext
  <1>4. ASSUME NEW q \in Request PROVE Flow(q)'
    <2>1. Flow(q)
      BY DEF FlowInv
    <2>2. CASE q # r
      BY <1>2, <2>1, <2>2 DEF Flow, At
    <2>3. CASE q = r
      BY <1>2, <2>3, RequestAssumption DEF Flow, At
    <2> QED BY <2>2, <2>3
  <1> QED BY <1>3, <1>4 DEF FlowInv

\* Every step keeps the types and the flow.
LEMMA FlowStep ==
    ASSUME FlowInv, [Next]_vars
    PROVE  FlowInv'
  <1>1. TypeOK
    BY DEF FlowInv
  <1>2. ASSUME NEW r \in Copier, NEW a \in Archive, PutArchive(r, a) PROVE FlowInv'
    <2>1. r \in Request /\ {"append", "configmap", "copy"} \subseteq PC \ {"idle"}
      BY DEF Request, PC
    <2>2. CASE Begin(r, "put", a, "append") /\ PreArchive /\ IsSingleFileArchive(a)
      BY <2>1, <2>2, BeginFlow
    <2>3. CASE Begin(r, "put", a, "configmap") /\ ~PreArchive
      BY <2>1, <2>3, BeginFlow
    <2>4. CASE Begin(r, "put", a, "copy")
      BY <2>1, <2>4, BeginFlow
    <2> QED BY <1>2, <2>2, <2>3, <2>4, PutBegins
  <1>3. ASSUME NEW r \in Runner, ContainerStart(r) \/ ContainerStop(r) \/ ContainerRestart(r)
        PROVE  FlowInv'
    <2>1. r \in Request /\ {"configmap", "delcm", "ended"} \subseteq PC \ {"idle"}
      BY DEF Request, PC
    <2>2. CASE Begin(r, "start", NoArchive, "configmap")
      BY <2>1, <2>2, BeginFlow
    <2>3. CASE Begin(r, "stop", NoArchive, "ended")
      BY <2>1, <2>3, BeginFlow
    <2>4. CASE Begin(r, "stop", NoArchive, "delcm")
      BY <2>1, <2>4, BeginFlow
    <2>5. CASE Begin(r, "restart", NoArchive, "delcm")
      BY <2>1, <2>5, BeginFlow
    <2> QED BY <1>3, <2>2, <2>3, <2>4, <2>5, Zenon
            DEF ContainerStart, ContainerStop, ContainerRestart
  <1>4. ASSUME NEW r \in Request, AppendPreArchive(r) PROVE FlowInv'
    <2>1. TypeOK'
      BY <1>1, <1>4, AppendFacts, TypeOKParts, TypeOKNext
    <2>2. ASSUME NEW q \in Request PROVE Flow(q)'
      <3>1. Flow(q)
        BY DEF FlowInv
      <3>2. CASE q # r
        BY <1>4, <3>1, <3>2, AppendFacts DEF Flow, At
      <3>3. CASE q = r
        BY <1>4, <3>3, AppendFacts DEF Flow, At
      <3> QED BY <3>2, <3>3
    <2> QED BY <2>1, <2>2 DEF FlowInv
  <1>5. ASSUME NEW r \in Request, AddPreArchives(r) PROVE FlowInv'
    <2>1. /\ At(r, "configmap") /\ (Moves(r, "create") \/ Moves(r, "rollback"))
          /\ PreArchive' = PreArchive
      BY <1>1, <1>5, AddFacts DEF Moves
    <2>2. \A q \in Request : Flow(q)'
      <3>1. {"create", "rollback"} \subseteq PC \ {"idle", "append"} /\ req[r].pc = "configmap"
        BY <2>1 DEF PC, At
      <3>2. CASE Moves(r, "create")
        BY <2>1, <3>1, <3>2, MovesFlow
      <3>3. CASE Moves(r, "rollback")
        BY <2>1, <3>1, <3>3, MovesFlow
      <3> QED BY <2>1, <3>2, <3>3
    <2>3. cm' \subseteq Files /\ Cardinality(cm') <= 1
      <3>1. CASE cm' = cm
        BY <1>1, <3>1, TypeOKParts
      <3>2. CASE cm' = {GetPreArchiveFiles(pre)}
        <4>1. PICK data \in Files : data = GetPreArchiveFiles(pre)
          BY <1>1, TypeOKParts, FilesType
        <4>2. Cardinality({data}) = 1
          BY FS_Singleton
        <4> QED BY <3>2, <4>1, <4>2
      <3> QED BY <1>1, <1>5, <3>1, <3>2, AddFacts
    <2>4. faults' \in 0..MaxFaults /\ failed' \in BOOLEAN
      BY <1>1, <1>5, AddFacts, FaultType, TypeOKParts
    <2>5. TypeOK'
      BY <1>1, <1>5, <2>3, <2>4, AddFacts, TypeOKParts, TypeOKNext
    <2> QED BY <2>2, <2>5 DEF FlowInv
  <1>6. ASSUME NEW r \in Request, CreatePod(r) PROVE FlowInv'
    <2>1. /\ At(r, "create") /\ (Moves(r, "volumes") \/ Moves(r, "rollback"))
          /\ Fault \/ NoFault
      BY <1>1, <1>6, CreateFacts
    <2>2. /\ {"volumes", "rollback"} \subseteq PC \ {"idle", "append"} /\ req[r].pc = "create"
          /\ PreArchive' = PreArchive
      BY <1>6, <2>1 DEF PC, At, CreatePod
    <2>3. \A q \in Request : Flow(q)'
      <3>1. CASE Moves(r, "volumes")
        BY <2>2, <3>1, MovesFlow
      <3>2. CASE Moves(r, "rollback")
        BY <2>2, <3>2, MovesFlow
      <3> QED BY <2>1, <3>1, <3>2
    <2>4. faults' \in 0..MaxFaults /\ failed' \in BOOLEAN
      BY <1>1, <2>1, FaultType, TypeOKParts
    <2>5. TypeOK'
      BY <1>1, <1>6, <2>1, <2>4, CreateFacts, TypeOKParts, TypeOKNext DEF Moves
    <2> QED BY <2>3, <2>5 DEF FlowInv
  <1>7. ASSUME NEW r \in Request, CopyVolumeFolders(r) PROVE FlowInv'
    <2>1. /\ At(r, "volumes") /\ (Moves(r, "ready") \/ Moves(r, "rollback"))
          /\ PodFails \/ NoFault
      BY <1>1, <1>7, VolumesFacts
    <2>2. /\ {"ready", "rollback"} \subseteq PC \ {"idle", "append"} /\ req[r].pc = "volumes"
          /\ PreArchive' = PreArchive
      BY <1>7, <2>1 DEF PC, At, CopyVolumeFolders
    <2>3. \A q \in Request : Flow(q)'
      <3>1. CASE Moves(r, "ready")
        BY <2>2, <3>1, MovesFlow
      <3>2. CASE Moves(r, "rollback")
        BY <2>2, <3>2, MovesFlow
      <3> QED BY <2>1, <3>1, <3>2
    <2>4. faults' \in 0..MaxFaults /\ failed' \in BOOLEAN
      BY <1>1, <2>1, FaultType, TypeOKParts
    <2>5. TypeOK'
      BY <1>1, <1>7, <2>1, <2>4, VolumesFacts, TypeOKParts, TypeOKNext DEF Moves
    <2> QED BY <2>3, <2>5 DEF FlowInv
  <1>8. ASSUME NEW r \in Request, AwaitReady(r) PROVE FlowInv'
    <2>1. /\ At(r, "ready") /\ (Moves(r, "started") \/ Moves(r, "rollback"))
          /\ PodFails \/ NoFault
      BY <1>1, <1>8, ReadyFacts
    <2>2. /\ {"started", "rollback"} \subseteq PC \ {"idle", "append"} /\ req[r].pc = "ready"
          /\ PreArchive' = PreArchive
      BY <1>8, <2>1 DEF PC, At, AwaitReady
    <2>3. \A q \in Request : Flow(q)'
      <3>1. CASE Moves(r, "started")
        BY <2>2, <3>1, MovesFlow
      <3>2. CASE Moves(r, "rollback")
        BY <2>2, <3>2, MovesFlow
      <3> QED BY <2>1, <3>1, <3>2
    <2>4. faults' \in 0..MaxFaults /\ failed' \in BOOLEAN
      BY <1>1, <2>1, FaultType, TypeOKParts
    <2>5. TypeOK'
      BY <1>1, <1>8, <2>1, <2>4, ReadyFacts, TypeOKParts, TypeOKNext DEF Moves
    <2> QED BY <2>3, <2>5 DEF FlowInv
  <1>9. ASSUME NEW r \in Request, Started(r) PROVE FlowInv'
    <2>1. /\ req[r].pc = "started" /\ state' = "running" /\ PreArchive' = PreArchive
          /\ UNCHANGED <<PreArchive, pre, cm, pod, issued, faults, failed, planned, expect>>
          /\ "copy" \in PC \ {"idle", "append"}
      BY <1>9 DEF Started, At, PC
    <2>2. CASE req[r].op = "put" /\ Goto(r, "copy")
      <3>1. Moves(r, "copy")
        BY <1>1, <2>1, <2>2, GotoMoves
      <3>2. \A q \in Request : Flow(q)'
        BY <2>1, <2>2, <3>1, MovesFlow
      <3> QED BY <1>1, <2>1, <3>1, <3>2, TypeOKParts, TypeOKNext DEF Moves, FlowInv
    <2>3. CASE Return(r)
      <3>1. Returns(r)
        BY <1>1, <2>3, ReturnReturns
      <3>2. \A q \in Request : Flow(q)'
        BY <2>1, <3>1, ReturnsFlow
      <3> QED BY <1>1, <2>1, <3>1, <3>2, TypeOKParts, TypeOKNext DEF Returns, FlowInv
    <2> QED BY <1>9, <2>2, <2>3, Zenon DEF Started
  <1>10. ASSUME NEW r \in Request, Rollback(r) PROVE FlowInv'
    <2>1. /\ Returns(r)
          /\ UNCHANGED <<PreArchive, pre, state, cm, issued, planned, expect>>
      BY <1>1, <1>10, ReturnReturns DEF Rollback
    <2>2. pod' \in PodType /\ (Fault \/ NoFault)
      BY <1>1, <1>10, ConstantTypes, TypeOKParts DEF Rollback
    <2>3. faults' \in 0..MaxFaults /\ failed' \in BOOLEAN
      BY <1>1, <2>2, FaultType, TypeOKParts
    <2>4. \A q \in Request : Flow(q)'
      BY <2>1, ReturnsFlow
    <2> QED BY <1>1, <2>1, <2>2, <2>3, <2>4, TypeOKParts, TypeOKNext DEF Returns, FlowInv
  <1>11. ASSUME NEW r \in Request, CopyToContainer(r) PROVE FlowInv'
    <2>1. faults' \in 0..MaxFaults /\ failed' \in BOOLEAN
      BY <1>1, <1>11, CopyFacts, FaultType, TypeOKParts
    <2>2. \A q \in Request : Flow(q)'
      BY <1>11, CopyFacts, ReturnsFlow
    <2>3. TypeOK'
      BY <1>1, <1>11, <2>1, CopyFacts, TypeOKParts, TypeOKNext DEF Returns
    <2> QED BY <2>2, <2>3 DEF FlowInv
  <1>12. ASSUME NEW r \in Request, DeleteConfigMaps(r) PROVE FlowInv'
    <2>1. /\ req[r].pc = "delcm" /\ "delpod" \in PC \ {"idle", "append"}
          /\ UNCHANGED <<PreArchive, pre, state, pod, issued, planned, expect>>
      BY <1>12 DEF DeleteConfigMaps, At, PC
    <2>2. Moves(r, "delpod")
      BY <1>1, <1>12, <2>1, GotoMoves DEF DeleteConfigMaps
    <2>3. cm' \subseteq Files /\ Cardinality(cm') <= 1
      <3>1. Cardinality({}) = 0
        BY FS_EmptySet
      <3>2. CASE cm' = {}
        BY <3>1, <3>2
      <3>3. CASE cm' = cm
        BY <1>1, <3>3, TypeOKParts
      <3> QED BY <1>12, <3>2, <3>3 DEF DeleteConfigMaps
    <2>4. faults' \in 0..MaxFaults /\ failed' \in BOOLEAN
      BY <1>1, <1>12, FaultType, TypeOKParts DEF DeleteConfigMaps
    <2>5. \A q \in Request : Flow(q)'
      BY <2>1, <2>2, MovesFlow
    <2> QED BY <1>1, <2>1, <2>2, <2>3, <2>4, <2>5, TypeOKParts, TypeOKNext DEF Moves, FlowInv
  <1>13. ASSUME NEW r \in Request, DeletePods(r) PROVE FlowInv'
    <2>1. /\ req[r].pc = "delpod" /\ "ended" \in PC \ {"idle", "append"}
          /\ UNCHANGED <<PreArchive, pre, state, cm, issued, planned, expect>>
      BY <1>13 DEF DeletePods, At, PC
    <2>2. Moves(r, "ended")
      BY <1>1, <1>13, <2>1, GotoMoves DEF DeletePods
    <2>3. pod' \in PodType
      BY <1>1, <1>13, ConstantTypes, TypeOKParts DEF DeletePods
    <2>4. faults' \in 0..MaxFaults /\ failed' \in BOOLEAN
      BY <1>1, <1>13, FaultType, TypeOKParts DEF DeletePods
    <2>5. \A q \in Request : Flow(q)'
      BY <2>1, <2>2, MovesFlow
    <2> QED BY <1>1, <2>1, <2>2, <2>3, <2>4, <2>5, TypeOKParts, TypeOKNext DEF Moves, FlowInv
  <1>14. ASSUME NEW r \in Request, EndedFlags(r) PROVE FlowInv'
    <2>1. /\ req[r].pc = "ended" /\ state' = "stopped"
          /\ UNCHANGED <<PreArchive, pre, cm, pod, issued, faults, failed, planned, expect>>
          /\ "configmap" \in PC \ {"idle", "append"}
      BY <1>14 DEF EndedFlags, At, PC
    <2>2. CASE Goto(r, "configmap")
      <3>1. Moves(r, "configmap")
        BY <1>1, <2>1, <2>2, GotoMoves
      <3>2. \A q \in Request : Flow(q)'
        BY <2>1, <3>1, MovesFlow
      <3> QED BY <1>1, <2>1, <3>1, <3>2, TypeOKParts, TypeOKNext DEF Moves, FlowInv
    <2>3. CASE Return(r)
      <3>1. Returns(r)
        BY <1>1, <2>3, ReturnReturns
      <3>2. \A q \in Request : Flow(q)'
        BY <2>1, <3>1, ReturnsFlow
      <3> QED BY <1>1, <2>1, <3>1, <3>2, TypeOKParts, TypeOKNext DEF Returns, FlowInv
    <2> QED BY <1>14, <2>2, <2>3, Zenon DEF EndedFlags
  <1>15. CASE UNCHANGED vars
    <2>1. TypeOK'
      BY <1>1, <1>15, TypeOKParts, TypeOKNext DEF vars
    <2>2. ASSUME NEW q \in Request PROVE Flow(q)'
      BY <1>15 DEF FlowInv, Flow, At, vars
    <2> QED BY <2>1, <2>2 DEF FlowInv
  <1>16. ASSUME NEW r \in Request, Step(r) PROVE FlowInv'
    BY <1>4, <1>5, <1>6, <1>7, <1>8, <1>9, <1>10, <1>11, <1>12, <1>13, <1>14, <1>16, Zenon
       DEF Step
  <1> QED BY <1>2, <1>3, <1>15, <1>16, Zenon DEF Next

----------------------------------------------------------------------------
(* AcceptedIsThere. *)

\* What the steps that neither plan an archive nor build or create a pod keep.
LEMMA QuietStep ==
    ASSUME AcceptInv, NEW r \in Request, NEW p \in PC \ {"append", "create", "volumes"},
           (Moves(r, p) /\ ~At(r, "idle")) \/ Returns(r),
           UNCHANGED <<PreArchive, pre, planned>>, cm' \subseteq cm,
           pod'.phase = "setup" => pod.phase = "setup" /\ expect' = expect
    PROVE  PlannedIsKept' /\ PlannedIsOwed' /\ ConfigMapIsOwed' /\ MountsAreRight'
  <1>1. /\ \A q \in Request : q # r => req'[q] = req[q]
        /\ \/ req'[r].pc = p /\ req'[r].owed = req[r].owed /\ ~At(r, "idle")
           \/ req'[r].pc = "idle"
    BY DEF Moves, Returns
  <1>2. ASSUME NEW q \in Request, req'[q].pc \in {"append", "create", "volumes"}
        PROVE  req'[q] = req[q]
    BY <1>1, <1>2
  <1>3. PlannedIsKept'
    BY <1>2 DEF AcceptInv, PlannedIsKept, At
  <1>4. PlannedIsOwed'
    <2> SUFFICES ASSUME NEW q \in Request, req'[q].pc # "idle", NEW f \in File
                 PROVE  planned'[f] \in req'[q].owed[f]
      BY DEF PlannedIsOwed, At
    <2> QED BY <1>1 DEF AcceptInv, PlannedIsOwed, At
  <1>5. ConfigMapIsOwed'
    <2>1. cm' # {} => Present(planned)' # {}
      BY DEF AcceptInv, ConfigMapIsOwed, Present
    <2>2. ASSUME NEW q \in Request, req'[q].pc = "create", NEW data \in cm', NEW f \in File
          PROVE  data[f] \in req'[q].owed[f]
      <3>1. req'[q] = req[q]
        BY <1>2, <2>2
      <3> QED BY <2>2, <3>1 DEF AcceptInv, ConfigMapIsOwed, At
    <2>3. ASSUME NEW q \in Request, req'[q].pc = "volumes", pod'.phase = "setup",
                 NEW data \in cm', NEW f \in File
          PROVE  data[f] \in expect'[f]
      <3>1. req'[q] = req[q]
        BY <1>2, <2>3
      <3> QED BY <2>3, <3>1 DEF AcceptInv, ConfigMapIsOwed, At
    <2> QED BY <2>1, <2>2, <2>3 DEF ConfigMapIsOwed, At
  <1>6. MountsAreRight'
    BY <1>2 DEF AcceptInv, MountsAreRight, At
  <1> QED BY <1>3, <1>4, <1>5, <1>6

\* A request that begins owes what is planned, and a put reads the whole slice.
LEMMA BeginAccept ==
    ASSUME AcceptInv, NEW r \in Request, NEW op \in {"put", "start", "stop", "restart"},
           NEW a \in Archive \cup {NoArchive}, NEW p \in PC \ {"create", "volumes"},
           Begin(r, op, a, p)
    PROVE  /\ PlannedIsKept' /\ PlannedIsOwed' /\ ConfigMapIsOwed' /\ MountsAreRight'
           /\ PodIsExpected'
  <1>0. TypeOK
    BY DEF AcceptInv, FlowInv
  <1>1. /\ \A q \in Request : q # r => req'[q] = req[q]
        /\ req'[r].pc = p
        /\ req'[r].seen = (IF p = "append" THEN pre ELSE <<>>)
        /\ \A f \in File : req'[r].owed[f] = {planned[f]}
        /\ UNCHANGED <<PreArchive, pre, state, cm, pod, faults, failed, planned, expect>>
    BY <1>0, BeginFacts
  <1>2. ASSUME NEW q \in Request, req'[q].pc \in {"create", "volumes"}
        PROVE  req'[q] = req[q]
    BY <1>1, <1>2
  <1>3. PlannedIsKept'
    BY <1>1 DEF AcceptInv, PlannedIsKept, At
  <1>4. PlannedIsOwed'
    <2> SUFFICES ASSUME NEW q \in Request, req'[q].pc # "idle", NEW f \in File
                 PROVE  planned'[f] \in req'[q].owed[f]
      BY DEF PlannedIsOwed, At
    <2> QED BY <1>1 DEF AcceptInv, PlannedIsOwed, At
  <1>5. ConfigMapIsOwed'
    BY <1>1, <1>2 DEF AcceptInv, ConfigMapIsOwed, Present, At
  <1>6. MountsAreRight'
    BY <1>2 DEF AcceptInv, MountsAreRight, At
  <1>7. PodIsExpected'
    BY <1>1 DEF AcceptInv, PodIsExpected
  <1> QED BY <1>3, <1>4, <1>5, <1>6, <1>7

\* An archive that is planned is the last of the record's, and owed by every
\* handler at work.
LEMMA AppendAccept ==
    ASSUME OneCopier, AcceptInv, NEW r \in Request, AppendPreArchive(r)
    PROVE  /\ PlannedIsKept' /\ PlannedIsOwed' /\ ConfigMapIsOwed' /\ MountsAreRight'
           /\ PodIsExpected'
  <1>0. FlowInv /\ TypeOK /\ Flow(r)
    BY DEF AcceptInv, FlowInv
  <1>1. PICK a \in Archive : a = req[r].archive
    BY <1>0, AppendFacts
  <1>2. /\ planned' \in Files /\ planned \in Files /\ pre \in Seq(Archive)
        /\ r \in Copier /\ req[r].pc = "append" /\ PreArchive
        /\ pre' = Append(req[r].seen, a)
        /\ req'[r].pc = "idle"
        /\ \A f \in File : planned'[f] =
                IF Content[a] = {f} /\ Readable(a) THEN a ELSE planned[f]
        /\ \A q \in Request : q # r =>
                /\ req'[q].pc = req[q].pc
                /\ req'[q].setup = req[q].setup /\ req'[q].mounts = req[q].mounts
                /\ \A f \in File :
                     /\ req[q].owed[f] \subseteq req'[q].owed[f]
                     /\ Content[a] = {f} /\ Readable(a) => a \in req'[q].owed[f]
        /\ UNCHANGED <<PreArchive, state, cm, pod, issued, faults, failed, expect>>
    BY <1>0, <1>1, AppendFacts, TypeOKParts DEF At
  <1>3. PlannedIsKept'
    <2>1. req[r].seen = pre /\ planned = GetPreArchiveFiles(pre)
      BY <1>2 DEF AcceptInv, PlannedIsKept, At
    <2>2. PICK s \in Seq(Archive) : s = pre
      BY <1>2
    <2>3. pre' = Append(s, a) /\ planned = GetPreArchiveFiles(s)
      BY <1>2, <2>1, <2>2
    <2>4. \A f \in File : GetPreArchiveFiles(Append(s, a))[f] = planned'[f]
      BY <1>2, <2>3, FilesAppend
    <2>5. Append(s, a) \in Seq(Archive)
      BY AppendProperties
    <2>6. GetPreArchiveFiles(Append(s, a)) \in Files
      BY <2>5, FilesType
    <2>7. GetPreArchiveFiles(Append(s, a)) = planned'
      BY <1>2, <2>4, <2>6 DEF Files
    <2>8. GetPreArchiveFiles(pre)' = GetPreArchiveFiles(Append(s, a))
      BY <2>3 DEF GetPreArchiveFiles
    <2>9. ASSUME NEW q \in Request PROVE req'[q].pc # "append"
      <3>1. CASE q = r
        BY <1>2, <3>1
      <3>2. CASE q # r
        <4>1. req[q].pc # "append"
          <5>1. Flow(q) /\ q \in Copier \cup Runner
            BY <1>0 DEF FlowInv, Request
          <5> QED BY <1>2, <3>2, <5>1 DEF Flow, OneCopier
        <4> QED BY <1>2, <3>2, <4>1
      <3> QED BY <3>1, <3>2
    <2> QED BY <1>2, <2>7, <2>8, <2>9 DEF PlannedIsKept, At
  <1>4. PlannedIsOwed'
    <2> SUFFICES ASSUME NEW q \in Request, req'[q].pc # "idle", NEW f \in File
                 PROVE  planned'[f] \in req'[q].owed[f]
      BY DEF PlannedIsOwed, At
    <2>1. q # r /\ req[q].pc # "idle"
      BY <1>2
    <2>2. planned[f] \in req[q].owed[f]
      BY <2>1 DEF AcceptInv, PlannedIsOwed, At
    <2> QED BY <1>2, <2>1, <2>2
  <1>5. ConfigMapIsOwed'
    <2>1. cm' # {} => Present(planned)' # {}
      <3>1. \A f \in File : planned[f] # NoArchive => planned'[f] # NoArchive
        BY <1>2, ArchiveAssumption
      <3> QED BY <1>2, <3>1 DEF AcceptInv, ConfigMapIsOwed, Present
    <2>2. ASSUME NEW q \in Request, req'[q].pc = "create", NEW data \in cm', NEW f \in File
          PROVE  data[f] \in req'[q].owed[f]
      BY <1>2, <2>2 DEF AcceptInv, ConfigMapIsOwed, At
    <2>3. ASSUME NEW q \in Request, req'[q].pc = "volumes", pod'.phase = "setup",
                 NEW data \in cm', NEW f \in File
          PROVE  data[f] \in expect'[f]
      BY <1>2, <2>3 DEF AcceptInv, ConfigMapIsOwed, At
    <2> QED BY <2>1, <2>2, <2>3 DEF ConfigMapIsOwed, At
  <1>6. MountsAreRight'
    <2> SUFFICES ASSUME NEW q \in Request, req'[q].pc = "create"
                 PROVE  /\ \A f \in File \ req'[q].mounts : NoArchive \in req'[q].owed[f]
                        /\ req'[q].mounts # {} => req'[q].setup
      BY DEF MountsAreRight, At
    <2>1. q # r /\ req[q].pc = "create"
      BY <1>2
    <2>2. /\ \A f \in File \ req[q].mounts : NoArchive \in req[q].owed[f]
          /\ req[q].mounts # {} => req[q].setup
      BY <2>1 DEF AcceptInv, MountsAreRight, At
    <2> QED BY <1>2, <2>1, <2>2
  <1>7. PodIsExpected'
    BY <1>2 DEF AcceptInv, PodIsExpected
  <1> QED BY <1>3, <1>4, <1>5, <1>6, <1>7

\* A start mounts what is planned; with pre-archives no other start is under way.
LEMMA AddAccept ==
    ASSUME OneRunner, AcceptInv, NEW r \in Request, AddPreArchives(r)
    PROVE  /\ PlannedIsKept' /\ PlannedIsOwed' /\ ConfigMapIsOwed' /\ MountsAreRight'
           /\ PodIsExpected'
  <1>0. FlowInv /\ TypeOK
    BY DEF AcceptInv, FlowInv
  <1>1. planned = GetPreArchiveFiles(pre)
    BY DEF AcceptInv, PlannedIsKept
  <1>2. /\ req[r].pc = "configmap"
        /\ UNCHANGED <<PreArchive, pre, state, pod, issued, planned, expect>>
        /\ \A q \in Request : q # r => req'[q] = req[q]
        /\ req'[r].owed = req[r].owed
        /\ \/ /\ req'[r].pc = "create" /\ req'[r].setup = (pre # <<>>)
              /\ req'[r].mounts = Present(planned)
              /\ \/ Present(planned) = {} /\ cm' = cm
                 \/ Present(planned) # {} /\ cm = {} /\ cm' = {planned}
           \/ /\ req'[r].pc = "rollback" /\ cm' = cm
    BY <1>0, <1>1, AddFacts DEF At
  <1>3. Present(planned) # {} => pre # <<>> /\ PreArchive
    <2>1. Present(NoFiles) = {}
      BY DEF Present, NoFiles
    <2> QED BY <1>1, <2>1, FilesNothing DEF AcceptInv, PlannedIsKept
  <1>4. \A f \in File : planned[f] \in req[r].owed[f]
    BY <1>2 DEF AcceptInv, PlannedIsOwed, At
  <1>5. ASSUME Present(planned) # {}, NEW q \in Request, req[q].pc \in {"create", "volumes"}
        PROVE  FALSE
    <2>1. Flow(q) /\ Flow(r) /\ q \in Copier \cup Runner /\ r \in Copier \cup Runner
      BY <1>0 DEF FlowInv, Request
    <2>2. q \in Runner /\ r \in Runner
      BY <1>2, <1>3, <1>5, <2>1 DEF Flow
    <2> QED BY <1>2, <1>5, <2>2 DEF OneRunner
  <1>6. PlannedIsKept'
    <2>1. ASSUME NEW q \in Request, req'[q].pc = "append" PROVE req'[q] = req[q]
      BY <1>2, <2>1
    <2> QED BY <1>2, <2>1 DEF AcceptInv, PlannedIsKept, At
  <1>7. PlannedIsOwed'
    <2> SUFFICES ASSUME NEW q \in Request, req'[q].pc # "idle", NEW f \in File
                 PROVE  planned'[f] \in req'[q].owed[f]
      BY DEF PlannedIsOwed, At
    <2>1. CASE q = r
      BY <1>2, <1>4, <2>1
    <2>2. CASE q # r
      BY <1>2, <2>2 DEF AcceptInv, PlannedIsOwed, At
    <2> QED BY <2>1, <2>2
  <1>8. ConfigMapIsOwed'
    <2>1. cm' # {} => Present(planned)' # {}
      BY <1>2 DEF AcceptInv, ConfigMapIsOwed, Present
    <2>2. ASSUME NEW q \in Request, req'[q].pc = "create", NEW data \in cm', NEW f \in File
          PROVE  data[f] \in req'[q].owed[f]
      <3>1. CASE q = r
        <4>1. data = planned
          BY <1>2, <2>2, <3>1 DEF AcceptInv, ConfigMapIsOwed
        <4> QED BY <1>2, <1>4, <3>1, <4>1
      <3>2. CASE q # r
        <4>1. req[q].pc = "create" /\ req'[q] = req[q]
          BY <1>2, <2>2, <3>2
        <4>2. cm' = cm
          BY <1>2, <1>5, <4>1
        <4> QED BY <2>2, <4>1, <4>2 DEF AcceptInv, ConfigMapIsOwed, At
      <3> QED BY <3>1, <3>2
    <2>3. ASSUME NEW q \in Request, req'[q].pc = "volumes", pod'.phase = "setup",
                 NEW data \in cm', NEW f \in File
          PROVE  data[f] \in expect'[f]
      <3>1. req[q].pc = "volumes"
        BY <1>2, <2>3
      <3>2. cm' = cm
        BY <1>2, <1>5, <3>1
      <3> QED BY <1>2, <2>3, <3>1, <3>2 DEF AcceptInv, ConfigMapIsOwed, At
    <2> QED BY <2>1, <2>2, <2>3 DEF ConfigMapIsOwed, At
  <1>9. MountsAreRight'
    <2> SUFFICES ASSUME NEW q \in Request, req'[q].pc = "create"
                 PROVE  /\ \A f \in File \ req'[q].mounts : NoArchive \in req'[q].owed[f]
                        /\ req'[q].mounts # {} => req'[q].setup
      BY DEF MountsAreRight, At
    <2>1. CASE q = r
      <3>1. /\ req'[r].mounts = Present(planned) /\ req'[r].setup = (pre # <<>>)
        BY <1>2, <2>1
      <3>2. ASSUME NEW f \in File \ req'[q].mounts PROVE NoArchive \in req'[q].owed[f]
        BY <1>2, <1>4, <2>1, <3>1, <3>2 DEF Present
      <3>3. req'[q].mounts # {} => req'[q].setup
        BY <1>3, <2>1, <3>1, Zenon
      <3> QED BY <3>2, <3>3
    <2>2. CASE q # r
      BY <1>2, <2>2 DEF AcceptInv, MountsAreRight, At
    <2> QED BY <2>1, <2>2
  <1>10. PodIsExpected'
    BY <1>2 DEF AcceptInv, PodIsExpected
  <1> QED BY <1>6, <1>7, <1>8, <1>9, <1>10

\* The pod that is created is expected to hold what the start owes.
LEMMA CreateAccept ==
    ASSUME AcceptInv, NEW r \in Request, CreatePod(r)
    PROVE  /\ PlannedIsKept' /\ PlannedIsOwed' /\ ConfigMapIsOwed' /\ MountsAreRight'
           /\ PodIsExpected'
  <1>0. TypeOK
    BY DEF AcceptInv, FlowInv
  <1>1. /\ req[r].pc = "create"
        /\ UNCHANGED <<PreArchive, pre, state, cm, issued, planned>>
        /\ Moves(r, "volumes") \/ Moves(r, "rollback")
        /\ \/ /\ pod' = pod
              /\ \A f \in File : /\ expect[f] \subseteq expect'[f]
                                 /\ pod.phase = "setup" => req[r].owed[f] \subseteq expect'[f]
           \/ /\ pod'.phase = (IF req[r].setup THEN "setup" ELSE "starting")
              /\ pod'.mounted = req[r].mounts /\ pod'.files = NoFiles
              /\ expect' = req[r].owed
           \/ pod' = pod /\ expect' = expect /\ Moves(r, "rollback")
    BY <1>0, CreateFacts DEF At
  <1>2. /\ \A q \in Request : q # r => req'[q] = req[q]
        /\ req'[r].owed = req[r].owed /\ req'[r].pc \in {"volumes", "rollback"}
    BY <1>1 DEF Moves
  <1>3. ASSUME NEW q \in Request, req'[q].pc \in {"append", "create"} PROVE req'[q] = req[q]
    BY <1>2, <1>3
  <1>4. PlannedIsKept'
    BY <1>1, <1>3 DEF AcceptInv, PlannedIsKept, At
  <1>5. PlannedIsOwed'
    <2> SUFFICES ASSUME NEW q \in Request, req'[q].pc # "idle", NEW f \in File
                 PROVE  planned'[f] \in req'[q].owed[f]
      BY DEF PlannedIsOwed, At
    <2> QED BY <1>1, <1>2 DEF AcceptInv, PlannedIsOwed, At
  <1>6. \A data \in cm, f \in File : data[f] \in req[r].owed[f]
    BY <1>1 DEF AcceptInv, ConfigMapIsOwed, At
  <1>7. ConfigMapIsOwed'
    <2>1. cm' # {} => Present(planned)' # {}
      BY <1>1 DEF AcceptInv, ConfigMapIsOwed, Present
    <2>2. ASSUME NEW q \in Request, req'[q].pc = "create", NEW data \in cm', NEW f \in File
          PROVE  data[f] \in req'[q].owed[f]
      BY <1>1, <1>3, <2>2 DEF AcceptInv, ConfigMapIsOwed, At
    <2>3. ASSUME NEW q \in Request, req'[q].pc = "volumes", pod'.phase = "setup",
                 NEW data \in cm', NEW f \in File
          PROVE  data[f] \in expect'[f]
      <3>1. data \in cm /\ data[f] \in req[r].owed[f]
        BY <1>1, <1>6
      <3>2. CASE q = r
        <4>1. req'[r].pc # "rollback"
          BY <2>3, <3>2
        <4> QED BY <1>1, <2>3, <3>1, <4>1 DEF Moves
      <3>3. CASE q # r
        <4>1. req[q].pc = "volumes"
          BY <1>2, <2>3, <3>3
        <4>2. pod.phase = "setup" => data[f] \in expect[f]
          BY <3>1, <4>1 DEF AcceptInv, ConfigMapIsOwed, At
        <4> QED BY <1>1, <2>3, <3>1, <4>2
      <3> QED BY <3>2, <3>3
    <2> QED BY <2>1, <2>2, <2>3 DEF ConfigMapIsOwed, At
  <1>8. MountsAreRight'
    BY <1>3 DEF AcceptInv, MountsAreRight, At
  <1>9. PodIsExpected'
    <2> SUFFICES ASSUME pod'.phase # "none", NEW f \in File,
                        f \notin pod'.mounted \/ pod'.phase # "setup"
                 PROVE  pod'.files[f] \in expect'[f]
      BY DEF PodIsExpected
    <2>1. CASE pod' = pod /\ expect[f] \subseteq expect'[f]
      BY <2>1 DEF AcceptInv, PodIsExpected
    <2>2. CASE /\ pod'.phase = (IF req[r].setup THEN "setup" ELSE "starting")
               /\ pod'.mounted = req[r].mounts /\ pod'.files = NoFiles
               /\ expect' = req[r].owed
      <3>1. /\ \A g \in File \ req[r].mounts : NoArchive \in req[r].owed[g]
            /\ req[r].mounts # {} => req[r].setup
        BY <1>1 DEF AcceptInv, MountsAreRight, At
      <3>2. f \notin req[r].mounts
        BY <2>2, <3>1
      <3>3. NoFiles[f] = NoArchive
        BY DEF NoFiles
      <3> QED BY <2>2, <3>1, <3>2, <3>3
    <2> QED BY <1>1, <2>1, <2>2
  <1> QED BY <1>4, <1>5, <1>7, <1>8, <1>9

\* With distinct base names every mount shows the file it stands for.
LEMMA MountedIsMeant ==
    ASSUME DistinctBases, NEW data, NEW m \in Mounted(data), NEW f \in Present(data)
    PROVE  m[f] = data[f]
  BY DEF Mounted, Present, DistinctBases

\* Setting a pod up mounts what is expected.
LEMMA VolumesAccept ==
    ASSUME DistinctBases, AcceptInv, NEW r \in Request, CopyVolumeFolders(r)
    PROVE  /\ PlannedIsKept' /\ PlannedIsOwed' /\ ConfigMapIsOwed' /\ MountsAreRight'
           /\ PodIsExpected'
  <1>0. TypeOK /\ {"ready", "rollback"} \subseteq PC \ {"append", "create", "volumes"}
    BY DEF AcceptInv, FlowInv, PC
  <1>1. /\ req[r].pc = "volumes" /\ (Moves(r, "ready") \/ Moves(r, "rollback"))
        /\ UNCHANGED <<PreArchive, pre, state, cm, issued, planned, expect>>
        /\ \/ pod' = pod
           \/ /\ pod.phase = "setup" /\ pod'.phase = "starting"
              /\ pod'.mounted = pod.mounted
              /\ \E data \in IF pod.mounted = {} THEN {NoFiles} ELSE cm :
                    \E m \in Mounted(data) :
                      /\ pod.mounted \subseteq Present(data)
                      /\ \A f \in File : pod'.files[f] =
                           IF f \in pod.mounted THEN m[f] ELSE pod.files[f]
    BY <1>0, VolumesFacts DEF At
  <1>2. pod'.phase = "setup" => pod.phase = "setup" /\ expect' = expect
    BY <1>1
  <1>3. PlannedIsKept' /\ PlannedIsOwed' /\ ConfigMapIsOwed' /\ MountsAreRight'
    <2>1. ~At(r, "idle") /\ cm' \subseteq cm /\ UNCHANGED <<PreArchive, pre, planned>>
      BY <1>1 DEF At
    <2>2. CASE Moves(r, "ready")
      BY <1>0, <1>2, <2>1, <2>2, QuietStep
    <2>3. CASE Moves(r, "rollback")
      BY <1>0, <1>2, <2>1, <2>3, QuietStep
    <2> QED BY <1>1, <2>2, <2>3
  <1>4. PodIsExpected'
    <2> SUFFICES ASSUME pod'.phase # "none", NEW f \in File,
                        f \notin pod'.mounted \/ pod'.phase # "setup"
                 PROVE  pod'.files[f] \in expect'[f]
      BY DEF PodIsExpected
    <2>1. CASE pod' = pod
      BY <1>1, <2>1 DEF AcceptInv, PodIsExpected
    <2>2. CASE pod' # pod
      <3>1. PICK data \in IF pod.mounted = {} THEN {NoFiles} ELSE cm :
                    \E m \in Mounted(data) :
                      /\ pod.mounted \subseteq Present(data)
                      /\ pod'.files[f] = IF f \in pod.mounted THEN m[f] ELSE pod.files[f]
        BY <1>1, <2>2
      <3>2. PICK m \in Mounted(data) :
                      /\ pod.mounted \subseteq Present(data)
                      /\ pod'.files[f] = IF f \in pod.mounted THEN m[f] ELSE pod.files[f]
        BY <3>1
      <3>3. CASE f \in pod.mounted
        <4>1. data \in cm /\ f \in Present(data)
          BY <3>1, <3>2, <3>3
        <4>2. m[f] = data[f]
          BY <4>1, MountedIsMeant
        <4>3. data[f] \in expect[f]
          BY <1>1, <2>2, <4>1 DEF AcceptInv, ConfigMapIsOwed, At
        <4> QED BY <1>1, <3>2, <3>3, <4>2, <4>3
      <3>4. CASE f \notin pod.mounted
        BY <1>1, <2>2, <3>2, <3>4 DEF AcceptInv, PodIsExpected
      <3> QED BY <3>3, <3>4
    <2> QED BY <2>1, <2>2
  <1> QED BY <1>3, <1>4

\* Every step keeps AcceptInv.
LEMMA AcceptStep ==
    ASSUME OneRunner, OneCopier, DistinctBases, AcceptInv, [Next]_vars
    PROVE  AcceptInv'
  <1> DEFINE Rest == /\ PlannedIsKept' /\ PlannedIsOwed' /\ ConfigMapIsOwed'
                     /\ MountsAreRight' /\ PodIsExpected'
  <1>1. FlowInv /\ TypeOK /\ FlowInv'
    BY FlowStep DEF AcceptInv, FlowInv
  <1>2. SUFFICES Rest
    BY <1>1 DEF AcceptInv
  <1>3. {"append", "configmap", "copy", "delcm", "ended", "rollback", "delpod", "started"}
          \subseteq PC \ {"create", "volumes"}
    BY DEF PC
  <1>4. ASSUME NEW r \in Copier, NEW a \in Archive, PutArchive(r, a) PROVE Rest
    <2>1. r \in Request
      BY DEF Request
    <2>2. CASE Begin(r, "put", a, "append")
      BY <1>3, <2>1, <2>2, BeginAccept
    <2>3. CASE Begin(r, "put", a, "configmap")
      BY <1>3, <2>1, <2>3, BeginAccept
    <2>4. CASE Begin(r, "put", a, "copy")
      BY <1>3, <2>1, <2>4, BeginAccept
    <2> QED BY <1>4, <2>2, <2>3, <2>4, PutBegins
  <1>5. ASSUME NEW r \in Runner, ContainerStart(r) \/ ContainerStop(r) \/ ContainerRestart(r)
        PROVE  Rest
    <2>1. r \in Request
      BY DEF Request
    <2>2. CASE Begin(r, "start", NoArchive, "configmap")
      BY <1>3, <2>1, <2>2, BeginAccept
    <2>3. CASE Begin(r, "stop", NoArchive, "ended")
      BY <1>3, <2>1, <2>3, BeginAccept
    <2>4. CASE Begin(r, "stop", NoArchive, "delcm")
      BY <1>3, <2>1, <2>4, BeginAccept
    <2>5. CASE Begin(r, "restart", NoArchive, "delcm")
      BY <1>3, <2>1, <2>5, BeginAccept
    <2> HIDE DEF Rest
    <2> QED BY <1>5, <2>2, <2>3, <2>4, <2>5, Zenon
            DEF ContainerStart, ContainerStop, ContainerRestart
  <1>6. ASSUME NEW r \in Request, AppendPreArchive(r) PROVE Rest
    BY <1>6, AppendAccept
  <1>7. ASSUME NEW r \in Request, AddPreArchives(r) PROVE Rest
    BY <1>7, AddAccept
  <1>8. ASSUME NEW r \in Request, CreatePod(r) PROVE Rest
    BY <1>8, CreateAccept
  <1>9. ASSUME NEW r \in Request, CopyVolumeFolders(r) PROVE Rest
    BY <1>9, VolumesAccept
  <1>10. ASSUME NEW r \in Request, AwaitReady(r) PROVE Rest
    <2>1. /\ req[r].pc = "ready" /\ (Moves(r, "started") \/ Moves(r, "rollback"))
          /\ UNCHANGED <<PreArchive, pre, cm, planned, expect>>
          /\ \/ pod' = pod
             \/ /\ pod.phase \in {"starting", "running"} /\ pod'.phase = "running"
                /\ pod'.mounted = pod.mounted /\ pod'.files = pod.files
      BY <1>1, <1>10, ReadyFacts DEF At
    <2>2. /\ ~At(r, "idle") /\ cm' \subseteq cm /\ UNCHANGED <<PreArchive, pre, planned>>
          /\ pod'.phase = "setup" => pod.phase = "setup" /\ expect' = expect
      BY <2>1 DEF At
    <2>3. PlannedIsKept' /\ PlannedIsOwed' /\ ConfigMapIsOwed' /\ MountsAreRight'
      <3>1. CASE Moves(r, "started")
        BY <1>3, <2>2, <3>1, QuietStep
      <3>2. CASE Moves(r, "rollback")
        BY <1>3, <2>2, <3>2, QuietStep
      <3> QED BY <2>1, <3>1, <3>2
    <2>4. PodIsExpected'
      BY <2>1 DEF AcceptInv, PodIsExpected
    <2> QED BY <2>3, <2>4
  <1>11. ASSUME NEW r \in Request, Started(r) PROVE Rest
    <2>1. /\ ~At(r, "idle") /\ cm' \subseteq cm /\ UNCHANGED <<PreArchive, pre, planned>>
          /\ UNCHANGED <<pod, expect>>
          /\ pod'.phase = "setup" => pod.phase = "setup" /\ expect' = expect
          /\ Goto(r, "copy") \/ Return(r)
      BY <1>11 DEF Started, At
    <2>2. Moves(r, "copy") \/ Returns(r)
      BY <1>1, <1>3, <2>1, GotoMoves, ReturnReturns
    <2>3. PlannedIsKept' /\ PlannedIsOwed' /\ ConfigMapIsOwed' /\ MountsAreRight'
      BY <1>3, <2>1, <2>2, QuietStep
    <2>4. PodIsExpected'
      BY <2>1 DEF AcceptInv, PodIsExpected
    <2> QED BY <2>3, <2>4
  <1>12. ASSUME NEW r \in Request, Rollback(r) PROVE Rest
    <2>1. /\ cm' \subseteq cm /\ UNCHANGED <<PreArchive, pre, planned, expect>>
          /\ pod' = pod \/ pod'.phase = "none"
          /\ Return(r)
      BY <1>12, ConstantTypes DEF Rollback
    <2>2. Returns(r) /\ (pod'.phase = "setup" => pod.phase = "setup" /\ expect' = expect)
      BY <1>1, <2>1, ReturnReturns
    <2>3. PlannedIsKept' /\ PlannedIsOwed' /\ ConfigMapIsOwed' /\ MountsAreRight'
      BY <1>3, <2>1, <2>2, QuietStep
    <2>4. PodIsExpected'
      BY <2>1 DEF AcceptInv, PodIsExpected
    <2> QED BY <2>3, <2>4
  <1>13. ASSUME NEW r \in Request, CopyToContainer(r) PROVE Rest
    <2>1. /\ Returns(r) /\ UNCHANGED <<PreArchive, pre, cm, planned>>
          /\ \/ pod' = pod /\ expect' = expect
             \/ /\ pod.phase = "running" /\ pod'.phase = "running"
                /\ \A f \in File :
                     \/ pod'.files[f] \in expect'[f]
                     \/ pod'.files[f] = pod.files[f] /\ expect'[f] = expect[f]
      BY <1>1, <1>13, CopyFacts
    <2>2. /\ cm' \subseteq cm /\ UNCHANGED <<PreArchive, pre, planned>>
          /\ pod'.phase = "setup" => pod.phase = "setup" /\ expect' = expect
      BY <2>1
    <2>3. PlannedIsKept' /\ PlannedIsOwed' /\ ConfigMapIsOwed' /\ MountsAreRight'
      BY <1>3, <2>1, <2>2, QuietStep
    <2>4. PodIsExpected'
      BY <2>1 DEF AcceptInv, PodIsExpected
    <2> QED BY <2>3, <2>4
  <1>14. ASSUME NEW r \in Request, DeleteConfigMaps(r) PROVE Rest
    <2>1. /\ ~At(r, "idle") /\ cm' \subseteq cm /\ UNCHANGED <<PreArchive, pre, planned>>
          /\ UNCHANGED <<pod, expect>>
          /\ pod'.phase = "setup" => pod.phase = "setup" /\ expect' = expect
          /\ Goto(r, "delpod")
      BY <1>14 DEF DeleteConfigMaps, At
    <2>2. Moves(r, "delpod")
      BY <1>1, <1>3, <2>1, GotoMoves
    <2>3. PlannedIsKept' /\ PlannedIsOwed' /\ ConfigMapIsOwed' /\ MountsAreRight'
      BY <1>3, <2>1, <2>2, QuietStep
    <2>4. PodIsExpected'
      BY <2>1 DEF AcceptInv, PodIsExpected
    <2> QED BY <2>3, <2>4
  <1>15. ASSUME NEW r \in Request, DeletePods(r) PROVE Rest
    <2>1. /\ ~At(r, "idle") /\ cm' \subseteq cm /\ UNCHANGED <<PreArchive, pre, planned, expect>>
          /\ pod' = pod \/ pod'.phase = "none"
          /\ Goto(r, "ended")
      BY <1>15, ConstantTypes DEF DeletePods, At
    <2>2. Moves(r, "ended") /\ (pod'.phase = "setup" => pod.phase = "setup" /\ expect' = expect)
      BY <1>1, <1>3, <2>1, GotoMoves
    <2>3. PlannedIsKept' /\ PlannedIsOwed' /\ ConfigMapIsOwed' /\ MountsAreRight'
      BY <1>3, <2>1, <2>2, QuietStep
    <2>4. PodIsExpected'
      BY <2>1 DEF AcceptInv, PodIsExpected
    <2> QED BY <2>3, <2>4
  <1>16. ASSUME NEW r \in Request, EndedFlags(r) PROVE Rest
    <2>1. /\ ~At(r, "idle") /\ cm' \subseteq cm /\ UNCHANGED <<PreArchive, pre, planned>>
          /\ UNCHANGED <<pod, expect>>
          /\ pod'.phase = "setup" => pod.phase = "setup" /\ expect' = expect
          /\ Goto(r, "configmap") \/ Return(r)
      BY <1>16 DEF EndedFlags, At
    <2>2. Moves(r, "configmap") \/ Returns(r)
      BY <1>1, <1>3, <2>1, GotoMoves, ReturnReturns
    <2>3. PlannedIsKept' /\ PlannedIsOwed' /\ ConfigMapIsOwed' /\ MountsAreRight'
      BY <1>3, <2>1, <2>2, QuietStep
    <2>4. PodIsExpected'
      BY <2>1 DEF AcceptInv, PodIsExpected
    <2> QED BY <2>3, <2>4
  <1>17. CASE UNCHANGED vars
    <2>1. PlannedIsKept'
      BY <1>17 DEF AcceptInv, PlannedIsKept, GetPreArchiveFiles, At, vars
    <2>2. PlannedIsOwed' /\ ConfigMapIsOwed' /\ MountsAreRight' /\ PodIsExpected'
      BY <1>17 DEF AcceptInv, PlannedIsOwed, ConfigMapIsOwed, MountsAreRight, PodIsExpected,
                   Present, At, vars
    <2> QED BY <2>1, <2>2
  <1> HIDE DEF Rest
  <1>18. ASSUME NEW r \in Request, Step(r) PROVE Rest
    BY <1>6, <1>7, <1>8, <1>9, <1>10, <1>11, <1>12, <1>13, <1>14, <1>15, <1>16, <1>18, Zenon
       DEF Step
  <1> QED BY <1>4, <1>5, <1>17, <1>18, Zenon DEF Next

\* The initial states are in the flow, with nothing planned.
LEMMA ArchivesStart ==
    ASSUME Init
    PROVE  AcceptInv /\ RestartInv
  <1>1. /\ Cardinality({}) = 0 /\ <<>> \in Seq(Archive)
        /\ \A r \in Request : req[r].pc = "idle" /\ req[r].op = "none"
    BY FS_EmptySet, EmptySeq, ConstantTypes DEF Init
  <1>2. TypeOK
    <2>1. failed \in BOOLEAN /\ PreArchive \in BOOLEAN
      BY Zenon DEF Init
    <2> QED BY <1>1, <2>1, ConstantTypes, BoundAssumption, TypeOKParts DEF Init
  <1>3. FlowInv
    BY <1>1, <1>2, RequestAssumption DEF FlowInv, Flow, At
  <1>4. PlannedIsKept
    BY <1>1, FilesNothing DEF Init, PlannedIsKept, At
  <1>5. PlannedIsOwed /\ ConfigMapIsOwed /\ MountsAreRight
    BY <1>1 DEF Init, PlannedIsOwed, ConfigMapIsOwed, MountsAreRight, At
  <1>6. PodIsExpected
    BY ConstantTypes DEF Init, PodIsExpected
  <1>7. RestartInv
    <2>1. \A r \in Runner : req[r].pc = "idle"
      BY <1>1 DEF Request
    <2> QED BY <2>1 DEF Init, RestartInv, Progress, StartPhase, At
  <1> QED BY <1>3, <1>4, <1>5, <1>6, <1>7 DEF AcceptInv

----------------------------------------------------------------------------
(* The theorems. *)

\* The record, the namespace and the handlers are always of their types.
THEOREM ArchivesTypeCorrect == Spec => []TypeOK
  <1>1. Init => FlowInv
    BY ArchivesStart DEF AcceptInv
  <1>2. FlowInv /\ [Next]_vars => FlowInv'
    BY FlowStep
  <1>3. FlowInv => TypeOK
    BY DEF FlowInv
  <1> QED BY <1>1, <1>2, <1>3, PTL DEF Spec

\* AcceptedIsThere for any archives, any number of failing calls and any number
\* of puts, starts, stops and restarts, where a put may overlap a start or a
\* stop, but neither another of its kind: every file of a running pod holds what
\* was copied to it or what PutArchive had answered would be ("planned archive
\* to be copied to container").
THEOREM AcceptedAlwaysThere ==
    ASSUME OneRunner, OneCopier, DistinctBases
    PROVE  Spec => []AcceptedIsThere
  <1>1. Init => AcceptInv
    BY ArchivesStart
  <1>2. AcceptInv /\ [Next]_vars => AcceptInv'
    BY AcceptStep
  <1>3. AcceptInv => AcceptedIsThere
    BY DEF AcceptInv, PodIsExpected, AcceptedIsThere
  <1> QED BY <1>1, <1>2, <1>3, PTL DEF Spec

----------------------------------------------------------------------------
(* What may refuse the next start. *)

\* Steps of the puts do not disturb a start or a stop.
LEMMA CopierKeeps ==
    ASSUME RestartInv, PreArchive, Good,
           \A q \in Runner : /\ req'[q].pc = req[q].pc /\ req'[q].setup = req[q].setup,
           UNCHANGED <<state, cm>>, pre = <<>> \/ pre' # <<>>,
           pod' = pod \/ /\ pod.phase = "running" /\ pod'.phase = "running"
    PROVE  RestartInv'
  <1>1. /\ (\A r \in Runner : At(r, "idle")) /\ state # "running" => cm = {} /\ pod = NoPod
        /\ \A r \in Runner : Progress(r)
    BY DEF RestartInv
  <1>2. pod' # pod => pod.phase = "running" /\ pod # NoPod
    BY ConstantTypes
  <1>3. (\A r \in Runner : At(r, "idle")') /\ state' # "running" => cm' = {} /\ pod' = NoPod
    BY <1>1, <1>2 DEF At
  <1>4. ASSUME NEW q \in Runner PROVE Progress(q)'
    <2>1. CASE pod' = pod
      <3>1. CASE pre' = pre
        BY <1>1, <2>1, <3>1 DEF Progress, At
      <3>2. CASE pre' # <<>>
        BY <1>1, <2>1, <3>2 DEF Progress, At
      <3>3. CASE pre = <<>> /\ pre' = <<>>
        BY <1>1, <2>1, <3>3 DEF Progress, At
      <3> QED BY <3>1, <3>2, <3>3
    <2>2. CASE pod' # pod
      BY <1>1, <1>2, <2>2 DEF Progress, At
    <2> QED BY <2>1, <2>2
  <1> QED BY <1>3, <1>4 DEF RestartInv

\* The one runner's own steps: RestartInv follows from its progress, and from
\* what is left when it returns.
LEMMA RunnerKeeps ==
    ASSUME OneRunner, NEW r \in Runner,
           Progress(r)', req'[r].pc = "idle" /\ state' # "running" => cm' = {} /\ pod' = NoPod
    PROVE  RestartInv'
  <1>1. \A q \in Runner : q = r
    BY DEF OneRunner
  <1>2. \A q \in Runner : Progress(q)'
    BY <1>1, Zenon
  <1>3. (\A q \in Runner : At(q, "idle")') => req'[r].pc = "idle"
    BY DEF At
  <1> QED BY <1>2, <1>3 DEF RestartInv

\* Every step keeps RestartInv.
LEMMA RestartStep ==
    ASSUME OneRunner, FlowInv, RestartInv, [Next]_vars
    PROVE  RestartInv'
  <1>0. TypeOK
    BY DEF FlowInv
  <1>1. SUFFICES ASSUME PreArchive', faults' = 0, ~failed' PROVE RestartInv'
    BY DEF RestartInv, Good
  <1>2. PreArchive' = PreArchive
    BY DEF Next, Step, PutArchive, ContainerStart, ContainerStop, ContainerRestart, Begin,
           AppendPreArchive, AddPreArchives, CreatePod, CopyVolumeFolders, AwaitReady,
           Started, Rollback, CopyToContainer, DeleteConfigMaps, DeletePods, EndedFlags, vars
  <1>3. ~Fault /\ ~PodFails /\ (NoFault => Good) /\ faults \in Nat
    <2>1. ~Fault /\ (faults' = faults => faults = 0) /\ faults \in Nat
      BY <1>0, <1>1, TypeOKParts DEF Fault
    <2>2. ~PodFails
      BY <1>1, Zenon DEF PodFails
    <2>3. failed' = failed => ~failed
      BY <1>1
    <2> QED BY <2>1, <2>2, <2>3 DEF NoFault, Good
  <1>4. PreArchive
    BY <1>1, <1>2
  <1>5. ASSUME NEW q \in Request, req[q].pc \notin {"idle", "append", "copy"} PROVE q \in Runner
    <2>1. Flow(q) /\ q \in Copier \cup Runner
      BY DEF FlowInv, Request
    <2> QED BY <1>4, <1>5, <2>1 DEF Flow
  <1>6. ASSUME NEW r \in Copier PROVE \A q \in Runner : q # r /\ q \in Request
    BY RequestAssumption DEF Request
  <1>7. ASSUME Good, NEW r \in Runner
        PROVE  /\ Progress(r) /\ r \in Request /\ Flow(r)
               /\ req[r].pc = "idle" /\ state # "running" => cm = {} /\ pod = NoPod
    <2>1. (\A q \in Runner : At(q, "idle")) <=> req[r].pc = "idle"
      BY DEF OneRunner, At
    <2> QED BY <1>4, <1>7, <2>1 DEF RestartInv, FlowInv, Request
  <1>8. ASSUME NEW r \in Copier, NEW a \in Archive, PutArchive(r, a) PROVE RestartInv'
    <2>1. r \in Request /\ {"append", "configmap", "copy"} \subseteq PC
      BY DEF Request, PC
    <2>2. ASSUME NEW p \in PC, Begin(r, "put", a, p) PROVE RestartInv'
      <3>1. /\ \A q \in Request : q # r => req'[q] = req[q]
            /\ UNCHANGED <<pre, state, cm, pod, faults, failed>>
        BY <1>0, <2>1, <2>2, BeginFacts
      <3>2. \A q \in Runner : req'[q] = req[q]
        BY <1>6, <3>1
      <3> QED BY <1>3, <1>4, <3>1, <3>2, CopierKeeps DEF NoFault
    <2> QED BY <1>8, <2>1, <2>2, PutBegins
  <1>9. ASSUME NEW r \in Runner, NEW op \in {"start", "stop", "restart"}, NEW p \in PC,
               Begin(r, op, NoArchive, p), p \in {"configmap", "ended"} => state # "running",
               p \in {"configmap", "ended", "delcm"}
        PROVE  RestartInv'
    <2>1. r \in Request
      BY DEF Request
    <2>2. /\ req[r].pc = "idle" /\ req'[r].pc = p
          /\ UNCHANGED <<pre, state, cm, pod, faults, failed>>
      BY <1>0, <1>9, <2>1, BeginFacts DEF At
    <2>3. state # "running" => cm = {} /\ pod = NoPod
      BY <1>3, <1>7, <2>2 DEF NoFault
    <2>4. Progress(r)'
      BY <1>9, <2>2, <2>3 DEF Progress, StartPhase, At
    <2> QED BY <1>9, <2>2, <2>4, RunnerKeeps
  <1>10. ASSUME NEW r \in Runner, ContainerStart(r) \/ ContainerStop(r) \/ ContainerRestart(r)
         PROVE  RestartInv'
    <2>1. {"configmap", "delcm", "ended"} \subseteq PC
      BY DEF PC
    <2>2. CASE ContainerStart(r)
      BY <1>9, <2>1, <2>2 DEF ContainerStart
    <2>3. CASE Begin(r, "stop", NoArchive, "ended") /\ state = "stopped"
      BY <1>9, <2>1, <2>3
    <2>4. CASE Begin(r, "stop", NoArchive, "delcm")
      BY <1>9, <2>1, <2>4
    <2>5. CASE ContainerRestart(r)
      BY <1>9, <2>1, <2>5 DEF ContainerRestart
    <2> QED BY <1>10, <2>2, <2>3, <2>4, <2>5, Zenon DEF ContainerStop
  <1>11. ASSUME NEW r \in Request, AppendPreArchive(r) PROVE RestartInv'
    <2>1. /\ r \in Copier /\ UNCHANGED <<state, cm, pod, faults, failed>>
          /\ \A q \in Request : q # r => req'[q].pc = req[q].pc /\ req'[q].setup = req[q].setup
      BY <1>11, AppendFacts
    <2>2. \A q \in Runner : req'[q].pc = req[q].pc /\ req'[q].setup = req[q].setup
      BY <1>6, <2>1
    <2>3. pre' # <<>>
      <3>1. req[r].seen \in Seq(Archive) /\ req[r].archive \in Archive
            /\ pre' = Append(req[r].seen, req[r].archive)
        BY <1>0, <1>11, AppendFacts, TypeOKParts DEF ReqType
      <3> QED BY <3>1, AppendProperties
    <2> QED BY <1>3, <1>4, <2>1, <2>2, <2>3, CopierKeeps DEF NoFault
  <1>12. ASSUME NEW r \in Request, CopyToContainer(r) PROVE RestartInv'
    <2>1. /\ r \in Copier /\ UNCHANGED <<pre, state, cm>> /\ NoFault
          /\ \A q \in Request : q # r => req'[q] = req[q]
          /\ pod' = pod \/ (pod.phase = "running" /\ pod'.phase = "running")
      BY <1>3, <1>12, CopyFacts DEF Returns
    <2>2. \A q \in Runner : req'[q] = req[q]
      BY <1>6, <2>1
    <2> QED BY <1>3, <1>4, <2>1, <2>2, CopierKeeps
  <1>13. ASSUME NEW r \in Request, AddPreArchives(r) PROVE RestartInv'
    <2>1. /\ req[r].pc = "configmap" /\ UNCHANGED <<pre, state, pod>> /\ NoFault
          /\ \/ /\ req'[r].pc = "create" /\ req'[r].setup = (pre # <<>>)
                /\ Present(GetPreArchiveFiles(pre)) = {} => cm' = cm
             \/ cm # {}
      BY <1>0, <1>3, <1>13, AddFacts DEF At
    <2>2. r \in Runner /\ Good
      BY <1>3, <1>5, <2>1
    <2>3. cm = {} /\ pod = NoPod /\ state # "running"
      BY <1>7, <2>1, <2>2 DEF Progress, StartPhase, At
    <2>4. pre = <<>> => cm' = {}
      <3>1. Present(NoFiles) = {}
        BY DEF Present, NoFiles
      <3> QED BY <2>1, <2>3, <3>1, FilesNothing
    <2>5. /\ req'[r].pc = "create" /\ state' # "running" /\ pod' = NoPod
          /\ IF req'[r].setup THEN pre' # <<>> ELSE cm' = {}
      <3>1. req'[r].pc = "create" /\ req'[r].setup = (pre # <<>>)
        BY <2>1, <2>3
      <3>2. IF req'[r].setup THEN pre' # <<>> ELSE cm' = {}
        BY <2>1, <2>4, <3>1, Zenon
      <3> QED BY <2>1, <2>3, <3>1, <3>2
    <2>6. Progress(r)'
      BY <2>5 DEF Progress, StartPhase, At
    <2> QED BY <2>2, <2>5, <2>6, RunnerKeeps
  <1>14. ASSUME NEW r \in Request, CreatePod(r) PROVE RestartInv'
    <2>1. /\ req[r].pc = "create" /\ UNCHANGED <<pre, state, cm>> /\ NoFault
          /\ Moves(r, "volumes")
          /\ \/ pod # NoPod
             \/ /\ pod'.phase = (IF req[r].setup THEN "setup" ELSE "starting")
                /\ pod'.setup = req[r].setup
      BY <1>0, <1>3, <1>14, CreateFacts DEF At
    <2>2. r \in Runner /\ Good /\ req'[r].pc = "volumes"
      BY <1>3, <1>5, <2>1 DEF Moves
    <2>3. /\ pod = NoPod /\ state # "running"
          /\ IF req[r].setup THEN pre # <<>> ELSE cm = {}
      BY <1>7, <2>1, <2>2 DEF Progress, StartPhase, At
    <2>4. IF pod'.setup THEN pre' # <<>> /\ pod'.phase = "setup"
                        ELSE cm' = {} /\ pod'.phase = "starting"
      <3>1. CASE req[r].setup
        BY <2>1, <2>3, <3>1
      <3>2. CASE ~req[r].setup
        BY <2>1, <2>3, <3>2
      <3> QED BY <3>1, <3>2
    <2>5. Progress(r)'
      BY <2>1, <2>2, <2>3, <2>4 DEF Progress, StartPhase, At
    <2> QED BY <2>2, <2>5, RunnerKeeps
  <1>15. ASSUME NEW r \in Request, CopyVolumeFolders(r) PROVE RestartInv'
    <2>1. /\ req[r].pc = "volumes" /\ UNCHANGED <<pre, state, cm>> /\ NoFault
          /\ \/ pod' = pod /\ Moves(r, "ready") /\ (pre = <<>> \/ pod.phase # "setup")
             \/ pod' = pod /\ Moves(r, "rollback") /\ ~pod.setup
             \/ Moves(r, "ready") /\ pod'.phase = "starting"
      BY <1>0, <1>3, <1>15, VolumesFacts DEF At
    <2>2. r \in Runner /\ Good /\ req'[r].pc \in {"ready", "rollback"}
      BY <1>3, <1>5, <2>1 DEF Moves
    <2>3. /\ state # "running"
          /\ IF pod.setup THEN pre # <<>> /\ pod.phase = "setup"
                          ELSE cm = {} /\ pod.phase = "starting"
      BY <1>7, <2>1, <2>2 DEF Progress, StartPhase, At
    <2>4. \/ req'[r].pc = "ready" /\ pod'.phase = "starting"
          \/ req'[r].pc = "rollback" /\ cm' = {}
      <3>1. CASE pod.setup
        BY <2>1, <2>3, <3>1 DEF Moves
      <3>2. CASE ~pod.setup
        BY <2>1, <2>3, <3>2 DEF Moves
      <3> QED BY <3>1, <3>2
    <2>5. Progress(r)'
      BY <2>1, <2>3, <2>4 DEF Progress, StartPhase, At
    <2> QED BY <2>2, <2>5, RunnerKeeps
  <1>16. ASSUME NEW r \in Request, AwaitReady(r) PROVE RestartInv'
    <2>1. /\ req[r].pc = "ready" /\ UNCHANGED <<pre, state, cm>> /\ NoFault
          /\ Moves(r, "started") \/ pod.phase \in {"none", "setup"}
      BY <1>0, <1>3, <1>16, ReadyFacts DEF At
    <2>2. r \in Runner /\ Good
      BY <1>3, <1>5, <2>1
    <2>3. state # "running" /\ pod.phase = "starting"
      BY <1>7, <2>1, <2>2 DEF Progress, StartPhase, At
    <2>4. req'[r].pc = "started"
      BY <2>1, <2>3 DEF Moves
    <2>5. Progress(r)'
      BY <2>1, <2>3, <2>4 DEF Progress, StartPhase, At
    <2> QED BY <2>2, <2>4, <2>5, RunnerKeeps
  <1>17. ASSUME NEW r \in Request, Started(r) PROVE RestartInv'
    <2>1. /\ req[r].pc = "started" /\ state' = "running" /\ UNCHANGED <<faults, failed>>
          /\ req[r].op # "put" => Return(r)
      BY <1>1, <1>17 DEF Started, At
    <2>2. r \in Runner /\ req[r].op # "put"
      BY <1>3, <1>5, <1>7, <2>1 DEF Flow, NoFault
    <2>3. req'[r].pc = "idle"
      BY <1>0, <2>1, <2>2, ReturnReturns DEF Returns
    <2>4. Progress(r)'
      BY <2>3 DEF Progress, StartPhase, At
    <2> QED BY <2>1, <2>2, <2>4, RunnerKeeps
  <1>18. ASSUME NEW r \in Request, Rollback(r) PROVE RestartInv'
    <2>1. /\ req[r].pc = "rollback" /\ cm' = cm /\ pod' = NoPod /\ NoFault /\ Return(r)
      BY <1>3, <1>18 DEF Rollback, At
    <2>2. r \in Runner /\ Good
      BY <1>3, <1>5, <2>1
    <2>3. cm = {}
      BY <1>7, <2>1, <2>2 DEF Progress, At
    <2>4. req'[r].pc = "idle"
      BY <1>0, <2>1, ReturnReturns DEF Returns
    <2>5. Progress(r)'
      BY <2>4 DEF Progress, StartPhase, At
    <2> QED BY <2>1, <2>2, <2>3, <2>5, RunnerKeeps
  <1>19. ASSUME NEW r \in Request, DeleteConfigMaps(r) PROVE RestartInv'
    <2>1. /\ req[r].pc = "delcm" /\ cm' = {} /\ Goto(r, "delpod") /\ "delpod" \in PC
      BY <1>3, <1>19 DEF DeleteConfigMaps, At, PC
    <2>2. r \in Runner
      BY <1>5, <2>1
    <2>3. req'[r].pc = "delpod"
      BY <1>0, <2>1, GotoMoves DEF Moves
    <2>4. Progress(r)'
      BY <2>1, <2>3 DEF Progress, StartPhase, At
    <2> QED BY <2>2, <2>3, <2>4, RunnerKeeps
  <1>20. ASSUME NEW r \in Request, DeletePods(r) PROVE RestartInv'
    <2>1. /\ req[r].pc = "delpod" /\ pod' = NoPod /\ NoFault /\ Goto(r, "ended") /\ "ended" \in PC
          /\ cm' = cm
      BY <1>3, <1>20 DEF DeletePods, At, PC
    <2>2. r \in Runner /\ Good
      BY <1>3, <1>5, <2>1
    <2>3. req'[r].pc = "ended" /\ cm' = {}
      BY <1>0, <1>7, <2>1, <2>2, GotoMoves DEF Moves, Progress, At
    <2>4. Progress(r)'
      BY <2>1, <2>3 DEF Progress, StartPhase, At
    <2> QED BY <2>2, <2>3, <2>4, RunnerKeeps
  <1>21. ASSUME NEW r \in Request, EndedFlags(r) PROVE RestartInv'
    <2>1. /\ req[r].pc = "ended" /\ state' = "stopped" /\ UNCHANGED <<cm, pod, faults, failed>>
          /\ Goto(r, "configmap") \/ Return(r)
          /\ "configmap" \in PC
      BY <1>1, <1>21 DEF EndedFlags, At, PC
    <2>2. r \in Runner
      BY <1>5, <2>1
    <2>3. cm' = {} /\ pod' = NoPod
      BY <1>3, <1>7, <2>1, <2>2 DEF Progress, At, NoFault
    <2>4. req'[r].pc \in {"configmap", "idle"}
      BY <1>0, <2>1, GotoMoves, ReturnReturns DEF Moves, Returns
    <2>5. Progress(r)'
      BY <2>1, <2>3, <2>4 DEF Progress, StartPhase, At
    <2> QED BY <2>2, <2>3, <2>5, RunnerKeeps
  <1>22. CASE UNCHANGED vars
    BY <1>22 DEF RestartInv, Good, Progress, At, vars
  <1>23. ASSUME NEW r \in Request, Step(r) PROVE RestartInv'
    BY <1>11, <1>12, <1>13, <1>14, <1>15, <1>16, <1>17, <1>18, <1>19, <1>20, <1>21, <1>23, Zenon
       DEF Step
  <1> QED BY <1>8, <1>10, <1>22, <1>23, Zenon DEF Next

\* OnlyFailuresRefuseStart for any archives and any number of requests, puts
\* overlapping each other, starts and stops: with --pre-archive, and as long as
\* neither a call has failed nor a pod since the configmap was last deleted, the
\* configmap and the pod of a container that does not run never refuse its next
\* start.
THEOREM StartRefusedOnlyByFailures ==
    ASSUME OneRunner
    PROVE  Spec => []OnlyFailuresRefuseStart
  <1>1. Init => FlowInv /\ RestartInv
    BY ArchivesStart DEF AcceptInv
  <1>2. FlowInv /\ RestartInv /\ [Next]_vars => FlowInv' /\ RestartInv'
    BY FlowStep, RestartStep
  <1>3. RestartInv => OnlyFailuresRefuseStart
    BY DEF RestartInv, Good, OnlyFailuresRefuseStart, AllIdle, Request, At
  <1> QED BY <1>1, <1>2, <1>3, PTL DEF Spec

=============================================================================
