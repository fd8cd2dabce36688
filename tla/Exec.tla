-------------------------------- MODULE Exec --------------------------------
(***************************************************************************)
(* Exec instances: their records in the database, the sessions that run     *)
(* them, the reaper of old records, and the multiplexing of a session's     *)
(* stdout and stderr over the one connection to the client (IoProxy).       *)
(*                                                                         *)
(* A session has a goroutine per stream that copies what the command        *)
(* prints, the goroutines that flush an unfinished line after 100ms, and    *)
(* the handler that flushes what is left when the command has ended.  All   *)
(* of them write to the connection, under a lock that the two proxies of    *)
(* the session share.  Output is abstracted to a sequence of characters     *)
(* that are newlines or not; a detached session discards it.                *)
(***************************************************************************)
EXTENDS Naturals, Sequences, SequencesExt

CONSTANTS
    Record,      \* exec instances
    Attached,    \* sessions whose output goes to the client
    Detached,    \* sessions started with Detach
    Chunk,       \* what a command prints at once
    Codes,       \* exit codes
    MaxPrinted   \* bound: characters a session prints

ASSUME SessionAssumption == Attached \cap Detached = {}
ASSUME CodesAssumption == 0 \in Codes
ASSUME ChunkAssumption == Chunk \subseteq Seq({"char", "newline"})
ASSUME BoundAssumption == MaxPrinted \in Nat

Session == Attached \cup Detached
Std == {"stdout", "stderr"}
Text == Seq({"char", "newline"})

VARIABLES
    execs,    \* exec records: created, in the database, older than 5 minutes
    session,  \* the goroutines of ExecStart
    buf,      \* the buffer of each proxy
    flusher,  \* its flag that a flush is scheduled
    timer,    \* is there a goroutine that will flush it?
    lock,     \* the session's mutex, and what its holder is doing
    out,      \* the connection, a sequence of headers and payloads
    gone,     \* writes to the connection fail
    printed   \* what the command printed, per stream

io == <<buf, flusher, timer, lock, out, gone, printed>>
vars == <<execs, session, io>>

Free == [by |-> "none", std |-> "stdout", step |-> "next"]

\* Type correctness; while the command runs the flag of a proxy tells of its
\* flush (Write starts no second one).
TypeOK ==
    /\ execs \in [Record -> [created : BOOLEAN, stored : BOOLEAN,
                             aged : BOOLEAN, code : Codes]]
    /\ session \in [Session ->
          [pc : {"idle", "run", "stderr", "stdout", "save", "close", "done"},
           of : Record \cup {"none"}, ended : {"not", "ok", "error"}, code : Codes]]
    /\ buf \in [Attached -> [Std -> Text]]
    /\ flusher \in [Attached -> [Std -> BOOLEAN]]
    /\ timer \in [Attached -> [Std -> BOOLEAN]]
    /\ lock \in [Attached -> [Std -> [by : {"none", "copy", "timer", "end"},
                                      std : Std, step : {"next", "payload"}]]]
    /\ out \in [Attached -> Seq([kind : {"header", "payload"}, std : Std,
                                 len : Nat, data : Text])]
    /\ gone \in [Attached -> BOOLEAN]
    /\ printed \in [Attached -> [Std -> Text]]
    /\ \A a \in Attached, s \in Std :
         session[a].pc = "run" /\ timer[a][s] => flusher[a][s]

Init ==
    /\ execs = [e \in Record |-> [created |-> FALSE, stored |-> FALSE,
                                  aged |-> FALSE, code |-> 0]]
    /\ session = [a \in Session |-> [pc |-> "idle", of |-> "none",
                                     ended |-> "not", code |-> 0]]
    /\ buf = [a \in Attached |-> [s \in Std |-> <<>>]]
    /\ flusher = [a \in Attached |-> [s \in Std |-> FALSE]]
    /\ timer = [a \in Attached |-> [s \in Std |-> FALSE]]
    /\ lock = [a \in Attached |-> [s \in Std |-> Free]]
    /\ out = [a \in Attached |-> <<>>]
    /\ gone = [a \in Attached |-> FALSE]
    /\ printed = [a \in Attached |-> [s \in Std |-> <<>>]]

----------------------------------------------------------------------------
(* The records. *)

\* The records in the database.
GetExecs == {e \in Record : execs[e].stored}

\* SaveExec of the database inserts the record, with its exit code, whether or
\* not it is still there.
Insert(e, code) ==
    execs' = [execs EXCEPT ![e].stored = TRUE, ![e].code = code]

\* ContainerExec stores a new record.  It and ExecStart refuse a request for a
\* container that is not in the database, which changes nothing.
ContainerExec(e) ==
    /\ ~execs[e].created
    /\ execs' = [execs EXCEPT ![e].created = TRUE, ![e].stored = TRUE]
    /\ UNCHANGED <<session, io>>

Age(e) ==
    /\ execs[e].created /\ ~execs[e].aged
    /\ execs' = [execs EXCEPT ![e].aged = TRUE]
    /\ UNCHANGED <<session, io>>

\* Mutant: only records nobody has started are cleaned.
CleanUnusedExecs(e) ==
    /\ e \in GetExecs /\ execs[e].aged
    /\ \A a \in Session : session[a].of # e
    /\ execs' = [execs EXCEPT ![e].stored = FALSE]
    /\ UNCHANGED <<session, io>>

\* The reaper removes an old record, whether or not a session runs it.
CleanExecs(e) ==
    /\ e \in GetExecs /\ execs[e].aged
    /\ execs' = [execs EXCEPT ![e].stored = FALSE]
    /\ UNCHANGED <<session, io>>

----------------------------------------------------------------------------
(* The sessions.  A record can be started any number of times, also while   *)
(* another session runs it.                                                 *)

ExecStart(a, e) ==
    /\ session[a].pc = "idle"
    /\ e \in GetExecs
    /\ session' = [session EXCEPT ![a].pc = "run", ![a].of = e]
    /\ UNCHANGED <<execs, io>>

\* The goroutines that copy the session's output: none is in Write.
Copied(a) == a \in Attached => \A s \in Std : lock[a][s].by # "copy"

\* Mutant: the deferred flush of stderr is missing.
AfterCommandNoFlush(a) == IF a \in Attached THEN "stdout" ELSE "save"

\* Where the handler goes on when the command has ended: the deferred flushes
\* of stderr and stdout, if there are proxies.
AfterCommand(a) == IF a \in Attached THEN "stderr" ELSE "save"

\* RemoteCmd returns after its copying goroutines; parseExecResponse turns the
\* error of a command that failed into its exit code.  The pod may be missing
\* and the connection may break: then there is no exit code.
CommandEnds(a) ==
    /\ session[a].pc = "run"
    /\ Copied(a)
    /\ \/ \E k \in Codes :
            session' = [session EXCEPT ![a].pc = AfterCommand(a),
                                       ![a].ended = "ok", ![a].code = k]
       \/ session' = [session EXCEPT ![a].pc = AfterCommand(a),
                                     ![a].ended = "error"]
    /\ UNCHANGED <<execs, io>>

\* Mutant: the exit code is not saved.
SaveExecNot(a) ==
    /\ session[a].pc = "save"
    /\ session' = [session EXCEPT ![a].pc = "close"]
    /\ UNCHANGED <<execs, io>>

\* ExecStart saves the exit code unless there was an error; the record may
\* have been reaped, and is inserted again.
SaveExec(a) ==
    /\ session[a].pc = "save"
    /\ session' = [session EXCEPT ![a].pc = "close"]
    /\ IF session[a].ended = "ok"
       THEN Insert(session[a].of, session[a].code)
       ELSE execs' = execs
    /\ UNCHANGED io

\* The deferred CloseStreams; a detached session has none and just ends.
CloseStreams(a) ==
    /\ session[a].pc = "close"
    /\ session' = [session EXCEPT ![a].pc = "done"]
    /\ UNCHANGED <<execs, io>>

----------------------------------------------------------------------------
(* The proxies of an attached session. *)

\* Mutant: each proxy has a lock of its own.
LockOfProxy(s) == s

\* The lock of the proxy for s: both proxies have the same.
LockOf(s) == "stdout"

Holds(a, s, kind) ==
    /\ lock[a][LockOf(s)].by = kind
    /\ lock[a][LockOf(s)].std = s

Writing(a, s) == \E kind \in {"copy", "timer", "end"} : Holds(a, s, kind)

CanLock(a, s) == lock[a][LockOf(s)] = Free

Lock(a, s, kind) ==
    lock' = [lock EXCEPT ![a][LockOf(s)] = [by |-> kind, std |-> s, step |-> "next"]]

Unlock(a, s) == lock' = [lock EXCEPT ![a][LockOf(s)] = Free]

\* The first line of the buffer, with its newline, if it is complete.
Line(b) == SubSeq(b, 1, SelectInSeq(b, LAMBDA x : x = "newline"))

\* What the holder of the lock writes next: Write a line, Flush everything.
Frame(a, s) ==
    IF lock[a][LockOf(s)].by = "copy" THEN Line(buf[a][s]) ELSE buf[a][s]

\* Mutant: writing a line empties the buffer.
ConsumeAll(a, s) ==
    /\ buf' = [buf EXCEPT ![a][s] = <<>>]
    /\ flusher' = [flusher EXCEPT ![a][s] = @ /\ lock[a][LockOf(s)].by = "copy"]

\* The frame leaves the buffer; a flush also clears the flag.
Consume(a, s) ==
    /\ buf' = [buf EXCEPT ![a][s] = SubSeq(@, Len(Frame(a, s)) + 1, Len(@))]
    /\ flusher' = [flusher EXCEPT ![a][s] = @ /\ lock[a][LockOf(s)].by = "copy"]

\* Write: the output is appended to the buffer, under the lock.
Write(a, s, p) ==
    /\ session[a].pc = "run"
    /\ Len(printed[a]["stdout"]) + Len(printed[a]["stderr"]) + Len(p) <= MaxPrinted
    /\ CanLock(a, s)
    /\ Lock(a, s, "copy")
    /\ printed' = [printed EXCEPT ![a][s] = @ \o p]
    /\ buf' = [buf EXCEPT ![a][s] = @ \o p]
    /\ UNCHANGED <<execs, session, flusher, timer, out, gone>>

\* 100ms after it was started the goroutine calls Flush, whatever has become
\* of the session, and waits for the lock.
FlushTimer(a, s) ==
    /\ timer[a][s]
    /\ CanLock(a, s)
    /\ Lock(a, s, "timer")
    /\ timer' = [timer EXCEPT ![a][s] = FALSE]
    /\ UNCHANGED <<execs, session, buf, flusher, out, gone, printed>>

\* The deferred Flush of ExecContainer.
FlushAtEnd(a, s) ==
    /\ session[a].pc = s
    /\ CanLock(a, s)
    /\ Lock(a, s, "end")
    /\ UNCHANGED <<execs, session, buf, flusher, timer, out, gone, printed>>

\* The header of a frame.
WriteHeader(a, s) ==
    /\ Writing(a, s)
    /\ lock[a][LockOf(s)].step = "next"
    /\ Frame(a, s) # <<>>
    /\ ~gone[a]
    /\ out' = [out EXCEPT ![a] = Append(@, [kind |-> "header", std |-> s,
                                            len |-> Len(Frame(a, s)), data |-> <<>>])]
    /\ lock' = [lock EXCEPT ![a][LockOf(s)].step = "payload"]
    /\ UNCHANGED <<execs, session, buf, flusher, timer, gone, printed>>

\* Its payload.
WritePayload(a, s) ==
    /\ Writing(a, s)
    /\ lock[a][LockOf(s)].step = "payload"
    /\ ~gone[a]
    /\ out' = [out EXCEPT ![a] = Append(@, [kind |-> "payload", std |-> s,
                                            len |-> Len(Frame(a, s)),
                                            data |-> Frame(a, s)])]
    /\ Consume(a, s)
    /\ lock' = [lock EXCEPT ![a][LockOf(s)].step = "next"]
    /\ UNCHANGED <<execs, session, timer, gone, printed>>

\* Header or payload cannot be written: the error is logged and the frame is
\* dropped all the same.
WriteFails(a, s) ==
    /\ Writing(a, s)
    /\ Frame(a, s) # <<>>
    /\ gone[a]
    /\ Consume(a, s)
    /\ lock' = [lock EXCEPT ![a][LockOf(s)].step = "next"]
    /\ UNCHANGED <<execs, session, timer, out, gone, printed>>

\* Write returns: an unfinished line gets a goroutine that will flush it,
\* unless the flag says that there is one.
WriteReturns(a, s) ==
    /\ Holds(a, s, "copy")
    /\ Frame(a, s) = <<>>
    /\ LET schedule == buf[a][s] # <<>> /\ ~flusher[a][s] IN
         /\ flusher' = [flusher EXCEPT ![a][s] = @ \/ schedule]
         /\ timer' = [timer EXCEPT ![a][s] = @ \/ schedule]
    /\ Unlock(a, s)
    /\ UNCHANGED <<execs, session, buf, out, gone, printed>>

\* Mutant: the early return of Flush on an empty buffer, which leaves the flag
\* set, comes before the deferred unlock.
FlushReturnsLocked(a, s) ==
    /\ \/ /\ Holds(a, s, "timer")
          /\ session' = session
       \/ /\ Holds(a, s, "end")
          /\ session' = [session EXCEPT ![a].pc =
                           IF s = "stderr" THEN "stdout" ELSE "save"]
    /\ Frame(a, s) = <<>>
    /\ IF flusher[a][s] THEN lock' = lock ELSE Unlock(a, s)
    /\ UNCHANGED <<execs, buf, flusher, timer, out, gone, printed>>

\* Flush returns.  If it found the buffer empty the flag stays as it is.
FlushReturns(a, s) ==
    /\ \/ /\ Holds(a, s, "timer")
          /\ session' = session
       \/ /\ Holds(a, s, "end")
          /\ session' = [session EXCEPT ![a].pc =
                           IF s = "stderr" THEN "stdout" ELSE "save"]
    /\ Frame(a, s) = <<>>
    /\ Unlock(a, s)
    /\ UNCHANGED <<execs, buf, flusher, timer, out, gone, printed>>

\* The client goes away; the command is not told.
ClientGone(a) ==
    /\ session[a].pc \notin {"idle", "done"}
    /\ ~gone[a]
    /\ gone' = [gone EXCEPT ![a] = TRUE]
    /\ UNCHANGED <<execs, session, buf, flusher, timer, lock, out, printed>>

----------------------------------------------------------------------------
Proxy(a, s) ==
    \/ \E p \in Chunk : Write(a, s, p)
    \/ FlushTimer(a, s)
    \/ FlushAtEnd(a, s)
    \/ WriteHeader(a, s)
    \/ WritePayload(a, s)
    \/ WriteFails(a, s)
    \/ WriteReturns(a, s)
    \/ FlushReturns(a, s)

Next ==
    \/ \E e \in Record : ContainerExec(e) \/ Age(e) \/ CleanExecs(e)
    \/ \E a \in Session : \/ \E e \in Record : ExecStart(a, e)
                          \/ CommandEnds(a)
                          \/ SaveExec(a)
                          \/ CloseStreams(a)
    \/ \E a \in Attached : ClientGone(a) \/ \E s \in Std : Proxy(a, s)

Spec == Init /\ [][Next]_vars

\* The reaper runs every minute, time passes, and goroutines keep running; a
\* goroutine that waits for a sync.Mutex gets it.  A command need not end.  A
\* client reads what is sent to it or goes away.
Fairness ==
    /\ \A e \in Record : WF_vars(Age(e)) /\ WF_vars(CleanExecs(e))
    /\ \A a \in Session : WF_vars(SaveExec(a)) /\ WF_vars(CloseStreams(a))
    /\ \A a \in Attached, s \in Std :
         /\ SF_vars(FlushTimer(a, s)) /\ WF_vars(FlushAtEnd(a, s))
         /\ WF_vars(WriteHeader(a, s)) /\ WF_vars(WritePayload(a, s))
         /\ WF_vars(WriteFails(a, s))
         /\ WF_vars(WriteReturns(a, s)) /\ WF_vars(FlushReturns(a, s))

FairSpec == Spec /\ Fairness

----------------------------------------------------------------------------
(* Properties. *)

\* What a client that demultiplexes the connection has read from stream s.
Received(a, s) ==
    FlattenSeq([i \in DOMAIN out[a] |->
                  IF out[a][i].std = s THEN out[a][i].data ELSE <<>>])

\* The connection is a sequence of frames: every header is followed by the
\* payload it announces, whichever goroutines write (the lock that the proxies
\* of ExecContainer share).
FramesAreWhole ==
    \A a \in Attached : \A i \in DOMAIN out[a] :
        LET f == out[a][i] IN
        /\ f.kind = IF i % 2 = 1 THEN "header" ELSE "payload"
        /\ f.kind = "header" /\ i < Len(out[a]) =>
             out[a][i + 1].std = f.std /\ out[a][i + 1].len = f.len

\* A client that stays has received, or will find in the buffers, exactly
\* what the command printed on each stream, in order; once the streams are
\* closed it has received all of it.
OutputIsComplete ==
    \A a \in Attached : ~gone[a] => \A s \in Std :
        /\ Received(a, s) \o buf[a][s] = printed[a][s]
        /\ session[a].pc = "done" => buf[a][s] = <<>>

\* A flush that comes late writes nothing to a connection that is closed.
SilentAfterClose ==
    [][\A a \in Attached : session[a].pc = "done" => out'[a] = out[a]]_vars

\* When the client sees the end of the stream, an inspect reports the exit code
\* of a command that has ended, that of this session if no other has run.
CodeBeforeClose ==
    \A a \in Session :
        session[a].pc = "done" /\ session[a].ended = "ok" =>
            \E b \in Session : /\ session[b].of = session[a].of
                               /\ session[b].ended = "ok"
                               /\ session[b].pc \in {"close", "done"}
                               /\ execs[session[a].of].code = session[b].code

\* Once its command has ended ExecStart returns, after the deferred flushes
\* that wait for the lock and next to delayed flushes that come late, find the
\* buffer empty or write to a client that has gone.
SessionsEnd ==
    \A a \in Session : session[a].ended # "not" ~> session[a].pc = "done"

\* Every exec record leaves the database for good, the ones included that a
\* session inserts again after the reaper has removed them.
ReapedForGood == \A e \in Record : <>[]~execs[e].stored

=============================================================================
