--------------------------- MODULE SignalChannels ---------------------------
(***************************************************************************)
(* The stop channels (port-forwards, reverse proxies) or the attach channels*)
(* (attach sessions) of one container.  Each has a goroutine that registers *)
(* it and waits for it; handlers signal all the channels of the container.  *)
(* The slice of channels is read and written without a lock.  An attach     *)
(* session that ends signals all the channels of the container as well.     *)
(***************************************************************************)
EXTENDS Naturals, Sequences, SequencesExt

CONSTANTS
    Channel,     \* one per port-forward, reverse proxy or attach session
    Handler,     \* stop, kill, restart and delete requests
    Sessions     \* are they attach sessions, which signal when they end?

ASSUME FlagAssumption == Sessions \in BOOLEAN
ASSUME SignallerAssumption == Channel \cap Handler = {}

Signaller == Handler \cup (IF Sessions THEN Channel ELSE {})

VARIABLES
    slice,   \* the container's slice of channels
    buf,     \* a value in the channel's buffer, of size one
    closed,
    owner,   \* the goroutine that registers the channel and waits for it
    seen,    \* the slice as the registering goroutine read it
    sig      \* the goroutines that signal

vars == <<slice, buf, closed, owner, seen, sig>>

\* rest is what is left of the slice the signaller iterates over, must the
\* channels that were registered when it began.
Sig == [pc : {"idle", "send", "close", "done", "panic"},
        rest : Seq(Channel), must : SUBSET Channel]

\* Type correctness; a channel is registered at most once.
TypeOK ==
    /\ slice \in Seq(Channel) /\ IsInjective(slice)
    /\ buf \in [Channel -> BOOLEAN]
    /\ closed \in [Channel -> BOOLEAN]
    /\ owner \in [Channel -> {"new", "append", "waiting", "ended"}]
    /\ seen \in [Channel -> Seq(Channel)]
    /\ sig \in [Signaller -> Sig]

Init ==
    /\ slice = <<>>
    /\ buf = [k \in Channel |-> FALSE]
    /\ closed = [k \in Channel |-> FALSE]
    /\ owner = [k \in Channel |-> "new"]
    /\ seen = [k \in Channel |-> <<>>]
    /\ sig = [h \in Signaller |-> [pc |-> "idle", rest |-> <<>>, must |-> {}]]

Registered == {k \in Channel : owner[k] \in {"waiting", "ended"}}

----------------------------------------------------------------------------
\* AddStopChannel and AddAttachChannel read the slice ...
AddRead(k) ==
    /\ owner[k] = "new"
    /\ owner' = [owner EXCEPT ![k] = "append"]
    /\ seen' = [seen EXCEPT ![k] = slice]
    /\ UNCHANGED <<slice, buf, closed, sig>>

\* Mutant: the channel is appended before it is known to be missing.
AddTwice(k) ==
    /\ owner[k] = "append"
    /\ owner' = [owner EXCEPT ![k] = "waiting"]
    /\ slice' = seen[k] \o <<k, k>>
    /\ UNCHANGED <<buf, closed, seen, sig>>

\* ... and write it back with the channel appended.
AddWrite(k) ==
    /\ owner[k] = "append"
    /\ owner' = [owner EXCEPT ![k] = "waiting"]
    /\ slice' = Append(seen[k], k)
    /\ seen' = [seen EXCEPT ![k] = <<>>]
    /\ UNCHANGED <<buf, closed, sig>>

\* The goroutine takes the value, or finds the channel closed, and ends.  A
\* proxy that could not listen never waits: its channel keeps the value.
Notified(k) ==
    /\ owner[k] = "waiting"
    /\ buf[k] \/ closed[k]
    /\ owner' = [owner EXCEPT ![k] = "ended"]
    /\ buf' = [buf EXCEPT ![k] = FALSE]
    /\ UNCHANGED <<slice, closed, seen, sig>>

\* An attach session ends by itself.
SessionEnds(k) ==
    /\ Sessions
    /\ owner[k] = "waiting"
    /\ owner' = [owner EXCEPT ![k] = "ended"]
    /\ UNCHANGED <<slice, buf, closed, seen, sig>>

----------------------------------------------------------------------------
\* SignalStop and SignalDetach: the loop over the slice as it is now.  An
\* attach session signals when it has ended.
SignalBegin(h) ==
    /\ sig[h].pc = "idle"
    /\ h \in Channel => owner[h] = "ended"
    /\ sig' = [sig EXCEPT ![h] = [pc |-> "send", rest |-> slice,
                                  must |-> Registered \ {k \in Channel : closed[k]}]]
    /\ UNCHANGED <<slice, buf, closed, owner, seen>>

\* Mutant: the channels have no buffer.
SendUnbuffered(h) ==
    /\ sig[h].pc = "send"
    /\ sig[h].rest # <<>>
    /\ LET k == Head(sig[h].rest) IN
         /\ owner[k] = "waiting"
         /\ owner' = [owner EXCEPT ![k] = "ended"]
         /\ sig' = [sig EXCEPT ![h].pc = "close"]
    /\ UNCHANGED <<slice, buf, closed, seen>>

\* The send of the loop's body: it panics on a closed channel and blocks
\* while the buffer is full.
Send(h) ==
    /\ sig[h].pc = "send"
    /\ sig[h].rest # <<>>
    /\ LET k == Head(sig[h].rest) IN
         \/ /\ closed[k]
            /\ buf' = buf
            /\ sig' = [sig EXCEPT ![h].pc = "panic"]
         \/ /\ ~closed[k] /\ ~buf[k]
            /\ buf' = [buf EXCEPT ![k] = TRUE]
            /\ sig' = [sig EXCEPT ![h].pc = "close"]
    /\ UNCHANGED <<slice, closed, owner, seen>>

\* Mutant: the loop ends after its first channel.
CloseFirst(h) ==
    /\ sig[h].pc = "close"
    /\ closed' = [closed EXCEPT ![Head(sig[h].rest)] = TRUE]
    /\ sig' = [sig EXCEPT ![h].pc = "send", ![h].rest = <<>>]
    /\ UNCHANGED <<slice, buf, owner, seen>>

\* The close of the loop's body: it panics on a closed channel.
Close(h) ==
    LET k == Head(sig[h].rest) IN
    /\ sig[h].pc = "close"
    /\ IF closed[k]
       THEN /\ sig' = [sig EXCEPT ![h].pc = "panic"]
            /\ closed' = closed
       ELSE /\ closed' = [closed EXCEPT ![k] = TRUE]
            /\ sig' = [sig EXCEPT ![h].pc = "send", ![h].rest = Tail(@)]
    /\ UNCHANGED <<slice, buf, owner, seen>>

\* The slice is emptied after the loop.
SignalEnd(h) ==
    /\ sig[h].pc = "send"
    /\ sig[h].rest = <<>>
    /\ slice' = <<>>
    /\ sig' = [sig EXCEPT ![h].pc = "done"]
    /\ UNCHANGED <<buf, closed, owner, seen>>

----------------------------------------------------------------------------
Next ==
    \/ \E k \in Channel : AddRead(k) \/ AddWrite(k) \/ Notified(k) \/ SessionEnds(k)
    \/ \E h \in Signaller : SignalBegin(h) \/ Send(h) \/ Close(h) \/ SignalEnd(h)

Spec == Init /\ [][Next]_vars

\* Goroutines that signal keep running; a proxy may never come to listen.
Fairness ==
    \A h \in Signaller : WF_vars(Send(h)) /\ WF_vars(Close(h)) /\ WF_vars(SignalEnd(h))

FairSpec == Spec /\ Fairness

----------------------------------------------------------------------------
\* Properties

\* A signal that has run to its end notified every channel registered when
\* it began (the comment of AddStopChannel: it "will add channels that should
\* be notified when SignalStop is called").
AllNotified ==
    \A h \in Signaller : sig[h].pc = "done" => \A k \in sig[h].must : closed[k]

\* No goroutine panics on a channel another one closed (the comment of
\* SignalDetach: it "will signal all stop channels").
NoPanic == \A h \in Signaller : sig[h].pc # "panic"

\* The goroutines in the middle of AddStopChannel or SignalStop, or of their
\* attach counterparts.
Busy == {k \in Channel : owner[k] = "append"}
            \cup {h \in Signaller : sig[h].pc \in {"send", "close"}}

\* As long as registrations and signals do not overlap, every signal notifies
\* all the channels and nobody panics, also if attach sessions signal the
\* channels that a stop or another session has signalled before.
SerialIsSafe ==
    [](\A g, h \in Busy : g = h) => [](AllNotified /\ NoPanic)

\* A handler that signals gets past it, whether or not anybody receives.
SignalReturns ==
    \A h \in Signaller :
        sig[h].pc \in {"send", "close"} ~> sig[h].pc \in {"done", "panic"}

=============================================================================
