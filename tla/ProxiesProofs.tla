--------------------------- MODULE ProxiesProofs ---------------------------
(***************************************************************************)
(* Proofs about SignalChannels and about Proxies, which extends it, for any *)
(* channels, handlers, ports and number of starts.                          *)
(*                                                                          *)
(* The part about SignalChannels uses nothing of Proxies.  Registrations    *)
(* and signals that do not overlap keep the slice equal to the channels     *)
(* that are open (SerialInv); without overlap the handlers of Proxies are   *)
(* such registrations and signals, and the rest is about who listens on     *)
(* which port.                                                              *)
(***************************************************************************)
EXTENDS Proxies, SequenceTheorems, TLAPS

----------------------------------------------------------------------------
(* The inductive invariants of SignalChannels. *)

\* The channels in a slice.
In(s) == {k \in Channel : \E i \in DOMAIN s : s[i] = k}

\* What is in the slice, or was when somebody read it, is registered, once.
Listed ==
    /\ In(slice) \subseteq Registered
    /\ \A k \in Channel : In(seen[k]) \subseteq Registered /\ IsInjective(seen[k])

ChannelInv == TypeOK /\ Listed

\* No two goroutines register or signal at the same time.
Serial == \A g, h \in Busy : g = h

AtWork(h) == sig[h].pc \in {"send", "close"}

\* A signaller has closed what it has dealt with, and nothing else.
Signalling(h) ==
    /\ IsInjective(sig[h].rest) /\ In(sig[h].rest) \subseteq In(slice)
    /\ sig[h].pc = "close" => sig[h].rest # <<>>
    /\ \A k \in In(slice) : closed[k] <=> k \notin In(sig[h].rest)
    /\ \A k \in In(sig[h].rest) :
         buf[k] => sig[h].pc = "close" /\ k = Head(sig[h].rest)
    /\ h \in Channel => owner[h] = "ended"
    /\ sig[h].must \subseteq Registered

\* While nobody signals, the channels in the slice are open and empty.
SliceIsOpen ==
    (\A h \in Signaller : ~AtWork(h)) =>
        \A k \in In(slice) : ~closed[k] /\ ~buf[k]

\* A channel that was registered is in the slice or closed.
NoneIsLost == \A k \in Registered : closed[k] \/ k \in In(slice)

\* A channel that is not registered yet is open and empty, and the goroutine
\* that registers it has read the slice as it is.
NewIsOpen ==
    \A k \in Channel \ Registered :
        /\ ~closed[k] /\ ~buf[k]
        /\ owner[k] = "append" => seen[k] = slice

SerialInv ==
    /\ ChannelInv /\ AllNotified /\ NoPanic
    /\ \A h \in Signaller : AtWork(h) => Signalling(h)
    /\ SliceIsOpen /\ NoneIsLost /\ NewIsOpen

----------------------------------------------------------------------------
(* The hypotheses and the inductive invariant of Proxies. *)

\* The ports that clients chose are different, and none of them is one the
\* kernel picks.
DistinctPorts ==
    /\ \A d, e \in DOMAIN HostPort : HostPort[d] = HostPort[e] => d = e
    /\ \A e \in DOMAIN HostPort : HostPort[e] \notin Ephemeral

\* At most one port was chosen by a client and at most one was not, so that no
\* call of reverseProxy starts two goroutines.
OnePortPerPhase ==
    \A d, e \in Exposed : (d \in DOMAIN HostPort <=> e \in DOMAIN HostPort) => d = e

\* Of the registrations, stops and restarts there is one at a time.
ActiveIsOne == \A g, h \in Active : g = h

\* Only handlers signal.  One that has ended has signalled; one that has
\* signalled and not ended has left nothing in the slice.
HandlerFlow ==
    /\ \A h \in Signaller \ Handler : sig[h].pc = "idle"
    /\ \A h \in finished : sig[h].pc = "done"
    /\ \A h \in Handler \ finished : sig[h].pc = "done" => slice = <<>>

\* While a container is started nobody stops it, and it is not marked running.
StartingIsAlone ==
    /\ starting => ~running /\ Active \cap Handler = {}
    /\ starting \/ running => gen \in Start

\* How far the proxies of each start are.
Generations ==
    \A k \in Proxy :
        /\ k[1] > gen => owner[k] = "new"
        /\ k[1] < gen => closed[k]
        /\ k[1] = gen /\ ~starting => k \in Registered
        /\ k \notin Registered => lst[k] = "none"

\* After a stop all the proxies were told.
StoppedIsTold ==
    ~running /\ ~starting => \A k \in Proxy : k[1] <= gen => closed[k]

\* A proxy of the current start was told by nobody but a handler that has yet
\* to mark the container stopped.
CurrentIsOpen ==
    (starting \/ running) /\ Active \cap Handler = {} =>
        \A k \in Proxy : k[1] = gen => ~closed[k]

\* Every port has a local port of its own once the container was started.
Mapping ==
    /\ \A d, e \in Exposed : local[d] = local[e] /\ local[d] # NoPort => d = e
    /\ \A e \in Exposed : local[e] # NoPort \/ gen = 0
    /\ gen = 0 => \A e \in Exposed :
                     local[e] = IF e \in DOMAIN HostPort THEN HostPort[e] ELSE NoPort

\* Who listens on a port has its listener open, and the other way round.
HostIsListener ==
    /\ \A p \in Local : host[p] # Free =>
         host[p] \in Proxy /\ lst[host[p]] = "open" /\ local[host[p][2]] = p
    /\ \A k \in Proxy : lst[k] = "open" => host[local[k[2]]] = k

\* A goroutine that has left its channel was told by a stop.
EndedIsTold ==
    /\ \A k \in Channel : owner[k] = "ended" => closed[k] \/ \E h \in Handler : AtWork(h)
    /\ \A k \in Proxy : lst[k] = "closed" => owner[k] = "ended"

\* The proxies of the current start find their ports free, or an earlier start's
\* proxies on them.
CurrentListens ==
    \A k \in Proxy : k[1] = gen =>
        /\ lst[k] = "failed" => k \in late
        /\ mode = "proxy" /\ ~starting => lst[k] # "none"

Served ==
    /\ StartingIsAlone /\ Generations /\ StoppedIsTold /\ CurrentIsOpen
    /\ Mapping /\ HostIsListener /\ EndedIsTold /\ CurrentListens

ServedInv == ProxyTypeOK /\ SerialInv /\ ActiveIsOne /\ HandlerFlow /\ Served

----------------------------------------------------------------------------
(* Slices. *)

\* The empty slice.
LEMMA InEmpty == <<>> \in Seq(Channel) /\ In(<<>>) = {} /\ IsInjective(<<>>)
  BY EmptySeq DEF In, IsInjective

\* What an append adds.
LEMMA InAppend ==
    ASSUME NEW s \in Seq(Channel), NEW k \in Channel
    PROVE  /\ Append(s, k) \in Seq(Channel)
           /\ In(Append(s, k)) = In(s) \cup {k}
           /\ IsInjective(s) /\ k \notin In(s) => IsInjective(Append(s, k))
  <1> DEFINE t == Append(s, k)
             n == Len(s)
  <1>1. /\ n \in Nat /\ DOMAIN s = 1..n /\ t \in Seq(Channel) /\ DOMAIN t = 1..(n + 1)
        /\ \A i \in 1..n : t[i] = s[i]
        /\ t[n + 1] = k
    <2>1. t \in Seq(Channel) /\ Len(t) = n + 1
      BY AppendProperties
    <2> QED BY <2>1, LenProperties, AppendProperties
  <1> HIDE DEF t, n
  <1>2. \A i \in 1..(n + 1) : i \in 1..n \/ i = n + 1
    BY <1>1
  <1>3. n + 1 \in 1..(n + 1) /\ \A i \in 1..n : i \in 1..(n + 1)
    BY <1>1
  <1>4. In(t) = In(s) \cup {k}
    BY <1>1, <1>2, <1>3 DEF In
  <1>5. ASSUME IsInjective(s), k \notin In(s), NEW a \in DOMAIN t, NEW b \in DOMAIN t, t[a] = t[b]
        PROVE  a = b
    <2>1. \A i \in 1..n : s[i] # k
      BY <1>1, <1>5 DEF In
    <2> QED BY <1>1, <1>2, <1>5, <2>1 DEF IsInjective
  <1> QED BY <1>1, <1>4, <1>5 DEF IsInjective, t

\* What the loop leaves.
LEMMA InTail ==
    ASSUME NEW s \in Seq(Channel), s # <<>>, IsInjective(s)
    PROVE  /\ Head(s) \in In(s) /\ Head(s) \in Channel
           /\ Tail(s) \in Seq(Channel) /\ IsInjective(Tail(s))
           /\ In(Tail(s)) = In(s) \ {Head(s)}
  <1> DEFINE t == Tail(s)
             n == Len(s)
  <1>1. /\ n \in Nat /\ n > 0 /\ DOMAIN s = 1..n /\ t \in Seq(Channel)
        /\ DOMAIN t = 1..(n - 1) /\ \A i \in 1..(n - 1) : t[i] = s[i + 1]
        /\ Head(s) = s[1] /\ s[1] \in Channel
    <2>1. n \in Nat /\ n > 0 /\ DOMAIN s = 1..n
      BY EmptySeq, LenProperties
    <2>2. t \in Seq(Channel) /\ Len(t) = n - 1 /\ \A i \in 1..Len(t) : t[i] = s[i + 1]
      BY HeadTailProperties
    <2>3. DOMAIN t = 1..(n - 1)
      BY <2>2, LenProperties
    <2>4. s[1] \in Channel
      BY <2>1, ElementOfSeq
    <2> QED BY <2>1, <2>2, <2>3, <2>4, HeadTailProperties
  <1> HIDE DEF t, n
  <1>2. IsInjective(t)
    <2>1. ASSUME NEW a \in 1..(n - 1), NEW b \in 1..(n - 1), t[a] = t[b] PROVE a = b
      <3>1. a + 1 \in 1..n /\ b + 1 \in 1..n /\ s[a + 1] = s[b + 1]
        BY <1>1, <2>1
      <3>2. a + 1 = b + 1
        BY <1>1, <3>1 DEF IsInjective
      <3> QED BY <3>2
    <2> QED BY <1>1, <2>1 DEF IsInjective
  <1>3. Head(s) \in In(s)
    BY <1>1 DEF In
  <1>4. ASSUME NEW k \in In(t) PROVE k \in In(s) \ {Head(s)}
    <2>1. PICK i \in 1..(n - 1) : t[i] = k
      BY <1>1 DEF In
    <2>2. i + 1 \in 1..n /\ s[i + 1] = k /\ i + 1 # 1 /\ 1 \in 1..n
      BY <1>1, <2>1
    <2> QED BY <1>1, <2>2 DEF In, IsInjective
  <1>5. ASSUME NEW k \in In(s), k # Head(s) PROVE k \in In(t)
    <2>1. PICK i \in 1..n : s[i] = k
      BY <1>1 DEF In
    <2>2. i # 1
      BY <1>1, <1>5, <2>1
    <2>3. i - 1 \in 1..(n - 1) /\ (i - 1) + 1 = i
      BY <1>1, <2>1, <2>2
    <2>4. t[i - 1] = k
      BY <1>1, <2>1, <2>3
    <2> QED BY <1>1, <2>3, <2>4 DEF In
  <1> QED BY <1>1, <1>2, <1>3, <1>4, <1>5 DEF t

----------------------------------------------------------------------------
(* What holds with any overlap. *)

\* The steps of a signaller, by the fields of its record.
LEMMA BeginSig ==
    ASSUME TypeOK, NEW h \in Signaller, SignalBegin(h)
    PROVE  /\ sig' \in [Signaller -> Sig] /\ \A g \in Signaller : g # h => sig'[g] = sig[g]
           /\ sig[h].pc = "idle" /\ (h \in Channel => owner[h] = "ended")
           /\ sig'[h].pc = "send" /\ sig'[h].rest = slice
           /\ sig'[h].must = Registered \ {k \in Channel : closed[k]}
           /\ UNCHANGED <<slice, buf, closed, owner, seen>>
  <1>1. PICK m : m = Registered \ {k \in Channel : closed[k]}
    OBVIOUS
  <1>2. m \in SUBSET Channel
    BY <1>1 DEF Registered
  <1>3. sig' = [sig EXCEPT ![h] = [pc |-> "send", rest |-> slice, must |-> m]]
    BY <1>1 DEF SignalBegin
  <1> QED BY <1>1, <1>2, <1>3 DEF SignalBegin, TypeOK, Sig

\* A send panics on a closed channel, or fills the buffer.
LEMMA SendSig ==
    ASSUME TypeOK, NEW h \in Signaller, Send(h)
    PROVE  /\ sig' \in [Signaller -> Sig] /\ \A g \in Signaller : g # h => sig'[g] = sig[g]
           /\ sig[h].pc = "send" /\ sig[h].rest # <<>>
           /\ sig'[h].rest = sig[h].rest /\ sig'[h].must = sig[h].must
           /\ \/ closed[Head(sig[h].rest)] /\ sig'[h].pc = "panic" /\ buf' = buf
              \/ /\ ~closed[Head(sig[h].rest)] /\ sig'[h].pc = "close"
                 /\ buf' = [buf EXCEPT ![Head(sig[h].rest)] = TRUE]
           /\ UNCHANGED <<slice, closed, owner, seen>>
  <1>1. CASE closed[Head(sig[h].rest)] /\ sig' = [sig EXCEPT ![h].pc = "panic"] /\ buf' = buf
    BY <1>1 DEF Send, TypeOK, Sig
  <1>2. CASE /\ ~closed[Head(sig[h].rest)] /\ sig' = [sig EXCEPT ![h].pc = "close"]
             /\ buf' = [buf EXCEPT ![Head(sig[h].rest)] = TRUE]
    BY <1>2 DEF Send, TypeOK, Sig
  <1> QED BY <1>1, <1>2, Zenon DEF Send

\* A close panics on a closed channel, or goes on with the next.
LEMMA CloseSig ==
    ASSUME TypeOK, NEW h \in Signaller, Close(h), sig[h].rest # <<>>
    PROVE  /\ sig' \in [Signaller -> Sig] /\ \A g \in Signaller : g # h => sig'[g] = sig[g]
           /\ sig[h].pc = "close" /\ sig'[h].must = sig[h].must
           /\ \/ closed[Head(sig[h].rest)] /\ sig'[h].pc = "panic" /\ closed' = closed
                 /\ sig'[h].rest = sig[h].rest
              \/ /\ ~closed[Head(sig[h].rest)] /\ sig'[h].pc = "send"
                 /\ sig'[h].rest = Tail(sig[h].rest)
                 /\ closed' = [closed EXCEPT ![Head(sig[h].rest)] = TRUE]
           /\ UNCHANGED <<slice, buf, owner, seen>>
  <1>1. CASE closed[Head(sig[h].rest)] /\ sig' = [sig EXCEPT ![h].pc = "panic"] /\ closed' = closed
    BY <1>1 DEF Close, TypeOK, Sig
  <1>2. CASE /\ ~closed[Head(sig[h].rest)]
             /\ sig' = [sig EXCEPT ![h].pc = "send", ![h].rest = Tail(@)]
             /\ closed' = [closed EXCEPT ![Head(sig[h].rest)] = TRUE]
    <2>1. PICK t : t = Tail(sig[h].rest)
      OBVIOUS
    <2>2. sig[h].rest \in Seq(Channel)
      BY DEF TypeOK, Sig
    <2>3. t \in Seq(Channel)
      BY <2>1, <2>2, HeadTailProperties
    <2>4. sig' = [sig EXCEPT ![h].pc = "send", ![h].rest = t]
      BY <1>2, <2>1
    <2>5. sig \in [Signaller -> Sig]
      BY DEF TypeOK
    <2>6. /\ sig' \in [Signaller -> Sig] /\ \A g \in Signaller : g # h => sig'[g] = sig[g]
          /\ sig'[h].pc = "send" /\ sig'[h].rest = t /\ sig'[h].must = sig[h].must
      BY <2>3, <2>4, <2>5 DEF Sig
    <2>7. sig[h].pc = "close" /\ UNCHANGED <<slice, buf, owner, seen>>
      BY DEF Close
    <2> QED BY <1>2, <2>1, <2>6, <2>7
  <1> QED BY <1>1, <1>2, Zenon DEF Close

\* The end of a signal.
LEMMA EndSig ==
    ASSUME TypeOK, NEW h \in Signaller, SignalEnd(h)
    PROVE  /\ sig' \in [Signaller -> Sig] /\ \A g \in Signaller : g # h => sig'[g] = sig[g]
           /\ sig[h].pc = "send" /\ sig[h].rest = <<>> /\ slice' = <<>>
           /\ sig'[h].pc = "done" /\ sig'[h].must = sig[h].must
           /\ UNCHANGED <<buf, closed, owner, seen>>
  BY DEF SignalEnd, TypeOK, Sig

\* Every step keeps ChannelInv and registers for good, with any overlap.  A
\* signaller that closes has a channel to close.
LEMMA ChannelStep ==
    ASSUME ChannelInv, [Next]_vars, \A h \in Signaller : sig[h].pc = "close" => sig[h].rest # <<>>
    PROVE  ChannelInv' /\ \A h \in Signaller : sig'[h].pc = "close" => sig'[h].rest # <<>>
  <1> DEFINE Goal == ChannelInv' /\ \A h \in Signaller : sig'[h].pc = "close" => sig'[h].rest # <<>>
  <1> SUFFICES Goal
    OBVIOUS
  <1>0. TypeOK /\ Listed
    BY DEF ChannelInv
  <1>1. ASSUME NEW k \in Channel, AddRead(k) PROVE Goal
    <2>1. TypeOK'
      BY <1>0, <1>1 DEF TypeOK, AddRead
    <2>2. Registered' = Registered
      BY <1>0, <1>1 DEF AddRead, Registered, TypeOK
    <2>3. Listed'
      BY <1>0, <1>1, <2>2 DEF AddRead, Listed, TypeOK, In
    <2> QED BY <1>1, <2>1, <2>3 DEF ChannelInv, AddRead
  <1>2. ASSUME NEW k \in Channel, AddWrite(k) PROVE Goal
    <2>1. /\ seen[k] \in Seq(Channel) /\ IsInjective(seen[k]) /\ In(seen[k]) \subseteq Registered
      BY <1>0 DEF TypeOK, Listed
    <2>2. PICK s \in Seq(Channel) : s = seen[k]
      BY <2>1
    <2>3. k \notin Registered
      BY <1>2 DEF AddWrite, Registered
    <2>4. slice' \in Seq(Channel) /\ IsInjective(slice') /\ In(slice') = In(s) \cup {k}
      BY <1>2, <2>1, <2>2, <2>3, InAppend DEF AddWrite
    <2>5. Registered' = Registered \cup {k}
      BY <1>0, <1>2 DEF AddWrite, Registered, TypeOK
    <2>6. TypeOK'
      BY <1>0, <1>2, <2>4, InEmpty DEF AddWrite, TypeOK
    <2>7. ASSUME NEW j \in Channel PROVE In(seen'[j]) \subseteq Registered' /\ IsInjective(seen'[j])
      <3>1. CASE j = k
        BY <1>0, <1>2, <3>1, InEmpty DEF AddWrite, TypeOK
      <3>2. CASE j # k
        BY <1>0, <1>2, <2>5, <3>2 DEF AddWrite, TypeOK, Listed
      <3> QED BY <3>1, <3>2
    <2>8. Listed'
      <3>1. In(slice)' = In(slice') /\ \A j \in Channel : In(seen[j])' = In(seen'[j])
        BY DEF In
      <3> QED BY <2>1, <2>2, <2>4, <2>5, <2>7, <3>1 DEF Listed
    <2> QED BY <1>2, <2>6, <2>8 DEF ChannelInv, AddWrite
  <1>3. ASSUME NEW k \in Channel, Notified(k) \/ SessionEnds(k) PROVE Goal
    <2>1. TypeOK'
      BY <1>0, <1>3 DEF TypeOK, Notified, SessionEnds
    <2>2. Registered' = Registered
      BY <1>0, <1>3 DEF Notified, SessionEnds, Registered, TypeOK
    <2>3. Listed'
      BY <1>0, <1>3, <2>2 DEF Notified, SessionEnds, Listed, In
    <2> QED BY <1>3, <2>1, <2>3 DEF ChannelInv, Notified, SessionEnds
  <1>4. ASSUME NEW h \in Signaller, SignalBegin(h) PROVE Goal
    <2>1. TypeOK'
      BY <1>0, <1>4, BeginSig DEF TypeOK
    <2>2. Listed'
      BY <1>0, <1>4, BeginSig DEF Listed, In, Registered
    <2> QED BY <1>0, <1>4, <2>1, <2>2, BeginSig DEF ChannelInv
  <1>5. ASSUME NEW h \in Signaller, Send(h) PROVE Goal
    <2>1. TypeOK'
      BY <1>0, <1>5, SendSig DEF TypeOK
    <2>2. Listed'
      BY <1>0, <1>5, SendSig DEF Listed, In, Registered
    <2> QED BY <1>0, <1>5, <2>1, <2>2, SendSig DEF ChannelInv
  <1>6. ASSUME NEW h \in Signaller, Close(h) PROVE Goal
    <2>0. sig[h].rest # <<>>
      BY <1>6 DEF Close
    <2>1. TypeOK'
      BY <1>0, <1>6, <2>0, CloseSig DEF TypeOK
    <2>2. Listed'
      BY <1>0, <1>6, <2>0, CloseSig DEF Listed, In, Registered
    <2> QED BY <1>0, <1>6, <2>0, <2>1, <2>2, CloseSig DEF ChannelInv
  <1>7. ASSUME NEW h \in Signaller, SignalEnd(h) PROVE Goal
    <2>1. TypeOK'
      BY <1>0, <1>7, EndSig, InEmpty DEF TypeOK
    <2>2. Listed'
      <3>1. In(slice)' = {}
        BY <1>0, <1>7, EndSig, InEmpty DEF In
      <3> QED BY <1>0, <1>7, <3>1, EndSig DEF Listed, In, Registered
    <2> QED BY <1>0, <1>7, <2>1, <2>2, EndSig DEF ChannelInv
  <1>8. CASE UNCHANGED vars
    <2>1. TypeOK'
      BY <1>0, <1>8 DEF TypeOK, vars
    <2>2. Listed'
      BY <1>0, <1>8 DEF Listed, In, Registered, vars
    <2> QED BY <1>8, <2>1, <2>2 DEF ChannelInv, vars
  <1> HIDE DEF Goal
  <1>9. CASE Next
    <2>1. CASE \E k \in Channel : AddRead(k) \/ AddWrite(k) \/ Notified(k) \/ SessionEnds(k)
      BY <1>1, <1>2, <1>3, <2>1, Zenon
    <2>2. CASE \E h \in Signaller : SignalBegin(h) \/ Send(h) \/ Close(h) \/ SignalEnd(h)
      BY <1>4, <1>5, <1>6, <1>7, <2>2, Zenon
    <2> QED BY <1>9, <2>1, <2>2 DEF Next
  <1> QED BY <1>8, <1>9

\* The initial state.
LEMMA SerialInit == Init => SerialInv
  <1> SUFFICES ASSUME Init PROVE SerialInv
    OBVIOUS
  <1>1. TypeOK
    BY InEmpty DEF Init, TypeOK, Sig
  <1>2. \A k \in Channel : owner[k] = "new" /\ ~closed[k] /\ ~buf[k] /\ seen[k] = <<>>
    BY DEF Init
  <1>3. \A h \in Signaller : sig[h].pc = "idle"
    BY DEF Init
  <1>4. Registered = {} /\ In(slice) = {} /\ \A k \in Channel : In(seen[k]) = {}
    BY <1>2, InEmpty DEF Registered, Init
  <1>5. Listed
    BY <1>2, <1>4, InEmpty DEF Listed
  <1>6. AllNotified /\ NoPanic /\ \A h \in Signaller : ~AtWork(h)
    BY <1>3 DEF AllNotified, NoPanic, AtWork
  <1>7. SliceIsOpen /\ NoneIsLost /\ NewIsOpen
    BY <1>2, <1>4 DEF SliceIsOpen, NoneIsLost, NewIsOpen
  <1> QED BY <1>1, <1>5, <1>6, <1>7 DEF SerialInv, ChannelInv

\* Type correctness of the channels with any overlap: the slice never holds a
\* channel twice, also when an append is lost or a slice is emptied under a
\* goroutine that read it.
THEOREM SignalTypeCorrect == Spec => []TypeOK
  <1> DEFINE Inv == ChannelInv /\ \A h \in Signaller : sig[h].pc = "close" => sig[h].rest # <<>>
  <1>1. Init => Inv
    BY SerialInit DEF SerialInv, Init
  <1>2. Inv /\ [Next]_vars => Inv'
    BY ChannelStep
  <1>3. Inv => TypeOK
    BY DEF ChannelInv
  <1> HIDE DEF Inv
  <1> QED BY <1>1, <1>2, <1>3, PTL DEF Spec

----------------------------------------------------------------------------
(* Registrations and signals that do not overlap. *)

\* What a busy goroutine excludes.
LEMMA Excluded ==
    ASSUME SerialInv, Serial
    PROVE  /\ \A k \in Channel, h \in Signaller : owner[k] = "append" => ~AtWork(h)
           /\ \A g, h \in Signaller : AtWork(g) /\ AtWork(h) => g = h
           /\ \A j, k \in Channel : owner[j] = "append" /\ owner[k] = "append" => j = k
  <1>1. ASSUME NEW k \in Channel, NEW h \in Signaller, owner[k] = "append", AtWork(h) PROVE FALSE
    <2>1. k = h
      BY <1>1 DEF Serial, Busy, AtWork
    <2> QED BY <1>1, <2>1 DEF SerialInv, Signalling
  <1>2. \A g, h \in Signaller : AtWork(g) /\ AtWork(h) => g = h
    BY DEF Serial, Busy, AtWork
  <1>3. \A j, k \in Channel : owner[j] = "append" /\ owner[k] = "append" => j = k
    BY DEF Serial, Busy
  <1> QED BY <1>1, <1>2, <1>3

\* A channel that is registered for good stays what it is for a signaller
\* when only an owner goes on and a buffer is emptied.
LEMMA SerialOwner ==
    ASSUME SerialInv, ChannelInv', NEW k \in Channel, Notified(k) \/ SessionEnds(k)
    PROVE  SerialInv'
  <1>0. TypeOK
    BY DEF SerialInv, ChannelInv
  <1>1. UNCHANGED <<slice, closed, seen, sig>>
    BY DEF Notified, SessionEnds
  <1>2. /\ owner[k] = "waiting" /\ owner'[k] = "ended"
        /\ \A j \in Channel : j # k => owner'[j] = owner[j]
        /\ \A j \in Channel : buf'[j] => buf[j]
    BY <1>0 DEF Notified, SessionEnds, TypeOK
  <1>3. Registered' = Registered
    BY <1>0, <1>2 DEF Registered, TypeOK
  <1>4. AllNotified' /\ NoPanic'
    BY <1>1 DEF SerialInv, AllNotified, NoPanic
  <1>5. ASSUME NEW h \in Signaller, AtWork(h)' PROVE Signalling(h)'
    <2>1. AtWork(h) /\ Signalling(h)
      BY <1>1, <1>5 DEF AtWork, SerialInv
    <2>2. In(slice)' = In(slice) /\ In(sig[h].rest)' = In(sig[h].rest)
      BY <1>1 DEF In
    <2>3. \A j \in In(sig[h].rest) : j \in Channel
      BY DEF In
    <2> QED BY <1>1, <1>2, <1>3, <2>1, <2>2, <2>3 DEF Signalling
  <1>6. In(slice)' = In(slice) /\ \A j \in In(slice) : j \in Channel
    BY <1>1 DEF In
  <1>7. SliceIsOpen'
    BY <1>1, <1>2, <1>6 DEF SerialInv, SliceIsOpen, AtWork
  <1>8. NoneIsLost'
    BY <1>1, <1>3, <1>6 DEF SerialInv, NoneIsLost
  <1>9. NewIsOpen'
    BY <1>1, <1>2, <1>3 DEF SerialInv, NewIsOpen
  <1> QED BY <1>4, <1>5, <1>7, <1>8, <1>9 DEF SerialInv

\* A goroutine reads the slice to register its channel.
LEMMA SerialAddRead ==
    ASSUME SerialInv, ChannelInv', Serial', NEW k \in Channel, AddRead(k)
    PROVE  SerialInv'
  <1>0. TypeOK
    BY DEF SerialInv, ChannelInv
  <1>1. UNCHANGED <<slice, buf, closed, sig>> /\ owner[k] = "new"
    BY DEF AddRead
  <1>2. /\ owner'[k] = "append" /\ seen'[k] = slice
        /\ \A j \in Channel : j # k => owner'[j] = owner[j] /\ seen'[j] = seen[j]
    BY <1>0 DEF AddRead, TypeOK
  <1>3. Registered' = Registered
    BY <1>0, <1>1, <1>2 DEF Registered, TypeOK
  <1>4. ASSUME NEW h \in Signaller, AtWork(h) PROVE FALSE
    <2>1. k = h
      BY <1>1, <1>2, <1>4 DEF Serial, Busy, AtWork
    <2> QED BY <1>1, <1>4, <2>1 DEF SerialInv, Signalling
  <1>5. AllNotified' /\ NoPanic'
    BY <1>1 DEF SerialInv, AllNotified, NoPanic
  <1>6. \A h \in Signaller : ~AtWork(h)'
    BY <1>1, <1>4 DEF AtWork
  <1>7. SliceIsOpen' /\ NoneIsLost'
    BY <1>1, <1>3, <1>4 DEF SerialInv, SliceIsOpen, NoneIsLost, In
  <1>8. NewIsOpen'
    <2>1. \A j \in Channel : owner'[j] = "append" => j = k
      BY <1>2 DEF Serial, Busy
    <2> QED BY <1>1, <1>2, <1>3, <2>1 DEF SerialInv, NewIsOpen
  <1> QED BY <1>5, <1>6, <1>7, <1>8 DEF SerialInv

\* It writes the slice back.
LEMMA SerialAddWrite ==
    ASSUME SerialInv, ChannelInv', Serial, NEW k \in Channel, AddWrite(k)
    PROVE  SerialInv'
  <1>0. TypeOK
    BY DEF SerialInv, ChannelInv
  <1>1. UNCHANGED <<buf, closed, sig>> /\ owner[k] = "append"
    BY DEF AddWrite
  <1>2. owner'[k] = "waiting" /\ \A j \in Channel : j # k => owner'[j] = owner[j]
    BY <1>0 DEF AddWrite, TypeOK
  <1>3. k \notin Registered /\ Registered' = Registered \cup {k}
    BY <1>0, <1>1, <1>2 DEF Registered, TypeOK
  <1>4. \A h \in Signaller : ~AtWork(h) /\ ~AtWork(h)'
    BY <1>1, Excluded DEF AtWork
  <1>5. In(slice)' = In(slice) \cup {k}
    <2>1. PICK s \in Seq(Channel) : s = slice
      BY <1>0 DEF TypeOK
    <2>2. slice' = Append(s, k)
      BY <1>1, <1>3, <2>1 DEF AddWrite, SerialInv, NewIsOpen
    <2>3. In(slice') = In(s) \cup {k}
      BY <2>2, InAppend
    <2> QED BY <2>1, <2>3 DEF In
  <1>6. AllNotified' /\ NoPanic'
    BY <1>1 DEF SerialInv, AllNotified, NoPanic
  <1>7. SliceIsOpen' /\ NoneIsLost'
    BY <1>1, <1>3, <1>4, <1>5 DEF SerialInv, SliceIsOpen, NoneIsLost, NewIsOpen
  <1>8. NewIsOpen'
    <2>1. \A j \in Channel : j # k => owner'[j] # "append"
      BY <1>1, <1>2, Excluded
    <2> QED BY <1>1, <1>3, <2>1 DEF SerialInv, NewIsOpen
  <1> QED BY <1>4, <1>6, <1>7, <1>8 DEF SerialInv

\* A signal begins.
LEMMA SerialBegin ==
    ASSUME SerialInv, ChannelInv', Serial', NEW h \in Signaller, SignalBegin(h)
    PROVE  SerialInv'
  <1>0. TypeOK /\ Listed
    BY DEF SerialInv, ChannelInv
  <1>1. /\ UNCHANGED <<slice, buf, closed, owner, seen>>
        /\ sig[h].pc = "idle" /\ (h \in Channel => owner[h] = "ended")
        /\ sig'[h].pc = "send" /\ sig'[h].rest = slice
        /\ sig'[h].must = Registered \ {k \in Channel : closed[k]}
        /\ \A g \in Signaller : g # h => sig'[g] = sig[g]
    BY <1>0, BeginSig
  <1>2. Registered' = Registered /\ In(slice)' = In(slice) /\ In(sig[h].rest)' = In(slice)
    BY <1>1 DEF Registered, In
  <1>3. \A g \in Signaller : g # h => ~AtWork(g)' /\ ~AtWork(g)
    BY <1>1 DEF Serial, Busy, AtWork
  <1>4. ~AtWork(h)
    BY <1>1 DEF AtWork
  <1>5. \A k \in In(slice) : ~closed[k] /\ ~buf[k]
    BY <1>3, <1>4 DEF SerialInv, SliceIsOpen
  <1>6. Signalling(h)'
    <2>1. IsInjective(sig'[h].rest)
      BY <1>0, <1>1 DEF TypeOK
    <2> QED BY <1>1, <1>2, <1>5, <2>1 DEF Signalling
  <1>7. AllNotified' /\ NoPanic'
    BY <1>1 DEF SerialInv, AllNotified, NoPanic
  <1>8. SliceIsOpen' /\ NoneIsLost' /\ NewIsOpen'
    BY <1>1, <1>2, <1>5 DEF SerialInv, SliceIsOpen, NoneIsLost, NewIsOpen
  <1> QED BY <1>3, <1>6, <1>7, <1>8 DEF SerialInv

\* The loop sends; the channel is open.
LEMMA SerialSend ==
    ASSUME SerialInv, ChannelInv', Serial, NEW h \in Signaller, Send(h)
    PROVE  SerialInv'
  <1>0. TypeOK /\ Listed
    BY DEF SerialInv, ChannelInv
  <1>1. /\ UNCHANGED <<slice, closed, owner, seen>>
        /\ sig[h].pc = "send" /\ sig[h].rest # <<>>
        /\ sig'[h].rest = sig[h].rest /\ sig'[h].must = sig[h].must
        /\ \A g \in Signaller : g # h => sig'[g] = sig[g]
    BY <1>0, SendSig
  <1>2. AtWork(h) /\ Signalling(h)
    BY <1>1 DEF AtWork, SerialInv
  <1>3. PICK k : k = Head(sig[h].rest)
    OBVIOUS
  <1>4. k \in Channel /\ k \in In(sig[h].rest) /\ k \in In(slice)
    <2>1. PICK s \in Seq(Channel) : s = sig[h].rest
      BY <1>0 DEF TypeOK, Sig
    <2> QED BY <1>1, <1>2, <1>3, <2>1, InTail DEF Signalling
  <1>5. ~closed[k]
    BY <1>2, <1>4 DEF Signalling
  <1>6. sig'[h].pc = "close" /\ buf' = [buf EXCEPT ![k] = TRUE]
    BY <1>0, <1>3, <1>5, SendSig
  <1>7. \A j \in Channel : j # k => buf'[j] = buf[j]
    BY <1>0, <1>6 DEF TypeOK
  <1>8. \A g \in Signaller : g # h => ~AtWork(g)'
    BY <1>1, <1>2, Excluded DEF AtWork
  <1>9. Registered' = Registered /\ In(slice)' = In(slice) /\ In(sig[h].rest)' = In(sig[h].rest)
    BY <1>1 DEF Registered, In
  <1>10. Signalling(h)'
    <2>1. \A j \in In(sig[h].rest) : j \in Channel
      BY DEF In
    <2>2. \A j \in In(sig[h].rest) : buf'[j] => j = k
      BY <1>1, <1>2, <1>7, <2>1 DEF Signalling
    <2> QED BY <1>1, <1>2, <1>3, <1>6, <1>9, <2>2 DEF Signalling
  <1>11. AllNotified' /\ NoPanic'
    BY <1>1, <1>6 DEF SerialInv, AllNotified, NoPanic
  <1>12. SliceIsOpen' /\ NoneIsLost'
    BY <1>1, <1>6, <1>9 DEF SerialInv, SliceIsOpen, NoneIsLost, AtWork
  <1>13. NewIsOpen'
    <2>1. k \in Registered
      BY <1>0, <1>4 DEF Listed
    <2> QED BY <1>1, <1>7, <1>9, <2>1 DEF SerialInv, NewIsOpen
  <1> QED BY <1>8, <1>10, <1>11, <1>12, <1>13 DEF SerialInv

\* It closes the channel and goes on.
LEMMA SerialClose ==
    ASSUME SerialInv, ChannelInv', Serial, NEW h \in Signaller, Close(h)
    PROVE  SerialInv'
  <1>0. TypeOK /\ Listed
    BY DEF SerialInv, ChannelInv
  <1>1. sig[h].pc = "close"
    BY DEF Close
  <1>2. AtWork(h) /\ Signalling(h) /\ sig[h].rest # <<>>
    BY <1>1 DEF AtWork, SerialInv, Signalling
  <1>3. PICK k : k = Head(sig[h].rest)
    OBVIOUS
  <1>4. PICK s \in Seq(Channel) : s = sig[h].rest
    BY <1>0 DEF TypeOK, Sig
  <1>5. /\ k \in Channel /\ k \in In(sig[h].rest) /\ k \in In(slice)
        /\ IsInjective(Tail(s)) /\ In(Tail(s)) = In(s) \ {k}
    BY <1>2, <1>3, <1>4, InTail DEF Signalling
  <1>6. ~closed[k]
    BY <1>2, <1>5 DEF Signalling
  <1>7. /\ UNCHANGED <<slice, buf, owner, seen>>
        /\ sig'[h].pc = "send" /\ sig'[h].rest = Tail(s) /\ sig'[h].must = sig[h].must
        /\ closed' = [closed EXCEPT ![k] = TRUE]
        /\ \A g \in Signaller : g # h => sig'[g] = sig[g]
    BY <1>0, <1>2, <1>3, <1>4, <1>6, CloseSig
  <1>8. closed'[k] /\ \A j \in Channel : j # k => closed'[j] = closed[j]
    BY <1>0, <1>5, <1>7 DEF TypeOK
  <1>9. \A g \in Signaller : g # h => ~AtWork(g)'
    BY <1>2, <1>7, Excluded DEF AtWork
  <1>10. /\ Registered' = Registered /\ In(slice)' = In(slice)
         /\ In(sig[h].rest)' = In(sig[h].rest) \ {k}
    BY <1>4, <1>5, <1>7 DEF Registered, In
  <1>11. Signalling(h)'
    <2>1. \A j \in In(slice) : j \in Channel
      BY DEF In
    <2>2. IsInjective(sig'[h].rest) /\ In(sig[h].rest)' \subseteq In(slice)'
      BY <1>2, <1>5, <1>7, <1>10 DEF Signalling
    <2>3. \A j \in In(slice) : closed'[j] <=> j \notin In(sig[h].rest)'
      BY <1>2, <1>8, <1>10, <2>1 DEF Signalling
    <2>4. \A j \in In(sig[h].rest)' : ~buf'[j]
      BY <1>2, <1>3, <1>7, <1>10 DEF Signalling
    <2> QED BY <1>2, <1>7, <1>10, <2>2, <2>3, <2>4 DEF Signalling
  <1>12. AllNotified' /\ NoPanic'
    <2>1. \A g \in Signaller : \A j \in sig[g].must : j \in Channel
      BY <1>0 DEF TypeOK, Sig
    <2> QED BY <1>7, <1>8, <2>1 DEF SerialInv, AllNotified, NoPanic
  <1>13. SliceIsOpen'
    BY <1>7 DEF SliceIsOpen, AtWork
  <1>14. NoneIsLost' /\ NewIsOpen'
    <2>1. k \in Registered /\ Registered \subseteq Channel
      BY <1>0, <1>5 DEF Listed, Registered
    <2> QED BY <1>7, <1>8, <1>10, <2>1 DEF SerialInv, NoneIsLost, NewIsOpen
  <1> QED BY <1>9, <1>11, <1>12, <1>13, <1>14 DEF SerialInv

\* It has closed all of the slice, which is emptied.
LEMMA SerialEnd ==
    ASSUME SerialInv, ChannelInv', Serial, NEW h \in Signaller, SignalEnd(h)
    PROVE  SerialInv'
  <1>0. TypeOK /\ Listed
    BY DEF SerialInv, ChannelInv
  <1>1. /\ UNCHANGED <<buf, closed, owner, seen>>
        /\ sig[h].pc = "send" /\ sig[h].rest = <<>> /\ slice' = <<>>
        /\ sig'[h].pc = "done" /\ sig'[h].must = sig[h].must
        /\ \A g \in Signaller : g # h => sig'[g] = sig[g]
    BY <1>0, EndSig
  <1>2. AtWork(h) /\ Signalling(h)
    BY <1>1 DEF AtWork, SerialInv
  <1>3. In(sig[h].rest) = {} /\ In(slice)' = {} /\ Registered' = Registered
    BY <1>1, InEmpty DEF In, Registered
  <1>4. \A k \in Registered : closed[k]
    BY <1>2, <1>3 DEF SerialInv, NoneIsLost, Signalling
  <1>5. \A g \in Signaller : ~AtWork(g)'
    BY <1>1, <1>2, Excluded DEF AtWork
  <1>6. AllNotified' /\ NoPanic'
    BY <1>1, <1>2, <1>4 DEF SerialInv, AllNotified, NoPanic, Signalling
  <1>7. SliceIsOpen' /\ NoneIsLost'
    BY <1>1, <1>3, <1>4 DEF SliceIsOpen, NoneIsLost
  <1>8. NewIsOpen'
    BY <1>1, <1>2, <1>3, Excluded DEF SerialInv, NewIsOpen
  <1> QED BY <1>5, <1>6, <1>7, <1>8 DEF SerialInv

\* Nothing happens.
LEMMA SerialStutter ==
    ASSUME SerialInv, UNCHANGED vars
    PROVE  SerialInv'
  <1>1. ChannelInv'
    BY DEF SerialInv, ChannelInv, TypeOK, Listed, In, Registered, vars
  <1>2. AllNotified' /\ NoPanic'
    BY DEF SerialInv, AllNotified, NoPanic, vars
  <1>3. \A h \in Signaller : AtWork(h)' => Signalling(h)'
    BY DEF SerialInv, AtWork, Signalling, In, Registered, vars
  <1>4. SliceIsOpen' /\ NoneIsLost' /\ NewIsOpen'
    BY DEF SerialInv, AtWork, SliceIsOpen, NoneIsLost, NewIsOpen, In, Registered, vars
  <1> QED BY <1>1, <1>2, <1>3, <1>4 DEF SerialInv

\* Steps that do not overlap keep the slice equal to the open channels.
LEMMA SerialStep ==
    ASSUME SerialInv, Serial, Serial', [Next]_vars
    PROVE  SerialInv'
  <1>0. \A h \in Signaller : sig[h].pc = "close" => sig[h].rest # <<>>
    BY DEF SerialInv, AtWork, Signalling
  <1>1. ChannelInv'
    BY <1>0, ChannelStep DEF SerialInv
  <1>2. ASSUME NEW k \in Channel, AddRead(k) \/ AddWrite(k) \/ Notified(k) \/ SessionEnds(k)
        PROVE  SerialInv'
    BY <1>1, <1>2, SerialAddRead, SerialAddWrite, SerialOwner
  <1>3. ASSUME NEW h \in Signaller, SignalBegin(h) \/ Send(h) \/ Close(h) \/ SignalEnd(h)
        PROVE  SerialInv'
    BY <1>1, <1>3, SerialBegin, SerialSend, SerialClose, SerialEnd
  <1> QED BY <1>2, <1>3, SerialStutter, Zenon DEF Next

\* As long as registrations and signals do not overlap, a signal that has run
\* to its end closed every channel registered when it began, and no send or
\* close meets a closed channel.
THEOREM SerialAlwaysSafe == Spec => SerialIsSafe
  <1>1. Init => SerialInv
    BY SerialInit
  <1>2. SerialInv /\ Serial /\ Serial' /\ [Next]_vars => SerialInv'
    BY SerialStep
  <1>3. SerialInv => AllNotified /\ NoPanic
    BY DEF SerialInv
  <1>4. Serial <=> \A g, h \in Busy : g = h
    BY DEF Serial
  <1> QED BY <1>1, <1>2, <1>3, <1>4, PTL DEF Spec, SerialIsSafe

----------------------------------------------------------------------------
(* Proxies: type correctness with any overlap. *)

\* Every step of Proxies is, for the channels, a step of SignalChannels.
LEMMA ChannelSide ==
    ASSUME [ProxyNext]_allVars
    PROVE  [Next]_vars
  <1>0. Proxy \subseteq Channel /\ Follower \subseteq Channel /\ Handler \subseteq Signaller
    BY ProxyAssumption DEF Signaller
  <1>1. UNCHANGED chVars => UNCHANGED vars
    BY DEF chVars, vars
  <1>2. CASE UNCHANGED allVars
    BY <1>1, <1>2 DEF allVars
  <1>3. CASE ContainerStart \/ StartReturns \/ CleanContainers
    BY <1>1, <1>3 DEF ContainerStart, StartReturns, CleanContainers
  <1>4. ASSUME NEW k \in Proxy, ProxyStep(k) \/ \E x \in Conn : Accept(k, x) PROVE [Next]_vars
    <2>1. CASE Register(k)
      BY <1>0, <2>1 DEF Register, Next
    <2>2. CASE Stop(k)
      BY <1>0, <2>2 DEF Stop, Next
    <2>3. CASE Listen(k) \/ CloseListener(k) \/ Probe(k) \/ AcceptError(k) \/ \E x \in Conn : Accept(k, x)
      BY <1>1, <2>3 DEF Listen, CloseListener, Probe, AcceptError, Accept
    <2> QED BY <1>4, <2>1, <2>2, <2>3 DEF ProxyStep
  <1>5. ASSUME NEW x \in Conn, Dial(x) \/ RemoteCloses(x) PROVE [Next]_vars
    BY <1>1, <1>5 DEF Dial, RemoteCloses
  <1>6. ASSUME NEW f \in Follower, FollowRegister(f) \/ FollowerStep(f) \/ ReaderEnds(f)
        PROVE  [Next]_vars
    <2>1. CASE FollowRegister(f)
      BY <1>0, <2>1 DEF FollowRegister, Next
    <2>2. CASE StopFollower(f)
      BY <1>0, <2>2 DEF StopFollower, Next
    <2>3. CASE OpenStream(f) \/ ReaderEnds(f)
      BY <1>1, <2>3 DEF OpenStream, ReaderEnds
    <2> QED BY <1>6, <2>1, <2>2, <2>3 DEF FollowerStep
  <1>7. ASSUME NEW h \in Handler, ContainerStop(h) \/ ContainerRestart(h) \/ HandlerStep(h)
        PROVE  [Next]_vars
    <2>1. CASE ContainerStop(h) \/ RestartSignals(h)
      BY <1>0, <2>1 DEF ContainerStop, RestartSignals, Next
    <2>2. CASE SignalStop(h)
      BY <1>0, <2>2 DEF SignalStop, Next
    <2>3. CASE DeleteContainer(h) \/ ContainerRestart(h)
      BY <1>1, <2>3 DEF DeleteContainer, ContainerRestart
    <2> QED BY <1>7, <2>1, <2>2, <2>3 DEF HandlerStep
  <1> QED BY <1>2, <1>3, <1>4, <1>5, <1>6, <1>7, Zenon DEF ProxyNext

\* The types of what Proxies adds to SignalChannels.
RecordTypeOK ==
    /\ mode \in {"forward", "proxy"}
    /\ gen \in 0..MaxStarts
    /\ {starting, running, stopped, reaped} \subseteq BOOLEAN
    /\ live \subseteq 1..gen
    /\ local \in [Exposed -> Local \cup {NoPort}]
    /\ restarting \subseteq Handler /\ finished \subseteq Handler

NetTypeOK ==
    /\ host \in [Local -> Proxy \cup {Free}]
    /\ lst \in [Proxy -> {"none", "open", "closed", "failed"}]
    /\ done \in [Proxy -> BOOLEAN]
    /\ acc \in [Proxy -> {"none", "probe", "accept", "ended"}]
    /\ conn \in [Conn -> [at : Proxy \cup {NoProxy}, pc : {"none", "dial", "copy", "closed"}]]
    /\ reader \in [Follower -> {"none", "reading", "ended"}]
    /\ late \subseteq Proxy

\* The two parts.
LEMMA TypeParts == ProxyTypeOK <=> TypeOK /\ RecordTypeOK /\ NetTypeOK
  BY DEF ProxyTypeOK, RecordTypeOK, NetTypeOK

\* The actions that change the record.
LEMMA RecordStep ==
    ASSUME RecordTypeOK, [ProxyNext]_allVars
    PROVE  RecordTypeOK'
  <1>1. ASSUME UNCHANGED recVars PROVE RecordTypeOK'
    BY <1>1 DEF RecordTypeOK, recVars
  <1>2. CASE ContainerStart
    <2>1. gen' \in 0..MaxStarts /\ live' \subseteq 1..gen'
      BY <1>2, ProxyAssumption DEF ContainerStart, RecordTypeOK
    <2>2. local' \in [Exposed -> Local \cup {NoPort}]
      BY <1>2 DEF ContainerStart
    <2>3. {starting', running', stopped', reaped'} \subseteq BOOLEAN
      BY <1>2 DEF ContainerStart, RecordTypeOK
    <2> QED BY <1>2, <2>1, <2>2, <2>3 DEF ContainerStart, RecordTypeOK
  <1>3. CASE StartReturns
    BY <1>3 DEF StartReturns, RecordTypeOK
  <1>4. CASE CleanContainers
    BY <1>4 DEF CleanContainers, Undeploy, RecordTypeOK
  <1>5. ASSUME NEW h \in Handler, DeleteContainer(h) \/ ContainerRestart(h) PROVE RecordTypeOK'
    <2>1. UNCHANGED gen /\ live' \subseteq live
      BY <1>5 DEF DeleteContainer, ContainerRestart, Undeploy
    <2>2. live' \subseteq 1..gen'
      BY <2>1 DEF RecordTypeOK
    <2> QED BY <1>5, <2>1, <2>2 DEF DeleteContainer, ContainerRestart, RecordTypeOK
  <1>6. ASSUME NEW k \in Proxy, ProxyStep(k) \/ \E x \in Conn : Accept(k, x) PROVE UNCHANGED recVars
    BY <1>6 DEF ProxyStep, Register, Listen, Stop, CloseListener, Probe, AcceptError, Accept
  <1>7. ASSUME NEW x \in Conn, Dial(x) \/ RemoteCloses(x) PROVE UNCHANGED recVars
    BY <1>7 DEF Dial, RemoteCloses
  <1>8. ASSUME NEW f \in Follower, FollowRegister(f) \/ FollowerStep(f) \/ ReaderEnds(f)
        PROVE  UNCHANGED recVars
    BY <1>8 DEF FollowRegister, FollowerStep, OpenStream, StopFollower, ReaderEnds
  <1>9. ASSUME NEW h \in Handler, ContainerStop(h) \/ SignalStop(h) \/ RestartSignals(h)
        PROVE  UNCHANGED recVars
    BY <1>9 DEF ContainerStop, SignalStop, RestartSignals
  <1>10. CASE UNCHANGED allVars
    BY <1>1, <1>10 DEF allVars
  <1> QED BY <1>1, <1>2, <1>3, <1>4, <1>5, <1>6, <1>7, <1>8, <1>9, <1>10, Zenon DEF ProxyNext, HandlerStep

\* The actions of the proxies, their connections and the followers.
LEMMA NetStep ==
    ASSUME NetTypeOK, [ProxyNext]_allVars
    PROVE  NetTypeOK'
  <1>1. ASSUME UNCHANGED netVars PROVE NetTypeOK'
    BY <1>1 DEF NetTypeOK, netVars
  <1>2. CASE ContainerStart \/ StartReturns \/ CleanContainers
    BY <1>1, <1>2 DEF ContainerStart, StartReturns, CleanContainers
  <1>3. ASSUME NEW h \in Handler, ContainerStop(h) \/ ContainerRestart(h) \/ HandlerStep(h)
        PROVE  NetTypeOK'
    BY <1>1, <1>3 DEF ContainerStop, SignalStop, DeleteContainer, ContainerRestart,
                      RestartSignals, HandlerStep
  <1>4. ASSUME NEW k \in Proxy, ProxyStep(k) \/ \E x \in Conn : Accept(k, x) PROVE NetTypeOK'
    <2>0. Loop(k) => acc' \in [Proxy -> {"none", "probe", "accept", "ended"}]
      BY DEF NetTypeOK, Loop
    <2>1. CASE Register(k)
      BY <1>1, <2>1 DEF Register
    <2>2. CASE Listen(k)
      BY <2>2 DEF Listen, NetTypeOK
    <2>3. CASE Stop(k)
      BY <2>3 DEF Stop, NetTypeOK
    <2>4. CASE CloseListener(k)
      BY <2>4 DEF CloseListener, NetTypeOK
    <2>5. CASE Probe(k) \/ AcceptError(k)
      BY <2>0, <2>5 DEF Probe, AcceptError, NetTypeOK
    <2>6. ASSUME NEW x \in Conn, Accept(k, x) PROVE NetTypeOK'
      BY <2>0, <2>6 DEF Accept, NetTypeOK
    <2> QED BY <1>4, <2>1, <2>2, <2>3, <2>4, <2>5, <2>6 DEF ProxyStep
  <1>5. ASSUME NEW x \in Conn, Dial(x) \/ RemoteCloses(x) PROVE NetTypeOK'
    <2>1. PICK pc \in {"copy", "closed"} : conn' = [conn EXCEPT ![x].pc = pc]
      BY <1>5 DEF Dial, RemoteCloses
    <2>2. conn' \in [Conn -> [at : Proxy \cup {NoProxy}, pc : {"none", "dial", "copy", "closed"}]]
      BY <2>1 DEF NetTypeOK
    <2>3. UNCHANGED <<host, lst, done, acc, reader, late>>
      BY <1>5 DEF Dial, RemoteCloses
    <2> QED BY <2>2, <2>3 DEF NetTypeOK
  <1>6. ASSUME NEW f \in Follower, FollowRegister(f) \/ FollowerStep(f) \/ ReaderEnds(f)
        PROVE  NetTypeOK'
    <2>1. CASE FollowRegister(f)
      BY <1>1, <2>1 DEF FollowRegister
    <2>2. CASE OpenStream(f)
      BY <2>2 DEF OpenStream, NetTypeOK
    <2>3. CASE StopFollower(f) \/ ReaderEnds(f)
      BY <2>3 DEF StopFollower, ReaderEnds, NetTypeOK
    <2> QED BY <1>6, <2>1, <2>2, <2>3 DEF FollowerStep
  <1>7. CASE UNCHANGED allVars
    BY <1>1, <1>7 DEF allVars
  <1> QED BY <1>2, <1>3, <1>4, <1>5, <1>6, <1>7, Zenon DEF ProxyNext

\* The initial types.
LEMMA TypeInit == ProxyInit => RecordTypeOK /\ NetTypeOK
  <1> SUFFICES ASSUME ProxyInit PROVE RecordTypeOK /\ NetTypeOK
    OBVIOUS
  <1>1. RecordTypeOK
    <2>1. \A e \in Exposed : (IF e \in DOMAIN HostPort THEN HostPort[e] ELSE NoPort) \in Local \cup {NoPort}
      BY ProxyAssumption
    <2>2. local \in [Exposed -> Local \cup {NoPort}]
      BY <2>1 DEF ProxyInit
    <2>3. gen \in 0..MaxStarts /\ live \subseteq 1..gen
      BY ProxyAssumption DEF ProxyInit
    <2>4. {starting, running, stopped, reaped} \subseteq BOOLEAN
      BY DEF ProxyInit
    <2> QED BY <2>2, <2>3, <2>4 DEF ProxyInit, RecordTypeOK
  <1>2. NetTypeOK
    BY DEF ProxyInit, NetTypeOK, NoConn
  <1> QED BY <1>1, <1>2

\* Type correctness of the record, the proxies, their connections and the
\* followers, with any overlap of starts, stops and registrations.
THEOREM ProxyTypeCorrect == ProxySpec => []ProxyTypeOK
  <1> DEFINE Inv == /\ ChannelInv /\ RecordTypeOK /\ NetTypeOK
                    /\ \A h \in Signaller : sig[h].pc = "close" => sig[h].rest # <<>>
  <1>1. ProxyInit => Inv
    BY TypeInit, SerialInit DEF SerialInv, ProxyInit, Init
  <1>2. Inv /\ [ProxyNext]_allVars => Inv'
    BY ChannelSide, ChannelStep, RecordStep, NetStep
  <1>3. Inv => ProxyTypeOK
    BY TypeParts DEF ChannelInv
  <1> HIDE DEF Inv
  <1> QED BY <1>1, <1>2, <1>3, PTL DEF ProxySpec

----------------------------------------------------------------------------
(* Proxies without overlap. *)

\* Who registers or signals is active, so that only one does.
LEMMA ActiveIsSerial ==
    ASSUME HandlerFlow, ActiveIsOne
    PROVE  Serial
  <1>1. Busy \subseteq Active
    BY DEF Busy, Active, HandlerFlow, Signaller
  <1> QED BY <1>1 DEF ActiveIsOne, Serial

\* The same in the next state.
LEMMA ActiveIsSerialNext ==
    ASSUME HandlerFlow', ActiveIsOne'
    PROVE  Serial'
  <1>1. Busy' \subseteq Active'
    BY DEF Busy, Active, HandlerFlow, Signaller
  <1> QED BY <1>1 DEF ActiveIsOne, Serial

\* A step of SignalStop.
LEMMA StopEffect ==
    ASSUME SerialInv, NEW h \in Handler, SignalStop(h)
    PROVE  /\ UNCHANGED <<owner, recVars, netVars>>
           /\ AtWork(h) /\ sig'[h].pc \in {"send", "close", "done", "panic"}
           /\ \A g \in Signaller : g # h => sig'[g] = sig[g]
           /\ \A k \in Channel : closed[k] => closed'[k]
           /\ \/ slice' = slice /\ sig'[h].pc # "done"
              \/ slice' = <<>> /\ sig'[h].pc = "done"
  <1>0. TypeOK /\ h \in Signaller
    BY DEF SerialInv, ChannelInv, Signaller
  <1>1. CASE Send(h)
    <2>1. UNCHANGED <<recVars, netVars>>
      BY DEF SignalStop
    <2> QED BY <1>0, <1>1, <2>1, SendSig DEF AtWork
  <1>2. CASE Close(h)
    <2>1. UNCHANGED <<recVars, netVars>>
      BY DEF SignalStop
    <2>2. sig[h].rest # <<>>
      BY <1>0, <1>2 DEF Close, SerialInv, AtWork, Signalling
    <2>3. \A k \in Channel : closed[k] => closed'[k]
      BY <1>0, <1>2, <2>2, CloseSig DEF TypeOK
    <2> QED BY <1>0, <1>2, <2>1, <2>2, <2>3, CloseSig DEF AtWork
  <1>3. CASE SignalEnd(h)
    <2>1. UNCHANGED <<recVars, netVars>>
      BY DEF SignalStop
    <2> QED BY <1>0, <1>3, <2>1, EndSig DEF AtWork
  <1> QED BY <1>1, <1>2, <1>3 DEF SignalStop

\* One registration or stop begins when there is none, and the slice of a
\* handler that is about to delete the container stays empty.
LEMMA FlowStep ==
    ASSUME ~Overlap, OnePortPerPhase, SerialInv, finished \subseteq Handler, ActiveIsOne, HandlerFlow,
           [ProxyNext]_allVars
    PROVE  ActiveIsOne' /\ HandlerFlow'
  <1> DEFINE Goal == ActiveIsOne' /\ HandlerFlow'
  <1> SUFFICES Goal
    OBVIOUS
  <1>0. TypeOK /\ Handler \subseteq Signaller /\ Channel \cap Handler = {}
    BY SignallerAssumption DEF SerialInv, ChannelInv, Signaller
  <1>1. ASSUME UNCHANGED <<slice, sig, restarting, finished>>, \A k \in Channel : owner'[k] = "append" => owner[k] = "append"
        PROVE  Goal
    <2>1. Active' \subseteq Active
      BY <1>1 DEF Active
    <2> QED BY <1>1, <2>1 DEF ActiveIsOne, HandlerFlow
  <1>2. ASSUME NEW k \in Channel, AddRead(k), Active = {}, UNCHANGED <<restarting, finished>> PROVE Goal
    <2>1. Active' \subseteq {k}
      BY <1>0, <1>2 DEF AddRead, Active, TypeOK
    <2> QED BY <1>2, <2>1 DEF ActiveIsOne, HandlerFlow, AddRead
  <1>3. ASSUME NEW k \in Channel, AddWrite(k), UNCHANGED <<restarting, finished>> PROVE Goal
    <2>1. Active' \subseteq Active /\ k \in Active
      BY <1>0, <1>3 DEF AddWrite, Active, TypeOK
    <2>2. ASSUME NEW h \in Handler \ finished, sig[h].pc = "done" PROVE FALSE
      <3>1. h \in Active
        BY <2>2 DEF Active
      <3> QED BY <1>0, <2>1, <3>1 DEF ActiveIsOne
    <2> QED BY <1>3, <2>1, <2>2 DEF ActiveIsOne, HandlerFlow, AddWrite
  <1>4. ASSUME NEW k \in Channel, Notified(k), UNCHANGED <<restarting, finished>> PROVE Goal
    BY <1>0, <1>1, <1>4 DEF Notified, TypeOK
  <1>5. ASSUME NEW h \in Handler, ContainerStop(h) \/ RestartSignals(h) PROVE Goal
    <2>1. UNCHANGED <<restarting, finished>> /\ SignalBegin(h) /\ (Active = {} \/ h \in restarting)
      BY <1>5 DEF ContainerStop, RestartSignals, MayStop, Undisturbed, recVars
    <2>2. /\ UNCHANGED <<slice, owner>> /\ sig[h].pc = "idle" /\ sig'[h].pc = "send"
          /\ \A g \in Signaller : g # h => sig'[g] = sig[g]
      BY <1>0, <2>1, BeginSig
    <2>3. Active' \subseteq Active \cup {h} /\ (h \in restarting => h \in Active)
      BY <1>0, <2>1, <2>2 DEF Active, HandlerFlow
    <2>4. ActiveIsOne'
      BY <2>1, <2>3 DEF ActiveIsOne
    <2>5. \A g \in Signaller : g = h \/ sig'[g] = sig[g]
      BY <2>2
    <2>6. \A g \in Signaller \ Handler : sig'[g].pc = "idle"
      BY <2>5 DEF HandlerFlow
    <2>7. h \notin finished
      BY <2>2 DEF HandlerFlow
    <2>8. HandlerFlow'
      BY <1>0, <2>1, <2>2, <2>5, <2>6, <2>7 DEF HandlerFlow
    <2> QED BY <2>4, <2>8
  <1>6. ASSUME NEW h \in Handler, SignalStop(h) PROVE Goal
    <2>1. /\ UNCHANGED owner /\ sig'[h].pc # "idle" /\ sig[h].pc \in {"send", "close"}
          /\ \A g \in Signaller : g # h => sig'[g] = sig[g]
          /\ (slice' = slice /\ sig'[h].pc # "done") \/ (slice' = <<>> /\ sig'[h].pc = "done")
      BY <1>6, StopEffect DEF AtWork
    <2>2. UNCHANGED <<restarting, finished>>
      BY <1>6 DEF SignalStop, recVars
    <2>3. h \notin finished
      BY <2>1 DEF HandlerFlow
    <2>4. Active' \subseteq Active
      BY <1>0, <2>1, <2>2, <2>3 DEF Active
    <2>5. ActiveIsOne'
      BY <2>4 DEF ActiveIsOne
    <2>6. \A g \in Signaller : g = h \/ sig'[g] = sig[g]
      BY <2>1
    <2>7. \A g \in Signaller \ Handler : sig'[g].pc = "idle"
      BY <2>6 DEF HandlerFlow
    <2>8. \A g \in finished' : sig'[g].pc = "done"
      BY <1>0, <2>2, <2>3, <2>6 DEF HandlerFlow
    <2>9. ASSUME NEW g \in Handler \ finished', sig'[g].pc = "done" PROVE slice' = <<>>
      BY <1>0, <2>1, <2>2, <2>6, <2>9 DEF HandlerFlow
    <2> QED BY <2>5, <2>7, <2>8, <2>9 DEF HandlerFlow
  <1>7. ASSUME NEW h \in Handler, DeleteContainer(h) PROVE Goal
    <2>1. /\ UNCHANGED <<slice, sig, owner, restarting>> /\ sig[h].pc = "done"
          /\ finished' = finished \cup {h}
      BY <1>7 DEF DeleteContainer, chVars
    <2>2. Active' \subseteq Active
      BY <2>1 DEF Active
    <2> QED BY <2>1, <2>2 DEF ActiveIsOne, HandlerFlow
  <1>8. ASSUME UNCHANGED <<chVars, restarting, finished>> PROVE Goal
    BY <1>1, <1>8 DEF chVars
  <1> HIDE DEF Goal
  <1>9. Proxy \subseteq Channel /\ Follower \subseteq Channel
    BY ProxyAssumption
  <1>10. CASE ContainerStart \/ StartReturns \/ CleanContainers \/ UNCHANGED allVars
    BY <1>8, <1>10 DEF ContainerStart, StartReturns, CleanContainers, allVars, recVars
  <1>11. ASSUME NEW k \in Proxy, ProxyStep(k) \/ \E x \in Conn : Accept(k, x) PROVE Goal
    <2>1. CASE Register(k)
      <3>1. UNCHANGED <<restarting, finished>> /\ k \in Channel
        BY <1>9, <2>1 DEF Register, recVars
      <3>2. CASE AddRead(k) /\ Active \subseteq Peers(k)
        <4>1. Peers(k) \subseteq {k}
          BY DEF Peers, OnePortPerPhase, Proxy
        <4>2. k \notin Active
          BY <1>0, <3>1, <3>2 DEF AddRead, Active
        <4>3. Active = {}
          BY <3>2, <4>1, <4>2
        <4> QED BY <1>2, <3>1, <3>2, <4>3
      <3>3. CASE AddWrite(k)
        BY <1>3, <3>1, <3>3
      <3> QED BY <2>1, <3>2, <3>3 DEF Register
    <2>2. CASE Stop(k)
      BY <1>4, <1>9, <2>2 DEF Stop, recVars
    <2>3. CASE Listen(k) \/ CloseListener(k) \/ Probe(k) \/ AcceptError(k) \/ \E x \in Conn : Accept(k, x)
      BY <1>8, <2>3 DEF Listen, CloseListener, Probe, AcceptError, Accept, recVars
    <2> QED BY <1>11, <2>1, <2>2, <2>3 DEF ProxyStep
  <1>12. ASSUME NEW x \in Conn, Dial(x) \/ RemoteCloses(x) PROVE Goal
    BY <1>8, <1>12 DEF Dial, RemoteCloses, recVars
  <1>13. ASSUME NEW f \in Follower, FollowRegister(f) \/ FollowerStep(f) \/ ReaderEnds(f) PROVE Goal
    <2>1. CASE FollowRegister(f)
      BY <1>2, <1>3, <1>9, <2>1 DEF FollowRegister, Undisturbed, recVars
    <2>2. CASE StopFollower(f)
      BY <1>4, <1>9, <2>2 DEF StopFollower, recVars
    <2>3. CASE OpenStream(f) \/ ReaderEnds(f)
      BY <1>8, <2>3 DEF OpenStream, ReaderEnds, recVars
    <2> QED BY <1>13, <2>1, <2>2, <2>3 DEF FollowerStep
  <1>14. ASSUME NEW h \in Handler, ContainerRestart(h) PROVE Goal
    <2>1. UNCHANGED <<slice, sig, owner, finished>> /\ Active = {} /\ restarting' = restarting \cup {h}
      BY <1>14 DEF ContainerRestart, MayStop, Undisturbed, chVars
    <2>2. Active' \subseteq {h}
      BY <2>1 DEF Active
    <2> QED BY <2>1, <2>2 DEF ActiveIsOne, HandlerFlow, Goal
  <1> QED BY <1>5, <1>6, <1>7, <1>10, <1>11, <1>12, <1>13, <1>14, Zenon DEF ProxyNext, HandlerStep

\* A proxy is a start and a port.
LEMMA ProxyPairs ==
    /\ \A k \in Proxy : k[1] \in Start /\ k[2] \in Exposed /\ k = <<k[1], k[2]>> /\ k \in Channel
    /\ \A g \in Start, e \in Exposed : <<g, e>> \in Proxy /\ <<g, e>>[1] = g /\ <<g, e>>[2] = e
    /\ Start \subseteq Nat /\ 0 \notin Start
  BY ProxyAssumption DEF Proxy, Start

\* A channel is registered, or its goroutine is told.
LEMMA ServedOwner ==
    ASSUME ServedInv, NEW k \in Channel, AddRead(k) \/ AddWrite(k) \/ Notified(k),
           owner[k] = "new" /\ k \in Proxy => k[1] = gen,
           UNCHANGED <<recVars, host, lst, late>>
    PROVE  Served'
  <1>0. TypeOK /\ RecordTypeOK /\ NetTypeOK /\ SerialInv /\ HandlerFlow /\ Served
    BY TypeParts DEF ServedInv
  <1>1. /\ UNCHANGED <<closed, sig>> /\ owner[k] # "ended" /\ owner'[k] # "new"
        /\ \A j \in Channel : j # k => owner'[j] = owner[j]
        /\ k \in Registered => owner'[k] = "ended"
        /\ owner'[k] = "ended" => k \in Registered /\ (buf[k] \/ closed[k])
    BY <1>0 DEF AddRead, AddWrite, Notified, TypeOK, Registered
  <1>2. Registered \subseteq Registered' /\ Active' \cap Handler = Active \cap Handler
    <2>1. UNCHANGED <<restarting, finished>>
      BY DEF recVars
    <2> QED BY <1>0, <1>1, <2>1, SignallerAssumption DEF Registered, Active, TypeOK
  <1>3. UNCHANGED <<mode, gen, starting, running, local, host, lst, late>>
    BY DEF recVars
  <1>4. StartingIsAlone' /\ StoppedIsTold' /\ CurrentIsOpen'
    BY <1>0, <1>1, <1>2, <1>3 DEF Served, StartingIsAlone, StoppedIsTold, CurrentIsOpen
  <1>5. Mapping' /\ HostIsListener' /\ CurrentListens'
    BY <1>0, <1>3 DEF Served, Mapping, HostIsListener, CurrentListens
  <1>6. Generations'
    <2>1. ASSUME NEW j \in Proxy, j[1] > gen PROVE owner'[j] = "new"
      <3>1. owner[j] = "new" /\ j \in Channel
        BY <1>0, <2>1, ProxyPairs DEF Served, Generations
      <3>2. j # k
        BY <1>0, <2>1, <3>1, ProxyPairs DEF RecordTypeOK
      <3> QED BY <1>1, <3>1, <3>2
    <2>2. \A j \in Proxy : j[1] < gen => closed'[j]
      BY <1>0, <1>1, <1>3 DEF Served, Generations
    <2>3. \A j \in Proxy : j[1] = gen /\ ~starting => j \in Registered'
      BY <1>0, <1>2 DEF Served, Generations
    <2>4. \A j \in Proxy : j \notin Registered' => lst'[j] = "none"
      BY <1>0, <1>2, <1>3 DEF Served, Generations
    <2> QED BY <1>3, <2>1, <2>2, <2>3, <2>4 DEF Generations
  <1>7. EndedIsTold'
    <2>1. ASSUME NEW j \in Channel, owner'[j] = "ended"
          PROVE  closed'[j] \/ \E h \in Handler : AtWork(h)'
      <3>1. CASE j # k
        BY <1>0, <1>1, <2>1, <3>1 DEF Served, EndedIsTold, AtWork
      <3>2. CASE j = k /\ ~closed[k]
        <4>1. buf[k] /\ k \in In(slice)
          BY <1>0, <1>1, <2>1, <3>2 DEF SerialInv, NoneIsLost
        <4>2. PICK h \in Signaller : AtWork(h)
          BY <1>0, <4>1 DEF SerialInv, SliceIsOpen
        <4>3. h \in Handler
          BY <1>0, <4>2 DEF HandlerFlow, AtWork
        <4> QED BY <1>1, <4>2, <4>3 DEF AtWork
      <3> QED BY <1>1, <3>1, <3>2
    <2>2. \A j \in Proxy : lst'[j] = "closed" => owner'[j] = "ended"
      BY <1>0, <1>1, <1>3, ProxyPairs DEF Served, EndedIsTold
    <2> QED BY <2>1, <2>2 DEF EndedIsTold
  <1> QED BY <1>4, <1>5, <1>6, <1>7 DEF Served

\* A handler signals.
LEMMA ServedSignal ==
    ASSUME ServedInv, SerialInv', NEW h \in Handler, h \notin finished, ~starting,
           sig'[h].pc # "idle", AtWork(h)' \/ slice' = <<>>,
           \A k \in Channel : closed[k] => closed'[k],
           UNCHANGED <<owner, recVars, netVars>>
    PROVE  Served'
  <1>0. TypeOK /\ RecordTypeOK /\ NetTypeOK /\ Served
    BY TypeParts DEF ServedInv
  <1>1. UNCHANGED <<mode, gen, starting, running, local, restarting, finished, host, lst, late>>
    BY DEF recVars, netVars
  <1>2. Registered' = Registered /\ h \in Active' \cap Handler
    BY <1>1 DEF Registered, Active
  <1>3. StartingIsAlone' /\ CurrentIsOpen'
    BY <1>0, <1>1, <1>2 DEF Served, StartingIsAlone, CurrentIsOpen
  <1>4. StoppedIsTold'
    BY <1>0, <1>1, ProxyPairs DEF Served, StoppedIsTold
  <1>5. Mapping' /\ HostIsListener' /\ CurrentListens'
    BY <1>0, <1>1 DEF Served, Mapping, HostIsListener, CurrentListens
  <1>6. Generations'
    BY <1>0, <1>1, <1>2, ProxyPairs DEF Served, Generations
  <1>7. EndedIsTold'
    <2>1. ASSUME NEW j \in Channel, owner'[j] = "ended"
          PROVE  closed'[j] \/ \E g \in Handler : AtWork(g)'
      <3>1. CASE slice' = <<>>
        <4>1. j \in Registered' /\ In(slice)' = {}
          BY <2>1, <3>1, InEmpty DEF Registered, In
        <4> QED BY <4>1 DEF SerialInv, NoneIsLost
      <3> QED BY <3>1
    <2>2. \A j \in Proxy : lst'[j] = "closed" => owner'[j] = "ended"
      BY <1>0, <1>1 DEF Served, EndedIsTold
    <2> QED BY <2>1, <2>2 DEF EndedIsTold
  <1> QED BY <1>3, <1>4, <1>5, <1>6, <1>7 DEF Served

\* The handler deletes the container and marks it stopped.
LEMMA ServedDelete ==
    ASSUME ServedInv, NEW h \in Handler, DeleteContainer(h)
    PROVE  Served'
  <1>0. TypeOK /\ RecordTypeOK /\ NetTypeOK /\ SerialInv /\ HandlerFlow /\ Served
    BY TypeParts DEF ServedInv
  <1>1. /\ UNCHANGED <<chVars, mode, gen, starting, local, restarting, host, lst, late>> /\ ~running'
        /\ sig[h].pc = "done" /\ h \notin finished /\ finished' = finished \cup {h}
    BY DEF DeleteContainer, netVars
  <1>2. UNCHANGED <<slice, closed, owner, sig>>
    BY <1>1 DEF chVars
  <1>3. h \in Active \cap Handler /\ slice = <<>> /\ Active' \subseteq Active
    BY <1>0, <1>1, <1>2 DEF Active, HandlerFlow
  <1>4. ~starting
    BY <1>0, <1>3 DEF Served, StartingIsAlone
  <1>5. Registered' = Registered /\ \A k \in Registered : closed[k]
    <2>1. In(slice) = {}
      BY <1>3, InEmpty
    <2> QED BY <1>0, <1>2, <2>1 DEF Registered, SerialInv, NoneIsLost
  <1>6. StartingIsAlone' /\ CurrentIsOpen'
    BY <1>1, <1>4 DEF StartingIsAlone, CurrentIsOpen
  <1>7. StoppedIsTold'
    <2>1. ASSUME NEW k \in Proxy, k[1] <= gen PROVE closed[k]
      <3>1. k[1] = gen \/ k[1] < gen
        BY <1>0, <2>1, ProxyPairs DEF RecordTypeOK
      <3> QED BY <1>0, <1>4, <1>5, <3>1 DEF Served, Generations
    <2> QED BY <1>1, <1>2, <2>1 DEF StoppedIsTold
  <1>8. Mapping' /\ HostIsListener' /\ CurrentListens'
    BY <1>0, <1>1 DEF Served, Mapping, HostIsListener, CurrentListens
  <1>9. Generations' /\ EndedIsTold'
    BY <1>0, <1>1, <1>2, <1>5 DEF Served, Generations, EndedIsTold, AtWork
  <1> QED BY <1>6, <1>7, <1>8, <1>9 DEF Served

\* The parts of Served that are not about listeners and ports.
LEMMA ServedKept ==
    ASSUME Served, UNCHANGED <<chVars, gen, starting, running, restarting, finished>>
    PROVE  /\ StartingIsAlone' /\ StoppedIsTold' /\ CurrentIsOpen' /\ Registered' = Registered
           /\ UNCHANGED <<closed, owner, sig>>
  <1>1. UNCHANGED <<closed, owner, sig>>
    BY DEF chVars
  <1>2. Registered' = Registered /\ Active' = Active
    BY <1>1 DEF Registered, Active
  <1> QED BY <1>1, <1>2 DEF Served, StartingIsAlone, StoppedIsTold, CurrentIsOpen

\* A proxy listens.  One of the current start finds its port free or held by a
\* proxy of an earlier start: no other proxy of its own start has that port.
LEMMA ServedListen ==
    ASSUME ServedInv, NEW k \in Proxy, Listen(k)
    PROVE  Served'
  <1>0. TypeOK /\ RecordTypeOK /\ NetTypeOK /\ Served
    BY TypeParts DEF ServedInv
  <1>1. /\ UNCHANGED <<chVars, mode, gen, starting, running, local, restarting, finished>>
        /\ owner[k] = "waiting" /\ lst[k] = "none"
    BY DEF Listen, recVars
  <1>2. /\ StartingIsAlone' /\ StoppedIsTold' /\ CurrentIsOpen' /\ Registered' = Registered
        /\ UNCHANGED <<closed, owner, sig>>
    BY <1>0, <1>1, ServedKept
  <1>3. PICK p : p = local[k[2]]
    OBVIOUS
  <1>4. k \in Registered /\ k[2] \in Exposed /\ k[1] \in Start /\ k # Free
    BY <1>1, ProxyPairs, ProxyAssumption DEF Registered
  <1>5. p \in Local
    <2>1. ~(k[1] > gen)
      BY <1>0, <1>1 DEF Served, Generations
    <2>2. gen # 0
      BY <1>4, <2>1, ProxyPairs DEF Start
    <2> QED BY <1>0, <1>3, <1>4, <2>2 DEF Served, Mapping, RecordTypeOK
  <1>6. \/ /\ host[p] = Free /\ host'[p] = k /\ lst'[k] = "open"
           /\ \A q \in Local : q # p => host'[q] = host[q]
           /\ \A j \in Proxy : j # k => lst'[j] = lst[j]
           /\ late' = late
        \/ /\ host[p] # Free /\ UNCHANGED host /\ lst'[k] = "failed"
           /\ late \subseteq late' /\ (host[p][1] < k[1] => k \in late')
           /\ \A j \in Proxy : j # k => lst'[j] = lst[j]
    <2>1. CASE host[p] = Free
      BY <1>0, <1>3, <1>5, <2>1 DEF Listen, NetTypeOK
    <2>2. CASE host[p] # Free
      BY <1>0, <1>3, <1>5, <2>2 DEF Listen, NetTypeOK
    <2> QED BY <2>1, <2>2
  <1>7. k[1] = gen /\ host[p] # Free => host[p][1] < k[1]
    <2> SUFFICES ASSUME k[1] = gen, host[p] # Free PROVE host[p][1] < k[1]
      OBVIOUS
    <2>2. PICK j : j = host[p]
      OBVIOUS
    <2>3. j \in Proxy /\ lst[j] = "open" /\ local[j[2]] = p
      BY <1>0, <1>5, <2>2 DEF Served, HostIsListener
    <2>4. j[2] = k[2]
      <3>1. p # NoPort
        BY <1>5, ProxyAssumption
      <3> QED BY <1>0, <1>3, <1>4, <2>3, <3>1, ProxyPairs DEF Served, Mapping
    <2>5. j \in Registered
      BY <1>0, <2>3 DEF Served, Generations
    <2>6. ~(j[1] > gen)
      BY <1>0, <2>3, <2>5 DEF Served, Generations, Registered
    <2>7. j[1] # k[1]
      BY <1>1, <2>3, <2>4, ProxyPairs
    <2>8. j[1] \in Nat /\ k[1] \in Nat /\ gen \in Nat
      BY <1>0, <2>3, ProxyPairs DEF RecordTypeOK
    <2>9. j[1] < k[1]
      BY <2>6, <2>7, <2>8
    <2> QED BY <2>2, <2>9
  <1>8. Mapping'
    BY <1>0, <1>1 DEF Served, Mapping
  <1>9. Generations'
    BY <1>0, <1>1, <1>2, <1>4, <1>6 DEF Served, Generations
  <1>10. HostIsListener'
    <2>1. ASSUME NEW q \in Local, host'[q] # Free
          PROVE  host'[q] \in Proxy /\ lst'[host'[q]] = "open" /\ local'[host'[q][2]] = q
      <3>1. CASE q = p /\ host[p] = Free
        BY <1>1, <1>3, <1>6, <3>1
      <3>2. CASE q # p \/ host[p] # Free
        <4>1. host'[q] = host[q]
          BY <1>6, <3>2
        <4>2. PICK j : j = host[q]
          OBVIOUS
        <4>3. j \in Proxy /\ lst[j] = "open" /\ local[j[2]] = q
          BY <1>0, <2>1, <4>1, <4>2 DEF Served, HostIsListener
        <4>4. j # k
          BY <1>1, <4>3
        <4> QED BY <1>1, <1>6, <4>1, <4>2, <4>3, <4>4
      <3> QED BY <3>1, <3>2
    <2>2. ASSUME NEW j \in Proxy, lst'[j] = "open" PROVE host'[local'[j[2]]] = j
      <3>1. CASE j = k
        BY <1>1, <1>3, <1>6, <2>2, <3>1
      <3>2. CASE j # k
        <4>1. lst[j] = "open" /\ host[local[j[2]]] = j
          BY <1>0, <1>6, <2>2, <3>2 DEF Served, HostIsListener
        <4>2. CASE host[p] # Free
          BY <1>1, <1>6, <4>1, <4>2
        <4>3. CASE host[p] = Free
          <5>1. j # Free
            BY ProxyPairs, ProxyAssumption
          <5>2. local[j[2]] # p
            BY <4>1, <4>3, <5>1
          <5>3. local[j[2]] \in Local
            <6>1. j \in Registered
              BY <1>0, <4>1 DEF Served, Generations
            <6>2. ~(j[1] > gen)
              BY <1>0, <6>1 DEF Served, Generations, Registered
            <6>3. gen # 0
              BY <6>2, ProxyPairs DEF Start
            <6> QED BY <1>0, <6>3, ProxyPairs DEF Served, Mapping, RecordTypeOK
          <5> QED BY <1>1, <1>6, <4>1, <4>3, <5>2, <5>3
        <4> QED BY <4>2, <4>3
      <3> QED BY <3>1, <3>2
    <2> QED BY <2>1, <2>2 DEF HostIsListener
  <1>11. EndedIsTold'
    BY <1>0, <1>2, <1>6 DEF Served, EndedIsTold, AtWork
  <1>12. CurrentListens'
    BY <1>0, <1>1, <1>6, <1>7 DEF Served, CurrentListens
  <1> QED BY <1>2, <1>8, <1>9, <1>10, <1>11, <1>12 DEF Served

\* A proxy that was told closes its listener.
LEMMA ServedClose ==
    ASSUME ServedInv, NEW k \in Proxy, CloseListener(k)
    PROVE  Served'
  <1>0. TypeOK /\ RecordTypeOK /\ NetTypeOK /\ Served
    BY TypeParts DEF ServedInv
  <1>1. /\ UNCHANGED <<chVars, mode, gen, starting, running, local, restarting, finished>>
        /\ owner[k] = "ended" /\ lst[k] = "open"
    BY DEF CloseListener, recVars
  <1>2. /\ StartingIsAlone' /\ StoppedIsTold' /\ CurrentIsOpen' /\ Registered' = Registered
        /\ UNCHANGED <<closed, owner, sig>>
    BY <1>0, <1>1, ServedKept
  <1>3. PICK p : p = local[k[2]]
    OBVIOUS
  <1>4. host[p] = k
    BY <1>0, <1>1, <1>3 DEF Served, HostIsListener
  <1>5. /\ lst'[k] = "closed" /\ \A j \in Proxy : j # k => lst'[j] = lst[j]
        /\ host' = [host EXCEPT ![p] = Free] /\ late' = late
    BY <1>0, <1>3 DEF CloseListener, NetTypeOK
  <1>6. \A q \in Local : host'[q] = IF q = p THEN Free ELSE host[q]
    BY <1>0, <1>5 DEF NetTypeOK
  <1>7. HostIsListener'
    <2>1. ASSUME NEW q \in Local, host'[q] # Free
          PROVE  host'[q] \in Proxy /\ lst'[host'[q]] = "open" /\ local'[host'[q][2]] = q
      <3>1. q # p /\ host'[q] = host[q]
        BY <1>6, <2>1
      <3>2. PICK j : j = host[q]
        OBVIOUS
      <3>3. j \in Proxy /\ lst[j] = "open" /\ local[j[2]] = q
        BY <1>0, <2>1, <3>1, <3>2 DEF Served, HostIsListener
      <3>4. j # k
        BY <1>3, <3>1, <3>3
      <3> QED BY <1>1, <1>5, <3>1, <3>2, <3>3, <3>4
    <2>2. ASSUME NEW j \in Proxy, lst'[j] = "open" PROVE host'[local'[j[2]]] = j
      <3>1. j # k /\ lst[j] = "open" /\ host[local[j[2]]] = j
        BY <1>0, <1>5, <2>2 DEF Served, HostIsListener
      <3>2. local[j[2]] # p
        BY <1>4, <3>1
      <3> QED BY <1>0, <1>1, <1>5, <3>1, <3>2 DEF NetTypeOK
    <2> QED BY <2>1, <2>2 DEF HostIsListener
  <1>8. Mapping' /\ Generations'
    <2>1. k \in Registered
      BY <1>1, ProxyPairs DEF Registered
    <2> QED BY <1>0, <1>1, <1>2, <1>5, <2>1 DEF Served, Mapping, Generations
  <1>9. EndedIsTold' /\ CurrentListens'
    BY <1>0, <1>1, <1>2, <1>5 DEF Served, EndedIsTold, CurrentListens, AtWork
  <1> QED BY <1>2, <1>7, <1>8, <1>9 DEF Served

\* What the record, the channels and the ports do not see.
LEMMA ServedOther ==
    ASSUME Served, UNCHANGED <<chVars, mode, gen, starting, running, local, restarting, finished,
                              host, lst, late>>
    PROVE  Served'
  <1>1. /\ StartingIsAlone' /\ StoppedIsTold' /\ CurrentIsOpen' /\ Registered' = Registered
        /\ UNCHANGED <<closed, owner, sig>>
    BY ServedKept
  <1>2. Mapping' /\ HostIsListener' /\ CurrentListens'
    BY DEF Served, Mapping, HostIsListener, CurrentListens
  <1>3. Generations' /\ EndedIsTold'
    BY <1>1 DEF Served, Generations, EndedIsTold, AtWork
  <1> QED BY <1>1, <1>2, <1>3 DEF Served

\* A restart begins, of which the proxies know nothing yet.
LEMMA ServedRestart ==
    ASSUME ~Overlap, HandlerFlow, Served, NEW h \in Handler, ContainerRestart(h)
    PROVE  Served'
  <1>1. /\ UNCHANGED <<chVars, mode, gen, starting, running, local, finished, host, lst, late>>
        /\ ~starting /\ sig[h].pc = "idle" /\ h \in restarting'
    BY DEF ContainerRestart, MayStop, netVars
  <1>2. UNCHANGED <<closed, owner, sig>>
    BY <1>1 DEF chVars
  <1>3. h \notin finished
    BY <1>1 DEF HandlerFlow
  <1>4. Registered' = Registered /\ h \in Active' \cap Handler
    BY <1>1, <1>2, <1>3 DEF Registered, Active
  <1>5. StartingIsAlone' /\ StoppedIsTold' /\ CurrentIsOpen'
    BY <1>1, <1>2, <1>4 DEF Served, StartingIsAlone, StoppedIsTold, CurrentIsOpen
  <1>6. Mapping' /\ HostIsListener' /\ CurrentListens'
    BY <1>1 DEF Served, Mapping, HostIsListener, CurrentListens
  <1>7. Generations' /\ EndedIsTold'
    BY <1>1, <1>2, <1>4 DEF Served, Generations, EndedIsTold, AtWork
  <1> QED BY <1>5, <1>6, <1>7 DEF Served

\* A start maps the ports.  What is mapped stays mapped, and the ports the
\* kernel picks are no others'.
LEMMA StartMaps ==
    ASSUME DistinctPorts, RecordTypeOK, Mapping, NEW m \in [Exposed -> Local \cup {NoPort}],
           MapContainerTCPPorts(m)
    PROVE  /\ \A e \in Exposed : m[e] # NoPort
           /\ \A d, e \in Exposed : m[d] = m[e] => d = e
           /\ gen # 0 => m = local
  <1>1. \A e \in Exposed : local[e] # NoPort => m[e] = local[e]
    BY DEF MapContainerTCPPorts
  <1>2. \A e \in Exposed : local[e] = NoPort =>
            /\ m[e] \in Ephemeral
            /\ \A d \in Exposed : d # e /\ local[d] = NoPort => m[d] # m[e]
    BY DEF MapContainerTCPPorts
  <1>3. \A e \in Exposed : m[e] # NoPort
    BY <1>1, <1>2, ProxyAssumption
  <1>4. ASSUME NEW d \in Exposed, NEW e \in Exposed, local[d] # NoPort, local[e] = NoPort, m[d] = m[e]
        PROVE  FALSE
    <2>1. gen = 0
      BY <1>4 DEF Mapping
    <2>2. d \in DOMAIN HostPort /\ local[d] = HostPort[d]
      BY <1>4, <2>1 DEF Mapping
    <2> QED BY <1>1, <1>2, <1>4, <2>2 DEF DistinctPorts
  <1>5. ASSUME NEW d \in Exposed, NEW e \in Exposed, m[d] = m[e] PROVE d = e
    <2>1. CASE local[d] # NoPort /\ local[e] # NoPort
      BY <1>1, <1>5, <2>1 DEF Mapping
    <2>2. CASE local[d] = NoPort /\ local[e] = NoPort
      BY <1>2, <1>5, <2>2
    <2> QED BY <1>4, <1>5, <2>1, <2>2
  <1>6. ASSUME gen # 0 PROVE m = local
    <2>1. \A e \in Exposed : m[e] = local[e]
      BY <1>1, <1>6 DEF Mapping
    <2> QED BY <2>1 DEF RecordTypeOK
  <1> QED BY <1>3, <1>5, <1>6

\* StartContainer begins: the proxies of all the earlier starts were told.
LEMMA ServedStart ==
    ASSUME ~Overlap, DistinctPorts, ServedInv, ContainerStart
    PROVE  Served'
  <1>0. TypeOK /\ RecordTypeOK /\ NetTypeOK /\ SerialInv /\ Served
    BY TypeParts DEF ServedInv
  <1>1. /\ UNCHANGED <<chVars, mode, running, restarting, finished, host, lst, late>>
        /\ ~running /\ ~starting /\ gen < MaxStarts /\ gen' = gen + 1 /\ starting'
        /\ Active = {}
    BY DEF ContainerStart, netVars, Undisturbed
  <1>2. UNCHANGED <<closed, owner, sig>>
    BY <1>1 DEF chVars
  <1>3. Registered' = Registered /\ Active' = {}
    BY <1>1, <1>2 DEF Registered, Active
  <1>4. gen \in Nat /\ MaxStarts \in Nat /\ gen' \in Start /\ gen' # 0
    BY <1>0, <1>1, ProxyAssumption DEF RecordTypeOK, Start
  <1>5. /\ \A e \in Exposed : local'[e] # NoPort
        /\ \A d, e \in Exposed : local'[d] = local'[e] => d = e
        /\ gen # 0 => local' = local
    <2>1. PICK m \in [Exposed -> Local \cup {NoPort}] : MapContainerTCPPorts(m) /\ local' = m
      BY DEF ContainerStart
    <2>2. /\ \A e \in Exposed : m[e] # NoPort
          /\ \A d, e \in Exposed : m[d] = m[e] => d = e
          /\ gen # 0 => m = local
      BY <1>0, <2>1, StartMaps DEF Served
    <2> QED BY <2>1, <2>2
  <1>6. ASSUME NEW k \in Proxy, k[1] > gen
        PROVE  owner[k] = "new" /\ k \notin Registered /\ lst[k] = "none" /\ ~closed[k]
    <2>1. owner[k] = "new" /\ k \in Channel
      BY <1>0, <1>6, ProxyPairs DEF Served, Generations
    <2>2. k \notin Registered
      BY <2>1 DEF Registered
    <2> QED BY <1>0, <2>1, <2>2 DEF Served, Generations, SerialInv, NewIsOpen
  <1>7. StartingIsAlone' /\ StoppedIsTold'
    BY <1>1, <1>3, <1>4 DEF StartingIsAlone, StoppedIsTold
  <1>8. CurrentIsOpen'
    <2>1. \A k \in Proxy : k[1] = gen' => k[1] > gen
      BY <1>1, <1>4
    <2> QED BY <1>2, <1>6, <2>1 DEF CurrentIsOpen
  <1>9. Generations'
    <2>1. \A k \in Proxy : k[1] > gen' => owner'[k] = "new"
      BY <1>1, <1>2, <1>4, <1>6, ProxyPairs
    <2>2. ASSUME NEW k \in Proxy, k[1] < gen' PROVE closed'[k]
      <3>1. k[1] <= gen
        BY <1>1, <1>4, <2>2, ProxyPairs
      <3>2. closed[k]
        BY <1>0, <1>1, <3>1 DEF Served, StoppedIsTold
      <3> QED BY <1>1, <1>2, <3>2
    <2>3. \A k \in Proxy : k \notin Registered' => lst'[k] = "none"
      BY <1>0, <1>1, <1>3 DEF Served, Generations
    <2> QED BY <1>1, <2>1, <2>2, <2>3 DEF Generations
  <1>10. Mapping'
    BY <1>4, <1>5 DEF Mapping
  <1>11. HostIsListener'
    <2>1. CASE gen # 0
      BY <1>0, <1>1, <1>5, <2>1 DEF Served, HostIsListener
    <2>2. CASE gen = 0
      <3>1. \A k \in Proxy : lst[k] = "none"
        BY <1>6, <2>2, ProxyPairs
      <3>2. \A p \in Local : host[p] = Free
        BY <1>0, <3>1 DEF Served, HostIsListener
      <3> QED BY <1>1, <3>1, <3>2 DEF HostIsListener
    <2> QED BY <2>1, <2>2
  <1>12. EndedIsTold'
    BY <1>0, <1>1, <1>2 DEF Served, EndedIsTold, AtWork
  <1>13. CurrentListens'
    <2>1. \A k \in Proxy : k[1] = gen' => k[1] > gen
      BY <1>1, <1>4
    <2> QED BY <1>1, <1>6, <2>1 DEF CurrentListens
  <1> QED BY <1>7, <1>8, <1>9, <1>10, <1>11, <1>12, <1>13 DEF Served

\* StartContainer returns: the proxies are registered and, where the handler
\* waits for them, listen.
LEMMA ServedReturns ==
    ASSUME ServedInv, StartReturns
    PROVE  Served'
  <1>0. TypeOK /\ RecordTypeOK /\ NetTypeOK /\ Served
    BY TypeParts DEF ServedInv
  <1>1. /\ UNCHANGED <<chVars, mode, gen, local, restarting, finished, host, lst, late>>
        /\ starting /\ ~starting' /\ running'
    BY DEF StartReturns, netVars
  <1>2. UNCHANGED <<closed, owner, sig>>
    BY <1>1 DEF chVars
  <1>3. Registered' = Registered /\ Active' = Active
    BY <1>1, <1>2 DEF Registered, Active
  <1>4. ASSUME NEW k \in Proxy, k[1] = gen
        PROVE  k \in Registered /\ (mode = "proxy" => lst[k] # "none")
    <2>1. k = <<gen, k[2]>> /\ k[2] \in Exposed /\ k \in Channel
      BY <1>4, ProxyPairs
    <2> QED BY <2>1 DEF StartReturns, Launched, Registered
  <1>5. StartingIsAlone' /\ StoppedIsTold' /\ CurrentIsOpen'
    BY <1>0, <1>1, <1>2, <1>3 DEF Served, StartingIsAlone, StoppedIsTold, CurrentIsOpen
  <1>6. Mapping' /\ HostIsListener'
    BY <1>0, <1>1 DEF Served, Mapping, HostIsListener
  <1>7. Generations'
    BY <1>0, <1>1, <1>2, <1>3, <1>4 DEF Served, Generations
  <1>8. EndedIsTold' /\ CurrentListens'
    BY <1>0, <1>1, <1>2, <1>4 DEF Served, EndedIsTold, CurrentListens, AtWork
  <1> QED BY <1>5, <1>6, <1>7, <1>8 DEF Served

\* Every step keeps what is about the starts and the ports.
LEMMA ServedStep ==
    ASSUME ~Overlap, DistinctPorts, ServedInv, SerialInv', [ProxyNext]_allVars
    PROVE  Served'
  <1>0. SerialInv /\ HandlerFlow /\ Served /\ TypeOK /\ Handler \subseteq Signaller
    BY DEF ServedInv, SerialInv, ChannelInv, Signaller
  <1>1. Proxy \subseteq Channel /\ Follower \subseteq Channel /\ Proxy \cap Follower = {}
    BY ProxyAssumption
  <1>2. CASE ContainerStart
    BY <1>2, ServedStart
  <1>3. CASE StartReturns
    BY <1>3, ServedReturns
  <1>4. CASE CleanContainers \/ UNCHANGED allVars
    BY <1>0, <1>4, ServedOther DEF CleanContainers, allVars, recVars, netVars
  <1>5. ASSUME NEW k \in Proxy, ProxyStep(k) \/ \E x \in Conn : Accept(k, x) PROVE Served'
    <2>1. CASE Register(k)
      <3>1. k[1] = gen /\ (AddRead(k) \/ AddWrite(k)) /\ UNCHANGED <<recVars, host, lst, late>>
        BY <2>1 DEF Register, netVars
      <3> QED BY <1>1, <3>1, ServedOwner
    <2>2. CASE Stop(k)
      <3>1. Notified(k) /\ owner[k] = "waiting" /\ UNCHANGED <<recVars, host, lst, late>>
        BY <2>2 DEF Stop, Notified
      <3> QED BY <1>1, <3>1, ServedOwner
    <2>3. CASE Listen(k) \/ CloseListener(k)
      BY <2>3, ServedListen, ServedClose
    <2>4. CASE Probe(k) \/ AcceptError(k) \/ \E x \in Conn : Accept(k, x)
      BY <1>0, <2>4, ServedOther DEF Probe, AcceptError, Accept, recVars
    <2> QED BY <1>5, <2>1, <2>2, <2>3, <2>4 DEF ProxyStep
  <1>6. ASSUME NEW x \in Conn, Dial(x) \/ RemoteCloses(x) PROVE Served'
    BY <1>0, <1>6, ServedOther DEF Dial, RemoteCloses, recVars
  <1>7. ASSUME NEW f \in Follower, FollowRegister(f) \/ FollowerStep(f) \/ ReaderEnds(f) PROVE Served'
    <2>1. CASE FollowRegister(f)
      <3>1. (AddRead(f) \/ AddWrite(f)) /\ UNCHANGED <<recVars, host, lst, late>>
        BY <2>1 DEF FollowRegister, netVars
      <3> QED BY <1>1, <3>1, ServedOwner
    <2>2. CASE StopFollower(f)
      <3>1. Notified(f) /\ UNCHANGED <<recVars, host, lst, late>>
        BY <2>2 DEF StopFollower
      <3> QED BY <1>1, <3>1, ServedOwner
    <2>3. CASE OpenStream(f) \/ ReaderEnds(f)
      BY <1>0, <2>3, ServedOther DEF OpenStream, ReaderEnds, recVars
    <2> QED BY <1>7, <2>1, <2>2, <2>3 DEF FollowerStep
  <1>8. ASSUME NEW h \in Handler, ContainerStop(h) \/ RestartSignals(h) PROVE Served'
    <2>1. SignalBegin(h) /\ UNCHANGED <<recVars, netVars>> /\ (~starting \/ h \in restarting)
      BY <1>8 DEF ContainerStop, RestartSignals, MayStop
    <2>2. sig[h].pc = "idle" /\ sig'[h].pc = "send" /\ UNCHANGED <<owner, closed>>
      BY <1>0, <2>1, BeginSig
    <2>3. h \notin finished
      BY <1>0, <2>2 DEF HandlerFlow
    <2>4. ~starting
      <3>1. h \in restarting => h \in Active \cap Handler
        BY <2>3 DEF Active
      <3> QED BY <1>0, <2>1, <3>1 DEF Served, StartingIsAlone
    <2> QED BY <2>1, <2>2, <2>3, <2>4, ServedSignal DEF AtWork
  <1>9. ASSUME NEW h \in Handler, SignalStop(h) PROVE Served'
    <2>1. /\ UNCHANGED <<owner, recVars, netVars>>
          /\ AtWork(h) /\ sig'[h].pc \in {"send", "close", "done", "panic"}
          /\ \A k \in Channel : closed[k] => closed'[k]
          /\ (slice' = slice /\ sig'[h].pc # "done") \/ slice' = <<>>
      BY <1>0, <1>9, StopEffect
    <2>2. sig'[h].pc # "panic"
      BY <1>0 DEF SerialInv, NoPanic
    <2>3. h \notin finished
      BY <1>0, <2>1 DEF HandlerFlow, AtWork
    <2>4. ~starting
      <3>1. h \in Active \cap Handler
        BY <2>1, <2>3 DEF Active, AtWork
      <3> QED BY <1>0, <3>1 DEF Served, StartingIsAlone
    <2>5. AtWork(h)' \/ slice' = <<>>
      BY <2>1, <2>2 DEF AtWork
    <2>6. sig'[h].pc # "idle"
      BY <2>1
    <2> QED BY <2>1, <2>3, <2>4, <2>5, <2>6, ServedSignal
  <1>10. ASSUME NEW h \in Handler, DeleteContainer(h) PROVE Served'
    BY <1>10, ServedDelete
  <1>11. ASSUME NEW h \in Handler, ContainerRestart(h) PROVE Served'
    BY <1>0, <1>11, ServedRestart
  <1> QED BY <1>2, <1>3, <1>4, <1>5, <1>6, <1>7, <1>8, <1>9, <1>10, <1>11, Zenon DEF ProxyNext, HandlerStep

\* The initial state.
LEMMA ServedInit == DistinctPorts /\ ProxyInit => ServedInv
  <1> SUFFICES ASSUME DistinctPorts, ProxyInit PROVE ServedInv
    OBVIOUS
  <1>1. SerialInv /\ TypeOK
    BY SerialInit DEF ProxyInit, SerialInv, ChannelInv
  <1>2. ProxyTypeOK
    BY <1>1, TypeInit, TypeParts
  <1>3. /\ \A k \in Channel : owner[k] = "new"
        /\ \A h \in Signaller : sig[h].pc = "idle"
        /\ \A k \in Proxy : lst[k] = "none"
        /\ \A p \in Local : host[p] = Free
        /\ \A e \in Exposed : local[e] = IF e \in DOMAIN HostPort THEN HostPort[e] ELSE NoPort
        /\ gen = 0 /\ ~starting /\ ~running /\ restarting = {} /\ finished = {}
    BY DEF ProxyInit, Init
  <1>4. Active = {} /\ Handler \subseteq Signaller
    BY <1>3 DEF Active, Signaller
  <1>5. ActiveIsOne /\ HandlerFlow /\ StartingIsAlone /\ CurrentIsOpen
    BY <1>3, <1>4 DEF ActiveIsOne, HandlerFlow, StartingIsAlone, CurrentIsOpen
  <1>6. \A k \in Proxy : k[1] > gen /\ k \in Channel
    BY <1>3, ProxyPairs DEF Start
  <1>7. \A k \in Proxy : ~(k[1] < gen) /\ k[1] # gen /\ ~(k[1] <= gen)
    BY <1>3, ProxyPairs DEF Start
  <1>8. Generations /\ StoppedIsTold /\ CurrentListens
    BY <1>3, <1>6, <1>7 DEF Generations, StoppedIsTold, CurrentListens
  <1>9. Mapping
    BY <1>3 DEF Mapping, DistinctPorts
  <1>10. HostIsListener /\ EndedIsTold
    BY <1>3 DEF HostIsListener, EndedIsTold
  <1> QED BY <1>1, <1>2, <1>5, <1>8, <1>9, <1>10 DEF ServedInv, Served

\* A running container of which nobody registers or stops anything is served
\* on all of its ports.
LEMMA ServedImplies == ServedInv => RunningIsServed
  <1> SUFFICES ASSUME ServedInv, running, mode = "proxy", Active = {}, NEW e \in Exposed
               PROVE  /\ host[local[e]] = <<gen, e>> \/ <<gen, e>> \in late
                      /\ \E i \in DOMAIN slice : slice[i] = <<gen, e>>
    BY DEF RunningIsServed
  <1>0. TypeOK /\ NetTypeOK /\ SerialInv /\ Served
    BY TypeParts DEF ServedInv
  <1>1. ~starting /\ gen \in Start
    BY <1>0 DEF Served, StartingIsAlone
  <1>2. PICK k : k = <<gen, e>>
    OBVIOUS
  <1>3. k \in Proxy /\ k \in Channel /\ k[1] = gen /\ k[2] = e
    BY <1>1, <1>2, ProxyPairs
  <1>4. k \in Registered
    BY <1>0, <1>1, <1>3 DEF Served, Generations
  <1>5. ~closed[k]
    BY <1>0, <1>1, <1>3 DEF Served, CurrentIsOpen
  <1>6. k \in In(slice)
    BY <1>0, <1>4, <1>5 DEF SerialInv, NoneIsLost
  <1>7. owner[k] # "ended"
    <2>1. \A h \in Handler : ~AtWork(h)
      BY DEF ServedInv, HandlerFlow, AtWork, Active
    <2> QED BY <1>0, <1>3, <1>5, <2>1 DEF Served, EndedIsTold
  <1>8. lst[k] = "open" \/ k \in late
    <2>1. lst[k] \notin {"none", "closed"} /\ (lst[k] = "failed" => k \in late)
      BY <1>0, <1>1, <1>3, <1>7 DEF Served, CurrentListens, EndedIsTold
    <2> QED BY <1>0, <1>3, <2>1 DEF NetTypeOK
  <1>9. host[local[e]] = k \/ k \in late
    BY <1>0, <1>3, <1>8 DEF Served, HostIsListener
  <1> QED BY <1>2, <1>6, <1>9 DEF In

\* When stops, starts and registrations do not overlap, the ports are no others'
\* and each call of reverseProxy is about one port (two would register at the
\* same time, which can lose one), a running container is reached on every port
\* through the proxy of its current start, unless that one found a proxy of an
\* earlier start still listening; and the next stop will tell it, however often
\* the container was started, stopped and restarted before.
THEOREM RunningAlwaysServed ==
    ASSUME ~Overlap, DistinctPorts, OnePortPerPhase
    PROVE  ProxySpec => []RunningIsServed
  <1>1. ProxyInit => ServedInv
    BY ServedInit
  <1>2. ServedInv /\ [ProxyNext]_allVars => ServedInv'
    <2> SUFFICES ASSUME ServedInv, [ProxyNext]_allVars PROVE ServedInv'
      OBVIOUS
    <2>0. SerialInv /\ RecordTypeOK /\ NetTypeOK /\ ActiveIsOne /\ HandlerFlow
      BY TypeParts DEF ServedInv
    <2>1. ActiveIsOne' /\ HandlerFlow'
      BY <2>0, FlowStep DEF RecordTypeOK
    <2>2. SerialInv'
      BY <2>0, <2>1, ActiveIsSerial, ActiveIsSerialNext, ChannelSide, SerialStep
    <2>3. ProxyTypeOK'
      <3>1. TypeOK' /\ RecordTypeOK' /\ NetTypeOK'
        BY <2>0, <2>2, RecordStep, NetStep DEF SerialInv, ChannelInv
      <3> QED BY <3>1 DEF ProxyTypeOK, RecordTypeOK, NetTypeOK
    <2>4. Served'
      BY <2>2, ServedStep
    <2> QED BY <2>1, <2>2, <2>3, <2>4 DEF ServedInv
  <1>3. ServedInv => RunningIsServed
    BY ServedImplies
  <1> QED BY <1>1, <1>2, <1>3, PTL DEF ProxySpec

=============================================================================
