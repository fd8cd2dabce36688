----------------------------- MODULE ExecProofs -----------------------------
(***************************************************************************)
(* Proofs about Exec, for any records, sessions, exit codes and output.     *)
(***************************************************************************)
EXTENDS Exec, SequenceTheorems, WellFoundedInduction, TLAPS

----------------------------------------------------------------------------
(* Induction.  A set of natural numbers that is not empty has a least         *)
(* element; a claim about all of them is proved by looking at the least one   *)
(* for which it fails.                                                        *)

\* The order of the natural numbers is a well-founded relation.
LEMMA NatOrder ==
    \E R : /\ IsWellFoundedOn(R, Nat)
           /\ \A x, y \in Nat : <<y, x>> \in R <=> y < x
  <1>1. IsWellFoundedOn(OpToRel(<, Nat), Nat)
    BY NatLessThanWellFounded
  <1>2. \A x, y \in Nat : <<y, x>> \in OpToRel(<, Nat) <=> y < x
    BY DEF OpToRel
  <1> QED BY <1>1, <1>2, Zenon

\* A set of natural numbers that is not empty has a least element.
LEMMA LeastNat ==
    ASSUME NEW T \in SUBSET Nat, T # {}
    PROVE  \E x \in T : \A y \in T : x =< y
  <1>1. PICK R : /\ IsWellFoundedOn(R, Nat)
                 /\ \A x, y \in Nat : <<y, x>> \in R <=> y < x
    BY NatOrder
  <1>2. PICK x \in T : \A y \in T : ~ (<<y, x>> \in R)
    BY <1>1, WFMin
  <1>3. ASSUME NEW y \in T PROVE x =< y
    <2>1. x \in Nat /\ y \in Nat
      OBVIOUS
    <2>2. ~(y < x)
      BY <1>1, <1>2, <2>1, Zenon
    <2> QED BY <2>1, <2>2
  <1> QED BY <1>3

----------------------------------------------------------------------------
(* Lines and frames. *)

\* A line is a prefix of the buffer.
LEMMA LineIsPrefix ==
    ASSUME NEW b \in Text
    PROVE  \E k \in 0..Len(b) : Line(b) = SubSeq(b, 1, k)
  <1> DEFINE I == {i \in 1..Len(b) : b[i] = "newline"}
             k == IF I # {} THEN Min(I) ELSE 0
  <1>1. Len(b) \in Nat
    BY LenProperties DEF Text
  <1>2. Line(b) = SubSeq(b, 1, k)
    BY DEF Line, SelectInSeq
  <1>3. k \in 0..Len(b)
    <2>1. CASE I = {}
      BY <1>1, <2>1
    <2>2. CASE I # {}
      <3>1. I \in SUBSET Nat
        BY <1>1
      <3>2. \E x \in I : \A y \in I : x =< y
        BY <2>2, <3>1, LeastNat
      <3>3. Min(I) \in I
        BY <3>2 DEF Min
      <3> QED BY <1>1, <2>2, <3>3
    <2> QED BY <2>1, <2>2
  <1> QED BY <1>2, <1>3

\* A prefix and what is left of the buffer without it.
LEMMA Cut ==
    ASSUME NEW b \in Text, NEW k \in 0..Len(b)
    PROVE  /\ SubSeq(b, 1, k) \in Text
           /\ Len(SubSeq(b, 1, k)) = k
           /\ SubSeq(b, k + 1, Len(b)) \in Text
           /\ SubSeq(b, 1, k) \o SubSeq(b, k + 1, Len(b)) = b
  <1>1. Len(b) \in Nat /\ \A i \in 1..Len(b) : b[i] \in {"char", "newline"}
    BY LenProperties, ElementOfSeq DEF Text
  <1>2. SubSeq(b, 1, k) \in Text /\ Len(SubSeq(b, 1, k)) = k
    BY <1>1, SubSeqProperties DEF Text
  <1>3. SubSeq(b, k + 1, Len(b)) \in Text
    BY <1>1, SubSeqProperties DEF Text
  <1>4. SubSeq(b, 1, k) \o SubSeq(b, k + 1, Len(b)) = SubSeq(b, 1, Len(b))
    <2>1. /\ 1 \in 1..(Len(b) + 1) /\ k \in (1 - 1)..Len(b) /\ Len(b) \in k..Len(b)
          /\ b \in Seq({"char", "newline"})
      BY <1>1 DEF Text
    <2> QED BY <2>1, ConcatAdjacentSubSeq
  <1>5. SubSeq(b, 1, Len(b)) = b
    BY SubSeqFull DEF Text
  <1> QED BY <1>2, <1>3, <1>4, <1>5

\* What the holder of the lock writes is a prefix of the buffer, and Consume
\* leaves the rest of it.
LEMMA FrameIsPrefix ==
    ASSUME TypeOK, NEW a \in Attached, NEW s \in Std
    PROVE  /\ Frame(a, s) \in Text /\ Len(Frame(a, s)) \in Nat
           /\ SubSeq(buf[a][s], Len(Frame(a, s)) + 1, Len(buf[a][s])) \in Text
           /\ Frame(a, s) \o SubSeq(buf[a][s], Len(Frame(a, s)) + 1, Len(buf[a][s]))
                = buf[a][s]
  <1> DEFINE b == buf[a][s]
  <1>1. b \in Text /\ Len(b) \in Nat
    BY LenProperties DEF TypeOK, Text
  <1>2. \E k \in 0..Len(b) : Frame(a, s) = SubSeq(b, 1, k)
    <2>1. CASE lock[a][LockOf(s)].by = "copy"
      BY <1>1, <2>1, LineIsPrefix DEF Frame
    <2>2. CASE lock[a][LockOf(s)].by # "copy"
      <3>1. Frame(a, s) = b
        BY <2>2 DEF Frame
      <3>2. SubSeq(b, 1, Len(b)) = b
        BY <1>1, SubSeqFull DEF Text
      <3> QED BY <1>1, <3>1, <3>2
    <2> QED BY <2>1, <2>2
  <1>3. PICK k \in 0..Len(b) : Frame(a, s) = SubSeq(b, 1, k)
    BY <1>2
  <1>4. k \in Nat /\ Len(Frame(a, s)) = k
    BY <1>1, <1>3, Cut
  <1>5. /\ SubSeq(b, 1, k) \in Text
        /\ SubSeq(b, k + 1, Len(b)) \in Text
        /\ SubSeq(b, 1, k) \o SubSeq(b, k + 1, Len(b)) = b
    BY <1>1, Cut
  <1> HIDE DEF b
  <1>6. /\ Frame(a, s) \in Text /\ Len(Frame(a, s)) \in Nat
        /\ SubSeq(b, Len(Frame(a, s)) + 1, Len(b)) \in Text
        /\ Frame(a, s) \o SubSeq(b, Len(Frame(a, s)) + 1, Len(b)) = b
    BY <1>3, <1>4, <1>5, Zenon
  <1> QED BY <1>6 DEF b

----------------------------------------------------------------------------
(* FlattenSeq, the concatenation of a sequence of sequences. *)

\* f[i] is the concatenation of the first i elements of s, for i up to n.
Flat(s, n, f) ==
    f = [i \in 1..n |-> IF i = 1 THEN s[i] ELSE f[i - 1] \o s[i]]

\* The partial concatenation at place i.
LEMMA FlatAt ==
    ASSUME NEW s, NEW n \in Nat, NEW f, Flat(s, n, f), NEW i \in 1..n
    PROVE  f[i] = IF i = 1 THEN s[i] ELSE f[i - 1] \o s[i]
  BY DEF Flat

\* Every sequence has partial concatenations up to every n.
LEMMA FlatExists ==
    ASSUME NEW s, NEW n \in Nat
    PROVE  \E f : Flat(s, n, f)
  <1> DEFINE T == {m \in Nat : ~ \E f : Flat(s, m, f)}
  <1> SUFFICES ASSUME T # {} PROVE FALSE
    OBVIOUS
  <1>1. PICK x \in T : \A y \in T : x =< y
    <2>1. T \in SUBSET Nat
      OBVIOUS
    <2> QED BY <2>1, LeastNat
  <1>2. x \in Nat /\ ~ \E f : Flat(s, x, f)
    OBVIOUS
  <1>3. CASE x = 0
    <2> DEFINE f == [i \in 1..0 |-> s[i]]
    <2>1. f = [i \in 1..0 |-> IF i = 1 THEN s[i] ELSE f[i - 1] \o s[i]]
      OBVIOUS
    <2> QED BY <1>2, <1>3, <2>1 DEF Flat
  <1>4. CASE x # 0
    <2>1. x - 1 \in Nat /\ x - 1 \notin T
      BY <1>1, <1>2, <1>4
    <2>2. PICK g : Flat(s, x - 1, g)
      BY <2>1
    <2> DEFINE f == [i \in 1..x |-> IF i = x THEN IF x = 1 THEN s[x] ELSE g[x - 1] \o s[x]
                                    ELSE g[i]]
    <2>3. \A i \in 1..x : f[i] = IF i = 1 THEN s[i] ELSE f[i - 1] \o s[i]
      <3> SUFFICES ASSUME NEW i \in 1..x
                   PROVE  f[i] = IF i = 1 THEN s[i] ELSE f[i - 1] \o s[i]
        OBVIOUS
      <3>1. CASE i = x /\ x = 1
        BY <1>2, <3>1
      <3>2. CASE i = x /\ x # 1
        <4>1. i - 1 \in 1..x /\ i - 1 # x
          BY <1>2, <3>2
        <4>2. f[i - 1] = g[x - 1]
          BY <3>2, <4>1
        <4>3. f[i] = g[x - 1] \o s[x]
          BY <3>2
        <4> QED BY <3>2, <4>2, <4>3
      <3>3. CASE i # x
        <4>1. i \in 1..(x - 1)
          BY <1>2, <3>3
        <4>2. g[i] = IF i = 1 THEN s[i] ELSE g[i - 1] \o s[i]
          BY <2>2, <4>1 DEF Flat
        <4>3. i # 1 => i - 1 \in 1..x /\ i - 1 # x
          BY <1>2, <4>1
        <4> QED BY <3>3, <4>2, <4>3
      <3> QED BY <3>1, <3>2, <3>3
    <2>4. Flat(s, x, f)
      <3> HIDE DEF f
      <3>1. f = [i \in 1..x |-> f[i]]
        BY DEF f
      <3> QED BY <2>3, <3>1 DEF Flat
    <2> QED BY <1>2, <2>4
  <1> QED BY <1>3, <1>4

\* Sequences that begin alike have the same partial concatenations.
LEMMA FlatAgrees ==
    ASSUME NEW s, NEW t, NEW n \in Nat, NEW m \in Nat, n =< m,
           \A i \in 1..n : s[i] = t[i],
           NEW f, Flat(s, n, f), NEW g, Flat(t, m, g)
    PROVE  \A i \in 1..n : f[i] = g[i]
  <1> DEFINE T == {i \in 1..n : f[i] # g[i]}
  <1> SUFFICES ASSUME T # {} PROVE FALSE
    OBVIOUS
  <1>1. PICK x \in T : \A y \in T : x =< y
    <2>1. T \in SUBSET Nat
      OBVIOUS
    <2> QED BY <2>1, LeastNat
  <1>2. /\ f[x] = IF x = 1 THEN s[x] ELSE f[x - 1] \o s[x]
        /\ g[x] = IF x = 1 THEN t[x] ELSE g[x - 1] \o t[x]
    <2>1. x \in 1..n /\ x \in 1..m
      OBVIOUS
    <2>2. f[x] = IF x = 1 THEN s[x] ELSE f[x - 1] \o s[x]
      BY <2>1, FlatAt
    <2>3. g[x] = IF x = 1 THEN t[x] ELSE g[x - 1] \o t[x]
      BY <2>1, FlatAt
    <2> QED BY <2>2, <2>3
  <1>3. x # 1 => x - 1 \in 1..n /\ f[x - 1] = g[x - 1]
    BY <1>1
  <1> QED BY <1>2, <1>3

\* The partial concatenations of sequences over S are sequences over S.
LEMMA FlatType ==
    ASSUME NEW S, NEW n \in Nat, NEW s, \A i \in 1..n : s[i] \in Seq(S),
           NEW f, Flat(s, n, f)
    PROVE  \A i \in 1..n : f[i] \in Seq(S)
  <1> DEFINE T == {i \in 1..n : f[i] \notin Seq(S)}
  <1> SUFFICES ASSUME T # {} PROVE FALSE
    OBVIOUS
  <1>1. PICK x \in T : \A y \in T : x =< y
    <2>1. T \in SUBSET Nat
      OBVIOUS
    <2> QED BY <2>1, LeastNat
  <1>2. f[x] = IF x = 1 THEN s[x] ELSE f[x - 1] \o s[x]
    BY DEF Flat
  <1>3. x # 1 => x - 1 \in 1..n /\ f[x - 1] \in Seq(S)
    BY <1>1
  <1>4. x # 1 => f[x - 1] \o s[x] \in Seq(S)
    BY <1>3, ConcatProperties
  <1> QED BY <1>2, <1>4

\* FlattenSeq takes the last partial concatenation.
LEMMA FlattenIsFlat ==
    ASSUME NEW S, NEW s \in Seq(Seq(S)), Len(s) # 0
    PROVE  \E f : Flat(s, Len(s), f) /\ FlattenSeq(s) = f[Len(s)]
  <1> DEFINE f == CHOOSE g : Flat(s, Len(s), g)
  <1>1. Len(s) \in Nat
    BY LenProperties
  <1>2. Flat(s, Len(s), f)
    BY <1>1, FlatExists
  <1>3. FlattenSeq(s) = f[Len(s)]
    BY DEF FlattenSeq, Flat
  <1> QED BY <1>2, <1>3

\* Flattening a sequence with one more element appends that element.
LEMMA FlattenAppend ==
    ASSUME NEW S, NEW s \in Seq(Seq(S)), NEW t \in Seq(S)
    PROVE  /\ FlattenSeq(s) \in Seq(S)
           /\ FlattenSeq(Append(s, t)) = FlattenSeq(s) \o t
  <1> DEFINE u == Append(s, t)
             n == Len(s)
  <1>1. /\ n \in Nat /\ u \in Seq(Seq(S)) /\ Len(u) = n + 1
        /\ \A i \in 1..n : u[i] = s[i] /\ s[i] \in Seq(S)
        /\ u[n + 1] = t
    BY LenProperties, AppendProperties, ElementOfSeq
  <1> HIDE DEF u, n
  <1>2. PICK g : Flat(u, n + 1, g) /\ FlattenSeq(u) = g[n + 1]
    BY <1>1, FlattenIsFlat
  <1>3. g[n + 1] = IF n + 1 = 1 THEN t ELSE g[n] \o t
    <2>1. n + 1 \in 1..(n + 1) /\ (n + 1) - 1 = n
      BY <1>1
    <2> QED BY <1>1, <1>2, <2>1 DEF Flat
  <1>4. CASE n = 0
    <2>1. s = <<>> /\ FlattenSeq(s) = s
      BY <1>4, EmptySeq DEF FlattenSeq, n
    <2>2. <<>> \o t = t /\ <<>> \in Seq(S)
      BY ConcatEmptySeq, EmptySeq
    <2>3. FlattenSeq(u) = t
      BY <1>2, <1>3, <1>4
    <2> QED BY <2>1, <2>2, <2>3 DEF u
  <1>5. CASE n # 0
    <2>1. PICK f : Flat(s, n, f) /\ FlattenSeq(s) = f[n]
      BY <1>5, FlattenIsFlat DEF n
    <2>2. f[n] \in Seq(S)
      <3>1. \A i \in 1..n : f[i] \in Seq(S)
        BY <1>1, <2>1, FlatType, Zenon
      <3> QED BY <1>1, <1>5, <3>1
    <2>3. f[n] = g[n]
      <3> DEFINE m == n + 1
      <3>1. /\ n \in Nat /\ m \in Nat /\ n =< m /\ \A i \in 1..n : s[i] = u[i]
            /\ Flat(s, n, f) /\ Flat(u, m, g)
        BY <1>1, <1>2, <2>1
      <3> HIDE DEF m
      <3>2. \A i \in 1..n : f[i] = g[i]
        BY <3>1, FlatAgrees
      <3> QED BY <1>1, <1>5, <3>2
    <2> QED BY <1>1, <1>2, <1>3, <1>5, <2>1, <2>2, <2>3 DEF u
  <1> QED BY <1>4, <1>5

----------------------------------------------------------------------------
(* The connection. *)

Item == [kind : {"header", "payload"}, std : Std, len : Nat, data : Text]

\* What a client reads from stream s of the items o.
Part(f, s) == IF f.std = s THEN f.data ELSE <<>>
Reading(o, s) == FlattenSeq([i \in DOMAIN o |-> Part(o[i], s)])

\* An item more is read after the others.
LEMMA ReadingAppend ==
    ASSUME NEW o \in Seq(Item), NEW f \in Item, NEW s
    PROVE  /\ Reading(o, s) \in Text
           /\ Reading(Append(o, f), s) = Reading(o, s) \o Part(f, s)
  <1> DEFINE C == {"char", "newline"}
             p == Append(o, f)
             n == Len(o)
             x == [i \in DOMAIN o |-> Part(o[i], s)]
             y == [i \in DOMAIN p |-> Part(p[i], s)]
  <1>1. \A g \in Item : Part(g, s) \in Seq(C)
    <2>1. <<>> \in Seq(C)
      BY EmptySeq
    <2> QED BY <2>1 DEF Part, Item, Text
  <1>2. /\ n \in Nat /\ DOMAIN o = 1..n /\ DOMAIN p = 1..(n + 1)
        /\ \A i \in 1..n : o[i] \in Item /\ p[i] = o[i]
        /\ p[n + 1] = f
    <2>1. p \in Seq(Item) /\ Len(p) = n + 1
      BY AppendProperties
    <2> QED BY <2>1, LenProperties, AppendProperties, ElementOfSeq
  <1> HIDE DEF p, n, C
  <1>3. x = [i \in 1..n |-> Part(o[i], s)] /\ y = [i \in 1..(n + 1) |-> Part(p[i], s)]
    BY <1>2
  <1>4. x \in Seq(Seq(C)) /\ Len(x) = n
    <2>1. \A i \in 1..n : Part(o[i], s) \in Seq(C)
      BY <1>1, <1>2
    <2> QED BY <1>2, <1>3, <2>1, IsASeq
  <1>5. /\ Append(x, Part(f, s)) = y
    <2>1. Part(f, s) \in Seq(C)
      BY <1>1
    <2> QED BY <1>2, <1>3, <1>4, <2>1
  <1>6. /\ FlattenSeq(x) \in Seq(C)
        /\ FlattenSeq(Append(x, Part(f, s))) = FlattenSeq(x) \o Part(f, s)
    BY <1>1, <1>4, FlattenAppend
  <1> QED BY <1>5, <1>6 DEF Reading, Text, C, p

\* What a client reads from a stream is text.
LEMMA ReadingIsText ==
    ASSUME NEW o \in Seq(Item), NEW s
    PROVE  Reading(o, s) \in Text
  <1>1. Item # {}
    <2>1. <<>> \in Text
      BY EmptySeq DEF Text
    <2>2. [kind |-> "header", std |-> "stdout", len |-> 0, data |-> <<>>] \in Item
      BY <2>1 DEF Item, Std
    <2> QED BY <2>2
  <1> QED BY <1>1, ReadingAppend

\* From an empty connection a client reads nothing.
LEMMA ReadingNothing ==
    ASSUME NEW s PROVE Reading(<<>>, s) = <<>>
  BY DEF Reading, FlattenSeq

\* What a client has received is what it reads from the connection.
LEMMA ReceivedIsReading ==
    ASSUME NEW a, NEW s PROVE Received(a, s) = Reading(out[a], s)
  BY DEF Received, Reading, Part

----------------------------------------------------------------------------
(* The inductive invariant. *)

\* The lock the two proxies of a session share.
Held(a) == lock[a]["stdout"]

\* Who may hold the lock: a copying goroutine while the command runs, the
\* handler at the flush it has come to, and a scheduled flush, which is the
\* only one of its proxy.  No flush is scheduled before the session starts.
HolderIsRight(a) ==
    /\ Held(a).by = "copy" => session[a].pc = "run"
    /\ Held(a).by = "end" => session[a].pc = Held(a).std
    /\ Held(a).by = "timer" => ~timer[a][Held(a).std]
    /\ session[a].pc = "idle" => \A s \in Std : ~timer[a][s]

\* The deferred flushes leave the buffers empty.
FlushedIsEmpty(a) ==
    /\ session[a].pc \in {"stdout", "save", "close", "done"} => buf[a]["stderr"] = <<>>
    /\ session[a].pc \in {"save", "close", "done"} => buf[a]["stdout"] = <<>>

\* Between a header and its payload the lock is held, and the frame that the
\* header announces is there; while the client stays the header is the last
\* item, and otherwise the last item is a payload.
HeaderIsOpen(a) ==
    /\ ~gone[a] /\ Held(a).step = "next" => Len(out[a]) % 2 = 0
    /\ \A s \in Std : Held(a).step = "payload" /\ Held(a).std = s =>
         /\ Held(a).by # "none"
         /\ Frame(a, s) # <<>>
         /\ ~gone[a] => /\ Len(out[a]) % 2 = 1
                        /\ out[a][Len(out[a])].std = s
                        /\ out[a][Len(out[a])].len = Len(Frame(a, s))

\* The items of o come in pairs, a header and its payload.
Paired(o) ==
    \A i \in DOMAIN o :
        /\ o[i].kind = IF i % 2 = 1 THEN "header" ELSE "payload"
        /\ o[i].kind = "header" /\ i < Len(o) =>
             o[i + 1].std = o[i].std /\ o[i + 1].len = o[i].len

\* What was printed has been written or is in the buffer.
NothingIsLost(a) ==
    ~gone[a] => \A s \in Std : Reading(out[a], s) \o buf[a][s] = printed[a][s]

StreamInv(a) ==
    /\ HolderIsRight(a) /\ FlushedIsEmpty(a) /\ HeaderIsOpen(a)
    /\ Paired(out[a]) /\ NothingIsLost(a)

\* A session that has started has a record.
SessionHasRecord ==
    \A a \in Session : session[a].pc # "idle" => session[a].of \in Record

\* The record of a session that has saved its exit code holds that code or the
\* one of a session that saved it later.
CodeIsSaved ==
    \A a \in Session :
        session[a].pc \in {"close", "done"} /\ session[a].ended = "ok" =>
            \E b \in Session : /\ session[b].of = session[a].of
                               /\ session[b].ended = "ok"
                               /\ session[b].pc \in {"close", "done"}
                               /\ execs[session[a].of].code = session[b].code

ExecInv ==
    TypeOK /\ SessionHasRecord /\ CodeIsSaved /\ \A a \in Attached : StreamInv(a)

----------------------------------------------------------------------------
(* Type correctness. *)

\* The parts of TypeOK: the records, the sessions, and the proxies.
RecordsOK ==
    execs \in [Record -> [created : BOOLEAN, stored : BOOLEAN,
                          aged : BOOLEAN, code : Codes]]

SessionsOK ==
    session \in [Session ->
        [pc : {"idle", "run", "stderr", "stdout", "save", "close", "done"},
         of : Record \cup {"none"}, ended : {"not", "ok", "error"}, code : Codes]]

LockOK ==
    lock \in [Attached -> [Std -> [by : {"none", "copy", "timer", "end"},
                                   std : Std, step : {"next", "payload"}]]]

TextOK ==
    /\ buf \in [Attached -> [Std -> Text]]
    /\ printed \in [Attached -> [Std -> Text]]
    /\ out \in [Attached -> Seq(Item)]

FlagsOK ==
    /\ flusher \in [Attached -> [Std -> BOOLEAN]]
    /\ timer \in [Attached -> [Std -> BOOLEAN]]
    /\ gone \in [Attached -> BOOLEAN]

\* While the command runs the flag of a proxy tells of its flush.
FlagTells ==
    \A a \in Attached, s \in Std : session[a].pc = "run" /\ timer[a][s] => flusher[a][s]

\* TypeOK is the conjunction of its parts.
LEMMA TypeParts ==
    TypeOK <=> RecordsOK /\ SessionsOK /\ LockOK /\ TextOK /\ FlagsOK /\ FlagTells
  BY DEF TypeOK, RecordsOK, SessionsOK, LockOK, TextOK, FlagsOK, FlagTells, Item

\* The same after a step.
LEMMA TypePartsNext ==
    (RecordsOK /\ SessionsOK /\ LockOK /\ TextOK /\ FlagsOK /\ FlagTells)' => TypeOK'
  BY TypeParts, PTL

\* The two streams, and the one lock they share.
LEMMA StdValues == "stdout" \in Std /\ "stderr" \in Std /\ \A s \in Std : LockOf(s) = "stdout"
  BY DEF Std, LockOf

\* Attached and detached sessions are sessions.
LEMMA SessionHasAttached == Attached \subseteq Session /\ Detached \subseteq Session
  BY DEF Session

\* The initial state is well typed.
LEMMA TypeInit == Init => TypeOK
  <1> SUFFICES ASSUME Init PROVE TypeOK
    OBVIOUS
  <1>1. RecordsOK
    BY CodesAssumption DEF Init, RecordsOK
  <1>2. SessionsOK
    BY CodesAssumption DEF Init, SessionsOK
  <1>3. LockOK
    BY StdValues DEF Init, LockOK, Free
  <1>4. TextOK
    <2>1. <<>> \in Text /\ <<>> \in Seq(Item)
      BY EmptySeq DEF Text
    <2> QED BY <2>1 DEF Init, TextOK
  <1>5. FlagsOK /\ FlagTells
    BY DEF Init, FlagsOK, FlagTells
  <1> QED BY <1>1, <1>2, <1>3, <1>4, <1>5, TypeParts

\* The steps that change the records or the sessions and not the proxies.
LEMMA RecordStepsType ==
    ASSUME TypeOK, \A b \in Attached : HolderIsRight(b), UNCHANGED io,
           \/ \E e \in Record : ContainerExec(e) \/ Age(e) \/ CleanExecs(e)
           \/ \E a \in Session : \/ \E e \in Record : ExecStart(a, e)
                                 \/ CommandEnds(a) \/ SaveExec(a) \/ CloseStreams(a)
    PROVE  TypeOK'
  <1>0. RecordsOK /\ SessionsOK /\ LockOK /\ TextOK /\ FlagsOK /\ FlagTells
    BY TypeParts
  <1>1. LockOK' /\ TextOK' /\ FlagsOK'
    BY <1>0 DEF io, LockOK, TextOK, FlagsOK
  <1>2. RecordsOK'
    <2>1. ASSUME NEW e \in Record, ContainerExec(e) \/ Age(e) \/ CleanExecs(e)
          PROVE  RecordsOK'
      <3>1. \/ execs' = [execs EXCEPT ![e].created = TRUE, ![e].stored = TRUE]
            \/ execs' = [execs EXCEPT ![e].aged = TRUE]
            \/ execs' = [execs EXCEPT ![e].stored = FALSE]
        BY <2>1 DEF ContainerExec, Age, CleanExecs
      <3>2. CASE execs' = [execs EXCEPT ![e].created = TRUE, ![e].stored = TRUE]
        BY <1>0, <3>2 DEF RecordsOK
      <3>3. CASE execs' = [execs EXCEPT ![e].aged = TRUE]
        BY <1>0, <3>3 DEF RecordsOK
      <3>4. CASE execs' = [execs EXCEPT ![e].stored = FALSE]
        BY <1>0, <3>4 DEF RecordsOK
      <3> QED BY <3>1, <3>2, <3>3, <3>4
    <2>2. ASSUME NEW a \in Session, SaveExec(a)
          PROVE  RecordsOK'
      <3> DEFINE e == session[a].of
                 k == session[a].code
      <3>1. k \in Codes
        BY <1>0 DEF SessionsOK
      <3>2. execs' = execs \/ execs' = [execs EXCEPT ![e].stored = TRUE, ![e].code = k]
        BY <2>2 DEF SaveExec, Insert
      <3> HIDE DEF e, k
      <3> QED BY <1>0, <3>1, <3>2 DEF RecordsOK
    <2>3. ASSUME NEW a \in Session,
                 (\E e \in Record : ExecStart(a, e)) \/ CommandEnds(a) \/ CloseStreams(a)
          PROVE  RecordsOK'
      BY <1>0, <2>3 DEF ExecStart, CommandEnds, CloseStreams, RecordsOK
    <2> QED BY <2>1, <2>2, <2>3
  <1>3. SessionsOK'
    <2>1. ASSUME NEW e \in Record, ContainerExec(e) \/ Age(e) \/ CleanExecs(e)
          PROVE  SessionsOK'
      BY <1>0, <2>1 DEF ContainerExec, Age, CleanExecs, SessionsOK
    <2>2. ASSUME NEW a \in Session, NEW e \in Record, ExecStart(a, e)
          PROVE  SessionsOK'
      BY <1>0, <2>2 DEF ExecStart, SessionsOK
    <2>3. ASSUME NEW a \in Session, CommandEnds(a)
          PROVE  SessionsOK'
      <3> DEFINE p == AfterCommand(a)
      <3>1. p \in {"stderr", "save"}
        BY DEF AfterCommand
      <3>2. \/ \E k \in Codes : session' = [session EXCEPT ![a].pc = p, ![a].ended = "ok",
                                                            ![a].code = k]
            \/ session' = [session EXCEPT ![a].pc = p, ![a].ended = "error"]
        BY <2>3 DEF CommandEnds
      <3> HIDE DEF p
      <3> QED BY <1>0, <3>1, <3>2 DEF SessionsOK
    <2>4. ASSUME NEW a \in Session, SaveExec(a) \/ CloseStreams(a)
          PROVE  SessionsOK'
      BY <1>0, <2>4 DEF SaveExec, CloseStreams, SessionsOK
    <2> QED BY <2>1, <2>2, <2>3, <2>4
  <1>4. FlagTells'
    <2> SUFFICES ASSUME NEW a \in Attached, NEW s \in Std, session'[a].pc = "run", timer'[a][s]
                 PROVE  flusher'[a][s]
      BY DEF FlagTells
    <2>1. timer' = timer /\ flusher' = flusher /\ a \in Session
      BY SessionHasAttached DEF io
    <2>2. session[a].pc \in {"idle", "run"}
      BY <1>0, <2>1
      DEF SessionsOK, ContainerExec, Age, CleanExecs, ExecStart, CommandEnds, AfterCommand,
          SaveExec, CloseStreams
    <2> QED BY <1>0, <2>1, <2>2 DEF FlagTells, HolderIsRight
  <1> QED BY <1>1, <1>2, <1>3, <1>4, TypePartsNext

----------------------------------------------------------------------------
(* The proxies. *)

\* An update of one stream of one session.
LEMMA Put ==
    ASSUME NEW V, NEW f \in [Attached -> [Std -> V]], NEW g,
           NEW a \in Attached, NEW s \in Std, NEW v \in V,
           g = [f EXCEPT ![a][s] = v]
    PROVE  /\ g \in [Attached -> [Std -> V]]
           /\ g[a][s] = v
           /\ \A t \in Std : t # s => g[a][t] = f[a][t]
           /\ \A b \in Attached : b # a => g[b] = f[b]
  OBVIOUS

LockType == [by : {"none", "copy", "timer", "end"}, std : Std, step : {"next", "payload"}]

\* An assignment to the lock of one session.
LEMMA PutLock ==
    ASSUME LockOK, NEW a \in Attached, NEW s \in Std, NEW x \in LockType,
           lock' = [lock EXCEPT ![a][LockOf(s)] = x]
    PROVE  /\ LockOK'
           /\ lock'[a]["stdout"] = x
           /\ \A b \in Attached : b # a => lock'[b] = lock[b]
  BY Put, StdValues DEF LockOK, LockType

\* What taking the lock does.
LEMMA LockTaken ==
    ASSUME LockOK, NEW a \in Attached, NEW s \in Std,
           NEW kind \in {"copy", "timer", "end"}, Lock(a, s, kind)
    PROVE  /\ LockOK'
           /\ lock'[a]["stdout"].by = kind /\ lock'[a]["stdout"].std = s
           /\ lock'[a]["stdout"].step = "next"
           /\ \A b \in Attached : b # a => lock'[b] = lock[b]
  <1> DEFINE x == [by |-> kind, std |-> s, step |-> "next"]
  <1>1. x \in LockType /\ x.by = kind /\ x.std = s /\ x.step = "next"
    BY DEF LockType
  <1>2. lock' = [lock EXCEPT ![a][LockOf(s)] = x]
    BY DEF Lock
  <1> HIDE DEF x
  <1>3. /\ LockOK' /\ lock'[a]["stdout"] = x
        /\ \A b \in Attached : b # a => lock'[b] = lock[b]
    BY <1>1, <1>2, PutLock
  <1> QED BY <1>1, <1>3

\* What giving the lock back does.
LEMMA LockReleased ==
    ASSUME LockOK, NEW a \in Attached, NEW s \in Std, Unlock(a, s)
    PROVE  /\ LockOK'
           /\ lock'[a]["stdout"].by = "none" /\ lock'[a]["stdout"].step = "next"
           /\ \A b \in Attached : b # a => lock'[b] = lock[b]
  <1>1. Free \in LockType /\ Free.by = "none" /\ Free.step = "next"
    BY StdValues DEF LockType, Free
  <1>2. lock' = [lock EXCEPT ![a][LockOf(s)] = Free]
    BY DEF Unlock
  <1>3. /\ LockOK' /\ lock'[a]["stdout"] = Free
        /\ \A b \in Attached : b # a => lock'[b] = lock[b]
    BY <1>1, <1>2, PutLock
  <1> QED BY <1>1, <1>3

\* What going on to the payload, or to the next frame, does to the lock.
LEMMA LockStepped ==
    ASSUME LockOK, NEW a \in Attached, NEW s \in Std, NEW p \in {"next", "payload"}
    PROVE  lock' = [lock EXCEPT ![a][LockOf(s)].step = p] =>
           /\ LockOK'
           /\ lock'[a]["stdout"].by = lock[a]["stdout"].by
           /\ lock'[a]["stdout"].std = lock[a]["stdout"].std
           /\ lock'[a]["stdout"].step = p
           /\ \A b \in Attached : b # a => lock'[b] = lock[b]
  <1>1. PICK x : x = [lock[a]["stdout"] EXCEPT !.step = p]
    OBVIOUS
  <1>2. /\ x \in LockType /\ x.by = lock[a]["stdout"].by
        /\ x.std = lock[a]["stdout"].std /\ x.step = p
    BY <1>1, StdValues DEF LockOK, LockType
  <1>3. lock' = [lock EXCEPT ![a][LockOf(s)].step = p]
          => lock' = [lock EXCEPT ![a][LockOf(s)] = x]
    BY <1>1, StdValues
  <1>4. ASSUME lock' = [lock EXCEPT ![a][LockOf(s)] = x]
        PROVE  /\ LockOK' /\ lock'[a]["stdout"] = x
               /\ \A b \in Attached : b # a => lock'[b] = lock[b]
    BY <1>2, <1>4, PutLock
  <1>5. lock'[a]["stdout"] = x =>
        /\ lock'[a]["stdout"].by = lock[a]["stdout"].by
        /\ lock'[a]["stdout"].std = lock[a]["stdout"].std
        /\ lock'[a]["stdout"].step = p
    BY <1>2
  <1> QED BY <1>3, <1>4, <1>5, Zenon

\* Nothing happens to a session whose proxies are left alone.
LEMMA Elsewhere ==
    ASSUME NEW b \in Attached, StreamInv(b),
           session'[b] = session[b], buf'[b] = buf[b], timer'[b] = timer[b],
           lock'[b] = lock[b], out'[b] = out[b], gone'[b] = gone[b],
           printed'[b] = printed[b]
    PROVE  StreamInv(b)'
  <1>1. HolderIsRight(b)' /\ FlushedIsEmpty(b)'
    BY DEF StreamInv, HolderIsRight, FlushedIsEmpty, Held
  <1>2. HeaderIsOpen(b)'
    <2>1. \A s \in Std : Frame(b, s)' = Frame(b, s)
      BY DEF Frame, LockOf
    <2>2. Held(b)' = Held(b)
      BY DEF Held
    <2> QED BY <2>1, <2>2 DEF StreamInv, HeaderIsOpen
  <1>3. Paired(out[b])'
    BY DEF StreamInv, Paired
  <1>4. NothingIsLost(b)'
    BY DEF StreamInv, NothingIsLost
  <1> QED BY <1>1, <1>2, <1>3, <1>4 DEF StreamInv

\* Concatenation of output is associative.
LEMMA TextAssociative ==
    ASSUME NEW x \in Text, NEW y \in Text, NEW z \in Text
    PROVE  (x \o y) \o z = x \o (y \o z)
  BY ConcatAssociative DEF Text

\* What a step of a proxy preserves.
StreamsOK == TypeOK /\ \A b \in Attached : StreamInv(b)

\* The parts of type correctness, where a step of a proxy begins.
LEMMA StreamsParts ==
    ASSUME StreamsOK
    PROVE  RecordsOK /\ SessionsOK /\ LockOK /\ TextOK /\ FlagsOK /\ FlagTells
  BY TypeParts DEF StreamsOK

\* The facts about the session at work that every step needs.
LEMMA AtWork ==
    ASSUME StreamsOK, NEW a \in Attached
    PROVE  /\ Held(a).by \in {"none", "copy", "timer", "end"} /\ Held(a).std \in Std
           /\ Held(a).step \in {"next", "payload"}
           /\ out[a] \in Seq(Item) /\ Len(out[a]) \in Nat
           /\ \A s \in Std : buf[a][s] \in Text /\ printed[a][s] \in Text
           /\ HolderIsRight(a) /\ FlushedIsEmpty(a) /\ HeaderIsOpen(a)
           /\ Paired(out[a]) /\ NothingIsLost(a)
           /\ a \in Session
  <1>1. LockOK /\ TextOK
    BY StreamsParts
  <1>2. Len(out[a]) \in Nat /\ out[a] \in Seq(Item)
    BY <1>1, LenProperties DEF TextOK
  <1> QED
    BY <1>1, <1>2, StdValues, SessionHasAttached DEF LockOK, TextOK, Held, StreamsOK, StreamInv

\* Write takes the lock and appends to the buffer what was printed.
LEMMA WriteKeeps ==
    ASSUME StreamsOK, NEW a \in Attached, NEW s \in Std, NEW p \in Chunk, Write(a, s, p)
    PROVE  StreamsOK'
  <1>0. /\ session[a].pc = "run" /\ Held(a).step = "next" /\ Held(a).by = "none"
        /\ Lock(a, s, "copy")
        /\ printed' = [printed EXCEPT ![a][s] = @ \o p]
        /\ buf' = [buf EXCEPT ![a][s] = @ \o p]
        /\ UNCHANGED <<execs, session, flusher, timer, out, gone>>
    BY StdValues DEF Write, CanLock, Held, Free
  <1>1. RecordsOK /\ SessionsOK /\ LockOK /\ TextOK /\ FlagsOK /\ FlagTells
    BY StreamsParts
  <1>2. p \in Text
    BY ChunkAssumption DEF Text
  <1>3. PICK v, w : v = buf[a][s] \o p /\ w = printed[a][s] \o p
    OBVIOUS
  <1>4. v \in Text /\ w \in Text
    BY <1>2, <1>3, AtWork, ConcatProperties DEF Text
  <1>5. /\ buf' = [buf EXCEPT ![a][s] = v]
        /\ printed' = [printed EXCEPT ![a][s] = w]
    BY <1>0, <1>3
  <1>6. /\ buf' \in [Attached -> [Std -> Text]] /\ buf'[a][s] = v
        /\ \A t \in Std : t # s => buf'[a][t] = buf[a][t]
        /\ \A b \in Attached : b # a => buf'[b] = buf[b]
    BY <1>1, <1>4, <1>5, Put DEF TextOK
  <1>7. /\ printed' \in [Attached -> [Std -> Text]] /\ printed'[a][s] = w
        /\ \A t \in Std : t # s => printed'[a][t] = printed[a][t]
        /\ \A b \in Attached : b # a => printed'[b] = printed[b]
    BY <1>1, <1>4, <1>5, Put DEF TextOK
  <1>8. /\ LockOK'
        /\ Held(a)'.by = "copy" /\ Held(a)'.step = "next"
        /\ \A b \in Attached : b # a => lock'[b] = lock[b]
    BY <1>0, <1>1, LockTaken DEF Held
  <1>9. TypeOK'
    <2>1. TextOK'
      BY <1>0, <1>1, <1>6, <1>7 DEF TextOK
    <2>2. RecordsOK' /\ SessionsOK' /\ FlagsOK' /\ FlagTells'
      BY <1>0, <1>1 DEF RecordsOK, SessionsOK, FlagsOK, FlagTells
    <2> QED BY <1>8, <2>1, <2>2, TypePartsNext
  <1>10. StreamInv(a)'
    <2>1. HolderIsRight(a)' /\ FlushedIsEmpty(a)'
      BY <1>0, <1>8 DEF HolderIsRight, FlushedIsEmpty
    <2>2. HeaderIsOpen(a)'
      BY <1>0, <1>8, AtWork DEF HeaderIsOpen
    <2>3. Paired(out[a])'
      BY <1>0, AtWork
    <2>4. NothingIsLost(a)'
      <3> SUFFICES ASSUME ~gone[a], NEW t \in Std
                   PROVE  Reading(out[a], t) \o buf'[a][t] = printed'[a][t]
        BY <1>0 DEF NothingIsLost
      <3>1. Reading(out[a], t) \o buf[a][t] = printed[a][t]
        BY AtWork DEF NothingIsLost
      <3>2. CASE t = s
        <4>1. Reading(out[a], s) \in Text
          BY ReadingIsText, AtWork
        <4>2. (Reading(out[a], s) \o buf[a][s]) \o p = Reading(out[a], s) \o (buf[a][s] \o p)
          <5>1. buf[a][s] \in Text
            BY AtWork
          <5> QED BY <1>2, <4>1, <5>1, TextAssociative
        <4> QED BY <1>3, <1>6, <1>7, <3>1, <3>2, <4>2
      <3>3. CASE t # s
        BY <1>6, <1>7, <3>1, <3>3
      <3> QED BY <3>2, <3>3
    <2> QED BY <2>1, <2>2, <2>3, <2>4 DEF StreamInv
  <1>11. \A b \in Attached : StreamInv(b)'
    BY <1>0, <1>6, <1>7, <1>8, <1>10, Elsewhere DEF StreamsOK
  <1> QED BY <1>9, <1>11 DEF StreamsOK

\* A goroutine takes the lock and has not written anything yet.
LEMMA LockKeeps ==
    ASSUME StreamsOK, NEW a \in Attached, NEW s \in Std,
           FlushTimer(a, s) \/ FlushAtEnd(a, s)
    PROVE  StreamsOK'
  <1>1. RecordsOK /\ SessionsOK /\ LockOK /\ TextOK /\ FlagsOK /\ FlagTells
    BY StreamsParts
  <1>2. /\ Held(a).step = "next" /\ Held(a).by = "none"
        /\ UNCHANGED <<execs, session, buf, flusher, out, gone, printed>>
        /\ \/ timer[a][s] /\ Lock(a, s, "timer") /\ timer' = [timer EXCEPT ![a][s] = FALSE]
           \/ session[a].pc = s /\ Lock(a, s, "end") /\ timer' = timer
    BY StdValues DEF FlushTimer, FlushAtEnd, CanLock, Held, Free
  <1>3. /\ LockOK'
        /\ Held(a)'.by \in {"timer", "end"} /\ Held(a)'.std = s /\ Held(a)'.step = "next"
        /\ Held(a)'.by = "end" => session[a].pc = s
        /\ Held(a)'.by = "timer" => timer' = [timer EXCEPT ![a][s] = FALSE]
        /\ \A b \in Attached : b # a => lock'[b] = lock[b]
    <2>1. CASE Lock(a, s, "timer") /\ timer' = [timer EXCEPT ![a][s] = FALSE]
      BY <1>1, <2>1, LockTaken DEF Held
    <2>2. CASE session[a].pc = s /\ Lock(a, s, "end")
      BY <1>1, <2>2, LockTaken DEF Held
    <2> QED BY <1>2, <2>1, <2>2
  <1>4. /\ timer' \in [Attached -> [Std -> BOOLEAN]]
        /\ \A b \in Attached : b # a => timer'[b] = timer[b]
        /\ \A b \in Attached, t \in Std : timer'[b][t] => timer[b][t]
        /\ Held(a)'.by = "timer" => ~timer'[a][s]
    <2>1. CASE timer' = timer /\ Held(a)'.by # "timer"
      BY <1>1, <2>1 DEF FlagsOK
    <2>2. CASE timer' = [timer EXCEPT ![a][s] = FALSE]
      <3>1. timer \in [Attached -> [Std -> BOOLEAN]] /\ FALSE \in BOOLEAN
        BY <1>1 DEF FlagsOK
      <3>2. /\ timer' \in [Attached -> [Std -> BOOLEAN]] /\ timer'[a][s] = FALSE
            /\ \A t \in Std : t # s => timer'[a][t] = timer[a][t]
            /\ \A b \in Attached : b # a => timer'[b] = timer[b]
        BY <2>2, <3>1, Put
      <3>3. \A b \in Attached, t \in Std : timer'[b][t] => timer[b][t]
        <4> TAKE b \in Attached, t \in Std
        <4>1. CASE b # a
          BY <3>2, <4>1, Zenon
        <4>2. CASE b = a /\ t # s
          BY <3>2, <4>2, Zenon
        <4>3. CASE b = a /\ t = s
          BY <3>2, <4>3, Zenon
        <4> QED BY <4>1, <4>2, <4>3
      <3> QED BY <3>2, <3>3, Zenon
    <2> QED BY <1>2, <1>3, <2>1, <2>2
  <1>5. TypeOK'
    <2>1. TextOK' /\ RecordsOK' /\ SessionsOK'
      BY <1>1, <1>2 DEF TextOK, RecordsOK, SessionsOK
    <2>2. FlagsOK' /\ FlagTells'
      BY <1>1, <1>2, <1>4 DEF FlagsOK, FlagTells
    <2> QED BY <1>3, <2>1, <2>2, TypePartsNext
  <1>6. StreamInv(a)'
    <2>1. HolderIsRight(a)'
      BY <1>2, <1>3, <1>4, AtWork DEF HolderIsRight
    <2>2. FlushedIsEmpty(a)'
      BY <1>2, AtWork DEF FlushedIsEmpty
    <2>3. HeaderIsOpen(a)'
      BY <1>2, <1>3, AtWork DEF HeaderIsOpen
    <2>4. Paired(out[a])' /\ NothingIsLost(a)'
      BY <1>2, AtWork DEF NothingIsLost
    <2> QED BY <2>1, <2>2, <2>3, <2>4 DEF StreamInv
  <1>7. \A b \in Attached : StreamInv(b)'
    BY <1>2, <1>3, <1>4, <1>6, Elsewhere DEF StreamsOK
  <1> QED BY <1>5, <1>7 DEF StreamsOK

\* A header at an odd place, or after it the payload it announces, keeps the
\* items paired.
LEMMA PairedAppend ==
    ASSUME NEW o \in Seq(Item), NEW f \in Item, Paired(o),
           f.kind = IF Len(o) % 2 = 0 THEN "header" ELSE "payload",
           Len(o) % 2 = 1 => f.std = o[Len(o)].std /\ f.len = o[Len(o)].len
    PROVE  Paired(Append(o, f))
  <1> DEFINE p == Append(o, f)
             n == Len(o)
  <1>1. /\ n \in Nat /\ DOMAIN o = 1..n /\ DOMAIN p = 1..(n + 1) /\ Len(p) = n + 1
        /\ \A i \in 1..n : p[i] = o[i]
        /\ p[n + 1] = f
    <2>1. p \in Seq(Item) /\ Len(p) = n + 1
      BY AppendProperties
    <2> QED BY <2>1, LenProperties, AppendProperties
  <1> HIDE DEF p, n
  <1>2. ASSUME NEW i \in 1..(n + 1)
        PROVE  p[i].kind = IF i % 2 = 1 THEN "header" ELSE "payload"
    <2>1. CASE i \in 1..n
      BY <1>1, <2>1 DEF Paired
    <2>2. CASE i = n + 1
      BY <1>1, <2>2 DEF n
    <2> QED BY <1>1, <2>1, <2>2
  <1>3. ASSUME NEW i \in 1..(n + 1), p[i].kind = "header", i < n + 1
        PROVE  p[i + 1].std = p[i].std /\ p[i + 1].len = p[i].len
    <2>1. CASE i < n
      <3>1. i \in 1..n /\ i + 1 \in 1..n
        BY <1>1, <2>1
      <3>2. o[i + 1].std = o[i].std /\ o[i + 1].len = o[i].len
        BY <1>1, <1>3, <2>1, <3>1 DEF Paired, n
      <3> QED BY <1>1, <3>1, <3>2
    <2>2. CASE i = n
      <3>1. n % 2 = 1
        BY <1>1, <1>2, <1>3, <2>2
      <3> QED BY <1>1, <1>3, <2>2, <3>1 DEF n
    <2> QED BY <1>1, <1>3, <2>1, <2>2
  <1> QED BY <1>1, <1>2, <1>3 DEF Paired, p

\* The places of a sequence are odd and even in turn.
LEMMA Parity ==
    \A n \in Nat : (n % 2 = 0 => (n + 1) % 2 = 1) /\ (n % 2 = 1 => (n + 1) % 2 = 0)
  OBVIOUS

\* A header opens a frame and brings no output to the client.
LEMMA WriteHeaderKeeps ==
    ASSUME StreamsOK, NEW a \in Attached, NEW s \in Std, WriteHeader(a, s)
    PROVE  StreamsOK'
  <1> DEFINE h == [kind |-> "header", std |-> s, len |-> Len(Frame(a, s)), data |-> <<>>]
  <1>0. /\ Held(a).by # "none" /\ Held(a).std = s /\ Held(a).step = "next"
        /\ Frame(a, s) # <<>> /\ ~gone[a]
        /\ out' = [out EXCEPT ![a] = Append(@, h)]
        /\ lock' = [lock EXCEPT ![a][LockOf(s)].step = "payload"]
        /\ UNCHANGED <<execs, session, buf, flusher, timer, gone, printed>>
    BY StdValues DEF WriteHeader, Writing, Holds, Held
  <1>1. RecordsOK /\ SessionsOK /\ LockOK /\ TextOK /\ FlagsOK /\ FlagTells
    BY StreamsParts
  <1>2. /\ h \in Item /\ h.kind = "header" /\ h.std = s /\ h.len = Len(Frame(a, s))
        /\ h.data = <<>>
    <2>1. Len(Frame(a, s)) \in Nat
      BY FrameIsPrefix DEF StreamsOK
    <2>2. <<>> \in Text
      BY EmptySeq DEF Text
    <2> QED BY <2>1, <2>2 DEF Item
  <1> HIDE DEF h
  <1>3. /\ LockOK'
        /\ Held(a)'.by = Held(a).by /\ Held(a)'.std = s /\ Held(a)'.step = "payload"
        /\ \A b \in Attached : b # a => lock'[b] = lock[b]
    BY <1>0, <1>1, LockStepped DEF Held
  <1>4. /\ out' \in [Attached -> Seq(Item)] /\ out'[a] = Append(out[a], h)
        /\ \A b \in Attached : b # a => out'[b] = out[b]
    <2>1. Append(out[a], h) \in Seq(Item)
      BY <1>2, AtWork, AppendProperties
    <2> QED BY <1>0, <1>1, <2>1 DEF TextOK
  <1>5. TypeOK'
    <2>1. TextOK'
      BY <1>0, <1>1, <1>4 DEF TextOK
    <2>2. RecordsOK' /\ SessionsOK' /\ FlagsOK' /\ FlagTells'
      BY <1>0, <1>1 DEF RecordsOK, SessionsOK, FlagsOK, FlagTells
    <2> QED BY <1>3, <2>1, <2>2, TypePartsNext
  <1>6. StreamInv(a)'
    <2>1. HolderIsRight(a)' /\ FlushedIsEmpty(a)'
      BY <1>0, <1>3, AtWork DEF HolderIsRight, FlushedIsEmpty
    <2>2. Len(out[a]) % 2 = 0 /\ Len(out[a]) \in Nat /\ out[a] \in Seq(Item) /\ Paired(out[a])
      BY <1>0, AtWork DEF HeaderIsOpen
    <2>3. HeaderIsOpen(a)'
      <3>1. Frame(a, s)' = Frame(a, s)
        BY <1>0, <1>3, StdValues DEF Frame, Held
      <3>2. Len(out'[a]) = Len(out[a]) + 1 /\ out'[a][Len(out'[a])] = h
        BY <1>2, <1>4, <2>2, AppendProperties
      <3>3. Len(out'[a]) % 2 = 1
        BY <2>2, <3>2, Parity
      <3> QED BY <1>0, <1>2, <1>3, <3>1, <3>2, <3>3 DEF HeaderIsOpen
    <2>4. Paired(out[a])'
      <3>1. PICK o, g : o = out[a] /\ g = h
        OBVIOUS
      <3>2. /\ o \in Seq(Item) /\ g \in Item /\ Paired(o) /\ Len(o) % 2 = 0
            /\ g.kind = "header"
        BY <1>2, <2>2, <3>1
      <3>3. Paired(Append(o, g))
        BY <3>2, PairedAppend
      <3> QED BY <1>4, <3>1, <3>3
    <2>5. NothingIsLost(a)'
      <3> SUFFICES ASSUME NEW t \in Std
                   PROVE  Reading(out'[a], t) \o buf[a][t] = printed[a][t]
        BY <1>0 DEF NothingIsLost
      <3>1. Part(h, t) = <<>>
        BY <1>2 DEF Part
      <3>2. Reading(out[a], t) \in Text /\ Reading(out'[a], t) = Reading(out[a], t) \o <<>>
        BY <1>2, <1>4, <2>2, <3>1, ReadingAppend
      <3>3. Reading(out'[a], t) = Reading(out[a], t)
        BY <3>2, ConcatEmptySeq DEF Text
      <3> QED BY <1>0, <3>3, AtWork DEF NothingIsLost
    <2> QED BY <2>1, <2>3, <2>4, <2>5 DEF StreamInv
  <1>7. \A b \in Attached : StreamInv(b)'
    BY <1>0, <1>3, <1>4, <1>6, Elsewhere DEF StreamsOK
  <1> QED BY <1>5, <1>7 DEF StreamsOK

\* The frame that the holder of the lock has written, or failed to write,
\* leaves its buffer and no other.
LEMMA ConsumeKeeps ==
    ASSUME StreamsOK, NEW a \in Attached, NEW s \in Std,
           Held(a).std = s, Held(a).by # "none", Frame(a, s) # <<>>,
           Consume(a, s), session' = session, timer' = timer
    PROVE  /\ buf' \in [Attached -> [Std -> Text]]
           /\ Frame(a, s) \in Text /\ buf'[a][s] \in Text
           /\ Frame(a, s) \o buf'[a][s] = buf[a][s]
           /\ \A t \in Std : t # s => buf'[a][t] = buf[a][t]
           /\ \A b \in Attached : b # a => buf'[b] = buf[b]
           /\ flusher' \in [Attached -> [Std -> BOOLEAN]]
           /\ FlagTells'
           /\ FlushedIsEmpty(a)'
  <1>1. LockOK /\ TextOK /\ FlagsOK /\ FlagTells
    BY StreamsParts
  <1>2. PICK v : v = SubSeq(buf[a][s], Len(Frame(a, s)) + 1, Len(buf[a][s]))
    OBVIOUS
  <1>3. Frame(a, s) \in Text /\ v \in Text /\ Frame(a, s) \o v = buf[a][s]
    BY <1>2, FrameIsPrefix DEF StreamsOK
  <1>4. buf' = [buf EXCEPT ![a][s] = v]
    BY <1>2 DEF Consume
  <1>5. /\ buf' \in [Attached -> [Std -> Text]] /\ buf'[a][s] = v
        /\ \A t \in Std : t # s => buf'[a][t] = buf[a][t]
        /\ \A b \in Attached : b # a => buf'[b] = buf[b]
    BY <1>1, <1>3, <1>4, Put DEF TextOK
  <1>6. PICK c \in BOOLEAN : c = (flusher[a][s] /\ lock[a][LockOf(s)].by = "copy")
    OBVIOUS
  <1>7. c => flusher[a][s] /\ Held(a).by = "copy"
    BY <1>6, StdValues DEF Held
  <1>7a. flusher[a][s] /\ Held(a).by = "copy" => c
    BY <1>6, StdValues DEF Held
  <1>8. flusher' = [flusher EXCEPT ![a][s] = c]
    BY <1>6, Zenon DEF Consume
  <1>9. /\ flusher' \in [Attached -> [Std -> BOOLEAN]] /\ flusher'[a][s] = c
        /\ \A t \in Std : t # s => flusher'[a][t] = flusher[a][t]
        /\ \A b \in Attached : b # a => flusher'[b] = flusher[b]
    BY <1>1, <1>8, Put DEF FlagsOK
  <1>10. FlagTells'
    <2> SUFFICES ASSUME NEW b \in Attached, NEW t \in Std, session[b].pc = "run", timer[b][t]
                 PROVE  flusher'[b][t]
      BY Zenon DEF FlagTells
    <2>1. flusher[b][t]
      BY <1>1 DEF FlagTells
    <2>2. CASE b # a
      BY <1>9, <2>1, <2>2, Zenon
    <2>3. CASE b = a /\ t # s
      BY <1>9, <2>1, <2>3, Zenon
    <2>4. CASE b = a /\ t = s
      <3>1. Held(a).by = "copy"
        BY <2>4, AtWork DEF HolderIsRight, Std
      <3>2. c
        BY <1>7a, <2>1, <2>4, <3>1, Zenon
      <3> QED BY <1>9, <2>4, <3>2, Zenon
    <2> QED BY <2>2, <2>3, <2>4
  <1>11. FlushedIsEmpty(a)'
    <2>1. CASE Held(a).by = "copy"
      BY <2>1, AtWork DEF HolderIsRight, FlushedIsEmpty
    <2>2. CASE Held(a).by # "copy"
      <3>1. buf[a][s] # <<>>
        BY <2>2, StdValues DEF Frame, Held
      <3> QED BY <1>5, <3>1, AtWork DEF FlushedIsEmpty, Std
    <2> QED BY <2>1, <2>2
  <1> QED BY <1>3, <1>5, <1>9, <1>10, <1>11

\* A payload closes the frame and carries what leaves the buffer.
LEMMA WritePayloadKeeps ==
    ASSUME StreamsOK, NEW a \in Attached, NEW s \in Std, WritePayload(a, s)
    PROVE  StreamsOK'
  <1> DEFINE h == [kind |-> "payload", std |-> s, len |-> Len(Frame(a, s)),
                   data |-> Frame(a, s)]
  <1>0. /\ Held(a).by # "none" /\ Held(a).std = s /\ Held(a).step = "payload"
        /\ ~gone[a]
        /\ out' = [out EXCEPT ![a] = Append(@, h)]
        /\ Consume(a, s)
        /\ lock' = [lock EXCEPT ![a][LockOf(s)].step = "next"]
        /\ UNCHANGED <<execs, session, timer, gone, printed>>
    BY StdValues DEF WritePayload, Writing, Holds, Held
  <1>1. RecordsOK /\ SessionsOK /\ LockOK /\ TextOK /\ FlagsOK /\ FlagTells
    BY StreamsParts
  <1>2. /\ Frame(a, s) # <<>> /\ Len(out[a]) % 2 = 1
        /\ out[a][Len(out[a])].std = s /\ out[a][Len(out[a])].len = Len(Frame(a, s))
        /\ Len(out[a]) \in Nat /\ out[a] \in Seq(Item) /\ Paired(out[a])
    BY <1>0, AtWork DEF HeaderIsOpen
  <1>3. /\ buf' \in [Attached -> [Std -> Text]]
        /\ Frame(a, s) \in Text /\ buf'[a][s] \in Text
        /\ Frame(a, s) \o buf'[a][s] = buf[a][s]
        /\ \A t \in Std : t # s => buf'[a][t] = buf[a][t]
        /\ \A b \in Attached : b # a => buf'[b] = buf[b]
        /\ flusher' \in [Attached -> [Std -> BOOLEAN]]
        /\ FlagTells'
        /\ FlushedIsEmpty(a)'
    BY <1>0, <1>2, ConsumeKeeps
  <1>4. /\ h \in Item /\ h.kind = "payload" /\ h.std = s /\ h.len = Len(Frame(a, s))
        /\ h.data = Frame(a, s)
    <2>1. Len(Frame(a, s)) \in Nat
      BY FrameIsPrefix DEF StreamsOK
    <2> QED BY <1>3, <2>1 DEF Item
  <1> HIDE DEF h
  <1>5. /\ LockOK'
        /\ Held(a)'.by = Held(a).by /\ Held(a)'.std = s /\ Held(a)'.step = "next"
        /\ \A b \in Attached : b # a => lock'[b] = lock[b]
    BY <1>0, <1>1, LockStepped DEF Held
  <1>6. /\ out' \in [Attached -> Seq(Item)] /\ out'[a] = Append(out[a], h)
        /\ \A b \in Attached : b # a => out'[b] = out[b]
    <2>1. Append(out[a], h) \in Seq(Item)
      BY <1>2, <1>4, AppendProperties
    <2> QED BY <1>0, <1>1, <2>1 DEF TextOK
  <1>7. TypeOK'
    <2>1. TextOK'
      BY <1>0, <1>1, <1>3, <1>6 DEF TextOK
    <2>2. RecordsOK' /\ SessionsOK' /\ FlagsOK'
      BY <1>0, <1>1, <1>3 DEF RecordsOK, SessionsOK, FlagsOK
    <2> QED BY <1>3, <1>5, <2>1, <2>2, TypePartsNext
  <1>8. StreamInv(a)'
    <2>1. HolderIsRight(a)'
      BY <1>0, <1>5, AtWork DEF HolderIsRight
    <2>2. HeaderIsOpen(a)'
      <3>1. Len(out'[a]) = Len(out[a]) + 1
        BY <1>2, <1>4, <1>6, AppendProperties
      <3>2. Len(out'[a]) % 2 = 0
        BY <1>2, <3>1, Parity
      <3> QED BY <1>5, <3>2 DEF HeaderIsOpen
    <2>3. Paired(out[a])'
      <3>1. PICK o, g : o = out[a] /\ g = h
        OBVIOUS
      <3>2. /\ o \in Seq(Item) /\ g \in Item /\ Paired(o) /\ Len(o) % 2 = 1
            /\ g.kind = "payload" /\ g.std = o[Len(o)].std /\ g.len = o[Len(o)].len
        BY <1>2, <1>4, <3>1
      <3>3. Paired(Append(o, g))
        BY <3>2, PairedAppend
      <3> QED BY <1>6, <3>1, <3>3
    <2>4. NothingIsLost(a)'
      <3> SUFFICES ASSUME NEW t \in Std
                   PROVE  Reading(out'[a], t) \o buf'[a][t] = printed[a][t]
        BY <1>0 DEF NothingIsLost
      <3>1. /\ Reading(out[a], t) \in Text
            /\ Reading(out'[a], t) = Reading(out[a], t) \o Part(h, t)
        BY <1>2, <1>4, <1>6, ReadingAppend
      <3>2. Reading(out[a], t) \o buf[a][t] = printed[a][t]
        BY <1>0, AtWork DEF NothingIsLost
      <3>3. CASE t = s
        <4>1. Part(h, t) = Frame(a, s)
          BY <1>4, <3>3 DEF Part
        <4>2. (Reading(out[a], t) \o Frame(a, s)) \o buf'[a][s]
                = Reading(out[a], t) \o (Frame(a, s) \o buf'[a][s])
          BY <1>3, <3>1, TextAssociative
        <4>3. Reading(out'[a], t) \o buf'[a][s] = Reading(out[a], t) \o buf[a][s]
          BY <1>3, <3>1, <4>1, <4>2, Zenon
        <4> QED BY <3>2, <3>3, <4>3
      <3>4. CASE t # s
        <4>1. Part(h, t) = <<>>
          BY <1>4, <3>4 DEF Part
        <4>2. Reading(out'[a], t) = Reading(out[a], t)
          BY <3>1, <4>1, ConcatEmptySeq DEF Text
        <4> QED BY <1>3, <3>2, <3>4, <4>2
      <3> QED BY <3>3, <3>4
    <2> QED BY <1>3, <2>1, <2>2, <2>3, <2>4 DEF StreamInv
  <1>9. \A b \in Attached : StreamInv(b)'
    BY <1>0, <1>3, <1>5, <1>6, <1>8, Elsewhere DEF StreamsOK
  <1> QED BY <1>7, <1>9 DEF StreamsOK

\* A frame that cannot be written is dropped, once the client is gone.
LEMMA WriteFailsKeeps ==
    ASSUME StreamsOK, NEW a \in Attached, NEW s \in Std, WriteFails(a, s)
    PROVE  StreamsOK'
  <1>0. /\ Held(a).by # "none" /\ Held(a).std = s /\ Frame(a, s) # <<>> /\ gone[a]
        /\ Consume(a, s)
        /\ lock' = [lock EXCEPT ![a][LockOf(s)].step = "next"]
        /\ UNCHANGED <<execs, session, timer, out, gone, printed>>
    BY StdValues DEF WriteFails, Writing, Holds, Held
  <1>1. RecordsOK /\ SessionsOK /\ LockOK /\ TextOK /\ FlagsOK /\ FlagTells
    BY StreamsParts
  <1>2. /\ buf' \in [Attached -> [Std -> Text]]
        /\ \A b \in Attached : b # a => buf'[b] = buf[b]
        /\ flusher' \in [Attached -> [Std -> BOOLEAN]]
        /\ FlagTells'
        /\ FlushedIsEmpty(a)'
    BY <1>0, ConsumeKeeps
  <1>3. /\ LockOK'
        /\ Held(a)'.by = Held(a).by /\ Held(a)'.std = s /\ Held(a)'.step = "next"
        /\ \A b \in Attached : b # a => lock'[b] = lock[b]
    BY <1>0, <1>1, LockStepped DEF Held
  <1>4. TypeOK'
    <2>1. TextOK'
      BY <1>0, <1>1, <1>2 DEF TextOK
    <2>2. RecordsOK' /\ SessionsOK' /\ FlagsOK'
      BY <1>0, <1>1, <1>2 DEF RecordsOK, SessionsOK, FlagsOK
    <2> QED BY <1>2, <1>3, <2>1, <2>2, TypePartsNext
  <1>5. StreamInv(a)'
    <2>1. HolderIsRight(a)'
      BY <1>0, <1>3, AtWork DEF HolderIsRight
    <2>2. HeaderIsOpen(a)' /\ NothingIsLost(a)'
      BY <1>0, <1>3 DEF HeaderIsOpen, NothingIsLost
    <2>3. Paired(out[a])'
      BY <1>0, AtWork
    <2> QED BY <1>2, <2>1, <2>2, <2>3 DEF StreamInv
  <1>6. \A b \in Attached : StreamInv(b)'
    BY <1>0, <1>2, <1>3, <1>5, Elsewhere DEF StreamsOK
  <1> QED BY <1>4, <1>6 DEF StreamsOK

\* A goroutine that gives the lock back has written the payload of its header.
LEMMA NothingIsOpen ==
    ASSUME StreamsOK, NEW a \in Attached, NEW s \in Std,
           Held(a).std = s, Frame(a, s) = <<>>, Unlock(a, s), out' = out, gone' = gone
    PROVE  /\ HeaderIsOpen(a)' /\ LockOK'
           /\ Held(a)'.by = "none" /\ Held(a)'.step = "next"
           /\ \A b \in Attached : b # a => lock'[b] = lock[b]
  <1>1. /\ LockOK'
        /\ Held(a)'.by = "none" /\ Held(a)'.step = "next"
        /\ \A b \in Attached : b # a => lock'[b] = lock[b]
    BY StreamsParts, LockReleased DEF Held
  <1>2. Held(a).step = "next"
    BY AtWork DEF HeaderIsOpen
  <1>3. HeaderIsOpen(a)'
    BY <1>1, <1>2, AtWork DEF HeaderIsOpen
  <1> QED BY <1>1, <1>3

\* Write returns, and sets the flag with the goroutine it starts.
LEMMA WriteReturnsKeeps ==
    ASSUME StreamsOK, NEW a \in Attached, NEW s \in Std, WriteReturns(a, s)
    PROVE  StreamsOK'
  <1>1. RecordsOK /\ SessionsOK /\ LockOK /\ TextOK /\ FlagsOK /\ FlagTells
    BY StreamsParts
  <1>2. PICK c \in BOOLEAN : c = (buf[a][s] # <<>> /\ ~flusher[a][s])
    OBVIOUS
  <1>3. PICK v \in BOOLEAN, w \in BOOLEAN :
          v = (flusher[a][s] \/ c) /\ w = (timer[a][s] \/ c)
    OBVIOUS
  <1>4. /\ Held(a).by = "copy" /\ Held(a).std = s /\ Frame(a, s) = <<>> /\ Unlock(a, s)
        /\ UNCHANGED <<execs, session, buf, out, gone, printed>>
    BY StdValues DEF WriteReturns, Holds, Held
  <1>5. /\ flusher' = [flusher EXCEPT ![a][s] = v]
        /\ timer' = [timer EXCEPT ![a][s] = w]
    BY <1>2, <1>3, Zenon DEF WriteReturns
  <1>6. /\ flusher' \in [Attached -> [Std -> BOOLEAN]] /\ flusher'[a][s] = v
        /\ \A t \in Std : t # s => flusher'[a][t] = flusher[a][t]
        /\ \A b \in Attached : b # a => flusher'[b] = flusher[b]
    BY <1>1, <1>5, Put DEF FlagsOK
  <1>7. /\ timer' \in [Attached -> [Std -> BOOLEAN]] /\ timer'[a][s] = w
        /\ \A t \in Std : t # s => timer'[a][t] = timer[a][t]
        /\ \A b \in Attached : b # a => timer'[b] = timer[b]
    BY <1>1, <1>5, Put DEF FlagsOK
  <1>8. FlagTells'
    <2> SUFFICES ASSUME NEW b \in Attached, NEW t \in Std, session[b].pc = "run", timer'[b][t]
                 PROVE  flusher'[b][t]
      BY <1>4, Zenon DEF FlagTells
    <2>1. timer[b][t] => flusher[b][t]
      BY <1>1 DEF FlagTells
    <2>2. CASE b # a
      BY <1>6, <1>7, <2>1, <2>2, Zenon
    <2>3. CASE b = a /\ t # s
      BY <1>6, <1>7, <2>1, <2>3, Zenon
    <2>4. CASE b = a /\ t = s
      BY <1>3, <1>6, <1>7, <2>1, <2>4, Zenon
    <2> QED BY <2>2, <2>3, <2>4
  <1>9. /\ HeaderIsOpen(a)' /\ LockOK' /\ Held(a)'.by = "none"
        /\ \A b \in Attached : b # a => lock'[b] = lock[b]
    BY <1>4, NothingIsOpen
  <1>10. TypeOK'
    <2>1. TextOK' /\ RecordsOK' /\ SessionsOK' /\ FlagsOK'
      BY <1>1, <1>4, <1>6, <1>7 DEF TextOK, RecordsOK, SessionsOK, FlagsOK
    <2> QED BY <1>8, <1>9, <2>1, TypePartsNext
  <1>11. StreamInv(a)'
    <2>1. session[a].pc = "run"
      BY <1>4, AtWork DEF HolderIsRight
    <2>2. HolderIsRight(a)' /\ FlushedIsEmpty(a)'
      BY <1>4, <1>9, <2>1 DEF HolderIsRight, FlushedIsEmpty
    <2>3. Paired(out[a])' /\ NothingIsLost(a)'
      BY <1>4, AtWork DEF NothingIsLost
    <2> QED BY <1>9, <2>2, <2>3 DEF StreamInv
  <1>12. \A b \in Attached : StreamInv(b)'
    BY <1>4, <1>7, <1>9, <1>11, Elsewhere DEF StreamsOK
  <1> QED BY <1>10, <1>12 DEF StreamsOK

\* Flush returns with an empty buffer, and the handler goes on.
LEMMA FlushReturnsKeeps ==
    ASSUME StreamsOK, NEW a \in Attached, NEW s \in Std, FlushReturns(a, s)
    PROVE  StreamsOK'
  <1>1. RecordsOK /\ SessionsOK /\ LockOK /\ TextOK /\ FlagsOK /\ FlagTells
    BY StreamsParts
  <1>2. /\ Held(a).std = s /\ Frame(a, s) = <<>> /\ Unlock(a, s)
        /\ Held(a).by \in {"timer", "end"}
        /\ UNCHANGED <<execs, buf, flusher, timer, out, gone, printed>>
        /\ \/ session' = session
           \/ /\ Held(a).by = "end"
              /\ session' = [session EXCEPT ![a].pc =
                               IF s = "stderr" THEN "stdout" ELSE "save"]
    BY StdValues DEF FlushReturns, Holds, Held
  <1>3. buf[a][s] = <<>>
    BY <1>2, StdValues DEF Frame, Held
  <1>4. /\ HeaderIsOpen(a)' /\ LockOK' /\ Held(a)'.by = "none"
        /\ \A b \in Attached : b # a => lock'[b] = lock[b]
    BY <1>2, NothingIsOpen
  <1>5. /\ SessionsOK'
        /\ \A b \in Attached : b # a => session'[b] = session[b]
        /\ \/ session'[a] = session[a]
           \/ session[a].pc = "stderr" /\ s = "stderr" /\ session'[a].pc = "stdout"
           \/ session[a].pc = "stdout" /\ s = "stdout" /\ session'[a].pc = "save"
    <2>1. CASE session' = session
      BY <1>1, <2>1 DEF SessionsOK
    <2>2. CASE /\ Held(a).by = "end"
               /\ session' = [session EXCEPT ![a].pc =
                                IF s = "stderr" THEN "stdout" ELSE "save"]
      <3>1. session[a].pc = s /\ a \in Session
        BY <1>2, <2>2, AtWork DEF HolderIsRight
      <3>2. CASE s = "stderr"
        BY <1>1, <2>2, <3>1, <3>2, SessionHasAttached DEF SessionsOK
      <3>3. CASE s = "stdout"
        BY <1>1, <2>2, <3>1, <3>3, SessionHasAttached DEF SessionsOK
      <3> QED BY <3>2, <3>3 DEF Std
    <2> QED BY <1>2, <2>1, <2>2
  <1>6. TypeOK'
    <2>1. TextOK' /\ RecordsOK' /\ FlagsOK'
      BY <1>1, <1>2 DEF TextOK, RecordsOK, FlagsOK
    <2>2. FlagTells'
      BY <1>1, <1>2, <1>5 DEF FlagTells
    <2> QED BY <1>4, <1>5, <2>1, <2>2, TypePartsNext
  <1>7. StreamInv(a)'
    <2>1. HolderIsRight(a)'
      BY <1>2, <1>4, <1>5, AtWork DEF HolderIsRight
    <2>2. FlushedIsEmpty(a)'
      BY <1>2, <1>3, <1>5, AtWork DEF FlushedIsEmpty
    <2>3. Paired(out[a])' /\ NothingIsLost(a)'
      BY <1>2, AtWork DEF NothingIsLost
    <2> QED BY <1>4, <2>1, <2>2, <2>3 DEF StreamInv
  <1>8. \A b \in Attached : StreamInv(b)'
    BY <1>2, <1>4, <1>5, <1>7, Elsewhere DEF StreamsOK
  <1> QED BY <1>6, <1>8 DEF StreamsOK

\* A client that goes away is owed nothing any more.
LEMMA ClientGoneKeeps ==
    ASSUME StreamsOK, NEW a \in Attached, ClientGone(a)
    PROVE  StreamsOK'
  <1>1. RecordsOK /\ SessionsOK /\ LockOK /\ TextOK /\ FlagsOK /\ FlagTells
    BY StreamsParts
  <1>2. /\ gone' = [gone EXCEPT ![a] = TRUE]
        /\ UNCHANGED <<execs, session, buf, flusher, timer, lock, out, printed>>
    BY DEF ClientGone
  <1>3. /\ gone' \in [Attached -> BOOLEAN] /\ gone'[a]
        /\ \A b \in Attached : b # a => gone'[b] = gone[b]
    BY <1>1, <1>2 DEF FlagsOK
  <1>4. TypeOK'
    <2>1. TextOK' /\ RecordsOK' /\ SessionsOK' /\ LockOK' /\ FlagTells'
      BY <1>1, <1>2 DEF TextOK, RecordsOK, SessionsOK, LockOK, FlagTells
    <2>2. FlagsOK'
      BY <1>1, <1>2, <1>3 DEF FlagsOK
    <2> QED BY <2>1, <2>2, TypePartsNext
  <1>5. StreamInv(a)'
    <2>1. HolderIsRight(a)' /\ FlushedIsEmpty(a)'
      BY <1>2, AtWork DEF HolderIsRight, FlushedIsEmpty, Held
    <2>2. HeaderIsOpen(a)'
      <3>1. \A s \in Std : Frame(a, s)' = Frame(a, s)
        BY <1>2 DEF Frame
      <3>2. Held(a)' = Held(a)
        BY <1>2 DEF Held
      <3>3. \A s \in Std : Held(a).step = "payload" /\ Held(a).std = s =>
              Held(a).by # "none" /\ Frame(a, s) # <<>>
        BY AtWork DEF HeaderIsOpen
      <3>4. \A s \in Std : Held(a)'.step = "payload" /\ Held(a)'.std = s =>
              Held(a)'.by # "none" /\ Frame(a, s)' # <<>>
        BY <3>1, <3>2, <3>3, Zenon
      <3> QED BY <1>3, <3>4, Zenon DEF HeaderIsOpen
    <2>3. Paired(out[a])' /\ NothingIsLost(a)'
      BY <1>2, <1>3, AtWork DEF NothingIsLost
    <2> QED BY <2>1, <2>2, <2>3 DEF StreamInv
  <1>6. \A b \in Attached : StreamInv(b)'
    BY <1>2, <1>3, <1>5, Elsewhere DEF StreamsOK
  <1> QED BY <1>4, <1>6 DEF StreamsOK

\* A step of a proxy, whichever goroutine takes it.
LEMMA ProxyKeeps ==
    ASSUME StreamsOK, NEW a \in Attached, NEW s \in Std, Proxy(a, s)
    PROVE  StreamsOK'
  BY WriteKeeps, LockKeeps, WriteHeaderKeeps, WritePayloadKeeps, WriteFailsKeeps,
     WriteReturnsKeeps, FlushReturnsKeeps DEF Proxy

----------------------------------------------------------------------------
(* The sessions and their records. *)

\* The handler goes on: it starts the command, the command ends and no
\* goroutine is copying, it saves the exit code, it closes the streams.
LEMMA HandlerKeeps ==
    ASSUME StreamsOK, NEW a \in Attached, UNCHANGED io,
           \/ session[a].pc = "idle" /\ session'[a].pc = "run"
           \/ session[a].pc = "run" /\ session'[a].pc = "stderr" /\ Copied(a)
           \/ session[a].pc = "save" /\ session'[a].pc = "close"
           \/ session[a].pc = "close" /\ session'[a].pc = "done"
    PROVE  StreamInv(a)'
  <1>1. UNCHANGED <<buf, flusher, timer, lock, out, gone, printed>>
    BY DEF io
  <1>2. Copied(a) => Held(a).by # "copy"
    BY StdValues DEF Copied, Held
  <1>3. HolderIsRight(a)'
    BY <1>1, <1>2, AtWork DEF HolderIsRight, Held, Std
  <1>4. FlushedIsEmpty(a)'
    BY <1>1, AtWork DEF FlushedIsEmpty
  <1>5. HeaderIsOpen(a)'
    <2>1. \A s \in Std : Frame(a, s)' = Frame(a, s)
      BY <1>1 DEF Frame
    <2>2. Held(a)' = Held(a)
      BY <1>1 DEF Held
    <2> QED BY <1>1, <2>1, <2>2, AtWork DEF HeaderIsOpen
  <1>6. Paired(out[a])' /\ NothingIsLost(a)'
    BY <1>1, AtWork DEF NothingIsLost
  <1> QED BY <1>3, <1>4, <1>5, <1>6 DEF StreamInv

\* What one step of a handler does to its session.
LEMMA SessionStep ==
    ASSUME SessionsOK, NEW a \in Session,
           \/ \E e \in Record : ExecStart(a, e)
           \/ CommandEnds(a) \/ SaveExec(a) \/ CloseStreams(a)
    PROVE  /\ \A b \in Session : b # a => session'[b] = session[b]
           /\ \/ /\ session[a].pc = "idle" /\ session'[a].pc = "run"
                 /\ session'[a].of \in Record
              \/ /\ session[a].pc = "run" /\ session'[a].pc = AfterCommand(a) /\ Copied(a)
                 /\ session'[a].of = session[a].of
              \/ /\ session[a].pc = "save" /\ session'[a].pc = "close"
                 /\ session'[a].of = session[a].of
                 /\ session'[a].ended = session[a].ended
                 /\ session'[a].code = session[a].code
              \/ /\ session[a].pc = "close" /\ session'[a].pc = "done"
                 /\ session'[a].of = session[a].of
                 /\ session'[a].ended = session[a].ended
                 /\ session'[a].code = session[a].code
  <1>1. CASE \E e \in Record : ExecStart(a, e)
    BY <1>1 DEF ExecStart, SessionsOK
  <1>2. CASE CommandEnds(a)
    <2> DEFINE p == AfterCommand(a)
    <2>1. /\ session[a].pc = "run" /\ Copied(a)
          /\ \/ \E k \in Codes : session' = [session EXCEPT ![a].pc = p, ![a].ended = "ok",
                                                            ![a].code = k]
             \/ session' = [session EXCEPT ![a].pc = p, ![a].ended = "error"]
      BY <1>2 DEF CommandEnds
    <2> HIDE DEF p
    <2>2. /\ session'[a].pc = p /\ session'[a].of = session[a].of
          /\ \A b \in Session : b # a => session'[b] = session[b]
      BY <2>1 DEF SessionsOK
    <2> QED BY <2>1, <2>2 DEF p
  <1>3. CASE SaveExec(a)
    BY <1>3 DEF SaveExec, SessionsOK
  <1>4. CASE CloseStreams(a)
    BY <1>4 DEF CloseStreams, SessionsOK
  <1> QED BY <1>1, <1>2, <1>3, <1>4

\* A step of a handler, whichever it is.
LEMMA SessionKeeps ==
    ASSUME StreamsOK, NEW a \in Session,
           \/ \E e \in Record : ExecStart(a, e)
           \/ CommandEnds(a) \/ SaveExec(a) \/ CloseStreams(a)
    PROVE  StreamsOK'
  <1>1. UNCHANGED io
    BY DEF ExecStart, CommandEnds, SaveExec, CloseStreams
  <1>2. \A b \in Attached : HolderIsRight(b)
    BY AtWork
  <1>3. TypeOK'
    BY <1>1, <1>2, RecordStepsType DEF StreamsOK
  <1>4. ASSUME NEW b \in Attached, b # a PROVE StreamInv(b)'
    <2>1. session'[b] = session[b]
      BY <1>4, StreamsParts, SessionStep, SessionHasAttached
    <2> QED BY <1>1, <2>1, Elsewhere DEF StreamsOK, io
  <1>5. ASSUME a \in Attached PROVE StreamInv(a)'
    <2>1. AfterCommand(a) = "stderr"
      BY <1>5 DEF AfterCommand
    <2> QED BY <1>1, <1>5, <2>1, StreamsParts, SessionStep, HandlerKeeps
  <1> QED BY <1>3, <1>4, <1>5 DEF StreamsOK

\* Steps of the records touch no stream.
LEMMA RecordKeeps ==
    ASSUME StreamsOK, NEW e \in Record, ContainerExec(e) \/ Age(e) \/ CleanExecs(e)
    PROVE  StreamsOK'
  <1>1. UNCHANGED <<session, io>>
    BY DEF ContainerExec, Age, CleanExecs
  <1>2. \A b \in Attached : HolderIsRight(b)
    BY AtWork
  <1>3. TypeOK'
    BY <1>1, <1>2, RecordStepsType DEF StreamsOK
  <1>4. \A b \in Attached : StreamInv(b)'
    BY <1>1, Elsewhere DEF StreamsOK, io
  <1> QED BY <1>3, <1>4 DEF StreamsOK

\* A step that saves no exit code and closes or reopens no other session
\* leaves the codes as they were.
LEMMA CodesKept ==
    ASSUME SessionHasRecord, CodeIsSaved,
           \A e \in Record : execs'[e].code = execs[e].code,
           \A b \in Session :
             /\ session'[b].pc \in {"close", "done"} /\ session'[b].ended = "ok" =>
                  session[b].pc \in {"close", "done"} /\ session[b].ended = "ok"
             /\ session[b].pc \in {"close", "done"} =>
                  /\ session'[b].pc \in {"close", "done"}
                  /\ session'[b].of = session[b].of
                  /\ session'[b].ended = session[b].ended
                  /\ session'[b].code = session[b].code
    PROVE  CodeIsSaved'
  <1> SUFFICES ASSUME NEW a \in Session,
                      session'[a].pc \in {"close", "done"}, session'[a].ended = "ok"
               PROVE  \E b \in Session : /\ session'[b].of = session'[a].of
                                         /\ session'[b].ended = "ok"
                                         /\ session'[b].pc \in {"close", "done"}
                                         /\ execs'[session'[a].of].code = session'[b].code
    BY Zenon DEF CodeIsSaved
  <1>1. /\ session[a].pc \in {"close", "done"} /\ session[a].ended = "ok"
        /\ session'[a].of = session[a].of /\ session[a].of \in Record
    BY DEF SessionHasRecord
  <1>2. PICK b \in Session : /\ session[b].of = session[a].of /\ session[b].ended = "ok"
                             /\ session[b].pc \in {"close", "done"}
                             /\ execs[session[a].of].code = session[b].code
    BY <1>1, Zenon DEF CodeIsSaved
  <1> QED BY <1>1, <1>2

\* SaveExec: the session that saves its code is the one whose code the record
\* now holds.
LEMMA SaveExecSaves ==
    ASSUME TypeOK, SessionHasRecord, CodeIsSaved, NEW a \in Session, SaveExec(a)
    PROVE  CodeIsSaved'
  <1>1. SessionsOK /\ RecordsOK
    BY TypeParts
  <1>2. /\ session[a].pc = "save" /\ session'[a].pc = "close"
        /\ session'[a].of = session[a].of /\ session'[a].ended = session[a].ended
        /\ session'[a].code = session[a].code
        /\ \A b \in Session : b # a => session'[b] = session[b]
    BY <1>1 DEF SaveExec, SessionsOK
  <1>3. CASE session[a].ended # "ok"
    <2>1. execs' = execs
      BY <1>3 DEF SaveExec
    <2> QED BY <1>2, <1>3, <2>1, CodesKept
  <1>4. CASE session[a].ended = "ok"
    <2>1. PICK e, k : e = session[a].of /\ k = session[a].code
      OBVIOUS
    <2>2. e \in Record
      BY <1>2, <2>1 DEF SessionHasRecord
    <2>3. execs' = [execs EXCEPT ![e].stored = TRUE, ![e].code = k]
      BY <1>4, <2>1 DEF SaveExec, Insert
    <2>4. /\ execs'[e].code = k
          /\ \A d \in Record : d # e => execs'[d].code = execs[d].code
      BY <1>1, <2>2, <2>3 DEF RecordsOK
    <2> SUFFICES ASSUME NEW c \in Session,
                        session'[c].pc \in {"close", "done"}, session'[c].ended = "ok"
                 PROVE  \E b \in Session : /\ session'[b].of = session'[c].of
                                           /\ session'[b].ended = "ok"
                                           /\ session'[b].pc \in {"close", "done"}
                                           /\ execs'[session'[c].of].code = session'[b].code
      BY Zenon DEF CodeIsSaved
    <2>5. CASE session'[c].of = e
      BY <1>2, <1>4, <2>1, <2>4, <2>5
    <2>6. CASE session'[c].of # e
      <3>1. c # a /\ session'[c] = session[c]
        BY <1>2, <2>1, <2>6
      <3>2. /\ session[c].pc \in {"close", "done"} /\ session[c].ended = "ok"
            /\ session[c].of \in Record
        BY <3>1 DEF SessionHasRecord
      <3>3. PICK b \in Session : /\ session[b].of = session[c].of /\ session[b].ended = "ok"
                                 /\ session[b].pc \in {"close", "done"}
                                 /\ execs[session[c].of].code = session[b].code
        BY <3>2, Zenon DEF CodeIsSaved
      <3>4. b # a /\ session'[b] = session[b]
        BY <1>2, <3>3
      <3> QED BY <2>4, <2>6, <3>1, <3>2, <3>3, <3>4
    <2> QED BY <2>5, <2>6
  <1> QED BY <1>3, <1>4

\* Every step keeps the sessions' records and their exit codes.
LEMMA CodesStep ==
    ASSUME ExecInv, [Next]_vars
    PROVE  SessionHasRecord' /\ CodeIsSaved'
  <1>1. SessionsOK /\ RecordsOK /\ SessionHasRecord /\ CodeIsSaved /\ StreamsOK
    BY TypeParts DEF ExecInv, StreamsOK
  <1>2. ASSUME NEW e \in Record, ContainerExec(e) \/ Age(e) \/ CleanExecs(e)
        PROVE  SessionHasRecord' /\ CodeIsSaved'
    <2>1. session' = session /\ \A d \in Record : execs'[d].code = execs[d].code
      BY <1>1, <1>2 DEF RecordsOK, ContainerExec, Age, CleanExecs
    <2> QED BY <1>1, <2>1, CodesKept DEF SessionHasRecord
  <1>3. ASSUME NEW a \in Session, SaveExec(a)
        PROVE  SessionHasRecord' /\ CodeIsSaved'
    <2>1. CodeIsSaved'
      BY <1>1, <1>3, SaveExecSaves DEF ExecInv
    <2> QED BY <1>1, <1>3, <2>1, SessionStep DEF SessionHasRecord, SaveExec
  <1>4. ASSUME NEW a \in Session,
               (\E e \in Record : ExecStart(a, e)) \/ CommandEnds(a) \/ CloseStreams(a)
        PROVE  SessionHasRecord' /\ CodeIsSaved'
    <2>1. execs' = execs /\ session[a].pc \in {"idle", "run", "close"}
      BY <1>4 DEF ExecStart, CommandEnds, CloseStreams
    <2>2. AfterCommand(a) \notin {"idle", "close", "done"}
      BY DEF AfterCommand
    <2> QED BY <1>1, <1>4, <2>1, <2>2, SessionStep, CodesKept DEF SessionHasRecord
  <1>5. ASSUME NEW a \in Attached, ClientGone(a) \/ \E s \in Std : Proxy(a, s)
        PROVE  SessionHasRecord' /\ CodeIsSaved'
    <2>1. /\ execs' = execs
          /\ \/ session' = session
             \/ \E s \in Std : FlushReturns(a, s)
      BY <1>5 DEF ClientGone, Proxy, Write, FlushTimer, FlushAtEnd, WriteHeader,
                  WritePayload, WriteFails, WriteReturns, FlushReturns
    <2>2. CASE session' = session
      BY <1>1, <2>1, <2>2, CodesKept DEF SessionHasRecord
    <2>3. ASSUME NEW s \in Std, FlushReturns(a, s), session' # session
          PROVE  SessionHasRecord' /\ CodeIsSaved'
      <3>1. PICK p \in {"stdout", "save"} :
              Held(a).by = "end" /\ Held(a).std = s /\ session' = [session EXCEPT ![a].pc = p]
        BY <2>3, StdValues DEF FlushReturns, Holds, Held
      <3>2. session[a].pc \in Std /\ a \in Session
        BY <1>1, <3>1, AtWork DEF HolderIsRight
      <3>3. /\ session'[a].pc = p /\ session'[a].of = session[a].of
            /\ \A b \in Session : b # a => session'[b] = session[b]
        BY <1>1, <3>1, <3>2 DEF SessionsOK
      <3> QED BY <1>1, <2>1, <3>2, <3>3, CodesKept DEF SessionHasRecord, Std
    <2> QED BY <2>1, <2>2, <2>3
  <1>6. CASE UNCHANGED vars
    BY <1>1, <1>6, CodesKept DEF vars, SessionHasRecord
  <1> QED BY <1>2, <1>3, <1>4, <1>5, <1>6 DEF Next

----------------------------------------------------------------------------
(* The theorems. *)

\* ExecInv holds initially.
LEMMA InvInit == Init => ExecInv
  <1> SUFFICES ASSUME Init PROVE ExecInv
    OBVIOUS
  <1>1. TypeOK
    BY TypeInit
  <1>2. SessionHasRecord /\ CodeIsSaved
    BY DEF Init, SessionHasRecord, CodeIsSaved
  <1>3. ASSUME NEW a \in Attached PROVE StreamInv(a)
    <2>1. /\ session[a].pc = "idle" /\ Held(a) = Free /\ out[a] = <<>> /\ ~gone[a]
          /\ \A s \in Std : ~timer[a][s] /\ buf[a][s] = <<>> /\ printed[a][s] = <<>>
      BY StdValues, SessionHasAttached DEF Init, Held
    <2>2. HolderIsRight(a) /\ FlushedIsEmpty(a)
      BY <2>1 DEF HolderIsRight, FlushedIsEmpty, Free
    <2>3. HeaderIsOpen(a) /\ Paired(out[a])
      BY <2>1, EmptySeq DEF HeaderIsOpen, Paired, Free
    <2>4. NothingIsLost(a)
      <3>1. <<>> \o <<>> = <<>>
        BY ConcatEmptySeq, EmptySeq
      <3> QED BY <2>1, <3>1, ReadingNothing DEF NothingIsLost
    <2> QED BY <2>2, <2>3, <2>4 DEF StreamInv
  <1> QED BY <1>1, <1>2, <1>3 DEF ExecInv

\* ExecInv is kept by every step.
LEMMA InvStep == ExecInv /\ [Next]_vars => ExecInv'
  <1> SUFFICES ASSUME ExecInv, [Next]_vars PROVE ExecInv'
    OBVIOUS
  <1>1. SessionHasRecord' /\ CodeIsSaved'
    BY CodesStep
  <1>2. StreamsOK
    BY DEF ExecInv, StreamsOK
  <1>3. StreamsOK'
    <2>1. CASE UNCHANGED vars
      <3>1. UNCHANGED <<execs, session, buf, flusher, timer, lock, out, gone, printed>>
        BY <2>1 DEF vars, io
      <3>2. (RecordsOK /\ SessionsOK /\ LockOK /\ TextOK /\ FlagsOK /\ FlagTells)'
        BY <1>2, <3>1, StreamsParts
        DEF RecordsOK, SessionsOK, LockOK, TextOK, FlagsOK, FlagTells
      <3>3. TypeOK'
        BY <3>2, TypePartsNext
      <3>4. \A b \in Attached : StreamInv(b)'
        BY <1>2, <3>1, Elsewhere DEF StreamsOK
      <3> QED BY <3>3, <3>4 DEF StreamsOK
    <2>2. CASE Next
      BY <1>2, <2>2, RecordKeeps, SessionKeeps, ClientGoneKeeps, ProxyKeeps DEF Next
    <2> QED BY <2>1, <2>2
  <1> QED BY <1>1, <1>3 DEF ExecInv, StreamsOK

\* ExecInv is an invariant of exec instances: who holds the lock, what an open
\* header announces, where the output is, and which codes are saved.
LEMMA ExecInvHolds == Spec => []ExecInv
  <1> QED BY InvInit, InvStep, PTL DEF Spec

\* Type correctness, and the claim of IoProxy.Write that while the command runs
\* the flag of a proxy is set whenever a goroutine is due to flush it.
THEOREM ExecTypeCorrect == Spec => []TypeOK
  <1>1. ExecInv => TypeOK
    BY DEF ExecInv
  <1> QED BY <1>1, ExecInvHolds, PTL

\* Whichever goroutines write, and whatever fails, the connection to the client
\* of ExecStart is a sequence of frames, each header followed by the payload of
\* the stream and the length it announces.
THEOREM FramesAlwaysWhole == Spec => []FramesAreWhole
  <1>1. ExecInv => FramesAreWhole
    BY DEF ExecInv, StreamInv, Paired, FramesAreWhole
  <1> QED BY <1>1, ExecInvHolds, PTL

\* A client that stays receives exactly what the command printed on each
\* stream, in order, and all of it before ExecStart closes the streams.
THEOREM OutputAlwaysComplete == Spec => []OutputIsComplete
  <1>1. ExecInv => OutputIsComplete
    BY ReceivedIsReading DEF ExecInv, StreamInv, NothingIsLost, FlushedIsEmpty,
                             OutputIsComplete, Std
  <1> QED BY <1>1, ExecInvHolds, PTL

\* A scheduled flush that gets the lock after ExecStart has closed the streams
\* finds the buffer empty and writes nothing.
THEOREM AlwaysSilentAfterClose == Spec => SilentAfterClose
  <1>1. ASSUME ExecInv, [Next]_vars, NEW a \in Attached, session[a].pc = "done"
        PROVE  out'[a] = out[a]
    <2>1. StreamsOK
      BY <1>1 DEF ExecInv, StreamsOK
    <2>2. Held(a).by \notin {"copy", "end"} /\ \A s \in Std : buf[a][s] = <<>>
      BY <1>1, <2>1, AtWork DEF HolderIsRight, FlushedIsEmpty, Std
    <2>3. \A s \in Std : Frame(a, s) = <<>>
      BY <2>2, StdValues DEF Frame, Held
    <2>4. Held(a).step # "payload"
      BY <2>1, <2>3, AtWork DEF HeaderIsOpen
    <2>5. \A s \in Std : ~WriteHeader(a, s) /\ ~WritePayload(a, s)
      BY <2>3, <2>4, StdValues DEF WriteHeader, WritePayload, Held
    <2>6. ASSUME NEW b \in Attached, NEW s \in Std, WriteHeader(b, s) \/ WritePayload(b, s)
          PROVE  out'[a] = out[a]
      <3>1. b # a
        BY <2>5, <2>6
      <3>2. TextOK
        BY <2>1, StreamsParts
      <3> QED BY <2>6, <3>1, <3>2 DEF WriteHeader, WritePayload, TextOK
    <2>7. out' = out \/ \E b \in Attached, s \in Std : WriteHeader(b, s) \/ WritePayload(b, s)
      <3>1. ASSUME NEW b \in Attached, NEW s \in Std, Proxy(b, s)
            PROVE  out' = out \/ WriteHeader(b, s) \/ WritePayload(b, s)
        BY <3>1 DEF Proxy, Write, FlushTimer, FlushAtEnd, WriteFails, WriteReturns,
                    FlushReturns
      <3>2. ASSUME NEW b \in Attached, ClientGone(b) PROVE out' = out
        BY <3>2 DEF ClientGone
      <3>3. ASSUME NEW e \in Record, ContainerExec(e) \/ Age(e) \/ CleanExecs(e)
            PROVE  out' = out
        BY <3>3 DEF ContainerExec, Age, CleanExecs, io
      <3>4. ASSUME NEW b \in Session,
                   \/ \E e \in Record : ExecStart(b, e)
                   \/ CommandEnds(b) \/ SaveExec(b) \/ CloseStreams(b)
            PROVE  out' = out
        <4>1. UNCHANGED io
          BY <3>4 DEF ExecStart, CommandEnds, SaveExec, CloseStreams
        <4> QED BY <4>1 DEF io
      <3>5. CASE UNCHANGED vars
        BY <3>5 DEF vars, io
      <3> QED BY <1>1, <3>1, <3>2, <3>3, <3>4, <3>5 DEF Next
    <2> QED BY <2>6, <2>7
  <1>2. ExecInv /\ [Next]_vars =>
          [\A a \in Attached : session[a].pc = "done" => out'[a] = out[a]]_vars
    BY <1>1
  <1> QED BY <1>2, ExecInvHolds, PTL DEF Spec, SilentAfterClose

\* When ExecStart closes the streams, the record holds the exit code of this
\* session or of another one of the same record that has saved its own.
THEOREM CodeAlwaysBeforeClose == Spec => []CodeBeforeClose
  <1>1. ExecInv => CodeBeforeClose
    BY Zenon DEF ExecInv, CodeIsSaved, CodeBeforeClose
  <1> QED BY <1>1, ExecInvHolds, PTL

=============================================================================
