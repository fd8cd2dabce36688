---------------------------- MODULE EventsProofs ----------------------------
(* Proofs about Events, for any sets of publishers and subscribers and any  *)
(* number of events.                                                        *)
EXTENDS Events, TLAPS

\* The observers are the subscribers that have come and not left.
ObserversSubscribed ==
    \A s \in Subscriber : s \in observers <=> sub[s] = "subscribed"

\* A subscriber is known to nobody before it subscribes.
NewIsUntouched ==
    \A s \in Subscriber : sub[s] = "new" =>
        /\ got[s] = {}
        /\ chan[s] = NoMsg
        /\ \A p \in Publisher : s \notin pub[p].left /\ pub[p].target # s
        /\ \A m \in Msg : s \notin audience[m]

\* A send has a target the iteration has produced already; there are no
\* leftovers of an iteration that has ended.
PublisherShape ==
    \A p \in Publisher :
        /\ pub[p].pc = "send" <=> pub[p].target \in Subscriber
        /\ pub[p].target \notin pub[p].left
        /\ pub[p].pc = "idle" => pub[p].left = {}
        /\ pub[p].pc # "idle" => pub[p].n >= 1

\* What p still has to send to s.
Owes(p, s) == s \in pub[p].left \/ pub[p].target = s

\* Nothing is delivered before it is published, and an observer the
\* iteration has not served yet has only older messages.
DeliveredIsOlder ==
    \A s \in Subscriber : \A p \in Publisher : \A k \in 1..MaxEvents :
        Delivered(s, <<p, k>>) =>
            /\ k <= pub[p].n
            /\ Owes(p, s) => k < pub[p].n

\* Whoever was there when the current iteration began has the message, or
\* the iteration will still get to it.
ServedOrOwed ==
    \A p \in Publisher : pub[p].pc # "idle" =>
        \A s \in audience[Current(p)] : sub[s] = "subscribed" =>
            Owes(p, s) \/ Delivered(s, Current(p))

\* InOrder and NoLostEvent, spelled out over publishers and numbers.
Ordered ==
    \A s \in Subscriber : \A p \in Publisher : \A j, k \in 1..MaxEvents :
        <<p, j>> \in got[s] /\ chan[s] = <<p, k>> => j < k

Complete ==
    \A p \in Publisher : \A k \in 1..MaxEvents :
        k <= pub[p].n /\ (k = pub[p].n => pub[p].pc = "idle") =>
            \A s \in audience[<<p, k>>] :
                sub[s] = "subscribed" => Delivered(s, <<p, k>>)

\* The inductive invariant.
EventsInv ==
    /\ TypeOK
    /\ ObserversSubscribed
    /\ NewIsUntouched
    /\ PublisherShape
    /\ DeliveredIsOlder
    /\ ServedOrOwed
    /\ Ordered
    /\ Complete
    /\ NoSendToGone

----------------------------------------------------------------------------
\* A message is its publisher and its number.
LEMMA MsgNumber ==
    ASSUME NEW m \in Msg
    PROVE  /\ m[1] \in Publisher /\ m[2] \in 1..MaxEvents
           /\ m = <<m[1], m[2]>> /\ m # NoMsg
  BY NoMsgAssumption, EventsAssumption DEF Msg

\* A publisher and a number are a message.
LEMMA MsgPair ==
    ASSUME NEW p \in Publisher, NEW k \in 1..MaxEvents
    PROVE  <<p, k>> \in Msg /\ <<p, k>> # NoMsg
  BY NoMsgAssumption, EventsAssumption DEF Msg

\* The fields of a publisher determine its type.
LEMMA PubFields ==
    ASSUME NEW pc0 \in {"idle", "range", "send"}, NEW n0 \in 0..MaxEvents,
           NEW left0 \in SUBSET Subscriber,
           NEW target0 \in Subscriber \cup {NoSubscriber}, NEW caught0 \in BOOLEAN
    PROVE  [pc |-> pc0, n |-> n0, left |-> left0, target |-> target0,
            caught |-> caught0] \in Pub
  BY DEF Pub

\* The record of a publisher whose iteration has ended.
LEMMA PubIdle ==
    ASSUME NEW r \in Pub, NEW left0 \in SUBSET Subscriber
    PROVE  [r EXCEPT !.pc = "idle", !.left = left0] =
             [pc |-> "idle", n |-> r.n, left |-> left0, target |-> r.target,
              caught |-> r.caught]
  <1> DEFINE q == [r EXCEPT !.pc = "idle", !.left = left0]
  <1>1. /\ q \in Pub
        /\ q.pc = "idle" /\ q.left = left0 /\ q.n = r.n
        /\ q.target = r.target /\ q.caught = r.caught
    BY DEF Pub
  <1>2. \A z \in Pub : z = [pc |-> z.pc, n |-> z.n, left |-> z.left,
                            target |-> z.target, caught |-> z.caught]
    BY DEF Pub
  <1> HIDE DEF q
  <1>3. q = [pc |-> "idle", n |-> r.n, left |-> left0, target |-> r.target,
             caught |-> r.caught]
    BY <1>1, <1>2
  <1> QED BY <1>3 DEF q

\* Marking a publisher as caught changes nothing else about it.
LEMMA PubCaught ==
    ASSUME NEW q \in Pub, NEW z, z = [q EXCEPT !.caught = TRUE]
    PROVE  /\ z \in Pub
           /\ z.pc = q.pc /\ z.n = q.n /\ z.target = q.target
           /\ z.left = q.left
  BY DEF Pub

\* EventsInv holds initially.
LEMMA EventsInvInit == Init => EventsInv
  <1> SUFFICES ASSUME Init PROVE EventsInv
    OBVIOUS
  <1> USE SubscriberAssumption, EventsAssumption DEF Init
  <1>1. TypeOK
    <2>1. 0 \in 0..MaxEvents
      OBVIOUS
    <2>2. [pc |-> "idle", n |-> 0, left |-> {}, target |-> NoSubscriber,
           caught |-> FALSE] \in Pub
      BY <2>1, PubFields, Zenon
    <2> QED BY <2>2 DEF TypeOK
  <1>2. ObserversSubscribed /\ NewIsUntouched /\ PublisherShape
    BY DEF ObserversSubscribed, NewIsUntouched, PublisherShape
  <1>3. \A s \in Subscriber : \A p \in Publisher : \A k \in 1..MaxEvents :
            ~Delivered(s, <<p, k>>)
    BY MsgPair DEF Delivered
  <1>4. DeliveredIsOlder /\ Ordered
    BY <1>3 DEF DeliveredIsOlder, Ordered, Delivered
  <1>5. ServedOrOwed /\ NoSendToGone
    BY DEF ServedOrOwed, NoSendToGone
  <1>6. Complete
    BY DEF Complete
  <1> QED BY <1>1, <1>2, <1>4, <1>5, <1>6 DEF EventsInv

\* EventsInv is kept by every step.
LEMMA EventsInvNext == EventsInv /\ [Next]_vars => EventsInv'
  <1> SUFFICES ASSUME EventsInv, [Next]_vars PROVE EventsInv'
    OBVIOUS
  <1> USE SubscriberAssumption, EventsAssumption, MsgPair
  <1>t. /\ TypeOK /\ ObserversSubscribed /\ NewIsUntouched /\ PublisherShape
        /\ DeliveredIsOlder /\ ServedOrOwed /\ Ordered /\ Complete /\ NoSendToGone
    BY DEF EventsInv
  <1>1. ASSUME NEW p0 \in Publisher, Publish(p0) PROVE EventsInv'
    <2>1. TypeOK'
      BY <1>t, <1>1 DEF TypeOK, Pub, Publish
    <2>2. ObserversSubscribed'
      BY <1>t, <1>1 DEF TypeOK, Pub, ObserversSubscribed, Publish
    <2>3. NewIsUntouched'
      BY <1>t, <1>1 DEF TypeOK, Pub, NewIsUntouched, Publish, ObserversSubscribed, PublisherShape
    <2>4. PublisherShape'
      BY <1>t, <1>1 DEF TypeOK, Pub, PublisherShape, Publish, NewIsUntouched, ObserversSubscribed
    <2>5. DeliveredIsOlder'
      BY <1>t, <1>1 DEF TypeOK, Pub, DeliveredIsOlder, Delivered, Owes, Publish, NewIsUntouched, PublisherShape, ObserversSubscribed
    <2>6. ServedOrOwed'
      BY <1>t, <1>1 DEF TypeOK, Pub, ServedOrOwed, Delivered, Owes, Current, Publish, PublisherShape, ObserversSubscribed, DeliveredIsOlder, NewIsUntouched
    <2>7. Ordered'
      BY <1>t, <1>1 DEF TypeOK, Pub, Ordered, Publish, DeliveredIsOlder, Delivered, Owes, PublisherShape
    <2>8. Complete'
      BY <1>t, <1>1 DEF TypeOK, Pub, Complete, Delivered, Publish, ServedOrOwed, Owes, Current, PublisherShape, ObserversSubscribed, NewIsUntouched
    <2>9. NoSendToGone'
      BY <1>t, <1>1 DEF TypeOK, Pub, NoSendToGone, Publish, PublisherShape, ObserversSubscribed, NewIsUntouched
    <2> QED BY <2>1, <2>2, <2>3, <2>4, <2>5, <2>6, <2>7, <2>8, <2>9 DEF EventsInv
  <1>2. ASSUME NEW p0 \in Publisher, Range(p0) PROVE EventsInv'
    <2>a. /\ pub[p0].pc = "range" /\ pub[p0] \in Pub
          /\ UNCHANGED <<sub, observers, chan, got, audience, crashed>>
      BY <1>t, <1>2 DEF Range, TypeOK
    <2>b. ASSUME NEW s0 \in pub[p0].left \cap observers,
                 pub' = [pub EXCEPT ![p0].pc = "send", ![p0].target = s0,
                                    ![p0].left = pub[p0].left \ {s0}]
          PROVE  EventsInv'
      <3>a. /\ s0 \in Subscriber
            /\ pub' = [pub EXCEPT ![p0] =
                         [pc |-> "send", n |-> pub[p0].n, left |-> pub[p0].left \ {s0},
                          target |-> s0, caught |-> pub[p0].caught]]
        BY <1>t, <2>a, <2>b DEF TypeOK, Pub
      <3>1. TypeOK'
        BY <1>t, <2>a, <2>b, <3>a DEF TypeOK, Pub
      <3>2. ObserversSubscribed'
        BY <1>t, <2>a, <2>b, <3>a DEF ObserversSubscribed
      <3>3. NewIsUntouched'
        BY <1>t, <2>a, <2>b, <3>a DEF TypeOK, Pub, NewIsUntouched, ObserversSubscribed
      <3>4. PublisherShape'
        BY <1>t, <2>a, <2>b, <3>a DEF TypeOK, Pub, PublisherShape, NewIsUntouched, ObserversSubscribed
      <3>5. DeliveredIsOlder'
        BY <1>t, <2>a, <2>b, <3>a DEF TypeOK, Pub, DeliveredIsOlder, Delivered, Owes, PublisherShape, NewIsUntouched
      <3>6. ServedOrOwed'
        BY <1>t, <2>a, <2>b, <3>a DEF TypeOK, Pub, ServedOrOwed, Delivered, Owes, Current, PublisherShape, ObserversSubscribed
      <3>7. Ordered'
        BY <1>t, <2>a, <2>b, <3>a DEF Ordered
      <3>8. Complete'
        BY <1>t, <2>a, <2>b, <3>a DEF TypeOK, Pub, Complete, Delivered, ServedOrOwed, Owes, Current, PublisherShape, ObserversSubscribed
      <3>9. NoSendToGone'
        BY <1>t, <2>a, <2>b, <3>a DEF TypeOK, Pub, NoSendToGone, PublisherShape, ObserversSubscribed, NewIsUntouched
      <3> QED BY <3>1, <3>2, <3>3, <3>4, <3>5, <3>6, <3>7, <3>8, <3>9 DEF EventsInv
    <2>c. ASSUME pub[p0].left \cap observers = {},
                 pub' = [pub EXCEPT ![p0].pc = "idle", ![p0].left = {}]
          PROVE  EventsInv'
      <3>b. [pub[p0] EXCEPT !.pc = "idle", !.left = {}] =
              [pc |-> "idle", n |-> pub[p0].n, left |-> {},
               target |-> pub[p0].target, caught |-> pub[p0].caught]
        BY <2>a, PubIdle, Zenon
      <3>a. pub' = [pub EXCEPT ![p0] =
                     [pc |-> "idle", n |-> pub[p0].n, left |-> {},
                      target |-> pub[p0].target, caught |-> pub[p0].caught]]
        BY <1>t, <2>a, <2>c, <3>b DEF TypeOK
      <3>c. [pc |-> "idle", n |-> pub[p0].n, left |-> {},
             target |-> pub[p0].target, caught |-> pub[p0].caught] \in Pub
        <4>1. /\ pub[p0].n \in 0..MaxEvents /\ pub[p0].caught \in BOOLEAN
              /\ pub[p0].target \in Subscriber \cup {NoSubscriber}
          BY <2>a DEF Pub
        <4> QED BY <4>1, PubFields, Zenon
      <3>1. TypeOK'
        BY <1>t, <2>a, <2>c, <3>a, <3>c DEF TypeOK
      <3>2. ObserversSubscribed'
        BY <1>t, <2>a, <2>c, <3>a DEF ObserversSubscribed
      <3>3. NewIsUntouched'
        BY <1>t, <2>a, <2>c, <3>a DEF TypeOK, Pub, NewIsUntouched, ObserversSubscribed
      <3>4. PublisherShape'
        BY <1>t, <2>a, <2>c, <3>a DEF TypeOK, Pub, PublisherShape, NewIsUntouched, ObserversSubscribed
      <3>5. DeliveredIsOlder'
        BY <1>t, <2>a, <2>c, <3>a DEF TypeOK, Pub, DeliveredIsOlder, Delivered, Owes, PublisherShape, NewIsUntouched
      <3>6. ServedOrOwed'
        BY <1>t, <2>a, <2>c, <3>a DEF TypeOK, Pub, ServedOrOwed, Delivered, Owes, Current, PublisherShape, ObserversSubscribed
      <3>7. Ordered'
        BY <1>t, <2>a, <2>c, <3>a DEF Ordered
      <3>8. Complete'
        BY <1>t, <2>a, <2>c, <3>a DEF TypeOK, Pub, Complete, Delivered, ServedOrOwed, Owes, Current, PublisherShape, ObserversSubscribed
      <3>9. NoSendToGone'
        BY <1>t, <2>a, <2>c, <3>a DEF TypeOK, Pub, NoSendToGone, PublisherShape, ObserversSubscribed, NewIsUntouched
      <3> QED BY <3>1, <3>2, <3>3, <3>4, <3>5, <3>6, <3>7, <3>8, <3>9 DEF EventsInv
    <2> QED BY <1>2, <2>b, <2>c DEF Range
  <1>3. ASSUME NEW p0 \in Publisher, Send(p0) PROVE EventsInv'
    <2>a. Current(p0) \in Msg
      BY <1>t, <1>3 DEF TypeOK, Pub, Send, Current, PublisherShape
    <2>1. TypeOK'
      BY <1>t, <1>3, <2>a DEF TypeOK, Pub, Send, PublisherShape
    <2>2. ObserversSubscribed'
      BY <1>t, <1>3 DEF TypeOK, Pub, ObserversSubscribed, Send, Current
    <2>3. NewIsUntouched'
      BY <1>t, <1>3 DEF TypeOK, Pub, NewIsUntouched, Send, ObserversSubscribed, PublisherShape, Current
    <2>4. PublisherShape'
      BY <1>t, <1>3 DEF TypeOK, Pub, PublisherShape, Send, NewIsUntouched, ObserversSubscribed, Current
    <2>5. DeliveredIsOlder'
      BY <1>t, <1>3 DEF TypeOK, Pub, DeliveredIsOlder, Delivered, Owes, Send, NewIsUntouched, PublisherShape, ObserversSubscribed, Current
    <2>6. ServedOrOwed'
      BY <1>t, <1>3 DEF TypeOK, Pub, ServedOrOwed, Delivered, Owes, Current, Send, PublisherShape, ObserversSubscribed, DeliveredIsOlder, NewIsUntouched
    <2>7. Ordered'
      <3> SUFFICES ASSUME NEW s \in Subscriber, NEW p \in Publisher,
                          NEW j \in 1..MaxEvents, NEW k \in 1..MaxEvents,
                          <<p, j>> \in got'[s], chan'[s] = <<p, k>>
                   PROVE  j < k
        BY DEF Ordered
      <3>1. got' = got
        BY <1>3 DEF Send
      <3>2. CASE s = pub[p0].target
        <4>1. chan'[s] = Current(p0)
          BY <1>t, <1>3, <3>2 DEF TypeOK, Send
        <4>2. p = p0 /\ k = pub[p0].n
          BY <4>1 DEF Current
        <4>3. Delivered(s, <<p0, j>>) /\ Owes(p0, s)
          BY <3>1, <3>2, <4>2 DEF Delivered, Owes
        <4> QED BY <1>t, <4>2, <4>3 DEF DeliveredIsOlder
      <3>3. CASE s # pub[p0].target
        BY <1>t, <1>3, <3>1, <3>3 DEF TypeOK, Send, Ordered
      <3> QED BY <3>2, <3>3
    <2>8. Complete'
      BY <1>t, <1>3 DEF TypeOK, Pub, Complete, Delivered, Send, ServedOrOwed, Owes, Current, PublisherShape, ObserversSubscribed, NewIsUntouched
    <2>9. NoSendToGone'
      BY <1>t, <1>3 DEF TypeOK, Pub, NoSendToGone, Send, PublisherShape, ObserversSubscribed, NewIsUntouched, Current
    <2> QED BY <2>1, <2>2, <2>3, <2>4, <2>5, <2>6, <2>7, <2>8, <2>9 DEF EventsInv
  <1>4. ASSUME NEW s0 \in Subscriber, Subscribe(s0) PROVE EventsInv'
    <2>a. /\ sub[s0] = "new"
          /\ sub' = [sub EXCEPT ![s0] = "subscribed"]
          /\ observers' = observers \cup {s0}
          /\ crashed' \in BOOLEAN
          /\ UNCHANGED <<chan, got, audience>>
      BY <1>4 DEF Subscribe
    <2>b. PICK P \in SUBSET {p \in Publisher : pub[p].pc # "idle"} :
            pub' = [p \in Publisher |->
                      IF p \in P THEN [pub[p] EXCEPT !.left = @ \cup {s0}] ELSE pub[p]]
      BY <1>4 DEF Subscribe
    <2>c. ASSUME NEW p \in Publisher
          PROVE  /\ pub'[p] \in Pub
                 /\ pub'[p].pc = pub[p].pc /\ pub'[p].n = pub[p].n
                 /\ pub'[p].target = pub[p].target /\ pub'[p].caught = pub[p].caught
                 /\ pub'[p].left = IF p \in P THEN pub[p].left \cup {s0} ELSE pub[p].left
                 /\ p \in P => pub[p].pc # "idle"
      <3>1. pub[p] \in Pub /\ pub[p].left \cup {s0} \in SUBSET Subscriber
        BY <1>t DEF TypeOK, Pub
      <3>2. CASE p \in P
        <4>1. pub'[p] = [pub[p] EXCEPT !.left = pub[p].left \cup {s0}]
          BY <2>b, <3>2
        <4>2. p \in P => pub[p].pc # "idle"
          BY <2>b
        <4>3. /\ pub'[p] \in Pub
              /\ pub'[p].pc = pub[p].pc /\ pub'[p].n = pub[p].n
              /\ pub'[p].target = pub[p].target /\ pub'[p].caught = pub[p].caught
              /\ pub'[p].left = pub[p].left \cup {s0}
          <5> DEFINE q == pub[p]
                     z == pub'[p]
                     left0 == pub[p].left \cup {s0}
          <5>1. q \in Pub /\ left0 \in SUBSET Subscriber /\ z = [q EXCEPT !.left = left0]
            BY <3>1, <4>1
          <5> HIDE DEF q, z, left0
          <5>2. /\ z \in Pub
                /\ z.pc = q.pc /\ z.n = q.n /\ z.target = q.target
                /\ z.caught = q.caught /\ z.left = left0
            BY <5>1 DEF Pub
          <5> QED BY <5>2, Zenon DEF q, z, left0
        <4> QED BY <3>2, <4>2, <4>3, Zenon
      <3>3. CASE p \notin P
        BY <2>b, <3>1, <3>3
      <3> QED BY <3>2, <3>3
    <2>d. /\ \A m \in Msg : s0 \notin audience[m]
          /\ got[s0] = {} /\ chan[s0] = NoMsg
      BY <1>t, <2>a DEF NewIsUntouched, Msg
    <2>1. TypeOK'
      BY <1>t, <2>a, <2>b, <2>c, <2>d DEF TypeOK, Pub
    <2>2. ObserversSubscribed'
      BY <1>t, <2>a DEF TypeOK, ObserversSubscribed
    <2>3. NewIsUntouched'
      BY <1>t, <2>a, <2>b, <2>c, <2>d DEF TypeOK, Pub, NewIsUntouched
    <2>4. PublisherShape'
      BY <1>t, <2>a, <2>b, <2>c, <2>d DEF TypeOK, Pub, PublisherShape, NewIsUntouched, ObserversSubscribed
    <2>5. DeliveredIsOlder'
      BY <1>t, <2>a, <2>b, <2>c, <2>d DEF TypeOK, Pub, DeliveredIsOlder, Delivered, Owes, PublisherShape, NewIsUntouched
    <2>6. ServedOrOwed'
      BY <1>t, <2>a, <2>b, <2>c, <2>d DEF TypeOK, Pub, ServedOrOwed, Delivered, Owes, Current, PublisherShape, ObserversSubscribed
    <2>7. Ordered'
      BY <1>t, <2>a, <2>b, <2>c, <2>d DEF Ordered
    <2>8. Complete'
      BY <1>t, <2>a, <2>b, <2>c, <2>d DEF TypeOK, Pub, Complete, Delivered, ServedOrOwed, Owes, Current, PublisherShape, ObserversSubscribed
    <2>9. NoSendToGone'
      BY <1>t, <2>a, <2>b, <2>c, <2>d DEF TypeOK, Pub, NoSendToGone, PublisherShape, ObserversSubscribed, NewIsUntouched
    <2> QED BY <2>1, <2>2, <2>3, <2>4, <2>5, <2>6, <2>7, <2>8, <2>9 DEF EventsInv
  <1>5. ASSUME NEW s0 \in Subscriber, Receive(s0) PROVE EventsInv'
    <2>1. TypeOK'
      BY <1>t, <1>5 DEF TypeOK, Pub, Receive
    <2>2. ObserversSubscribed'
      BY <1>t, <1>5 DEF TypeOK, Pub, ObserversSubscribed, Receive
    <2>3. NewIsUntouched'
      BY <1>t, <1>5 DEF TypeOK, Pub, NewIsUntouched, Receive, ObserversSubscribed, PublisherShape
    <2>4. PublisherShape'
      BY <1>t, <1>5 DEF TypeOK, Pub, PublisherShape, Receive, NewIsUntouched, ObserversSubscribed
    <2>5. DeliveredIsOlder'
      BY <1>t, <1>5 DEF TypeOK, Pub, DeliveredIsOlder, Delivered, Owes, Receive, NewIsUntouched, PublisherShape, ObserversSubscribed
    <2>a. UNCHANGED <<sub, pub, audience>>
      BY <1>5 DEF Receive
    <2>b. \A s \in Subscriber : \A m : Delivered(s, m) => Delivered(s, m)'
      BY <1>t, <1>5 DEF TypeOK, Delivered, Receive
    <2>6. ServedOrOwed'
      <3>1. \A p \in Publisher : pub[p].pc # "idle" => audience[Current(p)] \subseteq Subscriber
        BY <1>t, MsgPair DEF TypeOK, Pub, PublisherShape, Current
      <3> QED BY <1>t, <2>a, <2>b, <3>1 DEF ServedOrOwed, Owes, Current
    <2>7. Ordered'
      <3> SUFFICES ASSUME NEW s \in Subscriber, NEW p \in Publisher,
                          NEW j \in 1..MaxEvents, NEW k \in 1..MaxEvents,
                          <<p, j>> \in got'[s], chan'[s] = <<p, k>>
                   PROVE  j < k
        BY DEF Ordered
      <3>1. s # s0
        BY <1>t, <1>5, MsgPair DEF TypeOK, Receive
      <3> QED BY <1>t, <1>5, <3>1 DEF TypeOK, Ordered, Receive
    <2>8. Complete'
      <3>1. \A p \in Publisher : \A k \in 1..MaxEvents : audience[<<p, k>>] \subseteq Subscriber
        BY <1>t, MsgPair DEF TypeOK
      <3> QED BY <1>t, <2>a, <2>b, <3>1 DEF Complete
    <2>9. NoSendToGone'
      BY <1>t, <1>5 DEF TypeOK, Pub, NoSendToGone, Receive, PublisherShape, ObserversSubscribed, NewIsUntouched
    <2> QED BY <2>1, <2>2, <2>3, <2>4, <2>5, <2>6, <2>7, <2>8, <2>9 DEF EventsInv
  <1>6. ASSUME NEW s0 \in Subscriber, Unsubscribe(s0) PROVE EventsInv'
    <2>1. TypeOK'
      <3>1. ASSUME NEW p \in Publisher PROVE pub'[p] \in Pub
        <4>1. pub[p] \in Pub
          BY <1>t DEF TypeOK
        <4>2. pub'[p] = pub[p] \/ pub'[p] = [pub[p] EXCEPT !.caught = TRUE]
          BY <1>6 DEF Unsubscribe, MarkCaught
        <4> QED BY <4>1, <4>2, PubCaught
      <3>2. pub' \in [Publisher -> Pub]
        BY <1>6, <3>1 DEF Unsubscribe, MarkCaught
      <3>3. /\ sub' \in [Subscriber -> {"new", "subscribed", "gone"}]
            /\ observers' \subseteq Subscriber
            /\ crashed' \in BOOLEAN
            /\ UNCHANGED <<chan, got, audience>>
        BY <1>t, <1>6 DEF TypeOK, Unsubscribe
      <3> QED BY <1>t, <3>2, <3>3 DEF TypeOK
    <2>2. ObserversSubscribed'
      BY <1>t, <1>6 DEF TypeOK, Pub, ObserversSubscribed, Unsubscribe, MarkCaught
    <2>3. NewIsUntouched'
      BY <1>t, <1>6 DEF TypeOK, Pub, NewIsUntouched, Unsubscribe, ObserversSubscribed, PublisherShape, MarkCaught
    <2>4. PublisherShape'
      BY <1>t, <1>6 DEF TypeOK, Pub, PublisherShape, Unsubscribe, NewIsUntouched, ObserversSubscribed, MarkCaught
    <2>5. DeliveredIsOlder'
      BY <1>t, <1>6 DEF TypeOK, Pub, DeliveredIsOlder, Delivered, Owes, Unsubscribe, NewIsUntouched, PublisherShape, ObserversSubscribed, MarkCaught
    <2>6. ServedOrOwed'
      BY <1>t, <1>6 DEF TypeOK, Pub, ServedOrOwed, Delivered, Owes, Current, Unsubscribe, PublisherShape, ObserversSubscribed, DeliveredIsOlder, NewIsUntouched, MarkCaught
    <2>7. Ordered'
      BY <1>t, <1>6 DEF TypeOK, Pub, Ordered, Unsubscribe, DeliveredIsOlder, Delivered, Owes, PublisherShape, MarkCaught
    <2>8. Complete'
      BY <1>t, <1>6 DEF TypeOK, Pub, Complete, Delivered, Unsubscribe, ServedOrOwed, Owes, Current, PublisherShape, ObserversSubscribed, NewIsUntouched, MarkCaught
    <2>9. NoSendToGone'
      BY <1>t, <1>6 DEF TypeOK, Pub, NoSendToGone, Unsubscribe, PublisherShape, ObserversSubscribed, NewIsUntouched, MarkCaught
    <2> QED BY <2>1, <2>2, <2>3, <2>4, <2>5, <2>6, <2>7, <2>8, <2>9 DEF EventsInv
  <1>7. CASE UNCHANGED vars
    BY <1>7, <1>t DEF vars, EventsInv, TypeOK, ObserversSubscribed, NewIsUntouched,
       PublisherShape, Owes, DeliveredIsOlder, ServedOrOwed, Ordered, Complete,
       NoSendToGone, Delivered, Current
  <1> QED
    BY <1>1, <1>2, <1>3, <1>4, <1>5, <1>6, <1>7 DEF Next

\* EventsInv is an invariant.
LEMMA EventsInvariant == Spec => []EventsInv
  BY EventsInvInit, EventsInvNext, PTL DEF Spec

----------------------------------------------------------------------------
\* Type correctness, for any numbers of publishers, subscribers and events.
THEOREM EventsTypeCorrect == Spec => []TypeOK
  <1>1. EventsInv => TypeOK
    BY DEF EventsInv
  <1> QED BY <1>1, EventsInvariant, PTL

\* However publishers, subscriptions and departures interleave, a subscriber
\* gets the events of one publisher in order and none of them twice.
THEOREM EventsInOrder == Spec => []InOrder
  <1>1. EventsInv => InOrder
    BY MsgNumber DEF EventsInv, TypeOK, Ordered, InOrder
  <1> QED BY <1>1, EventsInvariant, PTL

\* A Publish that has returned has reached every subscriber that was there
\* when it began and has stayed.
THEOREM EventsComplete == Spec => []NoLostEvent
  <1>1. EventsInv => NoLostEvent
    BY MsgNumber DEF EventsInv, TypeOK, Complete, NoLostEvent, Published
  <1> QED BY <1>1, EventsInvariant, PTL

\* A Publish that hangs on a departed subscriber began its send before this
\* one left: later ones are not affected.
THEOREM EventsSendToPresent == Spec => []NoSendToGone
  <1>1. EventsInv => NoSendToGone
    BY DEF EventsInv
  <1> QED BY <1>1, EventsInvariant, PTL

=============================================================================
