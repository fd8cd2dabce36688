------------------------------- MODULE Events -------------------------------
(***************************************************************************)
(* The events component: handlers publish a message to every observer, the  *)
(* /events handlers subscribe, stream what they receive to their client and *)
(* unsubscribe when the client leaves.  An observer's channel holds one     *)
(* message.  Publish iterates over the map of observers without taking the  *)
(* lock that Subscribe and Unsubscribe take, and its sends block.           *)
(***************************************************************************)
EXTENDS Naturals

CONSTANTS
    Publisher,   \* clients whose handlers publish, one event after the other
    Subscriber,  \* clients of the /events endpoint
    NoSubscriber,
    NoMsg,
    MaxEvents,   \* bound: events a publisher publishes
    MaxPair      \* bound: events two publishers publish together

ASSUME SubscriberAssumption == NoSubscriber \notin Subscriber
ASSUME NoMsgAssumption == NoMsg \notin Publisher \X Nat
ASSUME EventsAssumption == MaxEvents \in Nat /\ MaxPair \in Nat

VARIABLES
    sub,       \* what each /events handler is doing
    observers, \* the keys of the observers map
    chan,      \* the channel of each subscriber: one message at most
    got,       \* messages each /events handler has taken from its channel
    pub,       \* the publishing handlers
    audience,  \* the observers when a message's Publish began
    crashed    \* the runtime ended the process: concurrent map access

vars == <<sub, observers, chan, got, pub, audience, crashed>>

Msg == Publisher \X (1..MaxEvents)

\* n counts the events published; left are the observers the iteration may
\* still produce; target is the one a send is waiting for; caught says that
\* this one left in the meantime.
Pub == [pc : {"idle", "range", "send"}, n : 0..MaxEvents,
        left : SUBSET Subscriber, target : Subscriber \cup {NoSubscriber},
        caught : BOOLEAN]

\* Type correctness; a channel never holds more than its one message.
TypeOK ==
    /\ sub \in [Subscriber -> {"new", "subscribed", "gone"}]
    /\ observers \subseteq Subscriber
    /\ chan \in [Subscriber -> Msg \cup {NoMsg}]
    /\ got \in [Subscriber -> SUBSET Msg]
    /\ pub \in [Publisher -> Pub]
    /\ audience \in [Msg -> SUBSET Subscriber]
    /\ crashed \in BOOLEAN

Init ==
    /\ sub = [s \in Subscriber |-> "new"]
    /\ observers = {}
    /\ chan = [s \in Subscriber |-> NoMsg]
    /\ got = [s \in Subscriber |-> {}]
    /\ pub = [p \in Publisher |-> [pc |-> "idle", n |-> 0, left |-> {},
                                   target |-> NoSubscriber, caught |-> FALSE]]
    /\ audience = [m \in Msg |-> {}]
    /\ crashed = FALSE

\* The message p is publishing, or published last.  The number is the model's,
\* to tell p's messages apart; the code's carry the time.
Current(p) == <<p, pub[p].n>>

----------------------------------------------------------------------------
\* Publish builds the message and starts to iterate over the observers.
Publish(p) ==
    /\ ~crashed
    /\ pub[p].pc = "idle"
    /\ pub[p].n < MaxEvents
    /\ \A q \in Publisher \ {p} : pub[p].n + pub[q].n < MaxPair
    /\ pub' = [pub EXCEPT ![p] = [pc |-> "range", n |-> pub[p].n + 1,
                                  left |-> observers, target |-> NoSubscriber,
                                  caught |-> FALSE]]
    /\ audience' = [audience EXCEPT ![<<p, pub[p].n + 1>>] = observers]
    /\ UNCHANGED <<sub, observers, chan, got, crashed>>

\* Mutant: the iteration ends after the first observer.
RangeFirst(p) ==
    /\ ~crashed
    /\ pub[p].pc = "range"
    /\ \/ \E s \in pub[p].left \cap observers :
            pub' = [pub EXCEPT ![p].pc = "send", ![p].target = s, ![p].left = {}]
       \/ /\ pub[p].left \cap observers = {}
          /\ pub' = [pub EXCEPT ![p].pc = "idle", ![p].left = {}]
    /\ UNCHANGED <<sub, observers, chan, got, audience, crashed>>

\* Mutant: an observer may be produced twice.
RangeAgain(p) ==
    /\ ~crashed
    /\ pub[p].pc = "range"
    /\ \/ \E s \in pub[p].left \cap observers :
            \E rest \in {pub[p].left, pub[p].left \ {s}} :
              pub' = [pub EXCEPT ![p].pc = "send", ![p].target = s, ![p].left = rest]
       \/ /\ pub[p].left \cap observers = {}
          /\ pub' = [pub EXCEPT ![p].pc = "idle", ![p].left = {}]
    /\ UNCHANGED <<sub, observers, chan, got, audience, crashed>>

\* The iteration produces an observer, in any order, or ends.  An observer
\* deleted before it is reached is not produced.
Range(p) ==
    /\ ~crashed
    /\ pub[p].pc = "range"
    /\ \/ \E s \in pub[p].left \cap observers :
            pub' = [pub EXCEPT ![p].pc = "send", ![p].target = s,
                               ![p].left = pub[p].left \ {s}]
       \/ /\ pub[p].left \cap observers = {}
          /\ pub' = [pub EXCEPT ![p].pc = "idle", ![p].left = {}]
    /\ UNCHANGED <<sub, observers, chan, got, audience, crashed>>

\* The send goes through once the channel has room.
Send(p) ==
    LET s == pub[p].target IN
    /\ ~crashed
    /\ pub[p].pc = "send"
    /\ chan[s] = NoMsg
    /\ chan' = [chan EXCEPT ![s] = Current(p)]
    /\ pub' = [pub EXCEPT ![p].pc = "range", ![p].target = NoSubscriber,
                          ![p].caught = FALSE]
    /\ UNCHANGED <<sub, observers, got, audience, crashed>>

----------------------------------------------------------------------------
\* Subscribe adds a new channel to the map.  An iteration under way may or
\* may not produce the new entry, and the runtime may notice the race and
\* end the process.
Subscribe(s) ==
    LET ranging == {p \in Publisher : pub[p].pc = "range"} IN
    /\ ~crashed
    /\ sub[s] = "new"
    /\ sub' = [sub EXCEPT ![s] = "subscribed"]
    /\ observers' = observers \cup {s}
    /\ \E P \in SUBSET {p \in Publisher : pub[p].pc # "idle"} :
         pub' = [p \in Publisher |->
                   IF p \in P THEN [pub[p] EXCEPT !.left = @ \cup {s}] ELSE pub[p]]
    /\ crashed' \in {FALSE, ranging # {}}
    /\ UNCHANGED <<chan, got, audience>>

\* Mutant: the handler does not wait for a message.
ReceiveNothing(s) ==
    /\ ~crashed
    /\ sub[s] = "subscribed"
    /\ got' = [got EXCEPT ![s] = @ \cup {chan[s]}]
    /\ chan' = [chan EXCEPT ![s] = NoMsg]
    /\ UNCHANGED <<sub, observers, pub, audience, crashed>>

\* The /events handler takes a message and streams it to its client.
Receive(s) ==
    /\ ~crashed
    /\ sub[s] = "subscribed"
    /\ chan[s] # NoMsg
    /\ got' = [got EXCEPT ![s] = @ \cup {chan[s]}]
    /\ chan' = [chan EXCEPT ![s] = NoMsg]
    /\ UNCHANGED <<sub, observers, pub, audience, crashed>>

\* A send already waiting for s is not woken by its leaving.
MarkCaught(s) ==
    pub' = [p \in Publisher |->
              IF pub[p].target = s THEN [pub[p] EXCEPT !.caught = TRUE] ELSE pub[p]]

\* Mutant: the subscriber is not deleted from the map.
UnsubscribeKeep(s) ==
    /\ ~crashed
    /\ sub[s] = "subscribed"
    /\ sub' = [sub EXCEPT ![s] = "gone"]
    /\ MarkCaught(s)
    /\ UNCHANGED <<observers, chan, got, audience, crashed>>

\* The client leaves: Unsubscribe deletes the entry, with the same race.
Unsubscribe(s) ==
    LET ranging == {p \in Publisher : pub[p].pc = "range"} IN
    /\ ~crashed
    /\ sub[s] = "subscribed"
    /\ sub' = [sub EXCEPT ![s] = "gone"]
    /\ observers' = observers \ {s}
    /\ MarkCaught(s)
    /\ crashed' \in {FALSE, ranging # {}}
    /\ UNCHANGED <<chan, got, audience>>

----------------------------------------------------------------------------
Next ==
    \/ \E p \in Publisher : Publish(p) \/ Range(p) \/ Send(p)
    \/ \E s \in Subscriber : Subscribe(s) \/ Receive(s) \/ Unsubscribe(s)

Spec == Init /\ [][Next]_vars

\* Handlers keep running; whether clients come and go is up to them.
Fairness ==
    /\ \A p \in Publisher : WF_vars(Range(p)) /\ SF_vars(Send(p))
    /\ \A s \in Subscriber : WF_vars(Receive(s))

FairSpec == Spec /\ Fairness

----------------------------------------------------------------------------
\* Properties

Delivered(s, m) == m \in got[s] \/ chan[s] = m

\* The messages p's Publish has returned from.
Published(p) ==
    {m \in Msg : /\ m[1] = p
                 /\ m[2] <= pub[p].n
                 /\ m[2] = pub[p].n => pub[p].pc = "idle"}

\* A Publish that has returned reached every observer there was when it
\* began and that has not left.
NoLostEvent ==
    \A p \in Publisher : \A m \in Published(p) : \A s \in audience[m] :
        sub[s] = "subscribed" => Delivered(s, m)

\* A message in a subscriber's channel is newer than all it received from the
\* same publisher: no event is repeated and none overtakes another.
InOrder ==
    \A s \in Subscriber : chan[s] # NoMsg =>
        \A m \in got[s] : m[1] = chan[s][1] => m[2] < chan[s][2]

\* A send waits for a subscriber that has left only if this one left while
\* the send was waiting: nobody begins a send to a subscriber that has gone.
NoSendToGone ==
    \A p \in Publisher :
        pub[p].pc = "send" /\ sub[pub[p].target] = "gone" => pub[p].caught

\* A Publish returns, unless the process ended or the subscriber it was
\* waiting for left with its channel full.
PublishReturns ==
    \A p \in Publisher :
        pub[p].pc # "idle" ~> (pub[p].pc = "idle" \/ crashed \/ pub[p].caught)

=============================================================================
