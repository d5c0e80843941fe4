----------------------------- MODULE HubProofs -----------------------------
(* Proofs about Hub, for any number of streams, channels of any size and   *)
(* any number of events.                                                   *)
EXTENDS Hub, SequenceTheorems, TLAPS

(* A stream's channel exists, and can be closed, from Subscribe on.  So a  *)
(* stream that is about to subscribe brings an open channel.               *)
Sane ==
    /\ stage \in [Streams -> {"idle", "open", "streaming", "writing",
                              "leaving", "gone"}]
    /\ clients \subseteq Streams
    /\ \A s \in chClosed : stage[s] \notin {"idle", "open"}

IInv == Sane /\ NoUseOfClosedChannel

(* Each method of the hub and each step of a stream keeps the invariant.   *)
LEMMA HubStep == IInv /\ [Next]_vars => IInv'
<1> SUFFICES ASSUME IInv, [Next]_vars
             PROVE  IInv'
  OBVIOUS
<1> USE DEF IInv, Sane, NoUseOfClosedChannel, hub, Goto
<1>1. CASE Broadcast \/ Ended \/ UNCHANGED vars
  BY <1>1 DEF Broadcast, Ended, vars
<1>2. CASE Close
  BY <1>2 DEF Close
<1>3. ASSUME NEW s \in Streams, Connect(s)
      PROVE  IInv'
  BY <1>3 DEF Connect
<1>4. ASSUME NEW s \in Streams, Subscribe(s)
      PROVE  IInv'
  <2>1. CASE closed
    BY <1>4, <2>1 DEF Subscribe
  <2>2. CASE ~closed
    BY <1>4, <2>2 DEF Subscribe
  <2> QED
    BY <2>1, <2>2
<1>5. ASSUME NEW s \in Streams, NEW to \in {"streaming", "writing", "leaving"},
             Subscribed(s), Goto(s, to), UNCHANGED hub
      PROVE  IInv'
  <2>1. /\ stage' \in [Streams -> {"idle", "open", "streaming", "writing",
                                   "leaving", "gone"}]
        /\ stage'[s] = to
        /\ \A t \in Streams \ {s} : stage'[t] = stage[t]
    BY <1>5
  <2>2. \A t \in chClosed : stage'[t] \notin {"idle", "open"}
    BY <1>5, <2>1
  <2> QED
    BY <1>5, <2>1, <2>2
<1>6. ASSUME NEW s \in Streams,
             Proceed(s) \/ KeepAlive(s) \/ WriteReturns(s) \/ HangUp(s)
      PROVE  IInv'
  <2>1. /\ Subscribed(s) /\ UNCHANGED hub
        /\ \E to \in {"streaming", "writing", "leaving"} : Goto(s, to)
    BY <1>6 DEF Proceed, Take, SeeClosed, KeepAlive, WriteReturns, HangUp,
       Subscribed
  <2> HIDE DEF IInv, hub, Goto
  <2> QED
    BY <1>5, <2>1
<1>7. ASSUME NEW s \in Streams, Unsubscribe(s)
      PROVE  IInv'
  BY <1>7 DEF Unsubscribe
<1> QED
  BY <1>1, <1>2, <1>3, <1>4, <1>5, <1>6, <1>7 DEF Next, Serve

(* No interleaving of Broadcast, Subscribe, unsubscribe and Close sends on *)
(* a closed channel or closes one twice.                                   *)
THEOREM ChannelsAreSafe == Spec => []NoUseOfClosedChannel
<1>1. Init => IInv
  BY DEF Init, IInv, Sane, NoUseOfClosedChannel
<1>2. IInv => NoUseOfClosedChannel
  BY DEF IInv
<1> QED
  BY <1>1, <1>2, HubStep, PTL DEF Spec

-----------------------------------------------------------------------------
(* Types.                                                                  *)

(* Each method of the hub and each step of a stream keeps the types; sends *)
(* respect the capacity.                                                   *)
LEMMA HubTypeStep == TypeOK /\ [Next]_vars => TypeOK'
<1> SUFFICES ASSUME TypeOK, [Next]_vars
             PROVE  TypeOK'
  OBVIOUS
<1> USE BufferAssumption, EventsAssumption
    DEF TypeOK, hub, stream, ghosts, Goto
<1>1. CASE Broadcast
  <2> DEFINE room == {s \in clients : Len(buffer[s]) < BufferSize}
  <2>1. events' \in 1 .. MaxEvents
    BY <1>1 DEF Broadcast
  <2>2. ASSUME NEW s \in Streams
        PROVE  /\ buffer'[s] \in Seq(1 .. MaxEvents)
               /\ Len(buffer'[s]) <= BufferSize
    <3>1. CASE s \in room
      <4>1. buffer'[s] = Append(buffer[s], events')
        BY <1>1, <3>1 DEF Broadcast
      <4>2. buffer[s] \in Seq(1 .. MaxEvents) /\ Len(buffer[s]) < BufferSize
        BY <3>1
      <4> QED
        BY <2>1, <4>1, <4>2, AppendProperties
    <3>2. CASE s \notin room
      BY <1>1, <3>2 DEF Broadcast
    <3> QED
      BY <3>1, <3>2
  <2>3. buffer' \in [Streams -> Seq(1 .. MaxEvents)]
    BY <1>1, <2>2 DEF Broadcast
  <2>4. dropped' \in [Streams -> SUBSET (1 .. MaxEvents)]
    BY <1>1, <2>1 DEF Broadcast
  <2> QED
    BY <1>1, <2>1, <2>2, <2>3, <2>4 DEF Broadcast
<1>2. CASE Close \/ Ended \/ UNCHANGED vars
  BY <1>2 DEF Close, Ended, vars
<1>3. ASSUME NEW s \in Streams, Connect(s) \/ Subscribe(s)
      PROVE  TypeOK'
  <2>1. CASE Connect(s)
    BY <2>1 DEF Connect
  <2>2. CASE Subscribe(s)
    <3>1. clients' \subseteq Streams /\ chClosed' \subseteq Streams
      BY <2>2 DEF Subscribe
    <3>2. joined' \in [Streams -> 0 .. MaxEvents]
      BY <2>2 DEF Subscribe
    <3> QED
      BY <2>2, <3>1, <3>2 DEF Subscribe
  <2> QED
    BY <1>3, <2>1, <2>2
<1>4. ASSUME NEW s \in Streams, Take(s)
      PROVE  TypeOK'
  <2>1. /\ Head(buffer[s]) \in 1 .. MaxEvents
        /\ Tail(buffer[s]) \in Seq(1 .. MaxEvents)
        /\ Len(Tail(buffer[s])) = Len(buffer[s]) - 1
    BY <1>4, HeadTailProperties DEF Take
  <2>2. buffer' = [buffer EXCEPT ![s] = Tail(buffer[s])]
    BY <1>4 DEF Take
  <2>3. /\ buffer' \in [Streams -> Seq(1 .. MaxEvents)]
        /\ \A t \in Streams : Len(buffer'[t]) <= BufferSize
    BY <2>1, <2>2
  <2>4. hand' \in [Streams -> Seq(1 .. MaxEvents)]
    <3>1. << Head(buffer[s]) >> \in Seq(1 .. MaxEvents)
      BY <2>1
    <3> QED
      BY <1>4, <3>1 DEF Take
  <2> QED
    BY <1>4, <2>3, <2>4 DEF Take
<1>5. ASSUME NEW s \in Streams, WriteReturns(s)
      PROVE  TypeOK'
  <2>1. /\ << >> \in Seq(1 .. MaxEvents)
        /\ written[s] \o hand[s] \in Seq(1 .. MaxEvents)
    BY ConcatProperties
  <2>2. /\ hand' \in [Streams -> Seq(1 .. MaxEvents)]
        /\ written' \in [Streams -> Seq(1 .. MaxEvents)]
    BY <1>5, <2>1 DEF WriteReturns
  <2> QED
    BY <1>5, <2>2 DEF WriteReturns
<1>6. ASSUME NEW s \in Streams,
             SeeClosed(s) \/ KeepAlive(s) \/ HangUp(s) \/ Unsubscribe(s)
      PROVE  TypeOK'
  BY <1>6 DEF SeeClosed, KeepAlive, HangUp, Unsubscribe
<1> QED
  BY <1>1, <1>2, <1>3, <1>4, <1>5, <1>6 DEF Next, Serve, Proceed

(* A hub without subscribers has the types.                                *)
LEMMA HubTypeInit == Init => TypeOK
<1> SUFFICES ASSUME Init PROVE TypeOK
  OBVIOUS
<1>1. << >> \in Seq(1 .. MaxEvents) /\ Len(<< >>) = 0
  OBVIOUS
<1>2. /\ buffer \in [Streams -> Seq(1 .. MaxEvents)]
      /\ hand \in [Streams -> Seq(1 .. MaxEvents)]
      /\ written \in [Streams -> Seq(1 .. MaxEvents)]
      /\ \A s \in Streams : Len(buffer[s]) <= BufferSize
  BY <1>1, BufferAssumption DEF Init
<1>3. events \in 0 .. MaxEvents /\ joined \in [Streams -> 0 .. MaxEvents]
  BY EventsAssumption DEF Init
<1> QED
  BY <1>2, <1>3 DEF Init, TypeOK

(* Every variable keeps its type, and no channel outgrows its capacity.    *)
THEOREM HubTypes == Spec => []TypeOK
  BY HubTypeInit, HubTypeStep, PTL DEF Spec

-----------------------------------------------------------------------------
(* The order of events.                                                    *)

(* What the browser of s will have.                                        *)
Seen(s) == written[s] \o hand[s] \o buffer[s]

Ascending(q) == \A i, j \in DOMAIN q : i < j => q[i] < q[j]

(* An event sent to a channel comes last of all the browser will have.     *)
LEMMA SendIsLast ==
    ASSUME NEW S, NEW w \in Seq(S), NEW b \in Seq(S), NEW e \in S
    PROVE  w \o Append(b, e) = Append(w \o b, e)
<1>1. << e >> \in Seq(S) /\ w \o b \in Seq(S)
  BY ConcatProperties
<1> QED
  BY <1>1, AppendIsConcat, ConcatAssociative

(* Taking an event off the channel changes nothing of what the browser     *)
(* will have.                                                              *)
LEMMA TakeKeeps ==
    ASSUME NEW S, NEW w \in Seq(S), NEW b \in Seq(S), b # << >>
    PROVE  w \o << Head(b) >> \o Tail(b) = w \o << >> \o b
<1>1. Head(b) \in S /\ Tail(b) \in Seq(S) /\ << Head(b) >> \in Seq(S)
  BY HeadTailProperties
<1>2. << Head(b) >> \o Tail(b) = b /\ w \o << >> = w
  OBVIOUS
<1> QED
  BY <1>1, <1>2, ConcatAssociative

(* The next number after an ascending sequence of numbers below it.        *)
LEMMA NextAscends ==
    ASSUME NEW S \in SUBSET Nat, NEW q \in Seq(S), NEW n \in Nat, n + 1 \in S,
           Ascending(q), \A i \in DOMAIN q : q[i] <= n
    PROVE  /\ Ascending(Append(q, n + 1))
           /\ ToSet(Append(q, n + 1)) = ToSet(q) \cup {n + 1}
<1>1. /\ Len(Append(q, n + 1)) = Len(q) + 1 /\ Len(q) \in Nat
      /\ DOMAIN Append(q, n + 1) = 1 .. Len(q) + 1 /\ DOMAIN q = 1 .. Len(q)
      /\ \A i \in 1 .. Len(q) : Append(q, n + 1)[i] = q[i] /\ q[i] \in Nat
      /\ Append(q, n + 1)[Len(q) + 1] = n + 1
  <2>1. /\ Append(q, n + 1) \in Seq(S)
        /\ Len(Append(q, n + 1)) = Len(q) + 1
        /\ \A i \in 1 .. Len(q) : Append(q, n + 1)[i] = q[i]
        /\ Append(q, n + 1)[Len(q) + 1] = n + 1
    BY AppendProperties
  <2>2. Len(q) \in Nat /\ DOMAIN q = 1 .. Len(q)
    OBVIOUS
  <2>3. DOMAIN Append(q, n + 1) = 1 .. Len(q) + 1
    BY <2>1
  <2>4. \A i \in 1 .. Len(q) : q[i] \in Nat
    <3>1. \A i \in 1 .. Len(q) : q[i] \in S
      BY ElementOfSeq
    <3> QED
      BY <3>1
  <2> QED
    BY <2>1, <2>2, <2>3, <2>4
<1>2. Ascending(Append(q, n + 1))
  <2> DEFINE r == Append(q, n + 1)
  <2> SUFFICES ASSUME NEW i \in DOMAIN r, NEW j \in DOMAIN r, i < j
               PROVE  r[i] < r[j]
    BY DEF Ascending
  <2>1. i \in 1 .. Len(q) /\ r[i] = q[i] /\ q[i] \in Nat /\ q[i] <= n
    BY <1>1
  <2>2. CASE j = Len(q) + 1
    BY <1>1, <2>1, <2>2
  <2>3. CASE j # Len(q) + 1
    <3>1. j \in 1 .. Len(q) /\ r[j] = q[j]
      BY <1>1, <2>3
    <3>2. q[i] < q[j]
      BY <1>1, <2>1, <3>1 DEF Ascending
    <3> QED
      BY <2>1, <3>1, <3>2
  <2> QED
    BY <2>2, <2>3
<1>3. ToSet(Append(q, n + 1)) = ToSet(q) \cup {n + 1}
  BY <1>1 DEF ToSet
<1> QED
  BY <1>2, <1>3

(* Beside the order itself, the invariant says that a stream which has not *)
(* subscribed has neither events nor gaps, that an event is in hand only   *)
(* while it is written, and that none has subscribed in the future.        *)
InOrder(s) ==
    /\ Ascending(Seen(s))
    /\ ToSet(Seen(s)) \cap dropped[s] = {}
    /\ s \in clients =>
          ToSet(Seen(s)) \cup dropped[s] = joined[s] + 1 .. events

Fresh(s) ==
    /\ written[s] = << >> /\ hand[s] = << >> /\ buffer[s] = << >>
    /\ dropped[s] = {}

StreamInv(s) ==
    /\ stage[s] \in {"idle", "open"} => Fresh(s)
    /\ Subscribed(s) => InOrder(s)
    /\ stage[s] = "streaming" => hand[s] = << >>
    /\ joined[s] <= events

OInv == IInv /\ TypeOK /\ \A s \in Streams : StreamInv(s)

(* A broadcast appends the newest event to what a stream will have, or     *)
(* adds it to its gaps.                                                    *)
LEMMA BroadcastInOrder ==
    ASSUME OInv, Broadcast, NEW s \in Streams
    PROVE  StreamInv(s)'
<1> DEFINE room == {t \in clients : Len(buffer[t]) < BufferSize}
<1>1. /\ events \in Nat /\ events' = events + 1
      /\ events + 1 \in 1 .. MaxEvents
      /\ UNCHANGED <<stage, clients, hand, written, joined>>
  BY EventsAssumption DEF OInv, TypeOK, Broadcast, hub, stream
<1>2. joined[s] \in Nat /\ joined[s] <= events
  BY EventsAssumption DEF OInv, TypeOK, StreamInv
<1>3. s \in clients => Subscribed(s) \/ stage[s] = "leaving"
  BY DEF OInv, IInv, NoUseOfClosedChannel, Subscribed
<1>4. CASE s \notin clients
  <2>1. buffer'[s] = buffer[s] /\ dropped'[s] = dropped[s]
    BY <1>4 DEF Broadcast
  <2> QED
    BY <1>1, <1>2, <1>4, <2>1
       DEF OInv, StreamInv, InOrder, Fresh, Seen, Subscribed
<1>5. CASE s \in clients /\ stage[s] = "leaving"
  BY <1>1, <1>2, <1>5 DEF StreamInv, Subscribed
<1>6. CASE s \in clients /\ Subscribed(s)
  <2>1. InOrder(s)
    BY <1>6 DEF OInv, StreamInv
  <2>2. ToSet(Seen(s)) \cup dropped[s] = joined[s] + 1 .. events
    BY <1>6, <2>1 DEF InOrder
  <2>3. events + 1 \notin ToSet(Seen(s)) /\ events + 1 \notin dropped[s]
    BY <1>1, <1>2, <2>2
  <2>4. (joined[s] + 1 .. events) \cup {events + 1}
           = joined[s] + 1 .. events + 1
    BY <1>1, <1>2
  <2>5. CASE s \in room
    <3>1. /\ buffer'[s] = Append(buffer[s], events + 1)
          /\ dropped'[s] = dropped[s]
      BY <1>1, <2>5 DEF Broadcast
    <3>2. /\ written[s] \o hand[s] \in Seq(1 .. MaxEvents)
          /\ buffer[s] \in Seq(1 .. MaxEvents)
          /\ Seen(s) \in Seq(1 .. MaxEvents)
      BY ConcatProperties DEF OInv, TypeOK, Seen
    <3>3. Seen(s)' = Append(Seen(s), events + 1)
      <4>1. Seen(s)' = written[s] \o hand[s] \o Append(buffer[s], events + 1)
        BY <1>1, <3>1 DEF Seen
      <4> HIDE DEF room
      <4>2. written[s] \o hand[s] \o Append(buffer[s], events + 1)
               = Append(written[s] \o hand[s] \o buffer[s], events + 1)
        <5> DEFINE S == 1 .. MaxEvents
                   w == written[s] \o hand[s]
                   b == buffer[s]
                   e == events + 1
        <5>1. w \in Seq(S) /\ b \in Seq(S) /\ e \in S
          BY <1>1, <3>2
        <5> HIDE DEF S, w, b, e
        <5>2. w \o Append(b, e) = Append(w \o b, e)
          BY <5>1, SendIsLast
        <5> QED
          BY <5>2 DEF w, b, e
      <4> QED
        BY <4>1, <4>2 DEF Seen
    <3>4. \A i \in DOMAIN Seen(s) : Seen(s)[i] <= events
      <4> SUFFICES ASSUME NEW i \in DOMAIN Seen(s)
                   PROVE  Seen(s)[i] <= events
        OBVIOUS
      <4>1. Seen(s)[i] \in ToSet(Seen(s))
        BY DEF ToSet
      <4> QED
        BY <1>1, <1>2, <2>2, <4>1
    <3>5. 1 .. MaxEvents \in SUBSET Nat
      OBVIOUS
    <3>6. /\ Ascending(Append(Seen(s), events + 1))
          /\ ToSet(Append(Seen(s), events + 1))
                = ToSet(Seen(s)) \cup {events + 1}
      BY <1>1, <2>1, <3>2, <3>4, <3>5, NextAscends DEF InOrder
    <3>7. ToSet(Seen(s)') = ToSet(Seen(s)) \cup {events + 1}
      BY <3>3, <3>6
    <3>8. ToSet(Seen(s)') \cup dropped'[s] = joined'[s] + 1 .. events'
      BY <1>1, <2>2, <2>4, <3>1, <3>7
    <3>9. ToSet(Seen(s)') \cap dropped'[s] = {}
      BY <2>1, <2>3, <3>1, <3>7 DEF InOrder
    <3>10. InOrder(s)'
      BY <3>3, <3>6, <3>8, <3>9 DEF InOrder
    <3> QED
      BY <1>1, <1>2, <1>6, <3>10 DEF OInv, StreamInv, Subscribed
  <2>6. CASE s \notin room
    <3>1. buffer'[s] = buffer[s] /\ dropped'[s] = dropped[s] \cup {events + 1}
      BY <1>1, <1>6, <2>6 DEF Broadcast, OInv, TypeOK
    <3>2. Seen(s)' = Seen(s)
      BY <1>1, <3>1 DEF Seen
    <3>3. ToSet(Seen(s)') \cup dropped'[s] = joined'[s] + 1 .. events'
      BY <1>1, <2>2, <2>4, <3>1, <3>2
    <3>4. ToSet(Seen(s)') \cap dropped'[s] = {}
      BY <2>1, <2>3, <3>1, <3>2 DEF InOrder
    <3>5. InOrder(s)'
      BY <2>1, <3>2, <3>3, <3>4 DEF InOrder
    <3> QED
      BY <1>1, <1>2, <1>6, <3>5 DEF OInv, StreamInv, Subscribed
  <2> QED
    BY <2>5, <2>6
<1> QED
  BY <1>3, <1>4, <1>5, <1>6

(* A new subscriber has missed nothing since.                              *)
LEMMA SubscriberInOrder ==
    ASSUME OInv, NEW s \in Streams, Subscribe(s)
    PROVE  StreamInv(s)'
<1>1. Fresh(s) /\ stage[s] = "open"
  BY DEF OInv, StreamInv, Subscribe
<1>2. /\ joined'[s] = events /\ stage'[s] = "streaming" /\ events \in Nat
      /\ UNCHANGED <<stream, buffer, dropped, events>>
  BY EventsAssumption DEF OInv, TypeOK, Subscribe, Goto
<1>3. Seen(s)' = << >>
  BY <1>1, <1>2 DEF Seen, Fresh, stream
<1>4. Ascending(Seen(s)') /\ ToSet(Seen(s)') = {}
  BY <1>3 DEF Ascending, ToSet
<1>5. joined'[s] + 1 .. events' = {}
  BY <1>2
<1>6. InOrder(s)'
  BY <1>1, <1>2, <1>4, <1>5 DEF InOrder, Fresh
<1> QED
  BY <1>1, <1>2, <1>6 DEF StreamInv, Fresh, stream

(* Taking moves an event from the channel to the handler's hand, ...       *)
LEMMA TakeInOrder ==
    ASSUME OInv, NEW s \in Streams, Take(s)
    PROVE  StreamInv(s)'
<1>1. /\ stage[s] = "streaming" /\ stage'[s] = "writing"
      /\ hand[s] = << >> /\ hand'[s] = << Head(buffer[s]) >>
      /\ buffer[s] # << >> /\ buffer'[s] = Tail(buffer[s])
      /\ UNCHANGED <<clients, written, dropped, joined, events>>
  BY DEF OInv, TypeOK, StreamInv, Take, Goto, hub, ghosts
<1>2. /\ written[s] \in Seq(1 .. MaxEvents)
      /\ buffer[s] \in Seq(1 .. MaxEvents)
  BY DEF OInv, TypeOK
<1>3. Seen(s)' = Seen(s)
  <2>1. Seen(s)' = written[s] \o << Head(buffer[s]) >> \o Tail(buffer[s])
    BY <1>1 DEF Seen
  <2>2. Seen(s) = written[s] \o << >> \o buffer[s]
    BY <1>1 DEF Seen
  <2> QED
    BY <1>1, <1>2, <2>1, <2>2, TakeKeeps
<1> QED
  BY <1>1, <1>3 DEF OInv, StreamInv, InOrder, Subscribed

(* ... and a write that returns moves it to the browser.                   *)
LEMMA WriteInOrder ==
    ASSUME OInv, NEW s \in Streams, WriteReturns(s)
    PROVE  StreamInv(s)'
<1>1. /\ stage[s] = "writing" /\ hand'[s] = << >>
      /\ UNCHANGED <<clients, buffer, dropped, joined, events>>
  BY DEF OInv, TypeOK, WriteReturns, hub, ghosts
<1>2. CASE stage'[s] = "leaving"
  BY <1>1, <1>2 DEF OInv, StreamInv, Subscribed
<1>3. CASE stage'[s] = "streaming" /\ written'[s] = written[s] \o hand[s]
  <2>1. written[s] \o hand[s] \in Seq(1 .. MaxEvents)
    BY ConcatProperties DEF OInv, TypeOK
  <2>2. written'[s] \o hand'[s] = written[s] \o hand[s]
    BY <1>1, <1>3, <2>1
  <2>3. Seen(s)' = Seen(s)
    BY <1>1, <2>2 DEF Seen
  <2> QED
    BY <1>1, <1>3, <2>3 DEF OInv, StreamInv, InOrder, Subscribed
<1> QED
  BY <1>2, <1>3 DEF OInv, TypeOK, WriteReturns, Goto

(* A step leaves other streams alone, unless it is a broadcast.            *)
LEMMA OthersInOrder ==
    ASSUME OInv, NEW s \in Streams, NEW t \in Streams, s # t,
           Serve(s)
    PROVE  StreamInv(t)'
<1>1. /\ stage'[t] = stage[t] /\ written'[t] = written[t]
      /\ hand'[t] = hand[t] /\ buffer'[t] = buffer[t]
      /\ dropped'[t] = dropped[t]
      /\ joined'[t] = joined[t] /\ events' = events
      /\ t \in clients' <=> t \in clients
  BY DEF OInv, TypeOK, Serve, Connect, Subscribe, Proceed, Take, SeeClosed,
     KeepAlive, WriteReturns, HangUp, Unsubscribe, Goto, hub, stream, ghosts
<1> QED
  BY <1>1 DEF OInv, StreamInv, InOrder, Fresh, Seen, Subscribed

(* Broadcasts extend what a stream gets, its handler moves it on.          *)
LEMMA OrderStep == OInv /\ [Next]_vars => OInv'
<1> SUFFICES ASSUME OInv, [Next]_vars, NEW s \in Streams
             PROVE  StreamInv(s)'
  BY HubStep, HubTypeStep DEF OInv
<1>1. CASE Broadcast
  BY <1>1, BroadcastInOrder
<1>2. CASE Close \/ Ended \/ UNCHANGED vars
  BY <1>2 DEF Close, Ended, vars, stream, ghosts, OInv, StreamInv, InOrder,
     Fresh, Seen, Subscribed
<1>3. ASSUME NEW t \in Streams, Serve(t), s # t
      PROVE  StreamInv(s)'
  BY <1>3, OthersInOrder
<1>4. ASSUME Subscribe(s) \/ Take(s) \/ WriteReturns(s)
      PROVE  StreamInv(s)'
  BY <1>4, SubscriberInOrder, TakeInOrder, WriteInOrder
<1>5. ASSUME KeepAlive(s)
      PROVE  StreamInv(s)'
  <2>1. /\ UNCHANGED <<clients, buffer, stream, events, ghosts>>
        /\ stage[s] = "streaming" /\ stage'[s] = "writing"
    BY <1>5 DEF KeepAlive, Goto, hub, OInv, TypeOK
  <2> QED
    BY <2>1 DEF OInv, StreamInv, InOrder, Seen, Subscribed, stream, ghosts
<1>6. ASSUME Connect(s) \/ SeeClosed(s) \/ Unsubscribe(s) \/ HangUp(s)
      PROVE  StreamInv(s)'
  <2>1. /\ UNCHANGED <<buffer, stream, events, ghosts>>
        /\ stage'[s] \in {"open", "leaving", "gone"}
        /\ stage'[s] = "open" => stage[s] = "idle"
    BY <1>6 DEF Connect, SeeClosed, Unsubscribe, HangUp, Goto, OInv, TypeOK
  <2> QED
    BY <2>1 DEF OInv, StreamInv, Fresh, Subscribed, stream, ghosts
<1> QED
  BY <1>1, <1>2, <1>3, <1>4, <1>5, <1>6 DEF Next, Serve, Proceed

(* What a browser was sent and will be sent is every event since it        *)
(* subscribed, in order and once, but for those its full channel had no    *)
(* room for.                                                               *)
THEOREM EventsComeInOrder == Spec => []EveryEventInOrder
<1>1. Init => OInv
  <2> SUFFICES ASSUME Init PROVE OInv
    OBVIOUS
  <2>1. IInv
    BY DEF Init, IInv, Sane, NoUseOfClosedChannel
  <2>2. \A s \in Streams : StreamInv(s)
    BY DEF Init, StreamInv, Fresh, Subscribed
  <2> QED
    BY <2>1, <2>2, HubTypeInit DEF OInv
<1>2. OInv => EveryEventInOrder
  BY DEF OInv, StreamInv, InOrder, Ascending, Seen, EveryEventInOrder,
     Subscribed
<1> QED
  BY <1>1, <1>2, OrderStep, PTL DEF Spec
=============================================================================
