-------------------------------- MODULE Hub --------------------------------
(***************************************************************************)
(* The event hub of the server (pkg/server/sse.go): handlers broadcast,    *)
(* one goroutine per open event stream (handleSSE) forwards to a browser,  *)
(* and Run closes the hub at shutdown.                                     *)
(*                                                                         *)
(* Every method of Hub holds its mutex from the first to the last access   *)
(* to the subscriber map, so each is one action.  The channels are read    *)
(* outside the mutex.                                                      *)
(***************************************************************************)
EXTENDS Naturals, Sequences, FiniteSets, SequencesExt

CONSTANTS
    Streams,     \* event streams that are ever opened
    BufferSize,  \* capacity of a stream's channel (64 in the code)
    MaxEvents    \* bound on the events broadcast

ASSUME BufferAssumption == BufferSize \in Nat
ASSUME EventsAssumption == MaxEvents \in Nat

VARIABLES
    clients,   \* the streams whose channels are in the subscriber map
    closed,    \* Hub.closed
    stage,     \* where each handleSSE is
    buffer,    \* the events in each stream's channel, oldest first
    hand,      \* the event each handler is writing; none for a keep-alive
    chClosed,  \* the streams whose channels have been closed
    written,   \* the events whose writes have returned
    \* For the properties only.
    events,    \* number of events broadcast; event i is the i-th
    joined,    \* the number when the stream subscribed
    dropped    \* events a stream's full channel had no room for

hub    == <<clients, closed, chClosed>>
ghosts == <<joined, dropped>>
stream == <<hand, written>>
vars   == <<clients, closed, stage, buffer, chClosed, hand, written, events,
            joined, dropped>>

Init ==
    /\ clients = {}
    /\ closed = FALSE
    /\ stage = [s \in Streams |-> "idle"]
    /\ buffer = [s \in Streams |-> << >>]
    /\ chClosed = {}
    /\ hand = [s \in Streams |-> << >>]
    /\ written = [s \in Streams |-> << >>]
    /\ events = 0
    /\ joined = [s \in Streams |-> 0]
    /\ dropped = [s \in Streams |-> {}]

Goto(s, to) == stage' = [stage EXCEPT ![s] = to]

-----------------------------------------------------------------------------
(* The hub.                                                                *)

(* Fault: the oldest event makes room for the new one.                     *)
BroadcastEvictsOldest ==
    /\ ~closed
    /\ events < MaxEvents
    /\ events' = events + 1
    /\ buffer' = [s \in Streams |->
                    IF s \notin clients THEN buffer[s]
                    ELSE IF Len(buffer[s]) < BufferSize
                         THEN Append(buffer[s], events')
                         ELSE Append(Tail(buffer[s]), events')]
    /\ UNCHANGED <<hub, stage, stream, ghosts>>

(* Fault: the send does not look whether there is room.                    *)
BroadcastUnbounded ==
    /\ ~closed
    /\ events < MaxEvents
    /\ events' = events + 1
    /\ buffer' = [s \in Streams |->
                    IF s \in clients THEN Append(buffer[s], events')
                                    ELSE buffer[s]]
    /\ UNCHANGED <<hub, stage, stream, ghosts>>

(* Broadcast: to every subscriber that has room, without waiting for any.  *)
(* A closed hub drops the event altogether.                                *)
Broadcast ==
    /\ ~closed
    /\ events < MaxEvents
    /\ events' = events + 1
    /\ LET room == {s \in clients : Len(buffer[s]) < BufferSize} IN
        /\ buffer' = [s \in Streams |->
                        IF s \in room THEN Append(buffer[s], events')
                                      ELSE buffer[s]]
        /\ dropped' = [s \in Streams |->
                         IF s \in clients \ room
                         THEN dropped[s] \cup {events'} ELSE dropped[s]]
    /\ UNCHANGED <<hub, stage, stream, joined>>

(* Fault: the channels are closed but stay in the map.                     *)
CloseKeepsClients ==
    /\ ~closed
    /\ closed' = TRUE
    /\ chClosed' = chClosed \cup clients
    /\ UNCHANGED <<clients, stage, buffer, stream, events, ghosts>>

(* Close, which Run calls once, on its way out.                            *)
Close ==
    /\ ~closed
    /\ closed' = TRUE
    /\ chClosed' = chClosed \cup clients
    /\ clients' = {}
    /\ UNCHANGED <<stage, buffer, stream, events, ghosts>>

-----------------------------------------------------------------------------
(* handleSSE for stream s.                                                 *)

(* ": connected" reaches the browser; the stream is not subscribed yet.    *)
Connect(s) ==
    /\ stage[s] = "idle"
    /\ \E to \in {"open", "gone"} : Goto(s, to)
    /\ UNCHANGED <<hub, buffer, stream, events, ghosts>>

(* Fault: Subscribe does not look whether the hub is closed.               *)
SubscribeToClosed(s) ==
    /\ stage[s] = "open"
    /\ clients' = clients \cup {s}
    /\ joined' = [joined EXCEPT ![s] = events]
    /\ Goto(s, "streaming")
    /\ UNCHANGED <<closed, chClosed, buffer, stream, events, dropped>>

(* Subscribe: a closed hub hands out a channel that is closed already.     *)
Subscribe(s) ==
    /\ stage[s] = "open"
    /\ IF closed
       THEN chClosed' = chClosed \cup {s} /\ UNCHANGED clients
       ELSE clients' = clients \cup {s} /\ UNCHANGED chClosed
    /\ joined' = [joined EXCEPT ![s] = events]
    /\ Goto(s, "streaming")
    /\ UNCHANGED <<closed, buffer, stream, events, dropped>>

(* An event is taken from the channel, which if closed is emptied first,   *)
(* and its write begins.                                                   *)
Take(s) ==
    /\ stage[s] = "streaming"
    /\ buffer[s] # << >>
    /\ hand' = [hand EXCEPT ![s] = << Head(buffer[s]) >>]
    /\ buffer' = [buffer EXCEPT ![s] = Tail(@)]
    /\ Goto(s, "writing")
    /\ UNCHANGED <<hub, written, events, ghosts>>

(* The ticker of 15 seconds goes off: the write of a keep-alive begins.    *)
KeepAlive(s) ==
    /\ stage[s] = "streaming"
    /\ Goto(s, "writing")
    /\ UNCHANGED <<hub, buffer, stream, events, ghosts>>

(* A write returns.  The server sets no deadline for it (http.Server has   *)
(* no WriteTimeout), so a browser that stays but does not read keeps the   *)
(* handler in it, whatever becomes of the hub and of the context.          *)
WriteReturns(s) ==
    /\ stage[s] = "writing"
    /\ hand' = [hand EXCEPT ![s] = << >>]
    /\ \/ /\ written' = [written EXCEPT ![s] = @ \o hand[s]]
          /\ Goto(s, "streaming")
       \/ /\ Goto(s, "leaving")
          /\ UNCHANGED written
    /\ UNCHANGED <<hub, buffer, events, ghosts>>

(* The channel is closed and empty: the handler returns.                   *)
SeeClosed(s) ==
    /\ stage[s] = "streaming"
    /\ s \in chClosed
    /\ buffer[s] = << >>
    /\ Goto(s, "leaving")
    /\ UNCHANGED <<hub, buffer, stream, events, ghosts>>

(* The request's context ends: the browser went away, or the server was    *)
(* interrupted.                                                            *)
HangUp(s) ==
    /\ stage[s] = "streaming"
    /\ Goto(s, "leaving")
    /\ UNCHANGED <<hub, buffer, stream, events, ghosts>>

(* The deferred unsubscribe.                                               *)
Unsubscribe(s) ==
    /\ stage[s] = "leaving"
    /\ clients' = clients \ {s}
    /\ Goto(s, "gone")
    /\ UNCHANGED <<closed, chClosed, buffer, stream, events, ghosts>>

(* What the handler does without waiting for anybody.                      *)
Proceed(s) == Take(s) \/ SeeClosed(s)

Serve(s) ==
    \/ Connect(s) \/ Subscribe(s) \/ Proceed(s) \/ KeepAlive(s)
    \/ WriteReturns(s) \/ HangUp(s) \/ Unsubscribe(s)

(* Every stream has ended and nothing more is broadcast.                   *)
Ended ==
    /\ closed /\ \A s \in Streams : stage[s] = "gone"
    /\ UNCHANGED vars

Next ==
    \/ Broadcast \/ Close \/ Ended
    \/ \E s \in Streams : Serve(s)

Spec == Init /\ [][Next]_vars

(* Handlers run; a select that finds the channel ready again and again     *)
(* picks it some time.  No stream is made to connect or to hang up, and no *)
(* write to return.                                                        *)
Fairness ==
    \A s \in Streams :
        WF_vars(Subscribe(s)) /\ WF_vars(Unsubscribe(s)) /\ SF_vars(Proceed(s))

FairSpec == Spec /\ Fairness

-----------------------------------------------------------------------------
(* The types of the state.                                                 *)
TypeOK ==
    /\ clients \subseteq Streams /\ chClosed \subseteq Streams
    /\ closed \in BOOLEAN
    /\ stage \in [Streams -> {"idle", "open", "streaming", "writing",
                              "leaving", "gone"}]
    /\ buffer \in [Streams -> Seq(1 .. MaxEvents)]
    /\ \A s \in Streams : Len(buffer[s]) <= BufferSize
    /\ hand \in [Streams -> Seq(1 .. MaxEvents)]
    /\ written \in [Streams -> Seq(1 .. MaxEvents)]
    /\ events \in 0 .. MaxEvents
    /\ joined \in [Streams -> 0 .. MaxEvents]
    /\ dropped \in [Streams -> SUBSET (1 .. MaxEvents)]

(* The hub never sends on a channel that is closed and never closes one    *)
(* twice, either of which would panic in Go: what is in the subscriber map *)
(* is open, belongs to a handler that still runs, and is there only while  *)
(* the hub is open.                                                        *)
NoUseOfClosedChannel ==
    /\ clients \cap chClosed = {}
    /\ \A s \in clients : stage[s] \in {"streaming", "writing", "leaving"}
    /\ closed => clients = {}

(* In the loop of handleSSE.                                               *)
Subscribed(s) == stage[s] \in {"streaming", "writing"}

(* What a subscriber was sent, followed by what is being written to it and *)
(* what waits in its channel, is every event since it subscribed, in the   *)
(* order of the broadcasts, but for those its full channel had no room     *)
(* for; none comes twice.                                                  *)
EveryEventInOrder ==
    \A s \in Streams :
        Subscribed(s) =>
            LET seen == written[s] \o hand[s] \o buffer[s] IN
            /\ \A i, j \in DOMAIN seen : i < j => seen[i] < seen[j]
            /\ ToSet(seen) \cap dropped[s] = {}
            /\ s \in clients =>
                 ToSet(seen) \cup dropped[s] = joined[s] + 1 .. events

(* The browser at the other end of s reads, or its connection breaks: no   *)
(* write to it lasts for ever.                                             *)
Reads(s) == []<>(stage[s] # "writing")

(* Once the hub is closed the handler of a browser that reads ends, one    *)
(* that subscribes later included, even if the browser does not hang up,   *)
(* no context is cancelled and the handlers of other browsers are stuck.   *)
CloseEndsStreams ==
    \A s \in Streams :
        Reads(s) => ((closed /\ Subscribed(s)) ~> stage[s] = "gone")

(* An event in the channel of a browser that reads is written, unless the  *)
(* stream ends, even if other browsers do not read and their channels are  *)
(* full.                                                                   *)
BufferedEventsAreWritten ==
    \A s \in Streams, e \in 1 .. MaxEvents :
        Reads(s) => ((e \in ToSet(buffer[s]) /\ Subscribed(s))
                        ~> (e \in ToSet(written[s]) \/ ~Subscribed(s)))
=============================================================================
