----------------------------- MODULE Dashboard -----------------------------
(***************************************************************************)
(* The dashboard in a browser (web/js/app.js) and what it hears of the     *)
(* server: refreshes of the open tab started by clicks, by the timer and   *)
(* by events, requests and answers that overlap, an event stream that      *)
(* breaks and is opened again, and events that nobody hears.  The hub's    *)
(* part of a stream (Hub.tla) is a bounded queue here, and the handlers'   *)
(* part (Registry.tla, Fleet.tla) is a change and, later, its broadcast.   *)
(*                                                                         *)
(* Contents of tables are left out.  Of each copy of a table, in the panel *)
(* of the open tab or in an answer on its way, the model says whether it   *)
(* is current, and if it is not, what has become of the news.              *)
(***************************************************************************)
EXTENDS Naturals, Sequences, FiniteSets

CONSTANTS
    Tabs,          \* tabs a user opens
    Kinds,         \* tables that are followed
    Slots,         \* refreshes under way at a time (a bound)
    QueueSize      \* events between the hub and the listeners (a bound)

ASSUME TabsAssumption ==
    /\ Tabs \subseteq {"dashboard", "targets", "matches", "fleet"}
    /\ {"dashboard", "targets"} \subseteq Tabs
ASSUME KindsAssumption == Kinds \subseteq {"targets", "matches", "clients"}
ASSUME QueueAssumption == QueueSize \in Nat \ {0}

VARIABLES
    tab,           \* currentTab
    view,          \* the panel of the open tab: kind -> state of the copy
    calls,         \* slot -> a refresh under way
    announcing,    \* events whose change is committed, not yet broadcast
    stream,        \* the EventSource: closed, open, or live at the hub
    queue          \* events on their way to the listeners

vars == <<tab, view, calls, announcing, stream, queue>>

-----------------------------------------------------------------------------
(* What the tabs show, and what the events are about.                      *)

(* The tables behind the panel of tab t: the statistics of the dashboard   *)
(* are of clients and of matches.                                          *)
Shows(t) ==
    Kinds \cap CASE t = "dashboard" -> {"targets", "matches", "clients"}
                 [] t = "targets"   -> {"targets"}
                 [] t = "matches"   -> {"matches"}
                 [] t = "fleet"     -> {"clients"}

Events == {"target_update", "match", "client_update"}

About(e) ==
    CASE e = "target_update" -> {"targets"}
      [] e = "match"         -> {"matches"}
      [] e = "client_update" -> {"clients"}

Concerns(e, t) == e \in Events /\ About(e) \cap Shows(t) # {}

(* Fault: a match is news for the dashboard only.                          *)
ListenersWithoutMatches(e) ==
    CASE e = "target_update" -> {"dashboard", "targets"}
      [] e = "match"         -> {"dashboard"}
      [] e = "client_update" -> {"dashboard", "fleet"}

(* The tabs that a listener of event e refreshes when they are open.       *)
Listeners(e) ==
    CASE e = "target_update" -> {"dashboard", "targets"}
      [] e = "match"         -> {"dashboard", "matches"}
      [] e = "client_update" -> {"dashboard", "fleet"}

(* POST and PUT of a target; DELETE, which cascades; POST of a match;      *)
(* registration and heartbeat.  Nobody is told of what the reaper does, or *)
(* a DELETE that finds matches and no target and is answered 404.          *)
Changes ==
    {c \in { [kinds |-> {"targets"},            event |-> "target_update"],
             [kinds |-> {"targets", "matches"}, event |-> "target_update"],
             [kinds |-> {"matches"},            event |-> "match"],
             [kinds |-> {"clients"},            event |-> "client_update"],
             [kinds |-> {"matches"},            event |-> "none"],
             [kinds |-> {"clients"},            event |-> "none"] } :
        c.kinds \subseteq Kinds}

-----------------------------------------------------------------------------
(* Copies of tables.  A copy that is not current is                        *)
(*   due        as there is or was news of the change for the listeners,   *)
(*   lost       as the news, or the refresh it started, got lost,          *)
(*   untold     as nobody was told of the change, or there was no stream,  *)
(*   unheard    as the stream was live and the change was told in an event *)
(*              that the tab does not listen to,                           *)
(*   overtaken  as an answer from before the change was drawn over a newer *)
(*              one, and the news of the change was not lost.              *)

States == {"current", "due", "lost", "untold", "unheard", "overtaken"}

(* What a change is to a copy of a tab that its event does not concern.    *)
Unnoticed(c) ==
    IF c.event \in Events /\ stream = "live" THEN "unheard" ELSE "untold"

(* The copy for tab t after change c.                                      *)
Outdated(copy, t, c) ==
    [k \in DOMAIN copy |->
        IF k \notin c.kinds \/ copy[k] = "unread" THEN copy[k]
        ELSE IF Concerns(c.event, t) THEN "due"
        ELSE IF copy[k] = "current" THEN Unnoticed(c) ELSE copy[k]]

(* The copy of tab t when events es are lost, which may be the news of     *)
(* what it lacks.                                                          *)
Missed(copy, t, es) ==
    [k \in DOMAIN copy |->
        IF \/ copy[k] \in {"due", "overtaken"} /\ \E e \in es : Concerns(e, t)
           \/ copy[k] = "unheard" /\ es # {}
        THEN "lost" ELSE copy[k]]

(* A panel when the answers of a refresh are drawn over it.                *)
Drawn(panel, got) ==
    [k \in DOMAIN panel |->
        IF panel[k] # "due" /\ got[k] = "due" THEN "overtaken" ELSE got[k]]

NoCall == [tab |-> "none"]
Busy   == {s \in Slots : calls[s] # NoCall}

(* Events es reach nobody.                                                 *)
Lose(es) ==
    /\ view' = Missed(view, tab, es)
    /\ calls' = [s \in Slots |->
                   IF s \in Busy
                   THEN [calls[s] EXCEPT
                           !.got = Missed(calls[s].got, calls[s].tab, es)]
                   ELSE calls[s]]

(* A refresh of tab t begins: its requests are sent.                       *)
Refresh(t) ==
    \E s \in Slots \ Busy :
        calls' = [calls EXCEPT ![s] =
                    [tab |-> t, got |-> [k \in Shows(t) |-> "unread"]]]

(* The page loads: refreshDashboard, connectSSE.                           *)
Init ==
    /\ tab = "dashboard"
    /\ view = [k \in Shows("dashboard") |-> "due"]
    /\ \E s \in Slots :
          calls = [r \in Slots |->
                     IF r = s THEN [tab |-> "dashboard",
                                    got |-> [k \in Shows("dashboard") |->
                                                "unread"]]
                     ELSE NoCall]
    /\ announcing = {}
    /\ stream = "closed"
    /\ queue = << >>

-----------------------------------------------------------------------------
(* The server.                                                             *)

(* A handler commits a change.  One handler at a time is between its       *)
(* change and the broadcast of one event (a bound).                        *)
Change(c) ==
    /\ c.event \notin announcing
    /\ announcing' = announcing \cup ({c.event} \cap Events)
    /\ view' = Outdated(view, tab, c)
    /\ calls' = [s \in Slots |->
                   IF s \in Busy
                   THEN [calls[s] EXCEPT
                           !.got = Outdated(calls[s].got, calls[s].tab, c)]
                   ELSE NoCall]
    /\ UNCHANGED <<tab, stream, queue>>

(* Fault: the channel has no bound.                                        *)
BroadcastUnbounded(e) ==
    /\ e \in announcing
    /\ announcing' = announcing \ {e}
    /\ IF stream = "live"
       THEN queue' = Append(queue, e) /\ UNCHANGED <<view, calls>>
       ELSE Lose({e}) /\ UNCHANGED queue
    /\ UNCHANGED <<tab, stream>>

(* The handler broadcasts its event; a stream that has not subscribed, or  *)
(* is full, misses it.                                                     *)
Broadcast(e) ==
    /\ e \in announcing
    /\ announcing' = announcing \ {e}
    /\ IF stream = "live" /\ Len(queue) < QueueSize
       THEN queue' = Append(queue, e) /\ UNCHANGED <<view, calls>>
       ELSE Lose({e}) /\ UNCHANGED queue
    /\ UNCHANGED <<tab, stream>>

(* The statement took effect and reported an error, or the process died:   *)
(* the handler does not get to its broadcast.                              *)
HandlerFails(e) ==
    /\ e \in announcing
    /\ announcing' = announcing \ {e}
    /\ Lose({e})
    /\ UNCHANGED <<tab, stream, queue>>

-----------------------------------------------------------------------------
(* The event stream.                                                       *)

(* The answer begins and onopen shows "Connected"; nothing is refreshed.   *)
Connect ==
    /\ stream = "closed"
    /\ stream' = "open"
    /\ UNCHANGED <<tab, view, calls, announcing, queue>>

(* Only then the handler subscribes to the hub.                            *)
Subscribe ==
    /\ stream = "open"
    /\ stream' = "live"
    /\ UNCHANGED <<tab, view, calls, announcing, queue>>

(* onerror: the stream is closed with what was on its way, and connectSSE  *)
(* is due in 3 seconds.                                                    *)
Break ==
    /\ stream # "closed"
    /\ stream' = "closed"
    /\ queue' = << >>
    /\ Lose({queue[i] : i \in DOMAIN queue})
    /\ UNCHANGED <<tab, announcing>>

(* A listener hears the next event and refreshes the open tab if the event *)
(* concerns it.                                                            *)
Hear ==
    /\ queue # << >>
    /\ queue' = Tail(queue)
    /\ IF tab \in Listeners(Head(queue)) THEN Refresh(tab)
                                         ELSE UNCHANGED calls
    /\ UNCHANGED <<tab, view, announcing, stream>>

-----------------------------------------------------------------------------
(* The user and the timer.                                                 *)

(* Another tab is opened: what its panel shows is from another time.       *)
Click(t) ==
    /\ t # tab
    /\ tab' = t
    /\ view' = [k \in Shows(t) |-> "due"]
    /\ Refresh(t)
    /\ UNCHANGED <<announcing, stream, queue>>

(* Fault: the timer refreshes the dashboard whatever tab is open.          *)
TimerForDashboard ==
    /\ Refresh("dashboard")
    /\ UNCHANGED <<tab, view, announcing, stream, queue>>

(* Every 30 seconds, and at a click on the open tab, it is refreshed.      *)
Timer ==
    /\ Refresh(tab)
    /\ UNCHANGED <<tab, view, announcing, stream, queue>>

(* The user's own POST, PUT or DELETE of a target returned, which          *)
(* refreshes the list of targets, be it open or not.                       *)
AfterEdit ==
    /\ Refresh("targets")
    /\ UNCHANGED <<tab, view, announcing, stream, queue>>

-----------------------------------------------------------------------------
(* Refreshes.                                                              *)

(* The server reads table k for refresh s; the answer is on its way.       *)
Read(s, k) ==
    /\ s \in Busy
    /\ k \in Shows(calls[s].tab)
    /\ calls[s].got[k] = "unread"
    /\ calls' = [calls EXCEPT ![s].got[k] = "current"]
    /\ UNCHANGED <<tab, view, announcing, stream, queue>>

(* All answers of refresh s are there: they are drawn, whichever refresh   *)
(* of that tab was drawn before.                                           *)
Draw(s) ==
    /\ s \in Busy
    /\ \A k \in Shows(calls[s].tab) : calls[s].got[k] # "unread"
    /\ view' = IF calls[s].tab = tab THEN Drawn(view, calls[s].got) ELSE view
    /\ calls' = [calls EXCEPT ![s] = NoCall]
    /\ UNCHANGED <<tab, announcing, stream, queue>>

(* A request of refresh s gets no answer, or an error: nothing is drawn  *)
(* and nothing tried again.                                                *)
FetchFails(s) ==
    /\ s \in Busy
    /\ \E k \in Shows(calls[s].tab) : calls[s].got[k] = "unread"
    /\ view' = IF calls[s].tab = tab THEN Missed(view, tab, Events)
                                  ELSE view
    /\ calls' = [calls EXCEPT ![s] = NoCall]
    /\ UNCHANGED <<tab, announcing, stream, queue>>

Next ==
    \/ \E c \in Changes : Change(c)
    \/ \E e \in Events : Broadcast(e) \/ HandlerFails(e)
    \/ Connect \/ Subscribe \/ Break \/ Hear
    \/ \E t \in Tabs : Click(t)
    \/ Timer \/ AfterEdit
    \/ \E s \in Slots : Draw(s) \/ FetchFails(s) \/ \E k \in Kinds : Read(s, k)

Spec == Init /\ [][Next]_vars

(* Requests are answered, answers drawn, and the timer goes off.  It waits *)
(* for a free slot here, which it need not do in a browser: strong         *)
(* fairness makes up for it.                                               *)
Fairness ==
    /\ \A s \in Slots : /\ WF_vars(Draw(s))
                        /\ \A k \in Kinds : WF_vars(Read(s, k))
    /\ SF_vars(Timer)

FairSpec == Spec /\ Fairness

-----------------------------------------------------------------------------
(* The types of the state.                                                 *)
Call == UNION {[tab : {t}, got : [Shows(t) -> States \cup {"unread"}]] :
                  t \in Tabs}

TypeOK ==
    /\ tab \in Tabs
    /\ view \in [Shows(tab) -> States]
    /\ calls \in [Slots -> Call \cup {NoCall}]
    /\ announcing \subseteq Events
    /\ stream \in {"closed", "open", "live"}
    /\ queue \in Seq(Events) /\ Len(queue) <= QueueSize

(* At rest, with no news and no refresh under way, the open tab shows the  *)
(* tables as they are, but for what it was not told, what was lost on the  *)
(* way and what an older answer hid: every change that is heard of starts  *)
(* a refresh that reads after it.                                          *)
Rest == announcing = {} /\ queue = << >> /\ Busy = {}

RestIsCurrent == Rest => \A k \in DOMAIN view : view[k] # "due"

(* What is lost, untold or overtaken is made up for by the timer: when the *)
(* tables settle, requests succeed and a tab stays open, it comes to show  *)
(* the tables as they are, and keeps to it, even without a stream.         *)
Settled ==
    <>[][/\ UNCHANGED tab
         /\ \A c \in Changes : ~Change(c)
         /\ \A s \in Slots : ~FetchFails(s)]_vars

ViewConverges == Settled => <>[](\A k \in DOMAIN view : view[k] = "current")

(* README.md:34, "Updates stream in real time via Server-Sent Events":     *)
(* then, at rest, the open tab lacks no update that the server announced   *)
(* to a live stream and whose news, or the refresh it started, did not get *)
(* lost.  The code does not keep it: a DELETE takes matches away with an   *)
(* event that the list of matches does not listen to, and an older answer  *)
(* may be drawn over a newer one.                                          *)
UpdatesStream ==
    Rest => \A k \in DOMAIN view : view[k] \in {"current", "lost", "untold"}
=============================================================================
