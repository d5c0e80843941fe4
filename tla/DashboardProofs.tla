-------------------------- MODULE DashboardProofs --------------------------
(* Proofs about Dashboard, for any tabs, tables, number of refreshes under *)
(* way and length of the queue.                                            *)
EXTENDS Dashboard, SequenceTheorems, TLAPS

-----------------------------------------------------------------------------
(* Types.                                                                  *)

(* The copies of a panel or an answer stay copies whatever happens.        *)
LEMMA CopyTypes ==
    ASSUME NEW S, NEW X \in {States, States \cup {"unread"}},
           NEW copy \in [S -> X]
    PROVE  /\ \A t, es : Missed(copy, t, es) \in [S -> X]
           /\ \A t, c : Outdated(copy, t, c) \in [S -> X]
<1>1. \A c : Unnoticed(c) \in States
  BY DEF Unnoticed, States
<1>2. "lost" \in X /\ "due" \in X /\ States \subseteq X
  BY DEF States
<1>3. ASSUME NEW t, NEW es PROVE Missed(copy, t, es) \in [S -> X]
  BY <1>2 DEF Missed
<1>4. ASSUME NEW t, NEW c PROVE Outdated(copy, t, c) \in [S -> X]
  BY <1>1, <1>2 DEF Outdated
<1> QED
  BY <1>3, <1>4

(* Idle is no refresh, and a refresh knows its tab and its copies.         *)
LEMMA CallTypes ==
    ASSUME TypeOK, NEW s \in Busy
    PROVE  /\ s \in Slots /\ calls[s].tab \in Tabs
           /\ calls[s] = [tab |-> calls[s].tab, got |-> calls[s].got]
           /\ calls[s].got \in [Shows(calls[s].tab) -> States \cup {"unread"}]
<1>1. s \in Slots /\ calls[s] \in Call
  BY DEF Busy, TypeOK
<1> QED
  BY <1>1 DEF Call

(* A tab with copies of its tables is a refresh.                           *)
LEMMA CallIntro ==
    ASSUME NEW t \in Tabs, NEW got \in [Shows(t) -> States \cup {"unread"}]
    PROVE  [tab |-> t, got |-> got] \in Call
  BY DEF Call

(* Other copies in a refresh leave its tab alone.                          *)
LEMMA OtherCopies ==
    ASSUME TypeOK, NEW s \in Busy, NEW g
    PROVE  /\ [calls[s] EXCEPT !.got = g] = [tab |-> calls[s].tab, got |-> g]
           /\ g \in [Shows(calls[s].tab) -> States \cup {"unread"}]
                 => [calls[s] EXCEPT !.got = g] \in Call
<1>1. calls[s] = [tab |-> calls[s].tab, got |-> calls[s].got]
  BY CallTypes
<1>2. [calls[s] EXCEPT !.got = g] = [tab |-> calls[s].tab, got |-> g]
  BY <1>1
<1>3. ASSUME g \in [Shows(calls[s].tab) -> States \cup {"unread"}]
      PROVE  [tab |-> calls[s].tab, got |-> g] \in Call
  BY <1>3, CallTypes, CallIntro
<1> QED
  BY <1>2, <1>3

(* Starting a refresh keeps the table of refreshes well-typed.             *)
LEMMA RefreshTypes ==
    ASSUME TypeOK, NEW t \in Tabs, Refresh(t)
    PROVE  calls' \in [Slots -> Call \cup {NoCall}]
<1>1. PICK s \in Slots : calls' = [calls EXCEPT ![s] =
             [tab |-> t, got |-> [k \in Shows(t) |-> "unread"]]]
  BY DEF Refresh
<1>2. [k \in Shows(t) |-> "unread"] \in [Shows(t) -> States \cup {"unread"}]
  OBVIOUS
<1>3. [tab |-> t, got |-> [k \in Shows(t) |-> "unread"]] \in Call
  BY <1>2, CallIntro
<1> QED
  BY <1>1, <1>3 DEF TypeOK

(* So does the loss of events.                                             *)
LEMMA LoseTypes ==
    ASSUME TypeOK, NEW es, Lose(es)
    PROVE  /\ view' \in [Shows(tab) -> States]
           /\ calls' \in [Slots -> Call \cup {NoCall}]
<1>1. view' \in [Shows(tab) -> States]
  BY CopyTypes DEF Lose, TypeOK
<1>2. ASSUME NEW s \in Slots
      PROVE  calls'[s] \in Call \cup {NoCall}
  <2>1. CASE s \in Busy
    <3> DEFINE got == Missed(calls[s].got, calls[s].tab, es)
    <3>1. got \in [Shows(calls[s].tab) -> States \cup {"unread"}]
      BY <2>1, CallTypes, CopyTypes
    <3>2. [calls[s] EXCEPT !.got = got] \in Call
      BY <2>1, <3>1, OtherCopies
    <3>3. calls'[s] = [calls[s] EXCEPT !.got = got]
      BY <2>1 DEF Lose, Busy
    <3> QED
      BY <3>2, <3>3 DEF TypeOK
  <2>2. CASE s \notin Busy
    BY <2>2 DEF Lose, Busy, TypeOK
  <2> QED
    BY <2>1, <2>2
<1> QED
  BY <1>1, <1>2 DEF Lose

(* The page that loads has the types.                                      *)
LEMMA DashboardTypeInit == Init => TypeOK
<1> SUFFICES ASSUME Init PROVE TypeOK
  OBVIOUS
<1>1. "dashboard" \in Tabs
  BY TabsAssumption
<1>2. [k \in Shows("dashboard") |-> "unread"]
         \in [Shows("dashboard") -> States \cup {"unread"}]
  OBVIOUS
<1>3. [tab |-> "dashboard", got |-> [k \in Shows("dashboard") |-> "unread"]]
         \in Call
  BY <1>1, <1>2, CallIntro
<1> QED
  BY <1>1, <1>3, QueueAssumption DEF Init, TypeOK, States

(* Each step of the page and of the server keeps them.                     *)
LEMMA DashboardTypeStep == TypeOK /\ [Next]_vars => TypeOK'
<1> SUFFICES ASSUME TypeOK, [Next]_vars
             PROVE  TypeOK'
  OBVIOUS
<1>1. ASSUME NEW c \in Changes, Change(c)
      PROVE  TypeOK'
  <2>1. view' \in [Shows(tab) -> States]
    BY <1>1, CopyTypes DEF Change, TypeOK
  <2>2. ASSUME NEW s \in Slots
        PROVE  calls'[s] \in Call \cup {NoCall}
    <3>1. CASE s \in Busy
      <4> DEFINE got == Outdated(calls[s].got, calls[s].tab, c)
      <4>1. got \in [Shows(calls[s].tab) -> States \cup {"unread"}]
        BY <3>1, CallTypes, CopyTypes
      <4>2. [calls[s] EXCEPT !.got = got] \in Call
        BY <3>1, <4>1, OtherCopies
      <4>3. calls'[s] = [calls[s] EXCEPT !.got = got]
        BY <1>1, <3>1 DEF Change
      <4> QED
        BY <4>2, <4>3
    <3>2. CASE s \notin Busy
      BY <1>1, <3>2 DEF Change
    <3> QED
      BY <3>1, <3>2
  <2>3. calls' \in [Slots -> Call \cup {NoCall}]
    BY <1>1, <2>2 DEF Change
  <2> QED
    BY <1>1, <2>1, <2>3 DEF Change, TypeOK
<1>2. ASSUME NEW e \in Events, Broadcast(e)
      PROVE  TypeOK'
  <2>1. CASE stream = "live" /\ Len(queue) < QueueSize
    <3>1. queue' \in Seq(Events) /\ Len(queue') = Len(queue) + 1
      BY <1>2, <2>1 DEF Broadcast, TypeOK
    <3> QED
      BY <1>2, <2>1, <3>1, QueueAssumption DEF Broadcast, TypeOK
  <2>2. CASE ~(stream = "live" /\ Len(queue) < QueueSize)
    BY <1>2, <2>2, LoseTypes DEF Broadcast, TypeOK
  <2> QED
    BY <2>1, <2>2
<1>3. ASSUME NEW e \in Events, HandlerFails(e)
      PROVE  TypeOK'
  BY <1>3, LoseTypes DEF HandlerFails, TypeOK
<1>4. CASE Connect \/ Subscribe \/ UNCHANGED vars
  BY <1>4 DEF Connect, Subscribe, vars, TypeOK
<1>5. CASE Break
  <2>1. queue' \in Seq(Events) /\ Len(queue') <= QueueSize
    BY <1>5, QueueAssumption DEF Break
  <2> QED
    BY <1>5, <2>1, LoseTypes DEF Break, TypeOK
<1>6. CASE Hear
  <2>1. queue' \in Seq(Events) /\ Len(queue') <= QueueSize
    BY <1>6, QueueAssumption DEF Hear, TypeOK
  <2>2. calls' \in [Slots -> Call \cup {NoCall}]
    BY <1>6, RefreshTypes DEF Hear, TypeOK
  <2> QED
    BY <1>6, <2>1, <2>2 DEF Hear, TypeOK
<1>7. ASSUME NEW t \in Tabs, Click(t)
      PROVE  TypeOK'
  <2>1. calls' \in [Slots -> Call \cup {NoCall}]
    BY <1>7, RefreshTypes DEF Click
  <2> QED
    BY <1>7, <2>1 DEF Click, TypeOK, States
<1>8. CASE Timer \/ AfterEdit
  <2>1. calls' \in [Slots -> Call \cup {NoCall}]
    BY <1>8, RefreshTypes, TabsAssumption DEF Timer, AfterEdit, TypeOK
  <2> QED
    BY <1>8, <2>1 DEF Timer, AfterEdit, TypeOK
<1>9. ASSUME NEW s \in Slots, NEW k \in Kinds, Read(s, k)
      PROVE  TypeOK'
  <2>1. s \in Busy
    BY <1>9 DEF Read
  <2> DEFINE got == [calls[s].got EXCEPT ![k] = "current"]
  <2>2. got \in [Shows(calls[s].tab) -> States \cup {"unread"}]
    BY <2>1, CallTypes DEF States
  <2>3. [calls[s] EXCEPT !.got = got] \in Call
    BY <2>1, <2>2, OtherCopies
  <2>4. calls' = [calls EXCEPT ![s] = [calls[s] EXCEPT !.got = got]]
    BY <1>9 DEF Read
  <2> HIDE DEF got
  <2>5. calls' \in [Slots -> Call \cup {NoCall}]
    BY <2>3, <2>4 DEF TypeOK
  <2> QED
    BY <1>9, <2>5 DEF Read, TypeOK
<1>10. ASSUME NEW s \in Slots, Draw(s)
       PROVE  TypeOK'
  <2>1. CASE calls[s].tab = tab
    <3>1. calls[s].got \in [Shows(tab) -> States \cup {"unread"}]
      BY <1>10, <2>1, CallTypes DEF Draw
    <3>2. \A k \in Shows(tab) : calls[s].got[k] \in States
      BY <1>10, <2>1, <3>1 DEF Draw
    <3>3. Drawn(view, calls[s].got) \in [Shows(tab) -> States]
      BY <3>2 DEF Drawn, States, TypeOK
    <3> QED
      BY <1>10, <2>1, <3>3 DEF Draw, TypeOK
  <2>2. CASE calls[s].tab # tab
    BY <1>10, <2>2 DEF Draw, TypeOK
  <2> QED
    BY <2>1, <2>2
<1>11. ASSUME NEW s \in Slots, FetchFails(s)
       PROVE  TypeOK'
  BY <1>11, CopyTypes DEF FetchFails, TypeOK
<1> QED
  BY <1>1, <1>2, <1>3, <1>4, <1>5, <1>6, <1>7, <1>8, <1>9, <1>10, <1>11
  DEF Next

(* Every variable keeps its type; the queue keeps its bound.               *)
THEOREM DashboardTypes == Spec => []TypeOK
  BY DashboardTypeInit, DashboardTypeStep, PTL DEF Spec

-----------------------------------------------------------------------------
(* The inductive invariant.  A copy in the panel that is due is waited for:*)
(* there is news for the tab, with a handler or in the queue, or a refresh *)
(* of the tab under way that has not read the table or has read it after   *)
(* the change.                                                             *)
News == announcing \cup {queue[i] : i \in 1 .. Len(queue)}

NewsForTab == \E e \in News : Concerns(e, tab)

Covers(s, k) == calls[s].tab = tab /\ calls[s].got[k] # "due"

DueIsAwaited ==
    \A k \in Shows(tab) :
        view[k] = "due" => NewsForTab \/ \E s \in Busy : Covers(s, k)

DInv == TypeOK /\ DueIsAwaited

(* A listener hears every event that concerns the open tab.                *)
LEMMA ListenersHear ==
    ASSUME NEW e \in Events, NEW t \in Tabs, Concerns(e, t)
    PROVE  t \in Listeners(e)
  BY TabsAssumption DEF Events, Concerns, About, Shows, Listeners

(* Each table has news of its own, so an open tab with a panel is          *)
(* concerned by some event.                                                *)
LEMMA PanelIsConcerned ==
    ASSUME NEW t, NEW k \in Shows(t)
    PROVE  \E e \in Events : Concerns(e, t)
<1>1. k \in {"targets", "matches", "clients"}
  BY KindsAssumption DEF Shows
<1>2. \E e \in Events : About(e) = {k}
  BY <1>1 DEF Events, About
<1> QED
  BY <1>2 DEF Concerns

(* A new refresh of the open tab covers everything it shows.               *)
LEMMA RefreshCovers ==
    ASSUME TypeOK, NEW t \in Tabs, Refresh(t), tab' = t
    PROVE  \A k \in Shows(t) : \E s \in Busy' : Covers(s, k)'
<1>1. PICK s \in Slots : calls' = [calls EXCEPT ![s] =
             [tab |-> t, got |-> [k \in Shows(t) |-> "unread"]]]
  BY DEF Refresh
<1>2. calls'[s] = [tab |-> t, got |-> [k \in Shows(t) |-> "unread"]]
  BY <1>1 DEF TypeOK
<1>3. calls'[s] # NoCall
  BY <1>2, TabsAssumption DEF NoCall
<1> QED
  BY <1>2, <1>3 DEF Busy, Covers

(* Another refresh takes no cover away.                                    *)
LEMMA RefreshKeepsCover ==
    ASSUME TypeOK, NEW t, Refresh(t), tab' = tab,
           NEW s \in Busy, NEW k, Covers(s, k)
    PROVE  s \in Busy' /\ Covers(s, k)'
  BY DEF Refresh, TypeOK, Busy, Covers

(* When events are lost, no copy is due any more, or none of them was for  *)
(* the tab and no copy becomes due.                                        *)
LEMMA LoseKeepsAwaited ==
    ASSUME DInv, NEW es, Lose(es), tab' = tab, News \subseteq News' \cup es
    PROVE  DueIsAwaited'
<1>1. CASE \E e \in es : Concerns(e, tab)
  BY <1>1 DEF Lose, Missed, DueIsAwaited, DInv, TypeOK
<1>2. CASE ~\E e \in es : Concerns(e, tab)
  <2>1. \A k \in Shows(tab) : view'[k] = "due" => view[k] = "due"
    BY DEF Lose, Missed, DInv, TypeOK
  <2>2. ASSUME NEW s \in Busy, NEW k \in Shows(tab), Covers(s, k)
        PROVE  s \in Busy' /\ Covers(s, k)'
    <3> DEFINE got == Missed(calls[s].got, calls[s].tab, es)
    <3>1. calls'[s] = [calls[s] EXCEPT !.got = got]
      BY DEF Lose, Busy
    <3>2. calls'[s] = [tab |-> tab, got |-> got]
      BY <2>2, <3>1, CallTypes DEF Covers, DInv
    <3>3. got[k] # "due"
      BY <2>2, CallTypes DEF Missed, Covers, DInv
    <3>4. calls'[s] # NoCall
      BY <3>2, TabsAssumption DEF NoCall, DInv, TypeOK
    <3> QED
      BY <2>2, <3>2, <3>3, <3>4 DEF Busy, Covers
  <2>3. NewsForTab => NewsForTab'
    BY <1>2 DEF NewsForTab, Concerns
  <2> QED
    BY <2>1, <2>2, <2>3 DEF DInv, DueIsAwaited
<1> QED
  BY <1>1, <1>2

(* What is due when the page loads is awaited by its first refresh.        *)
LEMMA AwaitedInit == Init => DInv
<1> SUFFICES ASSUME Init PROVE DueIsAwaited
  BY DashboardTypeInit DEF DInv
<1>1. PICK s \in Slots :
         calls[s] = [tab |-> "dashboard",
                     got |-> [k \in Shows("dashboard") |-> "unread"]]
  BY DEF Init
<1>2. s \in Busy /\ \A k \in Shows(tab) : Covers(s, k)
  BY <1>1 DEF Init, Busy, NoCall, Covers
<1> QED
  BY <1>2 DEF DueIsAwaited

(* What a step takes of the news or of the refreshes under way, it starts  *)
(* anew, or the copies that waited for it are no longer due.               *)
LEMMA AwaitedStep == DInv /\ [Next]_vars => DInv'
<1> SUFFICES ASSUME DInv, [Next]_vars
             PROVE  DueIsAwaited'
  BY DashboardTypeStep DEF DInv
<1>0. TypeOK
  BY DEF DInv
<1>1. ASSUME NEW c \in Changes, Change(c)
      PROVE  DueIsAwaited'
  <2>1. CASE Concerns(c.event, tab)
    BY <1>1, <2>1 DEF Change, Concerns, News, NewsForTab, DueIsAwaited
  <2>2. CASE ~Concerns(c.event, tab)
    <3>1. \A k \in Shows(tab) : view'[k] = "due" => view[k] = "due"
      BY <1>0, <1>1, <2>2 DEF Change, Outdated, Unnoticed, TypeOK
    <3>2. NewsForTab => NewsForTab'
      BY <1>1 DEF Change, News, NewsForTab, Concerns
    <3>3. ASSUME NEW s \in Busy, NEW k \in Shows(tab), Covers(s, k)
          PROVE  s \in Busy' /\ Covers(s, k)'
      <4> DEFINE got == Outdated(calls[s].got, calls[s].tab, c)
      <4>0. calls'[s] = [calls[s] EXCEPT !.got = got]
        BY <1>1, <3>3 DEF Change, Busy
      <4>1. calls'[s] = [tab |-> tab, got |-> got]
        BY <1>0, <3>3, <4>0, CallTypes DEF Covers
      <4>2. got[k] # "due"
        BY <1>0, <2>2, <3>3, CallTypes DEF Outdated, Unnoticed, Covers
      <4>3. calls'[s] # NoCall
        BY <1>0, <4>1, TabsAssumption DEF NoCall, TypeOK
      <4> QED
        BY <1>1, <3>3, <4>1, <4>2, <4>3 DEF Change, Busy, Covers
    <3> QED
      BY <1>1, <3>1, <3>2, <3>3 DEF Change, DInv, DueIsAwaited
  <2> QED
    BY <2>1, <2>2
<1>2. ASSUME NEW e \in Events, Broadcast(e)
      PROVE  DueIsAwaited'
  <2>1. CASE stream = "live" /\ Len(queue) < QueueSize
    <3>1. /\ queue' = Append(queue, e) /\ announcing' = announcing \ {e}
          /\ UNCHANGED <<tab, view, calls>>
      BY <1>2, <2>1 DEF Broadcast
    <3>2. /\ Len(queue') = Len(queue) + 1 /\ queue'[Len(queue) + 1] = e
          /\ \A i \in 1 .. Len(queue) : queue'[i] = queue[i]
          /\ Len(queue) \in Nat
      BY <1>0, <3>1 DEF TypeOK
    <3>3. News \subseteq News'
      BY <3>1, <3>2 DEF News
    <3>4. NewsForTab => NewsForTab'
      BY <3>1, <3>3 DEF NewsForTab, Concerns
    <3> QED
      BY <3>1, <3>4 DEF DInv, DueIsAwaited, Busy, Covers
  <2>2. CASE ~(stream = "live" /\ Len(queue) < QueueSize)
    <3>1. Lose({e}) /\ tab' = tab /\ News \subseteq News' \cup {e}
      BY <1>2, <2>2 DEF Broadcast, News
    <3> QED
      BY <3>1, LoseKeepsAwaited
  <2> QED
    BY <2>1, <2>2
<1>3. ASSUME NEW e \in Events, HandlerFails(e)
      PROVE  DueIsAwaited'
  <2>1. Lose({e}) /\ tab' = tab /\ News \subseteq News' \cup {e}
    BY <1>3 DEF HandlerFails, News
  <2> QED
    BY <2>1, LoseKeepsAwaited
<1>4. CASE Connect \/ Subscribe \/ UNCHANGED vars
  BY <1>4 DEF Connect, Subscribe, vars, DInv, DueIsAwaited, NewsForTab, News,
     Concerns, Busy, Covers
<1>5. CASE Break
  <2> DEFINE es == {queue[i] : i \in DOMAIN queue}
  <2>1. DOMAIN queue = 1 .. Len(queue)
    BY <1>0 DEF TypeOK
  <2>2. Lose(es) /\ tab' = tab /\ News \subseteq News' \cup es
    BY <1>5, <2>1 DEF Break, News
  <2> QED
    BY <2>2, LoseKeepsAwaited
<1>6. CASE Hear
  <2>1. queue \in Seq(Events) /\ queue # << >> /\ Head(queue) \in Events
    BY <1>0, <1>6 DEF Hear, TypeOK
  <2>2. News \subseteq News' \cup {Head(queue)}
    <3>1. /\ queue' = Tail(queue) /\ announcing' = announcing
          /\ Len(queue') = Len(queue) - 1 /\ Len(queue) \in Nat
          /\ Head(queue) = queue[1]
          /\ \A i \in 1 .. Len(queue') : queue'[i] = queue[i + 1]
      BY <1>6, <2>1 DEF Hear
    <3>2. ASSUME NEW i \in 1 .. Len(queue), i # 1
          PROVE  \E j \in 1 .. Len(queue') : queue'[j] = queue[i]
      <4>1. i - 1 \in 1 .. Len(queue') /\ queue'[i - 1] = queue[i]
        BY <3>1, <3>2
      <4> QED
        BY <4>1
    <3>3. ASSUME NEW i \in 1 .. Len(queue)
          PROVE  queue[i] \in News' \cup {Head(queue)}
      <4>1. CASE i = 1
        BY <3>1, <4>1
      <4>2. CASE i # 1
        BY <3>2, <4>2 DEF News
      <4> QED
        BY <4>1, <4>2
    <3>4. announcing \subseteq News'
      BY <3>1 DEF News
    <3> QED
      BY <3>3, <3>4 DEF News
  <2>3. tab' = tab /\ tab \in Tabs /\ view' = view
    BY <1>0, <1>6 DEF Hear, TypeOK
  <2>4. CASE tab \in Listeners(Head(queue))
    BY <1>0, <1>6, <2>3, <2>4, RefreshCovers DEF Hear, DueIsAwaited
  <2>5. CASE tab \notin Listeners(Head(queue))
    <3>1. ~Concerns(Head(queue), tab)
      BY <2>1, <2>3, <2>5, ListenersHear
    <3>2. NewsForTab => NewsForTab'
      BY <2>2, <2>3, <3>1 DEF NewsForTab, Concerns
    <3> QED
      BY <1>6, <2>3, <2>5, <3>2 DEF Hear, DInv, DueIsAwaited, Busy, Covers
  <2> QED
    BY <2>4, <2>5
<1>7. ASSUME NEW t \in Tabs, Click(t)
      PROVE  DueIsAwaited'
  BY <1>0, <1>7, RefreshCovers DEF Click, DueIsAwaited
<1>8. CASE Timer \/ AfterEdit
  <2>1. PICK t : Refresh(t)
    BY <1>8 DEF Timer, AfterEdit
  <2>2. UNCHANGED <<tab, view, announcing, queue>>
    BY <1>8 DEF Timer, AfterEdit
  <2>3. NewsForTab => NewsForTab'
    BY <2>2 DEF NewsForTab, News, Concerns
  <2> QED
    BY <1>0, <2>1, <2>2, <2>3, RefreshKeepsCover DEF DInv, DueIsAwaited
<1>9. ASSUME NEW r \in Slots, NEW j \in Kinds, Read(r, j)
      PROVE  DueIsAwaited'
  <2>1. UNCHANGED <<tab, view, announcing, queue>>
    BY <1>9 DEF Read
  <2>2. NewsForTab => NewsForTab'
    BY <2>1 DEF NewsForTab, News, Concerns
  <2>3. ASSUME NEW s \in Busy, NEW k \in Shows(tab), Covers(s, k)
        PROVE  s \in Busy' /\ Covers(s, k)'
    <3>1. CASE s # r
      BY <1>0, <1>9, <2>3, <3>1 DEF Read, TypeOK, Busy, Covers
    <3>2. CASE s = r
      <4>1. /\ calls[s].got \in [Shows(tab) -> States \cup {"unread"}]
            /\ calls[s] = [tab |-> tab, got |-> calls[s].got]
        BY <1>0, <2>3, CallTypes DEF Covers
      <4>2. calls'[s] = [calls[s] EXCEPT
                           !.got = [calls[s].got EXCEPT ![j] = "current"]]
        BY <1>0, <1>9, <3>2 DEF Read, TypeOK
      <4>3. calls'[s] = [tab |-> tab,
                         got |-> [calls[s].got EXCEPT ![j] = "current"]]
        BY <4>1, <4>2
      <4>4. calls'[s].tab = tab /\ calls'[s].got[k] # "due"
        BY <2>3, <4>1, <4>3 DEF Covers
      <4>5. calls'[s] # NoCall
        BY <1>0, <4>3, TabsAssumption DEF NoCall, TypeOK
      <4> QED
        BY <2>1, <2>3, <4>4, <4>5 DEF Busy, Covers
    <3> QED
      BY <3>1, <3>2
  <2> QED
    BY <2>1, <2>2, <2>3 DEF DInv, DueIsAwaited
<1>10. ASSUME NEW r \in Slots, Draw(r) \/ FetchFails(r)
       PROVE  DueIsAwaited'
  <2>1. UNCHANGED <<tab, announcing, queue>>
    BY <1>10 DEF Draw, FetchFails
  <2>2. NewsForTab => NewsForTab'
    BY <2>1 DEF NewsForTab, News, Concerns
  <2>3. ASSUME NEW k \in Shows(tab), view'[k] = "due"
        PROVE  view[k] = "due" /\ ~Covers(r, k)
    BY <1>0, <1>10, <2>3, PanelIsConcerned
    DEF Draw, FetchFails, Drawn, Missed, Covers, TypeOK
  <2>4. ASSUME NEW s \in Busy, s # r, NEW k, Covers(s, k)
        PROVE  s \in Busy' /\ Covers(s, k)'
    BY <1>0, <1>10, <2>1, <2>4 DEF Draw, FetchFails, Busy, Covers, TypeOK
  <2> QED
    BY <2>1, <2>2, <2>3, <2>4 DEF DInv, DueIsAwaited
<1> QED
  BY <1>1, <1>2, <1>3, <1>4, <1>5, <1>6, <1>7, <1>8, <1>9, <1>10 DEF Next

(* At rest nothing is due: every change that is heard of starts a refresh  *)
(* that reads after it, and no draw of an older answer undoes it unnoticed.*)
THEOREM AtRestNothingIsDue == Spec => []RestIsCurrent
<1>1. DInv => RestIsCurrent
  <2> SUFFICES ASSUME DInv, Rest, NEW k \in DOMAIN view, view[k] = "due"
               PROVE  FALSE
    BY DEF RestIsCurrent
  <2>1. k \in Shows(tab)
    BY DEF DInv, TypeOK
  <2>2. ~NewsForTab /\ Busy = {}
    BY DEF Rest, NewsForTab, News
  <2> QED
    BY <2>1, <2>2 DEF DInv, DueIsAwaited
<1> QED
  BY <1>1, AwaitedInit, AwaitedStep, PTL DEF Spec
=============================================================================
