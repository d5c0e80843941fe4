---------------------------- MODULE FleetProofs ----------------------------
(* Proofs about Fleet, for any clients, hosts, thresholds and stalls.      *)
EXTENDS Fleet, TLAPS

(* A row is as old as the last write, and the stall of that write, at most.*)
(* A row that is offline was marked when the last write was long ago; one  *)
(* that is missing was deleted when it was longer ago, or never written.   *)
Types ==
    /\ rows \in [Ids -> Row \cup {NoRow}]
    /\ calls \in [Calls -> Call]
    /\ heard \in [Ids -> Age]
    /\ keyCount \in [Clients -> 0 .. MaxCount]

(* No call is in a handler for longer than Stall.                          *)
InTime(call) == OnItsWay(call) => call.age <= Stall

StallBounded == \A h \in Calls : InTime(calls[h])

RowAge(i) == rows[i] # NoRow => rows[i].age <= heard[i] + Stall

Marked(i) == rows[i].status = "offline" => heard[i] + Stall > MarkAfter

Deleted(i) == rows[i] = NoRow => heard[i] + Stall > DeleteAfter

RowsFit == \A i \in Ids : RowAge(i) /\ Marked(i) /\ Deleted(i)

IInv == Types /\ StallBounded /\ RowsFit

(* What a row is, and that no row is the marker for a missing one.         *)
LEMMA RowForms ==
    ASSUME NEW row \in Row \cup {NoRow}
    PROVE  /\ NoRow.status = "none" /\ NoRow \notin Row
           /\ row # NoRow => /\ row \in Row /\ row.age \in Age
                             /\ row.status \in {"active", "offline"}
                             /\ row.count \in 0 .. MaxCount
           /\ row.status = "offline" => row # NoRow
  BY DEF Row, NoRow

(* An empty table was never written.                                       *)
LEMMA FleetInit == Init => IInv
<1> SUFFICES ASSUME Init
             PROVE  IInv
  OBVIOUS
<1>1. Old \in Age /\ Old + Stall > DeleteAfter
  BY TimesAssumption DEF Old, Age
<1>2. NoCall \in Call /\ InTime(NoCall) /\ 0 \in 0 .. MaxCount
  BY CountAssumption, TimesAssumption
  DEF NoCall, Call, InTime, OnItsWay, Age, Old
<1> QED
  BY <1>1, <1>2, RowForms
  DEF Init, IInv, Types, StallBounded, RowsFit, RowAge, Marked, Deleted

(* Steps of clients and of the server process move calls, not rows.        *)
LEMMA CallsStep ==
    ASSUME IInv, UNCHANGED <<rows, heard>>,
           keyCount' \in [Clients -> 0 .. MaxCount],
           calls' \in [Calls -> Call], \A h \in Calls : InTime(calls'[h])
    PROVE  IInv'
  BY DEF IInv, Types, StallBounded, RowsFit, RowAge, Marked, Deleted

(* A write makes its row as old as its time stamp.                         *)
LEMMA UpsertStep ==
    ASSUME IInv, NEW h \in Calls, UpsertClient(h)
    PROVE  IInv'
<1> DEFINE i == IdOf[h[1]]
           row == [age |-> calls[h].age, status |-> "active",
                   count |-> calls[h].count]
<1>1. i \in Ids /\ calls[h] \in Call /\ calls[h].age <= Stall
  BY IdAssumption DEF Calls, IInv, Types, StallBounded, InTime,
     OnItsWay, UpsertClient
<1>2. row \in Row
  BY <1>1 DEF Row, Call
<1>3. 0 \in Age
  BY TimesAssumption DEF Age, Old
<1>4. calls' \in [Calls -> Call]
        /\ \A g \in Calls : InTime(calls'[g])
  BY <1>3, CountAssumption
  DEF UpsertClient, End, Ended, IInv, Types, StallBounded, InTime, OnItsWay,
      Call, NoCall
<1>5. rows' = [rows EXCEPT ![i] = row] /\ heard' = [heard EXCEPT ![i] = 0]
  BY DEF UpsertClient
<1>6. Types'
  BY <1>2, <1>3, <1>4, <1>5 DEF IInv, Types, UpsertClient, client
<1>7. ASSUME NEW j \in Ids, j # i
      PROVE  (RowAge(j) /\ Marked(j) /\ Deleted(j))'
  BY <1>5, <1>7 DEF IInv, Types, RowsFit, RowAge, Marked, Deleted
<1>8. (RowAge(i) /\ Marked(i) /\ Deleted(i))'
  <2>1. rows'[i] = row /\ heard'[i] = 0
    BY <1>1, <1>5 DEF IInv, Types
  <2>2. row # NoRow /\ row.status # "offline" /\ row.age <= 0 + Stall
    BY <1>1, <1>2, RowForms, TimesAssumption DEF Call, Age, Old
  <2> QED
    BY <2>1, <2>2 DEF RowAge, Marked, Deleted
<1> QED
  BY <1>4, <1>6, <1>7, <1>8 DEF IInv, StallBounded, RowsFit

(* The reaper marks and deletes only what is old enough.                   *)
LEMMA ReaperStep ==
    ASSUME IInv, MarkOfflineClients \/ DeleteOfflineClients
    PROVE  IInv'
<1>1. UNCHANGED <<calls, heard, keyCount>>
  BY DEF MarkOfflineClients, DeleteOfflineClients, client
<1>2. ASSUME NEW i \in Ids
      PROVE  /\ rows'[i] \in Row \cup {NoRow}
             /\ (RowAge(i) /\ Marked(i) /\ Deleted(i))'
  <2>1. /\ rows[i] \in Row \cup {NoRow} /\ heard[i] \in Nat /\ Stall \in Nat
        /\ MarkAfter \in Nat /\ DeleteAfter \in Nat
        /\ RowAge(i) /\ Marked(i) /\ Deleted(i)
    BY TimesAssumption DEF IInv, Types, RowsFit, Age, Old
  <2>2. CASE rows'[i] = rows[i]
    BY <1>1, <2>1, <2>2 DEF RowAge, Marked, Deleted
  <2>3. CASE /\ \E wait \in Waits : i \in Stale(wait)
             /\ rows'[i] = [rows[i] EXCEPT !.status = "offline"]
    <3>1. rows[i] \in Row /\ rows[i].age \in Nat /\ rows[i].age > MarkAfter
      BY <2>1, <2>3, RowForms, TimesAssumption
      DEF Stale, Waits, Age, Old
    <3>2. rows'[i] \in Row /\ rows'[i].age = rows[i].age
      BY <2>3, <3>1 DEF Row
    <3>3. heard[i] + Stall > MarkAfter
      BY <2>1, <2>3, <3>1 DEF RowAge, Stale
    <3> QED
      BY <1>1, <2>1, <2>3, <3>2, <3>3, RowForms
      DEF RowAge, Marked, Deleted, Stale
  <2>4. CASE /\ rows[i].status = "offline" /\ rows[i].age > DeleteAfter
             /\ rows'[i] = NoRow
    <3>1. rows[i] # NoRow /\ rows[i].age \in Nat
      BY <2>1, <2>4, RowForms DEF Age, Old
    <3>2. heard[i] + Stall > DeleteAfter
      BY <2>1, <2>4, <3>1 DEF RowAge
    <3> QED
      BY <1>1, <2>4, <3>2, RowForms DEF RowAge, Marked, Deleted
  <2> QED
    BY <2>1, <2>2, <2>3, <2>4, RowForms, TimesAssumption
    DEF MarkOfflineClients, DeleteOfflineClients, Waits, Age, Old
<1>3. rows' = [i \in Ids |-> rows'[i]]
  BY DEF MarkOfflineClients, DeleteOfflineClients
<1>4. Types'
  BY <1>1, <1>2, <1>3 DEF IInv, Types
<1>5. StallBounded'
  BY <1>1 DEF IInv, StallBounded
<1> QED
  BY <1>2, <1>4, <1>5 DEF IInv, RowsFit

(* Time makes a row and its last write older alike.                        *)
LEMMA TickStep ==
    ASSUME IInv, Tick
    PROVE  IInv'
<1>1. ASSUME NEW i \in Ids
      PROVE  /\ rows'[i] \in Row \cup {NoRow} /\ heard'[i] \in Age
             /\ (RowAge(i) /\ Marked(i) /\ Deleted(i))'
  <2>1. /\ rows[i] \in Row \cup {NoRow} /\ heard[i] \in Age
        /\ RowAge(i) /\ Marked(i) /\ Deleted(i)
    BY DEF IInv, Types, RowsFit
  <2>2. /\ heard'[i] = Later(heard[i])
        /\ rows[i] = NoRow => rows'[i] = NoRow
        /\ rows[i] # NoRow =>
              rows'[i] = [rows[i] EXCEPT !.age = Later(rows[i].age)]
    BY DEF Tick
  <2>3. heard'[i] \in Age /\ heard'[i] >= heard[i]
    BY <2>1, <2>2, TimesAssumption DEF Later, Age, Old
  <2>4. CASE rows[i] = NoRow
    BY <2>1, <2>2, <2>3, <2>4, RowForms, TimesAssumption
    DEF RowAge, Marked, Deleted, Age, Old
  <2>5. CASE rows[i] # NoRow
    <3> DEFINE a == rows[i].age
    <3>1. rows[i] \in Row /\ a \in Age /\ a <= heard[i] + Stall
      BY <2>1, <2>5, RowForms DEF RowAge
    <3>2. Later(a) \in Age /\ Later(a) <= Later(heard[i]) + Stall
      BY <2>1, <3>1, TimesAssumption DEF Later, Age, Old
    <3>3. /\ rows'[i] \in Row /\ rows'[i].age = Later(a)
          /\ rows'[i].status = rows[i].status
      BY <2>2, <2>5, <3>1, <3>2 DEF Row
    <3>4. (RowAge(i) /\ Deleted(i))'
      BY <2>2, <3>2, <3>3, RowForms DEF RowAge, Deleted
    <3>5. Marked(i)'
      BY <2>1, <2>3, <3>3, TimesAssumption DEF Marked, Age, Old
    <3> QED
      BY <2>3, <3>3, <3>4, <3>5
  <2> QED
    BY <2>4, <2>5
<1>2. /\ calls' \in [Calls -> Call]
      /\ \A h \in Calls : InTime(calls'[h])
  <2> SUFFICES ASSUME NEW h \in Calls
               PROVE  calls'[h] \in Call /\ InTime(calls'[h])
    BY DEF Tick
  <2>1. calls[h] \in Call /\ InTime(calls[h])
    BY DEF IInv, Types, StallBounded
  <2>2. CASE calls[h].at = "stamped"
    <3>1. calls[h].age < Stall /\ calls[h].age + 1 \in Age
      BY <2>1, <2>2, TimesAssumption DEF Tick, Call, Age, Old
    <3>2. calls'[h] = [calls[h] EXCEPT !.age = @ + 1]
      BY <2>2 DEF Tick
    <3> QED
      BY <2>1, <3>1, <3>2, TimesAssumption DEF Call, Age, Old, InTime
  <2>3. CASE calls[h].at # "stamped"
    BY <2>1, <2>3 DEF Tick
  <2> QED
    BY <2>2, <2>3
<1>3. Types'
  BY <1>1, <1>2 DEF Tick, client, IInv, Types
<1> QED
  BY <1>1, <1>2, <1>3 DEF IInv, StallBounded, RowsFit

(* What a call becomes when a client sends it, a handler stamps it or it   *)
(* ends.                                                                   *)
LEMMA CallForms ==
    /\ NoCall \in Call /\ InTime(NoCall)
    /\ \A n \in 0 .. MaxCount :
          LET call == [at |-> "sent", count |-> n, age |-> 0]
          IN  call \in Call /\ InTime(call)
    /\ \A end \in {"stored", "failed"} :
          LET call == [NoCall EXCEPT !.at = end]
          IN  call \in Call /\ InTime(call)
    /\ \A call \in Call :
          InTime(call) /\ call.at = "sent" =>
              /\ [call EXCEPT !.at = "stamped"] \in Call
              /\ InTime([call EXCEPT !.at = "stamped"])
<1>1. 0 \in Age /\ 0 \in 0 .. MaxCount /\ 0 <= Stall
  BY TimesAssumption, CountAssumption DEF Age, Old
<1> QED
  BY <1>1 DEF NoCall, Call, InTime, OnItsWay

(* A client's step leaves each of its calls one that fits.                 *)
LEMMA ClientStep ==
    ASSUME IInv, NEW c \in Clients,
           \/ Register(c) \/ Generate(c) \/ SendHeartbeat(c)
           \/ Return(c) \/ GiveUp(c) \/ Stop(c)
    PROVE  IInv'
<1>1. /\ calls \in [Calls -> Call] /\ \A h \in Calls : InTime(calls[h])
      /\ keyCount \in [Clients -> 0 .. MaxCount]
      /\ <<c, "awaited">> \in Calls /\ <<c, "stray">> \in Calls
  BY DEF IInv, Types, StallBounded, Calls
<1>2. UNCHANGED <<rows, heard>>
  BY DEF Register, Generate, SendHeartbeat, Return, GiveUp, Stop, table
<1>3. keyCount' \in [Clients -> 0 .. MaxCount]
  BY <1>1, CountAssumption
  DEF Register, Generate, SendHeartbeat, Return, GiveUp, Stop
<1>4. ASSUME NEW call \in Call, InTime(call),
             calls' = [calls EXCEPT ![<<c, "awaited">>] = call]
      PROVE  calls' \in [Calls -> Call] /\ \A h \in Calls : InTime(calls'[h])
  BY <1>1, <1>4
<1>5. CASE Register(c) \/ SendHeartbeat(c)
  <2>1. PICK n \in 0 .. MaxCount : Send(c, n)
    BY <1>1, <1>5, CountAssumption DEF Register, SendHeartbeat
  <2> QED
    BY <1>2, <1>3, <1>4, <2>1, CallForms, CallsStep DEF Send
<1>6. CASE Return(c)
  BY <1>2, <1>3, <1>4, <1>6, CallForms, CallsStep DEF Return
<1>7. CASE Abandon(c)
  <2> DEFINE left == IF OnItsWay(calls[<<c, "awaited">>])
                     THEN calls[<<c, "awaited">>] ELSE NoCall
  <2>1. left \in Call /\ InTime(left)
    BY <1>1, CallForms
  <2>2. calls' = [calls EXCEPT ![<<c, "stray">>] = left,
                               ![<<c, "awaited">>] = NoCall]
    BY <1>7 DEF Abandon
  <2>3. calls' \in [Calls -> Call] /\ \A h \in Calls : InTime(calls'[h])
    BY <1>1, <2>1, <2>2, CallForms
  <2> QED
    BY <1>2, <1>3, <2>3, CallsStep
<1>8. CASE UNCHANGED calls
  BY <1>1, <1>2, <1>3, <1>8, CallsStep
<1> QED
  BY <1>5, <1>6, <1>7, <1>8 DEF Generate, GiveUp, Stop

(* No step breaks the invariant.                                           *)
LEMMA FleetStep == IInv /\ [Next]_vars => IInv'
<1> SUFFICES ASSUME IInv, [Next]_vars
             PROVE  IInv'
  OBVIOUS
<1>1. /\ calls \in [Calls -> Call] /\ \A h \in Calls : InTime(calls[h])
      /\ keyCount \in [Clients -> 0 .. MaxCount]
  BY DEF IInv, Types, StallBounded
<1>2. ASSUME NEW h \in Calls, Stamp(h)
      PROVE  IInv'
  BY <1>1, <1>2, CallForms, CallsStep DEF Stamp, table, client
<1>3. ASSUME NEW h \in Calls, Fail(h)
      PROVE  IInv'
  <2>1. PICK call \in Call :
            InTime(call) /\ calls' = [calls EXCEPT ![h] = call]
    BY <1>3, CallForms DEF Fail, End, Ended
  <2> QED
    BY <1>1, <1>3, <2>1, CallsStep DEF Fail, table, client
<1>4. CASE Halt
  BY <1>1, <1>4, CallForms, CallsStep DEF Halt, Ended, table, client
<1>5. CASE StatementFails \/ Start \/ UNCHANGED vars
  BY <1>1, <1>5, CallsStep DEF StatementFails, Start, vars, table, client
<1> QED
  BY <1>2, <1>3, <1>4, <1>5, ClientStep, UpsertStep, ReaperStep, TickStep
  DEF Next, Handle

(* A client heard of within the thresholds, less a stall, is listed, and   *)
(* as active: a row that was marked or deleted was not written lately.     *)
THEOREM HeardListed == Spec => []HeardIsListed
<1>1. IInv => HeardIsListed
  <2> SUFFICES ASSUME IInv, NEW i \in Ids
               PROVE  /\ heard[i] + Stall <= DeleteAfter => rows[i] # NoRow
                      /\ heard[i] + Stall <= MarkAfter =>
                            rows[i].status = "active"
    BY DEF HeardIsListed
  <2>1. /\ rows[i] \in Row \cup {NoRow} /\ heard[i] + Stall \in Nat
        /\ Marked(i) /\ Deleted(i)
    BY TimesAssumption DEF IInv, Types, RowsFit, Age, Old
  <2> QED
    BY <2>1, RowForms, TimesAssumption DEF Marked, Deleted
<1> QED
  BY <1>1, FleetInit, FleetStep, PTL DEF Spec

-----------------------------------------------------------------------------
(* The types of all variables, given the invariant for those above.        *)
LEMMA TypesStep ==
    ASSUME TypeOK, [Next]_vars, IInv'
    PROVE  TypeOK'
<1>1. /\ up' \in BOOLEAN
      /\ reaper' \in {"idle", "marked"}
  BY DEF TypeOK, Next, vars, Register, Generate, SendHeartbeat, Return, GiveUp,
     Stop, Handle, Stamp, UpsertClient, Fail, MarkOfflineClients,
     DeleteOfflineClients, StatementFails, Start, Halt, Tick
<1>2. CASE UNCHANGED client
  BY <1>1, <1>2 DEF TypeOK, IInv, Types, client
<1>3. ASSUME NEW c \in Clients,
             \/ Register(c) \/ Generate(c) \/ SendHeartbeat(c)
             \/ Return(c) \/ GiveUp(c) \/ Stop(c)
      PROVE  TypeOK'
  <2>1. phase' \in [Clients -> {"off", "registering", "running", "beating"}]
    BY <1>3 DEF TypeOK, Register, Generate, SendHeartbeat, Return, GiveUp, Stop
  <2>2. lastCount' \in [Clients -> 0 .. MaxCount]
    BY <1>3, CountAssumption DEF TypeOK, Register, Generate, SendHeartbeat,
       Return, GiveUp, Stop
  <2>3. gaveUp' \in [Clients -> BOOLEAN]
    BY <1>3 DEF TypeOK, Register, Generate, SendHeartbeat, Return, GiveUp,
       Stop, Abandon
  <2>4. acked' \in [Clients -> BOOLEAN]
    <3>1. CASE Return(c)
      <4>1. PICK ok \in BOOLEAN : acked' = [acked EXCEPT ![c] = ok]
        BY <3>1, Zenon DEF Return
      <4> QED
        BY <4>1 DEF TypeOK
    <3> QED
      BY <1>3, <3>1 DEF TypeOK, Register, Generate, SendHeartbeat, GiveUp,
         Stop
  <2> QED
    BY <1>1, <2>1, <2>2, <2>3, <2>4 DEF TypeOK, IInv, Types
<1> QED
  BY <1>2, <1>3
  DEF Next, vars, Handle, Stamp, UpsertClient, Fail, MarkOfflineClients,
      DeleteOfflineClients, StatementFails, Start, Halt, Tick, client

(* Before any process starts the types hold.                               *)
LEMMA TypesInit == Init => TypeOK
<1> SUFFICES ASSUME Init PROVE TypeOK
  OBVIOUS
<1>1. IInv
  BY FleetInit
<1> QED
  BY <1>1, CountAssumption DEF Init, TypeOK, IInv, Types

(* Every variable keeps its type.                                          *)
THEOREM FleetTypes == Spec => []TypeOK
<1>1. Init => IInv /\ TypeOK
  BY FleetInit, TypesInit
<1>2. IInv /\ TypeOK /\ [Next]_vars => (IInv /\ TypeOK)'
  BY FleetStep, TypesStep
<1> QED
  BY <1>1, <1>2, PTL DEF Spec

-----------------------------------------------------------------------------
(* What a row holds.  As long as a client has its row for itself and waits *)
(* for every call, one call at a time is on its way, with the count that   *)
(* was sent last; so the row holds that count once the call has succeeded, *)
(* and none that was never sent.                                           *)
Awaited(c)  == calls[<<c, "awaited">>]
RowOf(c)    == rows[IdOf[c]]
NotAhead(c) == RowOf(c) # NoRow => RowOf(c).count <= lastCount[c]
Exact(c)    == RowOf(c) # NoRow => RowOf(c).count = lastCount[c]

OneCall(c) ==
    /\ calls[<<c, "stray">>] = NoCall
    /\ OnItsWay(Awaited(c)) => Awaited(c).count = lastCount[c]

RowFollows(c) ==
    /\ Awaited(c).at = "stored" => Exact(c)
    /\ phase[c] \in {"running", "beating"} => NotAhead(c)
    /\ phase[c] = "running" /\ acked[c] => Exact(c)

Reports(c) ==
    /\ lastCount[c] <= keyCount[c]
    /\ Awaited(c).at = "none" <=> phase[c] \in {"off", "running"}
    /\ Undisturbed(c) => OneCall(c) /\ RowFollows(c)

RInv == IInv /\ TypeOK /\ \A c \in Clients : Reports(c)

(* A client that is disturbed once remains so.                             *)
LEMMA DisturbedStays ==
    ASSUME TypeOK, [Next]_vars, NEW c \in Clients, Undisturbed(c)'
    PROVE  Undisturbed(c)
  BY DEF TypeOK, Undisturbed, Next, vars, Register, Generate, SendHeartbeat,
     Return, GiveUp, Stop, Abandon, Handle, Stamp, UpsertClient, Fail,
     MarkOfflineClients, DeleteOfflineClients, StatementFails, Start, Halt,
     Tick, client

(* A step that leaves the client and its calls alone, and its row as it is *)
(* but for its age and status, or deletes it.                              *)
LEMMA RowKept ==
    ASSUME NEW c \in Clients, Reports(c), Undisturbed(c)' => Undisturbed(c),
           UNCHANGED <<phase[c], keyCount[c], lastCount[c], acked[c],
                       Awaited(c), calls[<<c, "stray">>]>>,
           Undisturbed(c) => \/ RowOf(c)' = NoRow
                             \/ /\ RowOf(c) # NoRow
                                /\ RowOf(c)'.count = RowOf(c).count
    PROVE  Reports(c)'
  BY DEF Reports, OneCall, RowFollows, Exact, NotAhead, Awaited, OnItsWay

(* A client's own step: it registers with the counts at zero, sends the    *)
(* count of now, or takes the answer to the call it waited for.            *)
LEMMA OwnStep ==
    ASSUME RInv, [Next]_vars, NEW c \in Clients,
           \/ Register(c) \/ Generate(c) \/ SendHeartbeat(c)
           \/ Return(c) \/ GiveUp(c) \/ Stop(c)
    PROVE  Reports(c)'
<1>1. /\ Reports(c) /\ TypeOK
      /\ <<c, "awaited">> \in Calls /\ <<c, "stray">> \in Calls
      /\ <<c, "awaited">> # <<c, "stray">>
      /\ keyCount[c] \in Nat /\ lastCount[c] \in Nat
      /\ UNCHANGED rows
  BY CountAssumption
  DEF RInv, TypeOK, Calls, Register, Generate, SendHeartbeat, Return, GiveUp,
      Stop, table
<1>2. Undisturbed(c)' => Undisturbed(c)
  BY <1>1, DisturbedStays
<1>3. RowOf(c) # NoRow => RowOf(c).count \in Nat
  BY IdAssumption, RowForms, CountAssumption DEF RInv, TypeOK, RowOf
<1> USE DEF Awaited
<1>4. CASE Register(c)
  <2>1. /\ Awaited(c)' = [at |-> "sent", count |-> 0, age |-> 0]
        /\ calls'[<<c, "stray">>] = calls[<<c, "stray">>]
        /\ phase'[c] = "registering" /\ keyCount'[c] = 0 /\ lastCount'[c] = 0
    BY <1>1, <1>4 DEF Register, Send, TypeOK
  <2> QED
    BY <1>1, <1>2, <2>1 DEF Reports, OneCall, RowFollows, OnItsWay
<1>5. CASE Generate(c)
  <2>1. keyCount'[c] = keyCount[c] + 1
    BY <1>1, <1>5 DEF Generate, TypeOK
  <2>2. UNCHANGED <<phase, lastCount, acked, calls>>
    BY <1>5 DEF Generate
  <2> QED
    BY <1>1, <1>2, <2>1, <2>2
    DEF Reports, OneCall, RowFollows, Exact, NotAhead, RowOf
<1>6. CASE SendHeartbeat(c)
  <2>1. /\ Awaited(c)' = [at |-> "sent", count |-> keyCount[c], age |-> 0]
        /\ calls'[<<c, "stray">>] = calls[<<c, "stray">>]
        /\ phase[c] = "running" /\ phase'[c] = "beating"
        /\ keyCount'[c] = keyCount[c] /\ lastCount'[c] = keyCount[c]
    BY <1>1, <1>6 DEF SendHeartbeat, Send, TypeOK
  <2> QED
    BY <1>1, <1>2, <1>3, <2>1
    DEF Reports, OneCall, RowFollows, NotAhead, RowOf, OnItsWay
<1>7. CASE Return(c)
  <2>1. /\ Awaited(c)' = NoCall
        /\ calls'[<<c, "stray">>] = calls[<<c, "stray">>]
        /\ UNCHANGED <<keyCount, lastCount>>
    BY <1>1, <1>7 DEF Return, TypeOK
  <2>2. \/ phase'[c] = "off"
        \/ /\ phase'[c] = "running"
           /\ Awaited(c).at = "stored" \/ phase[c] = "beating"
    BY <1>1, <1>7 DEF Return, TypeOK
  <2>3. acked'[c] => Awaited(c).at = "stored"
    BY <1>1, <1>7, Zenon DEF Return, TypeOK
  <2> QED
    BY <1>1, <1>2, <1>3, <2>1, <2>2, <2>3
    DEF Reports, OneCall, RowFollows, Exact, NotAhead, RowOf, OnItsWay, NoCall
<1>8. CASE Abandon(c) /\ (GiveUp(c) \/ Stop(c))
  <2>1. ~Undisturbed(c)' /\ Awaited(c)' = NoCall
    BY <1>1, <1>8 DEF Abandon, TypeOK, Undisturbed
  <2>2. phase'[c] \in {"off", "running"} /\ UNCHANGED <<keyCount, lastCount>>
    BY <1>1, <1>8 DEF GiveUp, Stop, TypeOK
  <2> QED
    BY <1>1, <2>1, <2>2 DEF Reports, NoCall
<1>9. CASE Stop(c) /\ Awaited(c).at = "none"
  <2>1. phase'[c] = "off" /\ UNCHANGED <<calls, keyCount, lastCount>>
    BY <1>1, <1>9 DEF Stop, TypeOK
  <2> QED
    BY <1>1, <1>2, <1>9, <2>1 DEF Reports, OneCall, RowFollows, OnItsWay
<1> QED
  BY <1>4, <1>5, <1>6, <1>7, <1>8, <1>9 DEF GiveUp, Stop

(* A handler moves one call on.  Only the client's own call reaches its    *)
(* row, and that call carries the count sent last.                         *)
LEMMA HandlerStep ==
    ASSUME RInv, [Next]_vars, NEW c \in Clients, NEW h \in Calls, Handle(h)
    PROVE  Reports(c)'
<1>1. /\ Reports(c) /\ TypeOK
      /\ <<c, "awaited">> \in Calls /\ <<c, "stray">> \in Calls
      /\ h[1] \in Clients /\ h = <<h[1], h[2]>>
      /\ h[2] \in {"awaited", "stray"}
      /\ UNCHANGED <<phase, keyCount, lastCount, acked>>
  BY DEF RInv, Calls, Handle, Stamp, UpsertClient, Fail, client
<1>2. Undisturbed(c)' => Undisturbed(c)
  BY <1>1, DisturbedStays
<1>3. OnItsWay(calls[h])
  BY DEF Handle, Stamp, UpsertClient, Fail, OnItsWay
<1>4. Undisturbed(c) => h # <<c, "stray">>
  BY <1>1, <1>3 DEF Reports, OneCall, OnItsWay, NoCall
<1>5. /\ h # <<c, "awaited">> => Awaited(c)' = Awaited(c)
      /\ h # <<c, "stray">> => UNCHANGED calls[<<c, "stray">>]
  BY <1>1 DEF Awaited, TypeOK, Handle, Stamp, UpsertClient, Fail, End
<1>6. h = <<c, "awaited">> =>
        \/ /\ Awaited(c)' = [Awaited(c) EXCEPT !.at = "stamped"]
           /\ ~UpsertClient(h)
        \/ /\ Awaited(c)' = [NoCall EXCEPT !.at = "stored"]
           /\ UpsertClient(h)
        \/ Awaited(c)' = [NoCall EXCEPT !.at = "failed"]
  BY <1>1 DEF Awaited, TypeOK, Handle, Stamp, UpsertClient, Fail, End, Ended
<1>7. h = <<c, "awaited">> =>
        /\ Awaited(c)'.at \in {"stamped", "stored", "failed"}
        /\ Awaited(c)'.at = "stored" => UpsertClient(h)
        /\ Awaited(c)'.at = "stamped" => Awaited(c)'.count = Awaited(c).count
  <2>1. Awaited(c) \in Call
    BY <1>1 DEF Awaited, TypeOK
  <2>2. /\ [NoCall EXCEPT !.at = "stored"].at = "stored"
        /\ [NoCall EXCEPT !.at = "failed"].at = "failed"
    BY DEF NoCall
  <2>3. /\ [Awaited(c) EXCEPT !.at = "stamped"].at = "stamped"
        /\ [Awaited(c) EXCEPT !.at = "stamped"].count = Awaited(c).count
    BY <2>1 DEF Call
  <2> QED
    BY <1>6, <2>2, <2>3
<1>8. CASE ~UpsertClient(h)
  <2>1. UNCHANGED rows
    BY <1>8 DEF Handle, Stamp, Fail, table
  <2>2. h = <<c, "awaited">> => Awaited(c)'.at # "stored"
    BY <1>7, <1>8
  <2> QED
    BY <1>1, <1>2, <1>3, <1>4, <1>5, <1>7, <2>1, <2>2
    DEF Reports, OneCall, RowFollows, Exact, NotAhead, RowOf, OnItsWay, Awaited
<1>9. CASE UpsertClient(h)
  <2> DEFINE i == IdOf[h[1]]
             row == [age |-> calls[h].age, status |-> "active",
                     count |-> calls[h].count]
  <2>1. i \in Ids /\ IdOf[c] \in Ids /\ rows' = [rows EXCEPT ![i] = row]
    BY <1>1, <1>9, IdAssumption DEF UpsertClient
  <2>2. CASE h = <<c, "awaited">>
    <3>1. RowOf(c)' = row
      BY <1>1, <2>1, <2>2 DEF RowOf, TypeOK
    <3>2. Undisturbed(c) => RowOf(c)'.count = lastCount[c]
      BY <1>1, <1>3, <2>2, <3>1 DEF Reports, OneCall, Awaited
    <3>3. Undisturbed(c)' => OneCall(c)' /\ RowFollows(c)'
      <4> SUFFICES ASSUME Undisturbed(c)'
                   PROVE  OneCall(c)' /\ RowFollows(c)'
        OBVIOUS
      <4>1. Undisturbed(c) /\ OneCall(c)
        BY <1>1, <1>2 DEF Reports
      <4>2. OneCall(c)'
        BY <1>1, <1>3, <1>5, <1>7, <2>2, <4>1 DEF OneCall, OnItsWay, Awaited
      <4>3. lastCount'[c] = lastCount[c] /\ lastCount[c] \in Nat
        BY <1>1, CountAssumption DEF TypeOK
      <4>4. Exact(c)' /\ NotAhead(c)'
        BY <3>2, <4>1, <4>3 DEF Exact, NotAhead
      <4> QED
        BY <4>2, <4>4 DEF RowFollows
    <3>4. phase[c] \notin {"off", "running"}
      BY <1>1, <1>3, <2>2 DEF Reports, Awaited, OnItsWay
    <3> QED
      BY <1>1, <1>7, <2>2, <3>3, <3>4 DEF Reports
  <2>3. CASE h # <<c, "awaited">>
    <3>1. Undisturbed(c) => RowOf(c)' = RowOf(c)
      <4> SUFFICES ASSUME Undisturbed(c)
                   PROVE  RowOf(c)' = RowOf(c)
        OBVIOUS
      <4>1. h[1] # c
        BY <1>1, <1>4, <2>3
      <4>2. i # IdOf[c]
        BY <1>1, <4>1 DEF Undisturbed
      <4> QED
        BY <2>1, <4>2 DEF RowOf
    <3> QED
      BY <1>1, <1>2, <1>4, <1>5, <2>3, <3>1
      DEF Reports, OneCall, RowFollows, Exact, NotAhead, OnItsWay, Awaited
  <2> QED
    BY <2>2, <2>3
<1> QED
  BY <1>8, <1>9

(* The reaper, the server's life and the time leave the counts alone, or   *)
(* delete the row.                                                         *)
LEMMA ServerStep ==
    ASSUME RInv, [Next]_vars, NEW c \in Clients,
           \/ MarkOfflineClients \/ DeleteOfflineClients \/ StatementFails
           \/ Start \/ Halt \/ Tick \/ UNCHANGED vars
    PROVE  Reports(c)'
<1>1. /\ Reports(c) /\ TypeOK
      /\ <<c, "awaited">> \in Calls /\ <<c, "stray">> \in Calls
      /\ UNCHANGED <<phase, keyCount, lastCount, acked>>
  BY DEF RInv, Calls, MarkOfflineClients, DeleteOfflineClients,
         StatementFails, Start, Halt, Tick, vars, client
<1>2. Undisturbed(c)' => Undisturbed(c)
  BY <1>1, DisturbedStays
<1>3. RowOf(c) \in Row \cup {NoRow} /\ IdOf[c] \in Ids
  BY <1>1, IdAssumption DEF RowOf, TypeOK
<1>4. CASE UNCHANGED vars \/ StatementFails \/ Start
  BY <1>1, <1>2, <1>4
  DEF StatementFails, Start, vars, table, Reports, OneCall, RowFollows, Exact,
      NotAhead, RowOf, Awaited
<1>5. CASE MarkOfflineClients \/ DeleteOfflineClients
  <2>1. UNCHANGED <<Awaited(c), calls[<<c, "stray">>]>>
    BY <1>5 DEF MarkOfflineClients, DeleteOfflineClients, Awaited
  <2>2. \/ RowOf(c)' = RowOf(c)
        \/ RowOf(c)' = NoRow
        \/ /\ RowOf(c) # NoRow
           /\ RowOf(c)' = [RowOf(c) EXCEPT !.status = "offline"]
    BY <1>3, <1>5 DEF MarkOfflineClients, DeleteOfflineClients, Stale, RowOf
  <2>3. \/ RowOf(c)' = NoRow
        \/ RowOf(c) # NoRow /\ RowOf(c)'.count = RowOf(c).count
    BY <1>3, <2>2 DEF Row
  <2> QED
    BY <1>1, <1>2, <2>1, <2>3, RowKept
<1>6. CASE Tick
  <2>1. \/ RowOf(c)' = NoRow
        \/ /\ RowOf(c) # NoRow
           /\ RowOf(c)' = [RowOf(c) EXCEPT !.age = Later(@)]
    BY <1>3, <1>6 DEF Tick, RowOf
  <2>2. \/ RowOf(c)' = NoRow
        \/ RowOf(c) # NoRow /\ RowOf(c)'.count = RowOf(c).count
    BY <1>3, <2>1 DEF Row
  <2>3. \A h \in Calls :
          \/ UNCHANGED calls[h]
          \/ /\ calls[h].at = "stamped"
             /\ calls'[h] = [calls[h] EXCEPT !.age = @ + 1]
    BY <1>6 DEF Tick
  <2>4. \A h \in Calls : /\ calls'[h].at = calls[h].at
                         /\ calls'[h].count = calls[h].count
                         /\ calls[h] = NoCall => calls'[h] = NoCall
    <3> SUFFICES ASSUME NEW h \in Calls
                 PROVE  /\ calls'[h].at = calls[h].at
                        /\ calls'[h].count = calls[h].count
                        /\ calls[h] = NoCall => calls'[h] = NoCall
      OBVIOUS
    <3>1. calls[h] \in Call /\ NoCall.at = "none"
      BY <1>1 DEF TypeOK, NoCall
    <3>2. CASE UNCHANGED calls[h]
      BY <3>2
    <3>3. CASE /\ calls[h].at = "stamped"
               /\ calls'[h] = [calls[h] EXCEPT !.age = @ + 1]
      <4>1. calls'[h].at = calls[h].at /\ calls'[h].count = calls[h].count
        BY <3>1, <3>3 DEF Call
      <4> QED
        BY <3>1, <3>3, <4>1
    <3> QED
      BY <2>3, <3>2, <3>3
  <2> QED
    BY <1>1, <1>2, <2>2, <2>4
    DEF Reports, OneCall, RowFollows, Exact, NotAhead, Awaited, OnItsWay
<1>7. CASE Halt
  <2>1. RowOf(c)' = RowOf(c)
    BY <1>7 DEF Halt, table, RowOf
  <2>2. \A h \in Calls :
          \/ UNCHANGED calls[h]
          \/ calls[h].at = "stamped" /\ calls'[h] = Ended(h, "failed")
    BY <1>7 DEF Halt
  <2>3. /\ [NoCall EXCEPT !.at = "failed"].at = "failed"
        /\ NoCall.at = "none"
    BY DEF NoCall
  <2>4. \/ UNCHANGED Awaited(c)
        \/ OnItsWay(Awaited(c)) /\ Awaited(c)'.at = "failed"
    BY <1>1, <2>2, <2>3 DEF Ended, Awaited, OnItsWay
  <2>5. calls[<<c, "stray">>] = NoCall => UNCHANGED calls[<<c, "stray">>]
    BY <1>1, <2>2, <2>3
  <2> QED
    BY <1>1, <1>2, <2>1, <2>4, <2>5
    DEF Reports, OneCall, RowFollows, Exact, NotAhead, OnItsWay
<1> QED
  BY <1>4, <1>5, <1>6, <1>7

(* No step of the fleet breaks this.                                       *)
LEMMA ReportsStep == RInv /\ [Next]_vars => RInv'
<1> SUFFICES ASSUME RInv, [Next]_vars
             PROVE  RInv'
  OBVIOUS
<1>1. IInv' /\ TypeOK'
  BY FleetStep, TypesStep DEF RInv
<1>2. ASSUME NEW c \in Clients, NEW d \in Clients, d # c,
             \/ Register(d) \/ Generate(d) \/ SendHeartbeat(d)
             \/ Return(d) \/ GiveUp(d) \/ Stop(d)
      PROVE  Reports(c)'
  <2>1. Reports(c) /\ TypeOK
    BY DEF RInv
  <2>2. Undisturbed(c)' => Undisturbed(c)
    BY <2>1, DisturbedStays
  <2>3. UNCHANGED <<phase[c], keyCount[c], lastCount[c], acked[c], rows>>
    BY <1>2, <2>1 DEF TypeOK, Register, Generate, SendHeartbeat, Return,
       GiveUp, Stop, table
  <2>4. UNCHANGED <<Awaited(c), calls[<<c, "stray">>]>>
    BY <1>2, <2>1 DEF TypeOK, Calls, Awaited, Register, Generate,
       SendHeartbeat, Send, Return, GiveUp, Stop, Abandon
  <2> QED
    BY <2>1, <2>2, <2>3, <2>4
    DEF Reports, OneCall, RowFollows, Exact, NotAhead, RowOf, Awaited
<1>3. \A c \in Clients : Reports(c)'
  BY <1>2, OwnStep, HandlerStep, ServerStep DEF Next
<1> QED
  BY <1>1, <1>3 DEF RInv

(* The row of a client that has it for itself and waits for its calls      *)
(* holds what it sent last, or an earlier count if that call failed.       *)
THEOREM RowsAreReports == Spec => []RowIsLastReport
<1>1. Init => RInv
  <2> SUFFICES ASSUME Init PROVE RInv
    OBVIOUS
  <2>1. ASSUME NEW c \in Clients
        PROVE  Reports(c)
    <3>1. /\ Awaited(c) = NoCall /\ calls[<<c, "stray">>] = NoCall
          /\ RowOf(c) = NoRow /\ phase[c] = "off"
          /\ keyCount[c] = 0 /\ lastCount[c] = 0
      BY IdAssumption DEF Init, Awaited, RowOf, Calls
    <3>2. NoCall.at = "none"
      BY DEF NoCall
    <3> QED
      BY <3>1, <3>2 DEF Reports, OneCall, RowFollows, OnItsWay
  <2> QED
    BY <2>1, FleetInit, TypesInit DEF RInv
<1>2. RInv => RowIsLastReport
  BY DEF RInv, Reports, RowFollows, Exact, NotAhead, RowOf, RowIsLastReport
<1> QED
  BY <1>1, <1>2, ReportsStep, PTL DEF Spec
=============================================================================
