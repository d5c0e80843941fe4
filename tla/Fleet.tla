------------------------------- MODULE Fleet -------------------------------
(***************************************************************************)
(* The fleet: clients that register and send heartbeats                    *)
(* (pkg/client/main.go), the handlers that write the clients table         *)
(* (pkg/server/routes_clients.go) and the reaper that marks and deletes    *)
(* stale rows (pkg/server/server.go, pkg/store/store.go).                  *)
(*                                                                         *)
(* Time passes in ticks and is kept as ages: how long ago a time stamp was *)
(* taken.  Ages stop growing at Old, beyond every threshold.               *)
(***************************************************************************)
EXTENDS Naturals

CONSTANTS
    Clients,      \* client processes
    Ids,          \* rows of the clients table
    IdOf,         \* stableID: the id of a process, a hash of its host name
    MarkAfter,    \* 90 seconds, in ticks
    DeleteAfter,  \* 5 minutes
    Stall,        \* longest time from reading the clock to the statement
    MaxCount      \* bound on the keys a client counts

ASSUME IdAssumption == IdOf \in [Clients -> Ids]
ASSUME TimesAssumption ==
    /\ MarkAfter \in Nat /\ DeleteAfter \in Nat /\ Stall \in Nat
    /\ Stall <= MarkAfter /\ MarkAfter <= DeleteAfter
ASSUME CountAssumption == MaxCount \in Nat

Old      == DeleteAfter + Stall + 1
Age      == 0 .. Old
Later(a) == IF a = Old THEN Old ELSE a + 1

(* A client awaits one call at a time.  One it gave up on may still be on  *)
(* its way or in a handler; one such call per process is followed.         *)
Calls == Clients \X {"awaited", "stray"}

Row    == [age : Age, status : {"active", "offline"}, count : 0 .. MaxCount]
NoRow  == [status |-> "none"]
Call   == [at : {"none", "sent", "stamped", "stored", "failed"},
           count : 0 .. MaxCount, age : Age]
NoCall == [at |-> "none", count |-> 0, age |-> 0]

OnItsWay(call) == call.at \in {"sent", "stamped"}

VARIABLES
    rows,      \* table clients
    up,        \* the server runs
    reaper,    \* where its reaper is
    calls,     \* registrations and heartbeats on their way
    phase,     \* where each client's main goroutine is
    keyCount,  \* Client.keyCount
    lastCount, \* Client.lastKeyCount: what was sent last
    \* For the properties only.
    acked,     \* the last call of the client succeeded
    gaveUp,    \* some call of the client was abandoned
    heard      \* age of the last write of each row by a handler

client == <<phase, keyCount, lastCount, acked, gaveUp>>
table  == <<rows, heard>>
vars   == <<rows, up, reaper, calls, phase, keyCount, lastCount, acked,
            gaveUp, heard>>

Init ==
    /\ rows = [i \in Ids |-> NoRow]
    /\ up = FALSE
    /\ reaper = "idle"
    /\ calls = [h \in Calls |-> NoCall]
    /\ phase = [c \in Clients |-> "off"]
    /\ keyCount = [c \in Clients |-> 0]
    /\ lastCount = [c \in Clients |-> 0]
    /\ acked = [c \in Clients |-> FALSE]
    /\ gaveUp = [c \in Clients |-> FALSE]
    /\ heard = [i \in Ids |-> Old]

-----------------------------------------------------------------------------
(* A client.                                                               *)

Send(c, n) ==
    calls' = [calls EXCEPT ![<<c, "awaited">>] =
                [at |-> "sent", count |-> n, age |-> 0]]

(* Run starts with counters at zero and registers.                         *)
Register(c) ==
    /\ phase[c] = "off"
    /\ phase' = [phase EXCEPT ![c] = "registering"]
    /\ keyCount' = [keyCount EXCEPT ![c] = 0]
    /\ lastCount' = [lastCount EXCEPT ![c] = 0]
    /\ Send(c, 0)
    /\ acked' = [acked EXCEPT ![c] = FALSE]
    /\ UNCHANGED <<table, up, reaper, gaveUp>>

(* Seekers count keys from the registration on.                            *)
Generate(c) ==
    /\ phase[c] \in {"running", "beating"}
    /\ keyCount[c] < MaxCount
    /\ keyCount' = [keyCount EXCEPT ![c] = @ + 1]
    /\ UNCHANGED <<table, up, reaper, calls, phase, lastCount, acked, gaveUp>>

(* sendHeartbeat reads the counter, remembers it as sent, then sends it.   *)
SendHeartbeat(c) ==
    /\ phase[c] = "running"
    /\ phase' = [phase EXCEPT ![c] = "beating"]
    /\ lastCount' = [lastCount EXCEPT ![c] = keyCount[c]]
    /\ Send(c, keyCount[c])
    /\ acked' = [acked EXCEPT ![c] = FALSE]
    /\ UNCHANGED <<table, up, reaper, keyCount, gaveUp>>

(* The call returns.  A heartbeat's error is logged; a registration's, or  *)
(* that of the first fetch of the patterns after it, ends the client.      *)
Return(c) ==
    LET ok == calls[<<c, "awaited">>].at = "stored" IN
    /\ calls[<<c, "awaited">>].at \in {"stored", "failed"}
    /\ \/ /\ ok \/ phase[c] = "beating"
          /\ phase' = [phase EXCEPT ![c] = "running"]
       \/ /\ phase[c] = "registering"
          /\ phase' = [phase EXCEPT ![c] = "off"]
    /\ acked' = [acked EXCEPT ![c] = ok]
    /\ calls' = [calls EXCEPT ![<<c, "awaited">>] = NoCall]
    /\ UNCHANGED <<table, up, reaper, keyCount, lastCount, gaveUp>>

(* The awaited call is left to itself.                                     *)
Abandon(c) ==
    /\ calls' = [calls EXCEPT
                   ![<<c, "stray">>] =
                       IF OnItsWay(calls[<<c, "awaited">>])
                       THEN calls[<<c, "awaited">>] ELSE NoCall,
                   ![<<c, "awaited">>] = NoCall]
    /\ gaveUp' = [gaveUp EXCEPT ![c] = TRUE]

(* The client's timeout of 10 seconds, or an error of the connection.      *)
GiveUp(c) ==
    /\ calls[<<c, "awaited">>].at # "none"
    /\ phase' = [phase EXCEPT ![c] =
                   IF @ = "beating" THEN "running" ELSE "off"]
    /\ Abandon(c)
    /\ UNCHANGED <<table, up, reaper, keyCount, lastCount, acked>>

(* The process ends, however.  It does not tell the server.                *)
Stop(c) ==
    /\ phase[c] # "off"
    /\ phase' = [phase EXCEPT ![c] = "off"]
    /\ IF calls[<<c, "awaited">>].at = "none"
       THEN UNCHANGED <<calls, gaveUp>>
       ELSE Abandon(c)
    /\ UNCHANGED <<table, up, reaper, keyCount, lastCount, acked>>

-----------------------------------------------------------------------------
(* The handlers, handleRegister and handleHeartbeat alike.                 *)

(* A call ends; the answer to a stray one goes nowhere.                    *)
Ended(h, end) == IF h[2] = "stray" THEN NoCall ELSE [NoCall EXCEPT !.at = end]

End(h, end) == calls' = [calls EXCEPT ![h] = Ended(h, end)]

(* LastSeen is taken from the clock ...                                    *)
Stamp(h) ==
    /\ up
    /\ calls[h].at = "sent"
    /\ calls' = [calls EXCEPT ![h].at = "stamped"]
    /\ UNCHANGED <<table, up, reaper, client>>

(* Fault: a row that exists keeps its status.                              *)
UpsertKeepsStatus(h) ==
    /\ up
    /\ calls[h].at = "stamped"
    /\ LET i == IdOf[h[1]] IN
        /\ rows' = [rows EXCEPT ![i] =
                      [age |-> calls[h].age, count |-> calls[h].count,
                       status |-> IF @ = NoRow THEN "active" ELSE @.status]]
        /\ heard' = [heard EXCEPT ![i] = 0]
    /\ \E end \in {"stored", "failed"} : End(h, end)
    /\ UNCHANGED <<up, reaper, client>>

(* Fault: a row that exists keeps its count.                               *)
UpsertKeepsCount(h) ==
    /\ up
    /\ calls[h].at = "stamped"
    /\ LET i == IdOf[h[1]] IN
        /\ rows' = [rows EXCEPT ![i] =
                      [age |-> calls[h].age, status |-> "active",
                       count |-> IF @ = NoRow
                                 THEN calls[h].count ELSE @.count]]
        /\ heard' = [heard EXCEPT ![i] = 0]
    /\ \E end \in {"stored", "failed"} : End(h, end)
    /\ UNCHANGED <<up, reaper, client>>

(* ... before UpsertClient writes the row.  An interrupt may turn the      *)
(* answer into an error although the row is written.                       *)
UpsertClient(h) ==
    /\ up
    /\ calls[h].at = "stamped"
    /\ LET i == IdOf[h[1]] IN
        /\ rows' = [rows EXCEPT ![i] =
                      [age |-> calls[h].age, status |-> "active",
                       count |-> calls[h].count]]
        /\ heard' = [heard EXCEPT ![i] = 0]
    /\ \E end \in {"stored", "failed"} : End(h, end)
    /\ UNCHANGED <<up, reaper, client>>

(* The call does not get there, or the statement fails.                    *)
Fail(h) ==
    /\ OnItsWay(calls[h])
    /\ End(h, "failed")
    /\ UNCHANGED <<table, up, reaper, client>>

Handle(h) == Stamp(h) \/ UpsertClient(h) \/ Fail(h)

-----------------------------------------------------------------------------
(* The reaper: two statements per pass, the second tried whatever became   *)
(* of the first.  The cut-off is computed some time (wait) before the      *)
(* statement runs.                                                         *)

Waits == 0 .. Stall

Stale(wait) == {i \in Ids : /\ rows[i] # NoRow
                            /\ rows[i].age > MarkAfter + wait
                            /\ rows[i].status # "offline"}

(* Fault: the status is one that the deletion does not look for.           *)
MarkAsIdle ==
    /\ up /\ reaper = "idle"
    /\ reaper' = "marked"
    /\ \E wait \in Waits :
          rows' = [i \in Ids |-> IF i \in Stale(wait)
                                THEN [rows[i] EXCEPT !.status = "idle"]
                                ELSE rows[i]]
    /\ UNCHANGED <<up, calls, client, heard>>

MarkOfflineClients ==
    /\ up /\ reaper = "idle"
    /\ reaper' = "marked"
    /\ \E wait \in Waits :
          rows' = [i \in Ids |-> IF i \in Stale(wait)
                                THEN [rows[i] EXCEPT !.status = "offline"]
                                ELSE rows[i]]
    /\ UNCHANGED <<up, calls, client, heard>>

DeleteOfflineClients ==
    /\ up /\ reaper = "marked"
    /\ reaper' = "idle"
    /\ \E wait \in Waits :
          rows' = [i \in Ids |-> IF /\ rows[i].status = "offline"
                                   /\ rows[i].age > DeleteAfter + wait
                                THEN NoRow ELSE rows[i]]
    /\ UNCHANGED <<up, calls, client, heard>>

(* A statement fails; the error is logged.                                 *)
StatementFails ==
    /\ up
    /\ reaper' = IF reaper = "idle" THEN "marked" ELSE "idle"
    /\ UNCHANGED <<table, up, calls, client>>

-----------------------------------------------------------------------------
(* The server process, and time.                                           *)

Start ==
    /\ ~up
    /\ up' = TRUE
    /\ UNCHANGED <<table, reaper, calls, client>>

(* The handlers and the reaper end with the process; the table is on disk. *)
Halt ==
    /\ up
    /\ up' = FALSE
    /\ reaper' = "idle"
    /\ calls' = [h \in Calls |-> IF calls[h].at = "stamped"
                                 THEN Ended(h, "failed") ELSE calls[h]]
    /\ UNCHANGED <<table, client>>

(* Time passes.  A handler writes or fails within Stall of its time stamp: *)
(* an assumption, as no deadline of the program bounds the statement.      *)
Tick ==
    LET pass(r) == IF r = NoRow THEN r ELSE [r EXCEPT !.age = Later(@)] IN
    /\ \A h \in Calls : calls[h].at = "stamped" => calls[h].age < Stall
    /\ rows' = [i \in Ids |-> pass(rows[i])]
    /\ calls' = [h \in Calls |-> IF calls[h].at = "stamped"
                                 THEN [calls[h] EXCEPT !.age = @ + 1]
                                 ELSE calls[h]]
    /\ heard' = [i \in Ids |-> Later(heard[i])]
    /\ UNCHANGED <<up, reaper, client>>

Next ==
    \/ \E c \in Clients : \/ Register(c) \/ Generate(c) \/ SendHeartbeat(c)
                          \/ Return(c) \/ GiveUp(c) \/ Stop(c)
    \/ \E h \in Calls : Handle(h)
    \/ MarkOfflineClients \/ DeleteOfflineClients \/ StatementFails
    \/ Start \/ Halt \/ Tick

Spec == Init /\ [][Next]_vars

(* Time passes, and a call in a handler comes to an end.                   *)
FairSpec ==
    /\ Spec
    /\ WF_vars(Tick)
    /\ \A h \in Calls : WF_vars(Handle(h))

-----------------------------------------------------------------------------
(* The types of the state.                                                 *)
TypeOK ==
    /\ rows \in [Ids -> Row \cup {NoRow}]
    /\ up \in BOOLEAN
    /\ reaper \in {"idle", "marked"}
    /\ calls \in [Calls -> Call]
    /\ phase \in [Clients -> {"off", "registering", "running", "beating"}]
    /\ keyCount \in [Clients -> 0 .. MaxCount]
    /\ lastCount \in [Clients -> 0 .. MaxCount]
    /\ acked \in [Clients -> BOOLEAN] /\ gaveUp \in [Clients -> BOOLEAN]
    /\ heard \in [Ids -> Age]

(* A client the server has heard of recently is listed, and as active: not *)
(* even a handler that stalled, an answer nobody waited for or a restart   *)
(* of the server lets the reaper mark a row within 90 seconds of the last  *)
(* write, or delete one within 5 minutes, less the stall of that write.    *)
HeardIsListed ==
    \A i \in Ids :
        /\ heard[i] + Stall <= DeleteAfter => rows[i] # NoRow
        /\ heard[i] + Stall <= MarkAfter => rows[i].status = "active"

(* The row of a client that has its id for itself and never gave up on a   *)
(* call holds the count it sent last, or an earlier one if that call       *)
(* failed; restarts and registrations included.                            *)
Undisturbed(c) ==
    ~gaveUp[c] /\ \A d \in Clients \ {c} : IdOf[d] # IdOf[c]

RowIsLastReport ==
    \A c \in Clients :
        LET row == rows[IdOf[c]] IN
        (Undisturbed(c) /\ phase[c] = "running" /\ row # NoRow) =>
            /\ row.count <= lastCount[c]
            /\ acked[c] => row.count = lastCount[c]

(* A client that has stopped is gone from the list in the end, if the      *)
(* reaper's statements succeed again and again.                            *)
Silent(i) ==
    \A c \in Clients : IdOf[c] = i =>
        phase[c] = "off" /\ calls[<<c, "stray">>] = NoCall

SilentClientsLeave ==
    \A i \in Ids :
        (/\ <>[]Silent(i)
         /\ []<><<MarkOfflineClients>>_vars
         /\ []<><<DeleteOfflineClients>>_vars) => <>[](rows[i] = NoRow)
=============================================================================
