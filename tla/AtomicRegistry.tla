--------------------------- MODULE AtomicRegistry ---------------------------
(***************************************************************************)
(* What the API of targets and matches promises its clients: every request *)
(* takes effect at one instant between its arrival and its answer, once or *)
(* not at all, and one that is answered with success has taken effect.     *)
(* Nothing but requests and seeding changes the two tables.  Store calls,  *)
(* look-ups and the phases of the process are hidden.                      *)
(***************************************************************************)
CONSTANTS
    Requests, TargetIds,
    Rows,          \* what a target may be
    SeedRows,      \* what the server itself may insert
    Calls, NoCall, \* what a request may ask for
    NoTarget, NoMatch, Unattributed

VARIABLES
    targets,   \* id -> row
    matches,   \* the request that stored it -> its target_id
    issued,    \* ids that have ever named a row
    call,      \* what each request asks for
    status     \* how each request stands

vars == <<targets, matches, issued, call, status>>

Init ==
    /\ targets = [t \in TargetIds |-> NoTarget]
    /\ matches = [r \in Requests |-> NoMatch]
    /\ issued = {}
    /\ call = [r \in Requests |-> NoCall]
    /\ status = [r \in Requests |-> "idle"]

Unanswered == {"pending", "done"}

Become(r, s) == status' = [status EXCEPT ![r] = s]

Arrive(r) ==
    /\ status[r] = "idle"
    /\ \E c \in Calls : call' = [call EXCEPT ![r] = c]
    /\ Become(r, "pending")
    /\ UNCHANGED <<targets, matches, issued>>

-----------------------------------------------------------------------------
(* Effects.                                                                *)

Insert(row) ==
    /\ \E t \in TargetIds \ issued :
        /\ issued' = issued \cup {t}
        /\ targets' = [targets EXCEPT ![t] = row]
    /\ UNCHANGED matches

(* A PUT leaves alone what a DELETE has overtaken.                         *)
Replace(id, row) ==
    /\ targets' = IF targets[id] = NoTarget THEN targets
                  ELSE [targets EXCEPT ![id] = row]
    /\ UNCHANGED <<matches, issued>>

(* A target goes with all its matches.                                     *)
Remove(id) ==
    /\ targets' = [targets EXCEPT ![id] = NoTarget]
    /\ matches' = [m \in Requests |->
                     IF matches[m] = id THEN NoMatch ELSE matches[m]]
    /\ UNCHANGED issued

(* A match names a target that exists, or one that did.                    *)
Record(r) ==
    /\ \E t \in issued \cup {Unattributed} :
          matches' = [matches EXCEPT ![r] = t]
    /\ UNCHANGED <<targets, issued>>

Effect(r) ==
    \/ call[r].kind = "create" /\ Insert(call[r].row)
    \/ call[r].kind = "update" /\ Replace(call[r].id, call[r].row)
    \/ call[r].kind = "delete" /\ Remove(call[r].id)
    \/ call[r].kind = "match"  /\ Record(r)

(* A request takes effect.  It may be told of an error all the same; a     *)
(* DELETE that finds no target is told so, though orphans may go.          *)
TakeEffect(r) ==
    /\ status[r] = "pending"
    /\ Effect(r)
    /\ \/ Become(r, "done")
       \/ Become(r, "failed")
       \/ /\ call[r].kind = "delete" /\ targets[call[r].id] = NoTarget
          /\ Become(r, "refused")
    /\ UNCHANGED call

-----------------------------------------------------------------------------
(* Answers.                                                                *)

Succeed(r) ==
    /\ status[r] = "done"
    /\ Become(r, "ok")
    /\ UNCHANGED <<targets, matches, issued, call>>

(* Refused (400, 404) or failed (500): without effect.                     *)
GiveUp(r) ==
    /\ status[r] = "pending"
    /\ \E s \in {"refused", "failed"} : Become(r, s)
    /\ UNCHANGED <<targets, matches, issued, call>>

(* The server dies: requests without an answer get none, nor an effect     *)
(* they have not had.                                                      *)
Die ==
    /\ status' = [r \in Requests |-> IF status[r] \in Unanswered
                                     THEN "lost" ELSE status[r]]
    /\ UNCHANGED <<targets, matches, issued, call>>

(* The server seeds its database, while it serves nobody.                  *)
Seed ==
    /\ \A r \in Requests : status[r] \notin Unanswered
    /\ \E row \in SeedRows : Insert(row)
    /\ UNCHANGED <<call, status>>

Next ==
    \/ \E r \in Requests :
           Arrive(r) \/ TakeEffect(r) \/ Succeed(r) \/ GiveUp(r)
    \/ Die \/ Seed

Spec == Init /\ [][Next]_vars
=============================================================================
