------------------------------ MODULE Registry ------------------------------
(***************************************************************************)
(* The target and match registry of the vkg server: the HTTP handlers that *)
(* write (pkg/server/routes_targets.go, routes_matches.go), the two SQLite *)
(* tables they share (pkg/store/store.go) and the life of the process that *)
(* runs them: start, seeding, interrupt, exit, kill (pkg/server/server.go).*)
(*                                                                         *)
(* net/http runs every request in a goroutine of its own.  The only thing  *)
(* the goroutines share is the database, and every store call is one       *)
(* SQLite transaction; so a handler is a sequence of atomic steps, one per *)
(* store call, and the steps of different handlers interleave freely.      *)
(***************************************************************************)
EXTENDS Naturals, Sequences, FiniteSets

CONSTANTS
    Requests,      \* requests that ever reach the server, each handled once
    TargetIds,     \* identifiers vkg.NewID can return (bounds creations)
    Specs,         \* type, pattern, scope and case modes of a target, as one
    ValidSpecs,    \* the specs validation accepts
    SeedSpecs,     \* the specs written into an empty database, in order
    NoTarget,      \* "no row with this id"
    NoMatch,       \* "no match stored by this request"
    Unattributed   \* a match's empty TargetID

Row == [spec : Specs, active : BOOLEAN]

ASSUME SpecsAssumption == ValidSpecs \subseteq Specs
ASSUME SeedsAssumption == SeedSpecs \in Seq(Specs) /\ SeedSpecs # << >>
ASSUME SentinelAssumption ==
    /\ NoTarget \notin Row
    /\ NoMatch \notin TargetIds \cup {Unattributed}
    /\ Unattributed \notin TargetIds

VARIABLES
    targets,   \* table targets: id -> row
    matches,   \* table matches: the request that stored it -> its target_id
    issued,    \* ids NewID has returned; 64 random bits, taken never to repeat
    phase,     \* where the server process is in Run
    next,      \* index of the next seed to insert
    stage,     \* how far each request's handler has come
    call,      \* what each request asks for
    subject    \* id given to the created target, or attributed to the match

tables   == <<targets, matches>>
process  == <<phase, next>>
handlers == <<stage, call, subject>>
vars     == <<targets, matches, issued, phase, next, stage, call, subject>>

-----------------------------------------------------------------------------
(* What a request may ask for.  A match carries the set of specs its key   *)
(* satisfies with the matched_* flags the seeker set: all that             *)
(* attributeMatch reads of it.                                             *)

CreateCall == [kind : {"create"}, row : Row]
UpdateCall == [kind : {"update"}, id : TargetIds, row : Row]
DeleteCall == [kind : {"delete"}, id : TargetIds]
MatchCall  == [kind : {"match"}, accepted : SUBSET Specs]
NoCall     == [kind |-> "none"]
Call       == CreateCall \cup UpdateCall \cup DeleteCall \cup MatchCall

InFlight == {"received", "found", "attributed", "committed"}
Answers  == {"ok", "badRequest", "notFound", "failed"}
Stages   == {"idle", "lost"} \cup InFlight \cup Answers
Phases   == {"down", "list", "seed", "up", "draining"}

Live == {t \in TargetIds : targets[t] # NoTarget}

(* Handler r moves to stage s; its answer, if s is one, is on its way.     *)
Goto(r, s) == stage' = [stage EXCEPT ![r] = s]

(* A statement that took effect makes handler r move to stage s, or reports*)
(* an error all the same: the driver looks at the context, which a client  *)
(* that hangs up and an interrupt both cancel, once more before it returns.*)
Wrote(r, s) == \E end \in {s, "failed"} : Goto(r, end)

(* Handler r, at stage s of a request of kind k, may reach the database:   *)
(* once the interrupt has cancelled the base context no store call starts. *)
AtStore(r, k, s) ==
    /\ phase = "up"
    /\ call[r].kind = k
    /\ stage[r] = s

Init ==
    /\ targets = [t \in TargetIds |-> NoTarget]
    /\ matches = [r \in Requests |-> NoMatch]
    /\ issued  = {}
    /\ phase   = "down"
    /\ next    = 1
    /\ stage   = [r \in Requests |-> "idle"]
    /\ call    = [r \in Requests |-> NoCall]
    /\ subject = [r \in Requests |-> Unattributed]

-----------------------------------------------------------------------------
(* The handlers.                                                           *)

(* A request reaches its handler.  An id in its path is one the server has *)
(* handed out at some time: no other names a row, now or later.            *)
Receive(r) ==
    /\ phase \in {"up", "draining"}
    /\ stage[r] = "idle"
    /\ \E c \in Call :
        /\ c.kind \in {"update", "delete"} => c.id \in issued
        /\ call' = [call EXCEPT ![r] = c]
    /\ Goto(r, "received")
    /\ UNCHANGED <<tables, issued, process, subject>>

(* 400: the body does not decode or does not validate.  PUT looks the row  *)
(* up first and reads the body only then.  Whether the body of a match     *)
(* decodes is left open.                                                   *)
Reject(r) ==
    /\ \/ /\ call[r].kind = "create"
          /\ stage[r] = "received"
          /\ call[r].row.spec \notin ValidSpecs
       \/ /\ call[r].kind = "update"
          /\ stage[r] = "found"
          /\ call[r].row.spec \notin ValidSpecs
       \/ /\ call[r].kind = "match"
          /\ stage[r] = "received"
    /\ Goto(r, "badRequest")
    /\ UNCHANGED <<tables, issued, process, call, subject>>

(* handleCreateTarget: the body is valid, the row is inserted under a      *)
(* fresh id.                                                               *)
CreateTarget(r) ==
    /\ AtStore(r, "create", "received")
    /\ call[r].row.spec \in ValidSpecs
    /\ \E t \in TargetIds \ issued :
        /\ issued'  = issued \cup {t}
        /\ targets' = [targets EXCEPT ![t] = call[r].row]
        /\ subject' = [subject EXCEPT ![r] = t]
    /\ Wrote(r, "committed")
    /\ UNCHANGED <<matches, process, call>>

(* handleUpdateTarget, first store call: does the row exist?               *)
GetTarget(r) ==
    /\ AtStore(r, "update", "received")
    /\ Goto(r, IF targets[call[r].id] = NoTarget THEN "notFound" ELSE "found")
    /\ UNCHANGED <<tables, issued, process, call, subject>>

(* Fault: the write inserts the row when it is gone (INSERT OR REPLACE).   *)
UpsertTarget(r) ==
    /\ AtStore(r, "update", "found")
    /\ call[r].row.spec \in ValidSpecs
    /\ targets' = [targets EXCEPT ![call[r].id] = call[r].row]
    /\ Wrote(r, "committed")
    /\ UNCHANGED <<matches, issued, process, call, subject>>

(* handleUpdateTarget, second store call.  UPDATE ... WHERE id = ? changes *)
(* nothing when the row has gone since, and the handler does not look.     *)
UpdateTarget(r) ==
    /\ AtStore(r, "update", "found")
    /\ call[r].row.spec \in ValidSpecs
    /\ targets' = [t \in TargetIds |->
                     IF t = call[r].id /\ t \in Live THEN call[r].row
                                                     ELSE targets[t]]
    /\ Wrote(r, "committed")
    /\ UNCHANGED <<matches, issued, process, call, subject>>

(* Fault: the row goes, the matches attributed to it stay.                 *)
DeleteRowOnly(r) ==
    /\ AtStore(r, "delete", "received")
    /\ targets' = [targets EXCEPT ![call[r].id] = NoTarget]
    /\ Wrote(r, IF call[r].id \in Live THEN "committed" ELSE "notFound")
    /\ UNCHANGED <<matches, issued, process, call, subject>>

(* Fault: the cascade also takes the matches without a target.             *)
DeleteUnattributedToo(r) ==
    /\ AtStore(r, "delete", "received")
    /\ matches' = [m \in Requests |->
                     IF matches[m] \in {call[r].id, Unattributed}
                     THEN NoMatch ELSE matches[m]]
    /\ targets' = [targets EXCEPT ![call[r].id] = NoTarget]
    /\ Wrote(r, IF call[r].id \in Live THEN "committed" ELSE "notFound")
    /\ UNCHANGED <<issued, process, call, subject>>

(* handleDeleteTarget: one transaction removes the matches, then the row.  *)
(* The matches go even when there is no such row and the answer is a 404.  *)
DeleteTarget(r) ==
    /\ AtStore(r, "delete", "received")
    /\ matches' = [m \in Requests |->
                     IF matches[m] = call[r].id THEN NoMatch ELSE matches[m]]
    /\ targets' = [targets EXCEPT ![call[r].id] = NoTarget]
    /\ Wrote(r, IF call[r].id \in Live THEN "committed" ELSE "notFound")
    /\ UNCHANGED <<issued, process, call, subject>>

(* The active targets that accept the key of match r; a stored pattern     *)
(* that does not compile is passed over.                                   *)
Candidates(r) ==
    {t \in Live : /\ targets[t].active
                  /\ targets[t].spec \in call[r].accepted \cap ValidSpecs}

(* attributeMatch: the first of the candidates, newest first.  created_at  *)
(* has a resolution of one second and ties are in no order, so any         *)
(* candidate can be the first.  A query error counts as "no candidate".    *)
AttributeMatch(r) ==
    /\ call[r].kind = "match"
    /\ stage[r] = "received"
    /\ \/ UNCHANGED subject
       \/ /\ phase = "up"
          /\ \E t \in Candidates(r) : subject' = [subject EXCEPT ![r] = t]
    /\ Goto(r, "attributed")
    /\ UNCHANGED <<tables, issued, process, call>>

(* Fault: an insert that reports an error is tried again.                  *)
RecordMatchAgain(r) ==
    /\ AtStore(r, "match", "attributed")
    /\ matches' = [matches EXCEPT ![r] = subject[r]]
    /\ \E end \in {"committed", "attributed"} : Goto(r, end)
    /\ UNCHANGED <<targets, issued, process, call, subject>>

(* RecordMatch: the row is inserted with the TargetID found before.        *)
RecordMatch(r) ==
    /\ AtStore(r, "match", "attributed")
    /\ matches' = [matches EXCEPT ![r] = subject[r]]
    /\ Wrote(r, "committed")
    /\ UNCHANGED <<targets, issued, process, call, subject>>

(* 500: a store call of handler r fails and has no effect.                 *)
Fail(r) ==
    /\ \/ /\ call[r].kind = "create"
          /\ stage[r] = "received"
          /\ call[r].row.spec \in ValidSpecs
       \/ /\ call[r].kind \in {"update", "delete"}
          /\ stage[r] = "received"
       \/ /\ call[r].kind = "update"
          /\ stage[r] = "found"
          /\ call[r].row.spec \in ValidSpecs
       \/ /\ call[r].kind = "match"
          /\ stage[r] = "attributed"
    /\ Goto(r, "failed")
    /\ UNCHANGED <<tables, issued, process, call, subject>>

(* The change is broadcast to the dashboards and the request answered.     *)
Answer(r) ==
    /\ stage[r] = "committed"
    /\ Goto(r, "ok")
    /\ UNCHANGED <<tables, issued, process, call, subject>>

Handle(r) ==
    \/ Reject(r)
    \/ CreateTarget(r)
    \/ GetTarget(r)
    \/ UpdateTarget(r)
    \/ DeleteTarget(r)
    \/ AttributeMatch(r)
    \/ RecordMatch(r)
    \/ Fail(r)
    \/ Answer(r)

-----------------------------------------------------------------------------
(* The process.                                                            *)

Start ==
    /\ phase = "down"
    /\ phase' = "list"
    /\ UNCHANGED <<tables, issued, next, handlers>>

(* Fault: the seeds are numbered from zero.                                *)
ListForSeedFromZero ==
    /\ phase = "list"
    /\ phase' = IF Live = {} THEN "seed" ELSE "up"
    /\ next' = 0
    /\ UNCHANGED <<tables, issued, handlers>>

(* Fault: an empty table is not asked for.                                 *)
SeedAnyway ==
    /\ phase = "list"
    /\ phase' = "seed"
    /\ next' = 1
    /\ UNCHANGED <<tables, issued, handlers>>

(* seedDefaultTarget: seeds are due only when the table of targets is      *)
(* empty; otherwise the server starts to listen.                           *)
ListForSeed ==
    /\ phase = "list"
    /\ phase' = IF Live = {} THEN "seed" ELSE "up"
    /\ next' = 1
    /\ UNCHANGED <<tables, issued, handlers>>

(* One seed is one insert: the loop is no transaction.  Seeds are active   *)
(* and are not validated.                                                  *)
InsertSeed ==
    /\ phase = "seed"
    /\ \E t \in TargetIds \ issued :
        /\ issued'  = issued \cup {t}
        /\ targets' = [targets EXCEPT
                         ![t] = [spec |-> SeedSpecs[next], active |-> TRUE]]
    /\ next' = next + 1
    /\ phase' = IF next = Len(SeedSpecs) THEN "up" ELSE "seed"
    /\ UNCHANGED <<matches, handlers>>

(* The interrupt cancels the base context of all requests and makes Run    *)
(* wait, for 5 seconds at most, for the handlers to return.                *)
Interrupt ==
    /\ phase = "up"
    /\ phase' = "draining"
    /\ UNCHANGED <<tables, issued, next, handlers>>

(* The process ends: Run returns (after draining, or on an error of a      *)
(* store call while it seeds), or the process is killed.  Requests that    *)
(* have no answer yet never get one; the database stays.                   *)
Halt ==
    /\ phase # "down"
    /\ phase' = "down"
    /\ stage' = [r \in Requests |->
                   IF stage[r] \in InFlight THEN "lost" ELSE stage[r]]
    /\ UNCHANGED <<tables, issued, next, call, subject>>

Next ==
    \/ \E r \in Requests : Receive(r) \/ Handle(r)
    \/ Start \/ ListForSeed \/ InsertSeed \/ Interrupt \/ Halt

Spec == Init /\ [][Next]_vars

-----------------------------------------------------------------------------
(* The types of the state.                                                 *)
TypeOK ==
    /\ targets \in [TargetIds -> Row \cup {NoTarget}]
    /\ matches \in [Requests -> TargetIds \cup {Unattributed, NoMatch}]
    /\ issued  \subseteq TargetIds
    /\ phase   \in Phases
    /\ next    \in 1 .. Len(SeedSpecs) + 1
    /\ stage   \in [Requests -> Stages]
    /\ call    \in [Requests -> Call \cup {NoCall}]
    /\ subject \in [Requests -> TargetIds \cup {Unattributed}]

(* A DELETE that the client was told succeeded (or is about to be) is      *)
(* final: no PUT that looked the row up before, no creation and no restart *)
(* brings the target back (UpdateTarget of the store updates, and never    *)
(* inserts).                                                               *)
DeleteFinal ==
    \A r \in Requests :
        (call[r].kind = "delete" /\ stage[r] \in {"committed", "ok"})
            => targets[call[r].id] = NoTarget

(* What the server acknowledged stays: a target created with 201, a match  *)
(* recorded with 201, is missing from the database only if some client     *)
(* asked to delete that target, or the target the match was attributed to. *)
(* Restarts, seeding, PUTs and deletions of other targets lose neither.    *)
DeletionAsked(t) ==
    \E d \in Requests :
        call[d].kind = "delete" /\ call[d].id = t /\ stage[d] # "received"

AcknowledgedKept ==
    \A r \in Requests :
        stage[r] \in {"committed", "ok"} =>
            /\ (call[r].kind = "create" /\ subject[r] \notin Live)
                  => DeletionAsked(subject[r])
            /\ (call[r].kind = "match" /\ matches[r] = NoMatch)
                  => DeletionAsked(subject[r])

(* Seeds are never doubled: of the targets in the table, no more than one  *)
(* set of seeds was not created by a request.  The seeds are inserted one  *)
(* by one, so a process that dies or fails in the middle leaves some of    *)
(* them; the next one finds the table not empty and adds none.             *)
Seeded ==
    {t \in Live : \A r \in Requests :
                     call[r].kind = "create" => subject[r] # t}

SeedsNeverDoubled == Cardinality(Seeded) <= Len(SeedSpecs)

(* A match that is stored together with its target never becomes an        *)
(* orphan: no step of any handler or of the process takes the target and   *)
(* leaves the match (the two DELETEs of store.DeleteTarget are one         *)
(* transaction, and nothing else removes a target).                        *)
StoredMatchNeverOrphaned ==
    [][\A m \in Requests :
          (matches[m] \in Live /\ matches'[m] = matches[m])
              => targets'[matches[m]] # NoTarget]_vars

(* Handlers of several store calls look atomic to the clients of the API:  *)
(* every request takes effect at one instant between arrival and answer,   *)
(* once or not at all, and a success is answered only after the effect;    *)
(* one that a restart or an interrupt cut off has no effect later; seeds   *)
(* come only while no request is served.                                   *)
Status(s) ==
    CASE s \in {"received", "found", "attributed"} -> "pending"
      [] s = "committed"                           -> "done"
      [] s \in {"badRequest", "notFound"}          -> "refused"
      [] OTHER                                     -> s

Atomic == INSTANCE AtomicRegistry WITH
    Rows     <- Row,
    SeedRows <- {[spec |-> SeedSpecs[i], active |-> TRUE] :
                    i \in DOMAIN SeedSpecs},
    Calls    <- Call,
    status   <- [r \in Requests |-> Status(stage[r])]

RequestsAreAtomic == Atomic!Spec

(* store.go:220, "removes a target and cascades deletion of all matches    *)
(* attributed to it": then no stored match names a target that is gone.    *)
(* The code does not keep it: a handler that attributed its match before   *)
(* the DELETE inserts the row after it.                                    *)
NoOrphanMatch == \A m \in Requests : matches[m] \notin TargetIds \ Live

(* README.md:64 says that the seeds are written on the first run only.     *)
(* The code writes them whenever the table of targets is empty.            *)
SeedsOnFirstRunOnly ==
    [][(phase = "list" /\ phase' = "seed") => issued = {}]_vars
=============================================================================
