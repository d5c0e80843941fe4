------------------------- MODULE RegistryRefinement -------------------------
(* Registry implements AtomicRegistry, for any number of requests, ids,    *)
(* specs and seeds.                                                        *)
EXTENDS RegistryProofs

(* What the proof needs beside IInv: seeds are inserted only while no      *)
(* request is in a handler, and a match names an id that was handed out.   *)
ServesNobody ==
    phase \in {"down", "list", "seed"}
        => \A r \in Requests : stage[r] \notin InFlight

SubjectIssued == \A r \in Requests : subject[r] \in issued \cup {Unattributed}

AInv == IInv /\ ServesNobody /\ SubjectIssued

(* A server that was never started serves nobody.                          *)
LEMMA AtomicInvInit == Init => AInv
  BY RegistryInit DEF Init, AInv, ServesNobody, SubjectIssued, InFlight

(* Handlers run only in a process that is up or draining, and the end of   *)
(* the process ends them.                                                  *)
LEMMA AtomicInvStep == AInv /\ [Next]_vars => AInv'
<1> SUFFICES ASSUME AInv, [Next]_vars
             PROVE  ServesNobody' /\ SubjectIssued'
  BY RegistryStep DEF AInv
<1> USE DEF AInv, IInv, TypeInv, TypeOK, ServesNobody, SubjectIssued,
            InFlight, Phases, tables, process, handlers
<1>1. ASSUME NEW r \in Requests, Receive(r)
      PROVE  ServesNobody' /\ SubjectIssued'
  BY <1>1 DEF Receive
<1>2. ASSUME NEW r \in Requests, Handle(r)
      PROVE  ServesNobody'
  <2>1. stage[r] \in InFlight
    BY <1>2 DEF Handle, Reject, CreateTarget, GetTarget, UpdateTarget,
       DeleteTarget, AttributeMatch, RecordMatch, Fail, Answer, AtStore
  <2>2. phase' = phase
    BY <1>2 DEF Handle, Reject, CreateTarget, GetTarget, UpdateTarget,
       DeleteTarget, AttributeMatch, RecordMatch, Fail, Answer
  <2> QED
    BY <2>1, <2>2
<1>3. ASSUME NEW r \in Requests, Handle(r)
      PROVE  SubjectIssued'
  <2>1. CASE AttributeMatch(r)
    BY <2>1 DEF AttributeMatch, Candidates, LiveIssued, Live
  <2>2. CASE CreateTarget(r)
    BY <2>2 DEF CreateTarget
  <2>3. CASE ~AttributeMatch(r) /\ ~CreateTarget(r)
    BY <1>3, <2>3 DEF Handle, Reject, GetTarget, UpdateTarget,
       DeleteTarget, RecordMatch, Fail, Answer
  <2> QED
    BY <2>1, <2>2, <2>3
<1>4. CASE Start \/ ListForSeed \/ InsertSeed \/ Interrupt
  BY <1>4 DEF Start, ListForSeed, InsertSeed, Interrupt
<1>5. CASE Halt
  BY <1>5 DEF Halt
<1>6. CASE UNCHANGED vars
  BY <1>6 DEF vars
<1> QED
  BY <1>1, <1>2, <1>3, <1>4, <1>5, <1>6 DEF Next

-----------------------------------------------------------------------------
(* The refinement mapping.                                                 *)
Bar == [r \in Requests |-> Status(stage[r])]

(* A handler that moves to a stage is seen to move to the status of it.    *)
LEMMA Moves ==
    ASSUME TypeOK, NEW r \in Requests, NEW s, Goto(r, s)
    PROVE  Bar' = [Bar EXCEPT ![r] = Status(s)]
  BY DEF TypeOK, Goto, Bar

(* The status of every stage.                                              *)
LEMMA Statuses ==
    /\ Status("idle") = "idle" /\ Status("lost") = "lost"
    /\ Status("received") = "pending" /\ Status("found") = "pending"
    /\ Status("attributed") = "pending" /\ Status("committed") = "done"
    /\ Status("ok") = "ok" /\ Status("failed") = "failed"
    /\ Status("badRequest") = "refused" /\ Status("notFound") = "refused"
  BY DEF Status

(* An idle server with an empty database is one in the abstract too.       *)
LEMMA AtomicInit == Init => Atomic!Init
  BY DEF Init, Atomic!Init, Status

(* A handler that gives up before its effect is seen to give up.           *)
LEMMA GivesUp ==
    ASSUME AInv, NEW r \in Requests,
           stage[r] \in {"received", "found", "attributed"},
           NEW s \in {"badRequest", "notFound", "failed"}, Goto(r, s),
           UNCHANGED <<targets, matches, issued, call>>
    PROVE  Atomic!GiveUp(r)
<1>1. Bar' = [Bar EXCEPT ![r] = Status(s)]
  BY Moves DEF AInv, IInv, TypeInv
<1>2. Bar[r] = "pending" /\ Status(s) \in {"refused", "failed"}
  BY Statuses DEF Bar
<1> QED
  BY <1>1, <1>2 DEF Atomic!GiveUp, Atomic!Become, Bar

(* A handler that goes on before its effect is seen to stay.               *)
LEMMA StaysPending ==
    ASSUME AInv, NEW r \in Requests,
           stage[r] \in {"received", "found", "attributed"},
           NEW s \in {"found", "attributed"}, Goto(r, s),
           UNCHANGED <<targets, matches, issued, call>>
    PROVE  UNCHANGED Atomic!vars
<1>1. Bar' = [Bar EXCEPT ![r] = Status(s)]
  BY Moves DEF AInv, IInv, TypeInv
<1>2. Bar[r] = Status(s)
  BY Statuses DEF Bar
<1>3. Bar' = Bar
  BY <1>1, <1>2 DEF Bar
<1> QED
  BY <1>3 DEF Atomic!vars, Bar

(* A statement that took effect is seen as the effect of its request.      *)
LEMMA TakesEffect ==
    ASSUME AInv, NEW r \in Requests,
           stage[r] \in {"received", "found", "attributed"},
           NEW s \in {"committed", "notFound"}, Wrote(r, s),
           s = "notFound" => /\ call[r].kind = "delete"
                             /\ targets[call[r].id] = NoTarget,
           Atomic!Effect(r), UNCHANGED call
    PROVE  Atomic!TakeEffect(r)
<1>1. PICK end \in {s, "failed"} : Goto(r, end)
  BY DEF Wrote
<1>2. Bar' = [Bar EXCEPT ![r] = Status(end)]
  BY <1>1, Moves DEF AInv, IInv, TypeInv
<1>3. Bar[r] = "pending"
  BY Statuses DEF Bar
<1>4. \/ Status(end) \in {"done", "failed"}
      \/ /\ call[r].kind = "delete" /\ targets[call[r].id] = NoTarget
         /\ Status(end) = "refused"
  BY <1>1, Statuses
<1> QED
  BY <1>2, <1>3, <1>4 DEF Atomic!TakeEffect, Atomic!Become, Bar

(* Every step of a handler is a step of its request, or none.              *)
LEMMA HandlerIsAtomic ==
    ASSUME AInv, NEW r \in Requests, Handle(r)
    PROVE  \/ Atomic!TakeEffect(r) \/ Atomic!Succeed(r) \/ Atomic!GiveUp(r)
           \/ UNCHANGED Atomic!vars
<1> USE DEF AtStore, tables, process
<1>1. TypeOK /\ call[r] \in Call \cup {NoCall}
  BY DEF AInv, IInv, TypeInv, TypeOK
<1>2. CASE Reject(r)
  BY <1>2, GivesUp DEF Reject
<1>3. CASE CreateTarget(r)
  <2>1. Atomic!Effect(r)
    BY <1>3 DEF CreateTarget, Atomic!Effect, Atomic!Insert
  <2> QED
    BY <1>3, <2>1, TakesEffect DEF CreateTarget
<1>4. CASE GetTarget(r)
  BY <1>4, GivesUp, StaysPending DEF GetTarget
<1>5. CASE UpdateTarget(r)
  <2>1. call[r].id \in TargetIds
    BY <1>1, <1>5, CallForms DEF UpdateTarget
  <2>2. targets' = IF targets[call[r].id] = NoTarget THEN targets
                   ELSE [targets EXCEPT ![call[r].id] = call[r].row]
    BY <1>1, <1>5, <2>1 DEF UpdateTarget, Live, TypeOK
  <2>3. Atomic!Effect(r)
    BY <1>5, <2>2 DEF UpdateTarget, Atomic!Effect, Atomic!Replace
  <2> QED
    BY <1>5, <2>3, TakesEffect DEF UpdateTarget
<1>6. CASE DeleteTarget(r)
  <2>1. call[r].id \in TargetIds
    BY <1>1, <1>6, CallForms DEF DeleteTarget
  <2>2. Atomic!Effect(r)
    BY <1>6 DEF DeleteTarget, Atomic!Effect, Atomic!Remove
  <2>3. call[r].id \notin Live => targets[call[r].id] = NoTarget
    BY <2>1 DEF Live
  <2> QED
    BY <1>6, <2>2, <2>3, TakesEffect DEF DeleteTarget
<1>7. CASE AttributeMatch(r)
  BY <1>7, StaysPending DEF AttributeMatch
<1>8. CASE RecordMatch(r)
  <2>1. subject[r] \in issued \cup {Unattributed}
    BY DEF AInv, SubjectIssued
  <2>2. Atomic!Effect(r)
    BY <1>8, <2>1 DEF RecordMatch, Atomic!Effect, Atomic!Record
  <2> QED
    BY <1>8, <2>2, TakesEffect DEF RecordMatch
<1>9. CASE Fail(r)
  BY <1>9, GivesUp DEF Fail
<1>10. CASE Answer(r)
  <2>1. Bar' = [Bar EXCEPT ![r] = "ok"] /\ Bar[r] = "done"
    BY <1>1, <1>10, Moves, Statuses DEF Answer, Bar
  <2> QED
    BY <1>10, <2>1 DEF Answer, Atomic!Succeed, Atomic!Become, Bar
<1> QED
  BY <1>2, <1>3, <1>4, <1>5, <1>6, <1>7, <1>8, <1>9, <1>10 DEF Handle

(* The end of the process is seen by the requests without an answer.       *)
LEMMA HaltIsDeath == ASSUME AInv, Halt PROVE Atomic!Die
<1>1. stage \in [Requests -> Stages]
  BY DEF AInv, IInv, TypeInv, TypeOK
<1>2. \A r \in Requests :
         stage[r] \in InFlight <=> Status(stage[r]) \in {"pending", "done"}
  BY <1>1, Statuses DEF Stages, InFlight, Answers
<1>3. Bar' = [r \in Requests |-> IF Bar[r] \in {"pending", "done"}
                                 THEN "lost" ELSE Bar[r]]
  BY <1>1, <1>2, Statuses DEF Halt, Bar
<1> QED
  BY <1>3 DEF Halt, tables, Atomic!Die, Atomic!Unanswered, Bar

(* A seed is one of SeedSpecs, and comes while no request is served.       *)
LEMMA SeedIsSeed == ASSUME AInv, InsertSeed PROVE Atomic!Seed
<1>1. stage \in [Requests -> Stages]
  BY DEF AInv, IInv, TypeInv, TypeOK
<1>2. \A r \in Requests : stage[r] \notin InFlight
  BY DEF AInv, ServesNobody, InsertSeed
<1>3. \A r \in Requests : Bar[r] \notin {"pending", "done"}
  BY <1>1, <1>2, Statuses DEF Stages, InFlight, Answers, Bar
<1>4. next \in DOMAIN SeedSpecs
  BY SeedsAssumption DEF AInv, IInv, TypeInv, SeedLeft, InsertSeed
<1>5. Bar' = Bar
  BY DEF InsertSeed, handlers, Bar
<1> QED
  BY <1>3, <1>4, <1>5
  DEF InsertSeed, handlers, Atomic!Seed, Atomic!Insert, Atomic!Unanswered, Bar

(* A step of a handler or of the process is a step of AtomicRegistry or a  *)
(* stutter.                                                                *)
LEMMA AtomicStep == AInv /\ [Next]_vars => [Atomic!Next]_(Atomic!vars)
<1> SUFFICES ASSUME AInv, [Next]_vars
             PROVE  Atomic!Next \/ UNCHANGED Atomic!vars
  OBVIOUS
<1>1. ASSUME NEW r \in Requests, Receive(r)
      PROVE  Atomic!Arrive(r)
  <2>1. Bar' = [Bar EXCEPT ![r] = "pending"] /\ Bar[r] = "idle"
    BY <1>1, Moves, Statuses DEF Receive, AInv, IInv, TypeInv, Bar
  <2> QED
    BY <1>1, <2>1 DEF Receive, tables, Atomic!Arrive, Atomic!Become, Bar
<1>2. ASSUME NEW r \in Requests, Handle(r)
      PROVE  Atomic!Next \/ UNCHANGED Atomic!vars
  BY <1>2, HandlerIsAtomic DEF Atomic!Next
<1>3. CASE Start \/ ListForSeed \/ Interrupt \/ UNCHANGED vars
  BY <1>3 DEF Start, ListForSeed, Interrupt, vars, tables, handlers,
     Atomic!vars
<1>4. CASE Halt \/ InsertSeed
  BY <1>4, HaltIsDeath, SeedIsSeed DEF Atomic!Next
<1> QED
  BY <1>1, <1>2, <1>3, <1>4 DEF Next, Atomic!Next

(* The handlers, interleaved store call by store call with each other and  *)
(* with restarts, look to the clients like requests that take effect at    *)
(* one instant, once or not at all.                                        *)
THEOREM RegistryIsAtomic == Spec => RequestsAreAtomic
<1> QED
  BY AtomicInvInit, AtomicInvStep, AtomicInit, AtomicStep, PTL
  DEF Spec, RequestsAreAtomic, Atomic!Spec
=============================================================================
