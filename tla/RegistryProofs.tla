--------------------------- MODULE RegistryProofs ---------------------------
(* Proofs about Registry, for any number of requests, ids, specs and seeds.*)
EXTENDS Registry, FiniteSetTheorems, TLAPS

(* What a call of a known kind carries.                                    *)
LEMMA CallForms ==
    ASSUME NEW c \in Call \cup {NoCall}
    PROVE  /\ c.kind = "create" => c \in CreateCall /\ c.row \in Row
           /\ c.kind = "update" => c \in UpdateCall /\ c.id \in TargetIds
                                   /\ c.row \in Row
           /\ c.kind = "delete" => c \in DeleteCall /\ c.id \in TargetIds
           /\ c.kind = "match"  => c \in MatchCall
  BY DEF Call, CreateCall, UpdateCall, DeleteCall, MatchCall, NoCall

(* While seeds are inserted there is one left to insert; without this the  *)
(* types alone would not be inductive.                                     *)
SeedLeft == phase = "seed" => next \in 1 .. Len(SeedSpecs)

TypeInv == TypeOK /\ SeedLeft

(* A server that was never started has well-typed state.                   *)
LEMMA TypeInit == Init => TypeInv
  BY SeedsAssumption
  DEF Init, TypeInv, SeedLeft, TypeOK, Stages, InFlight, Answers, Phases

(* What a seed puts into the table is a row.                               *)
LEMMA SeedRow ==
    ASSUME TypeInv, InsertSeed
    PROVE  /\ [spec |-> SeedSpecs[next], active |-> TRUE] \in Row
           /\ [spec |-> SeedSpecs[next], active |-> TRUE] # NoTarget
<1>1. SeedSpecs[next] \in Specs
  BY SeedsAssumption DEF TypeInv, SeedLeft, InsertSeed
<1>2. [spec |-> SeedSpecs[next], active |-> TRUE] \in Row
  BY <1>1 DEF Row
<1> QED
  BY <1>2, SentinelAssumption

(* Every store call, handler step and step of the process keeps the types, *)
(* and the seed index within the seeds.                                    *)
LEMMA TypeStep == TypeInv /\ [Next]_vars => TypeInv'
<1> SUFFICES ASSUME TypeInv, [Next]_vars
             PROVE  TypeInv'
  OBVIOUS
<1> USE DEF TypeInv, SeedLeft, TypeOK, Stages, InFlight, Answers, Phases,
            tables, process, handlers, Goto
<1>1. ASSUME NEW r \in Requests, Receive(r)
      PROVE  TypeInv'
  BY <1>1 DEF Receive
<1>2. ASSUME NEW r \in Requests, Reject(r)
      PROVE  TypeInv'
  BY <1>2 DEF Reject
<1>3. ASSUME NEW r \in Requests, CreateTarget(r)
      PROVE  TypeInv'
  BY <1>3, CallForms DEF CreateTarget, AtStore, Wrote
<1>4. ASSUME NEW r \in Requests, GetTarget(r)
      PROVE  TypeInv'
  BY <1>4 DEF GetTarget, AtStore
<1>5. ASSUME NEW r \in Requests, UpdateTarget(r)
      PROVE  TypeInv'
  BY <1>5, CallForms DEF UpdateTarget, AtStore, Wrote
<1>6. ASSUME NEW r \in Requests, DeleteTarget(r)
      PROVE  TypeInv'
  BY <1>6 DEF DeleteTarget, AtStore, Wrote
<1>7. ASSUME NEW r \in Requests, AttributeMatch(r)
      PROVE  TypeInv'
  BY <1>7 DEF AttributeMatch, Candidates, Live
<1>8. ASSUME NEW r \in Requests, RecordMatch(r)
      PROVE  TypeInv'
  BY <1>8 DEF RecordMatch, AtStore, Wrote
<1>9. ASSUME NEW r \in Requests, Fail(r) \/ Answer(r)
      PROVE  TypeInv'
  BY <1>9 DEF Fail, Answer
<1>10. CASE Start \/ Interrupt \/ Halt
  BY <1>10 DEF Start, Interrupt, Halt
<1>11. CASE ListForSeed
  BY <1>11, SeedsAssumption DEF ListForSeed
<1>12. CASE InsertSeed
  <2>1. next \in 1 .. Len(SeedSpecs)
    BY <1>12 DEF InsertSeed
  <2>2. [spec |-> SeedSpecs[next], active |-> TRUE] \in Row
    BY <1>12, SeedRow
  <2>3. Len(SeedSpecs) \in Nat
    BY SeedsAssumption
  <2>4. next' \in 1 .. Len(SeedSpecs) + 1 /\ SeedLeft'
    BY <1>12, <2>1, <2>3 DEF InsertSeed
  <2> QED
    BY <1>12, <2>2, <2>4 DEF InsertSeed
<1>13. CASE UNCHANGED vars
  BY <1>13 DEF vars
<1> QED
  BY <1>1, <1>2, <1>3, <1>4, <1>5, <1>6, <1>7, <1>8, <1>9, <1>10, <1>11,
     <1>12, <1>13 DEF Next, Handle

(* Every variable keeps its type: targets maps ids to rows, a handler is at*)
(* a known stage, the seed index stays within the list of seeds.           *)
THEOREM TypeCorrect == Spec => []TypeOK
<1>1. TypeInv => TypeOK
  BY DEF TypeInv
<1> QED
  BY <1>1, TypeInit, TypeStep, PTL DEF Spec

-----------------------------------------------------------------------------
(* The inductive invariant.  An id that was never issued is in no row and  *)
(* in no path, so a new row never lands on a deleted id; a request that    *)
(* was not received asks for nothing; a stored match carries the TargetID  *)
(* its handler found, so a DELETE that removes it names that target.       *)
LiveIssued == Live \subseteq issued

PathIssued ==
    \A r \in Requests : call[r].kind \in {"update", "delete"}
                           => call[r].id \in issued

IdleUncalled == \A r \in Requests : stage[r] = "idle" => call[r] = NoCall

StoredAsAttributed ==
    \A r \in Requests : matches[r] # NoMatch =>
        /\ matches[r] = subject[r]
        /\ call[r].kind = "match"
        /\ stage[r] \notin {"idle", "received", "attributed"}

IInv ==
    /\ TypeInv
    /\ LiveIssued
    /\ PathIssued
    /\ IdleUncalled
    /\ StoredAsAttributed
    /\ DeleteFinal
    /\ AcknowledgedKept

(* An empty database with no request has nothing deleted or acknowledged.  *)
LEMMA RegistryInit == Init => IInv
  BY TypeInit
  DEF Init, IInv, LiveIssued, PathIssued, IdleUncalled, StoredAsAttributed,
      DeleteFinal, AcknowledgedKept, Live, NoCall

(* A request for a deletion, once handled, is never taken back.            *)
LEMMA AskedStays ==
    ASSUME IInv, [Next]_vars, NEW d \in Requests,
           call[d].kind = "delete", stage[d] # "received"
    PROVE  call'[d] = call[d] /\ stage'[d] # "received"
<1>1. stage[d] # "idle"
  BY DEF IInv, IdleUncalled, NoCall
<1>2. call'[d] = call[d]
  BY <1>1 DEF IInv, TypeInv, TypeOK, Next, vars, handlers, Handle, Receive,
     Reject, CreateTarget, GetTarget, UpdateTarget, DeleteTarget,
     AttributeMatch, RecordMatch, Fail, Answer, Start, ListForSeed,
     InsertSeed, Interrupt, Halt, Goto
<1>3. stage'[d] # "received"
  <2>1. ASSUME NEW r \in Requests, Receive(r) \/ Handle(r)
        PROVE  stage'[d] # "received"
    BY <1>1, <2>1
    DEF IInv, TypeInv, TypeOK, Handle, Receive, Reject, CreateTarget,
        GetTarget, UpdateTarget, DeleteTarget, AttributeMatch, RecordMatch,
        Fail, Answer, Goto, Wrote, AtStore
  <2>2. CASE Start \/ ListForSeed \/ InsertSeed \/ Interrupt \/ UNCHANGED vars
    BY <2>2 DEF Start, ListForSeed, InsertSeed, Interrupt, handlers, vars
  <2>3. CASE Halt
    BY <2>3 DEF Halt
  <2> QED
    BY <2>1, <2>2, <2>3 DEF Next
<1> QED
  BY <1>2, <1>3

(* No step breaks the invariant: creations take fresh ids, an update       *)
(* neither adds nor removes a row, a deletion removes the rows it names.   *)
LEMMA RegistryStep == IInv /\ [Next]_vars => IInv'
<1> SUFFICES ASSUME IInv, [Next]_vars
             PROVE  IInv'
  OBVIOUS
<1>1. TypeInv /\ TypeInv'
  BY TypeStep DEF IInv
<1> USE <1>1 DEF TypeInv, TypeOK
<1> DEFINE Parts == /\ LiveIssued /\ PathIssued /\ IdleUncalled
                    /\ StoredAsAttributed /\ DeleteFinal
<1> USE DEF LiveIssued, PathIssued, IdleUncalled, StoredAsAttributed,
            DeleteFinal, Live, Goto, Wrote, AtStore, tables, process, handlers
<1>2. ASSUME NEW r \in Requests, Receive(r)
      PROVE  Parts' /\ AcknowledgedKept'
  <2>1. Parts'
    BY <1>2 DEF Receive, IInv, NoCall
  <2>2. \A q \in Requests : stage'[q] \in {"committed", "ok"} =>
          /\ q # r /\ stage'[q] = stage[q] /\ call'[q] = call[q]
    BY <1>2 DEF Receive, IInv
  <2> QED
    BY <1>2, <2>1, <2>2, AskedStays
    DEF Receive, IInv, AcknowledgedKept, DeletionAsked
<1>3. ASSUME NEW r \in Requests, Reject(r) \/ GetTarget(r) \/ Fail(r)
      PROVE  Parts' /\ AcknowledgedKept'
  <2>1. Parts'
    BY <1>3, CallForms DEF Reject, GetTarget, Fail, IInv, NoCall
  <2>2. \A q \in Requests : stage'[q] \in {"committed", "ok"} =>
          q # r /\ stage'[q] = stage[q]
    BY <1>3 DEF Reject, GetTarget, Fail
  <2> QED
    BY <1>3, <2>1, <2>2, AskedStays
    DEF Reject, GetTarget, Fail, IInv, AcknowledgedKept, DeletionAsked
<1>4. ASSUME NEW r \in Requests, CreateTarget(r)
      PROVE  Parts' /\ AcknowledgedKept'
  <2>1. PICK t \in TargetIds \ issued :
          /\ issued'  = issued \cup {t}
          /\ targets' = [targets EXCEPT ![t] = call[r].row]
          /\ subject' = [subject EXCEPT ![r] = t]
    BY <1>4 DEF CreateTarget
  <2>2. call[r].row \in Row /\ call[r].row # NoTarget
    BY <1>4, CallForms, SentinelAssumption DEF CreateTarget
  <2>3. Live' = Live \cup {t}
    BY <2>1, <2>2
  <2>4. Parts'
    BY <1>4, <2>1, <2>3 DEF CreateTarget, IInv, NoCall
  <2>5. \A q \in Requests : q # r /\ stage'[q] \in {"committed", "ok"} =>
          stage'[q] = stage[q] /\ subject'[q] = subject[q]
    BY <1>4, <2>1 DEF CreateTarget
  <2>6. call'[r].kind = "create" /\ subject'[r] \in Live'
    BY <1>4, <2>1, <2>3 DEF CreateTarget
  <2> QED
    BY <1>4, <2>3, <2>4, <2>5, <2>6, AskedStays
    DEF CreateTarget, IInv, AcknowledgedKept, DeletionAsked
<1>5. ASSUME NEW r \in Requests, UpdateTarget(r)
      PROVE  Parts' /\ AcknowledgedKept'
  <2>1. call[r].row # NoTarget /\ call[r].id \in TargetIds
    BY <1>5, CallForms, SentinelAssumption DEF UpdateTarget
  <2>2. Live' = Live
    BY <1>5, <2>1 DEF UpdateTarget
  <2>3. Parts'
    BY <1>5, <2>2 DEF UpdateTarget, IInv, NoCall
  <2>4. \A q \in Requests :
          /\ q # r => stage'[q] = stage[q]
          /\ call'[q] = call[q] /\ matches'[q] = matches[q]
          /\ subject'[q] = subject[q]
    BY <1>5 DEF UpdateTarget
  <2>5. call[r].kind = "update"
    BY <1>5 DEF UpdateTarget
  <2>6. ASSUME NEW q \in Requests, stage'[q] \in {"committed", "ok"},
               \/ call'[q].kind = "create" /\ subject'[q] \notin Live'
               \/ call'[q].kind = "match" /\ matches'[q] = NoMatch
        PROVE  \E d \in Requests : /\ call'[d].kind = "delete"
                                   /\ call'[d].id = subject'[q]
                                   /\ stage'[d] # "received"
    <3>1. /\ stage[q] \in {"committed", "ok"}
          /\ \/ call[q].kind = "create" /\ subject[q] \notin Live
             \/ call[q].kind = "match" /\ matches[q] = NoMatch
      BY <2>2, <2>4, <2>5, <2>6
    <3> QED
      BY <2>4, <3>1, AskedStays DEF IInv, AcknowledgedKept, DeletionAsked
  <2> QED
    BY <2>3, <2>6 DEF AcknowledgedKept, DeletionAsked
<1>6. ASSUME NEW r \in Requests, DeleteTarget(r)
      PROVE  Parts' /\ AcknowledgedKept'
  <2>1. call[r].id \in TargetIds
    BY <1>6, CallForms DEF DeleteTarget
  <2>2. Live' = Live \ {call[r].id}
    BY <1>6, <2>1 DEF DeleteTarget
  <2>3. Parts'
    BY <1>6, <2>1, <2>2 DEF DeleteTarget, IInv, NoCall
  <2>4. /\ call'[r].kind = "delete" /\ call'[r] = call[r]
        /\ stage'[r] # "received"
    BY <1>6 DEF DeleteTarget
  <2>5. \A q \in Requests : q # r => stage'[q] = stage[q]
    BY <1>6 DEF DeleteTarget
  <2>6. ASSUME NEW q \in Requests, stage'[q] \in {"committed", "ok"},
               call'[q].kind = "create", subject'[q] \notin Live'
        PROVE  \E d \in Requests : /\ call'[d].kind = "delete"
                                   /\ call'[d].id = subject'[q]
                                   /\ stage'[d] # "received"
    <3>1. /\ stage[q] \in {"committed", "ok"} /\ call[q].kind = "create"
          /\ subject'[q] = subject[q]
      BY <1>6, <2>5, <2>6 DEF DeleteTarget
    <3>2. CASE subject[q] \notin Live
      BY <3>1, <3>2, AskedStays DEF IInv, AcknowledgedKept, DeletionAsked
    <3>3. CASE subject[q] \in Live
      <4>1. subject[q] = call[r].id
        BY <2>2, <2>6, <3>1, <3>3
      <4> QED
        BY <2>4, <3>1, <4>1
    <3> QED
      BY <3>2, <3>3
  <2>7. ASSUME NEW q \in Requests, stage'[q] \in {"committed", "ok"},
               call'[q].kind = "match", matches'[q] = NoMatch
        PROVE  \E d \in Requests : /\ call'[d].kind = "delete"
                                   /\ call'[d].id = subject'[q]
                                   /\ stage'[d] # "received"
    <3>1. /\ stage[q] \in {"committed", "ok"} /\ call[q].kind = "match"
          /\ subject'[q] = subject[q]
      BY <1>6, <2>5, <2>7 DEF DeleteTarget
    <3>2. CASE matches[q] = NoMatch
      BY <3>1, <3>2, AskedStays DEF IInv, AcknowledgedKept, DeletionAsked
    <3>3. CASE matches[q] # NoMatch
      BY <1>6, <2>4, <2>7, <3>3 DEF DeleteTarget, IInv
    <3> QED
      BY <3>2, <3>3
  <2> QED
    BY <1>6, <2>3, <2>6, <2>7 DEF DeleteTarget, AcknowledgedKept, DeletionAsked
<1>7. ASSUME NEW r \in Requests, AttributeMatch(r)
      PROVE  Parts' /\ AcknowledgedKept'
  <2>1. matches[r] = NoMatch
    BY <1>7 DEF AttributeMatch, IInv
  <2>2. \A q \in Requests : q # r =>
          stage'[q] = stage[q] /\ subject'[q] = subject[q]
    BY <1>7 DEF AttributeMatch
  <2>3. Parts'
    BY <1>7, <2>1, <2>2 DEF AttributeMatch, IInv, NoCall
  <2> QED
    BY <1>7, <2>2, <2>3, AskedStays
    DEF AttributeMatch, IInv, AcknowledgedKept, DeletionAsked
<1>8. ASSUME NEW r \in Requests, RecordMatch(r)
      PROVE  Parts' /\ AcknowledgedKept'
  <2>1. matches'[r] = subject[r] /\ subject[r] # NoMatch
    BY <1>8, SentinelAssumption DEF RecordMatch
  <2>2. \A q \in Requests : q # r =>
          stage'[q] = stage[q] /\ matches'[q] = matches[q]
    BY <1>8 DEF RecordMatch
  <2>3. Parts'
    BY <1>8, <2>1, <2>2 DEF RecordMatch, IInv, NoCall
  <2> QED
    BY <1>8, <2>1, <2>2, <2>3, AskedStays
    DEF RecordMatch, IInv, AcknowledgedKept, DeletionAsked
<1>9. ASSUME NEW r \in Requests, Answer(r)
      PROVE  Parts' /\ AcknowledgedKept'
  BY <1>9, AskedStays DEF Answer, IInv, AcknowledgedKept, DeletionAsked, NoCall
<1>10. CASE Start \/ ListForSeed \/ Interrupt \/ UNCHANGED vars
  BY <1>10, AskedStays
  DEF Start, ListForSeed, Interrupt, vars, IInv, AcknowledgedKept,
      DeletionAsked, NoCall
<1>11. CASE InsertSeed
  <2>1. PICK t \in TargetIds \ issued :
          /\ issued'  = issued \cup {t}
          /\ targets' = [targets EXCEPT
                           ![t] = [spec |-> SeedSpecs[next], active |-> TRUE]]
    BY <1>11 DEF InsertSeed
  <2>2. Live \subseteq Live' /\ Live' \subseteq Live \cup {t}
    <3>1. [spec |-> SeedSpecs[next], active |-> TRUE] # NoTarget
      BY <1>1, <1>11, SeedRow
    <3> QED
      BY <2>1, <3>1
  <2>3. Parts'
    BY <1>11, <2>1, <2>2 DEF InsertSeed, IInv, NoCall
  <2> QED
    BY <1>11, <2>2, <2>3, AskedStays
    DEF InsertSeed, IInv, AcknowledgedKept, DeletionAsked
<1>12. CASE Halt
  BY <1>12, AskedStays DEF Halt, IInv, AcknowledgedKept, DeletionAsked, NoCall
<1> QED
  BY <1>2, <1>3, <1>4, <1>5, <1>6, <1>7, <1>8, <1>9, <1>10, <1>11, <1>12
  DEF Next, Handle, IInv

(* A DELETE that was acknowledged is final, whatever else is in flight.    *)
THEOREM DeletesAreFinal == Spec => []DeleteFinal
<1>1. IInv => DeleteFinal
  BY DEF IInv
<1> QED
  BY <1>1, RegistryInit, RegistryStep, PTL DEF Spec

(* An acknowledged target or match is lost only to a DELETE that names it. *)
THEOREM AcknowledgedStays == Spec => []AcknowledgedKept
<1>1. IInv => AcknowledgedKept
  BY DEF IInv
<1> QED
  BY <1>1, RegistryInit, RegistryStep, PTL DEF Spec

(* No step takes a target away from under a match that is stored: orphans  *)
(* come only from matches inserted after the DELETE.                       *)
THEOREM StoredMatchesKeepTheirTarget == Spec => StoredMatchNeverOrphaned
<1> DEFINE NotTaken == \A m \in Requests :
                         (matches[m] \in Live /\ matches'[m] = matches[m])
                           => targets'[matches[m]] # NoTarget
<1>1. IInv /\ [Next]_vars => [NotTaken]_vars
  <2> SUFFICES ASSUME IInv, [Next]_vars, NEW m \in Requests,
                      matches[m] \in Live, matches'[m] = matches[m]
               PROVE  targets'[matches[m]] # NoTarget
    OBVIOUS
  <2> DEFINE t == matches[m]
  <2>1. TypeOK /\ t \in TargetIds /\ targets[t] # NoTarget
    BY DEF IInv, TypeInv, Live
  <2>2. ASSUME NEW r \in Requests, CreateTarget(r)
        PROVE  targets'[t] # NoTarget
    BY <2>1, <2>2, CallForms, SentinelAssumption
    DEF CreateTarget, AtStore, TypeOK
  <2>3. ASSUME NEW r \in Requests, UpdateTarget(r)
        PROVE  targets'[t] # NoTarget
    BY <2>1, <2>3, CallForms, SentinelAssumption
    DEF UpdateTarget, AtStore, TypeOK
  <2>4. ASSUME NEW r \in Requests, DeleteTarget(r)
        PROVE  targets'[t] # NoTarget
    <3>1. call[r].id # t
      BY <2>1, <2>4, SentinelAssumption DEF DeleteTarget
    <3> QED
      BY <2>1, <2>4, <3>1 DEF DeleteTarget, TypeOK
  <2>5. CASE InsertSeed
    <3>1. [spec |-> SeedSpecs[next], active |-> TRUE] # NoTarget
      BY <2>5, SeedRow DEF IInv
    <3> QED
      BY <2>1, <2>5, <3>1 DEF InsertSeed, TypeOK
  <2>6. CASE UNCHANGED targets
    BY <2>1, <2>6
  <2> QED
    BY <2>2, <2>3, <2>4, <2>5, <2>6
    DEF Next, Handle, Receive, Reject, GetTarget, AttributeMatch, RecordMatch,
        Fail, Answer, Start, ListForSeed, Interrupt, Halt, vars, tables
<1> QED
  BY <1>1, RegistryInit, RegistryStep, PTL DEF Spec, StoredMatchNeverOrphaned

-----------------------------------------------------------------------------
(* Seeds.  While they are inserted, the table holds fewer of them than the *)
(* number of the next; they are listed only over an empty table.  An       *)
(* answer to a creation names a target from the moment it exists: a        *)
(* request has no other subject before.                                    *)
FreshSubject ==
    \A r \in Requests : stage[r] \in {"idle", "received"}
                          => subject[r] = Unattributed

SeedsCounted ==
    /\ IsFiniteSet(Seeded)
    /\ Cardinality(Seeded) <= Len(SeedSpecs)
    /\ phase = "seed" => Cardinality(Seeded) < next

SInv == IInv /\ FreshSubject /\ SeedsCounted

(* No seed is there before the first start.                                *)
LEMMA SeedsInit == Init => SInv
<1> SUFFICES ASSUME Init PROVE SInv
  OBVIOUS
<1>1. Seeded = {}
  BY DEF Init, Seeded, Live
<1>2. Len(SeedSpecs) \in Nat
  BY SeedsAssumption
<1> QED
  BY <1>1, <1>2, RegistryInit, FS_EmptySet
  DEF Init, SInv, FreshSubject, SeedsCounted

(* An id comes to a handler only once it has begun to work.                *)
LEMMA SubjectStep ==
    ASSUME SInv, [Next]_vars
    PROVE  FreshSubject'
<1> USE DEF SInv, IInv, TypeInv, TypeOK, FreshSubject, Goto, Wrote, handlers
<1>1. ASSUME NEW r \in Requests, Receive(r) \/ Handle(r)
      PROVE  FreshSubject'
  <2>1. \A q \in Requests : q # r => UNCHANGED <<stage[q], subject[q]>>
    BY <1>1 DEF Handle, Receive, Reject, CreateTarget, GetTarget,
       UpdateTarget, DeleteTarget, AttributeMatch, RecordMatch, Fail, Answer
  <2>2. stage'[r] \in {"idle", "received"}
          => stage[r] \in {"idle", "received"} /\ UNCHANGED subject[r]
    BY <1>1 DEF Handle, Receive, Reject, CreateTarget, GetTarget,
       UpdateTarget, DeleteTarget, AttributeMatch, RecordMatch, Fail, Answer
  <2> QED
    BY <2>1, <2>2
<1>2. CASE Halt
  BY <1>2 DEF Halt
<1>3. CASE Start \/ ListForSeed \/ InsertSeed \/ Interrupt \/ UNCHANGED vars
  BY <1>3 DEF Start, ListForSeed, InsertSeed, Interrupt, vars
<1> QED
  BY <1>1, <1>2, <1>3 DEF Next

(* Nothing but InsertSeed adds a target without its creator.               *)
LEMMA NoNewSeeds ==
    ASSUME SInv, [Next]_vars, ~InsertSeed
    PROVE  Seeded' \subseteq Seeded
<1> USE DEF SInv, IInv, TypeInv, TypeOK, Seeded, Live, tables, handlers
<1>1. ASSUME NEW r \in Requests, CreateTarget(r)
      PROVE  Seeded' \subseteq Seeded
  <2>1. PICK t \in TargetIds \ issued :
          /\ targets' = [targets EXCEPT ![t] = call[r].row]
          /\ subject' = [subject EXCEPT ![r] = t]
    BY <1>1 DEF CreateTarget
  <2>2. /\ call' = call /\ call[r].kind = "create"
        /\ subject[r] = Unattributed
    BY <1>1 DEF CreateTarget, AtStore, FreshSubject
  <2>3. t \notin Seeded'
    BY <2>1, <2>2
  <2>4. \A u \in Seeded' : u # t /\ u \in Live
    BY <2>1, <2>3
  <2>5. \A u \in Seeded', q \in Requests :
          call[q].kind = "create" => subject[q] # u
    BY <2>1, <2>2, SentinelAssumption
  <2> QED
    BY <2>4, <2>5
<1>2. ASSUME NEW r \in Requests, UpdateTarget(r) \/ DeleteTarget(r)
      PROVE  Seeded' \subseteq Seeded
  <2>1. Live' \subseteq Live /\ UNCHANGED <<call, subject>>
    BY <1>2, CallForms DEF UpdateTarget, DeleteTarget
  <2> QED
    BY <2>1
<1>3. ASSUME NEW r \in Requests, Receive(r)
      PROVE  Seeded' \subseteq Seeded
  <2>1. call[r] = NoCall /\ UNCHANGED <<targets, subject>>
    BY <1>3 DEF Receive, IdleUncalled
  <2>2. \A q \in Requests : call[q].kind = "create" => call'[q] = call[q]
    BY <1>3, <2>1 DEF Receive, NoCall
  <2> QED
    BY <2>1, <2>2
<1>4. ASSUME NEW r \in Requests, AttributeMatch(r)
      PROVE  Seeded' \subseteq Seeded
  <2>1. /\ UNCHANGED <<targets, call>>
        /\ \A q \in Requests : call[q].kind = "create"
                                 => UNCHANGED subject[q]
    BY <1>4 DEF AttributeMatch
  <2> QED
    BY <2>1
<1>5. CASE UNCHANGED <<targets, call, subject>>
  BY <1>5
<1> QED
  BY <1>1, <1>2, <1>3, <1>4, <1>5
  DEF Next, Handle, Reject, GetTarget, RecordMatch, Fail, Answer, Start,
      ListForSeed, Interrupt, Halt, vars

(* Seeds are inserted in order, and by nobody else.                        *)
LEMMA SeedsStep == SInv /\ [Next]_vars => SInv'
<1> SUFFICES ASSUME SInv, [Next]_vars
             PROVE  SeedsCounted'
  BY RegistryStep, SubjectStep DEF SInv
<1>1. /\ SeedsCounted /\ TypeOK /\ SeedLeft
      /\ Len(SeedSpecs) \in Nat /\ Cardinality(Seeded) \in Nat
      /\ next \in Nat
  BY SeedsAssumption, FS_CardinalityType
  DEF SInv, IInv, TypeInv, TypeOK, SeedsCounted
<1>2. CASE InsertSeed
  <2>1. PICK t \in TargetIds :
          targets' = [targets EXCEPT
                         ![t] = [spec |-> SeedSpecs[next], active |-> TRUE]]
    BY <1>2 DEF InsertSeed
  <2>2. Seeded' \subseteq Seeded \cup {t}
    BY <1>1, <1>2, <2>1 DEF InsertSeed, Seeded, Live, TypeOK, handlers
  <2>3. /\ IsFiniteSet(Seeded \cup {t})
        /\ Cardinality(Seeded \cup {t}) <= Cardinality(Seeded) + 1
        /\ Cardinality(Seeded \cup {t}) \in Nat
    BY <1>1, FS_AddElement, FS_CardinalityType DEF SeedsCounted
  <2>4. /\ IsFiniteSet(Seeded') /\ Cardinality(Seeded') \in Nat
        /\ Cardinality(Seeded') <= Cardinality(Seeded) + 1
    BY <1>1, <2>2, <2>3, FS_Subset, FS_CardinalityType
  <2>5. /\ next \in 1 .. Len(SeedSpecs) /\ next' = next + 1
        /\ Cardinality(Seeded) < next
    BY <1>1, <1>2 DEF InsertSeed, SeedLeft, SeedsCounted
  <2> QED
    BY <1>1, <2>4, <2>5 DEF SeedsCounted
<1>3. CASE ~InsertSeed
  <2>1. /\ IsFiniteSet(Seeded') /\ Cardinality(Seeded') \in Nat
        /\ Cardinality(Seeded') <= Cardinality(Seeded)
    BY <1>1, <1>3, NoNewSeeds, FS_Subset, FS_CardinalityType
    DEF SeedsCounted
  <2>2. CASE ListForSeed
    <3>1. next' = 1 /\ (phase' = "seed" => Seeded' = {})
      BY <2>2 DEF ListForSeed, Seeded, Live, tables
    <3> QED
      BY <1>1, <2>1, <3>1, FS_EmptySet DEF SeedsCounted
  <2>3. CASE ~ListForSeed
    <3>1. phase' = "seed" => phase = "seed" /\ next' = next
      BY <1>3, <2>3
      DEF Next, Handle, Receive, Reject, CreateTarget, GetTarget,
          UpdateTarget, DeleteTarget, AttributeMatch, RecordMatch, Fail,
          Answer, Start, Interrupt, Halt, vars, process
    <3> QED
      BY <1>1, <2>1, <3>1 DEF SeedsCounted
  <2> QED
    BY <2>2, <2>3
<1> QED
  BY <1>2, <1>3

(* No more targets than one set of seeds were put in the table by the      *)
(* server itself, whatever was deleted, restarted or killed.               *)
THEOREM SeedsAreNeverDoubled == Spec => []SeedsNeverDoubled
<1>1. SInv => SeedsNeverDoubled
  BY DEF SInv, SeedsCounted, SeedsNeverDoubled
<1> QED
  BY <1>1, SeedsInit, SeedsStep, PTL DEF Spec
=============================================================================
