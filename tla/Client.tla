------------------------------- MODULE Client -------------------------------
(***************************************************************************)
(* The seeker client (pkg/client/main.go): a pool of seeker goroutines     *)
(* that generate keys and test them against the patterns, and the main     *)
(* goroutine of Run that registers, fetches the patterns, sends heartbeats *)
(* and reports the hits.  They share the atomic pattern list, the atomic   *)
(* key counter, the buffered channel statusUpdates and the context that an *)
(* interrupt cancels.                                                      *)
(*                                                                         *)
(* One action is one visible step of one goroutine: an atomic load, store  *)
(* or add, a channel operation, the begin or the end of an HTTP call.  The *)
(* tickers (20 s, 15 s, 5 s) are branches that may be taken at any time.   *)
(***************************************************************************)
EXTENDS Naturals, Sequences, FiniteSets, Functions

CONSTANTS
    Seekers,       \* the seeker goroutines
    Regexes,       \* regular expressions a pattern may carry
    BadRegexes,    \* those that regexp.Compile refuses
    Scopes,        \* the two flags matches_fingerprint, matches_authorized_key
    PatternLists,  \* what the server may answer to /api/targets/active
    MaxKeys,       \* bound on the keys generated in a run
    NoHit          \* an empty fingerprint: the message is a mere count

Pattern == [re : Regexes, scope : Scopes]

ASSUME SeekersAssumption  == IsFiniteSet(Seekers)
ASSUME PatternsAssumption == PatternLists \subseteq Seq(Pattern)
ASSUME KeysAssumption     == MaxKeys \in Nat

VARIABLES
    serving,    \* the compiled patterns the server would answer now
    patterns,   \* Client.patterns
    counter,    \* Client.keyCount
    chan,       \* the buffer of statusUpdates
    cancelled,  \* ctx is done
    main,       \* where the main goroutine is in Run
    inHand,     \* the hit the main goroutine is reporting
    stats,      \* telemetry of Run: keyCount and hitCount
    pc,         \* where each seeker is in its loop
    compiled,   \* each seeker's compiled patterns
    local,      \* each seeker's keyCount
    key,        \* the key each seeker is testing
    at,         \* index of the next pattern it tests the key against
    \* The fate of the hits, for the properties only.
    found,      \* hits of any seeker so far
    recorded,   \* hits the server stores, be it after the client gave up
    failed,     \* hits whose reportMatch returned an error
    abandoned   \* hits a cancelled seeker kept to itself

shared  == <<patterns, counter, chan, cancelled>>
server  == <<serving, recorded>>
runner  == <<main, inHand, stats, failed>>
seekers == <<pc, compiled, local, key, at, found, abandoned>>
vars    == <<serving, patterns, counter, chan, cancelled, main, inHand, stats,
             pc, compiled, local, key, at, found, recorded, failed, abandoned>>

-----------------------------------------------------------------------------
(* make(chan seekerStatus, c.seekers*2)                                    *)
Capacity == 2 * Cardinality(Seekers)

(* A hit: the key, and which of the seeker's patterns it satisfies.        *)
Hit     == [key : Nat, index : Nat]
Message == [keys : Nat, hit : Hit \cup {NoHit}]

ASSUME NoHitAssumption == NoHit \notin Hit

(* The hits that the messages of a buffer carry, and that each is carried  *)
(* by one message only.                                                    *)
Holds(h)        == {h} \ {NoHit}
HitsIn(c)       == UNION {Holds(c[i].hit) : i \in DOMAIN c}
DistinctHits(c) == \A i, j \in DOMAIN c :
                     c[i].hit = c[j].hit /\ c[i].hit # NoHit => i = j

Compiles(p) == p.re \notin BadRegexes

(* What a seeker keeps of a list: the patterns that compile, in order.     *)
Compilable(list) ==
    LET kept[n \in 0 .. Len(list)] ==
          IF n = 0 THEN << >>
          ELSE IF Compiles(list[n]) THEN Append(kept[n - 1], list[n])
                                    ELSE kept[n - 1]
    IN  kept[Len(list)]

(* Fault: a change of the scope alone goes unnoticed.                      *)
RegexesMatch(c, list) ==
    /\ Len(c) = Len(list)
    /\ \A i \in DOMAIN c : c[i].re = list[i].re

patternsMatch(c, list) ==
    /\ Len(c) = Len(list)
    /\ \A i \in DOMAIN c : c[i].re = list[i].re /\ c[i].scope = list[i].scope

Move(s, to) == pc' = [pc EXCEPT ![s] = to]

Pending(s) == [key |-> key[s], index |-> at[s]]

Init ==
    /\ serving \in PatternLists
    /\ patterns = << >>
    /\ counter = 0
    /\ chan = << >>
    /\ cancelled = FALSE
    /\ main = "register"
    /\ inHand = NoHit
    /\ stats = [keys |-> 0, hits |-> 0]
    /\ pc = [s \in Seekers |-> "off"]
    /\ compiled = [s \in Seekers |-> << >>]
    /\ local = [s \in Seekers |-> 0]
    /\ key = [s \in Seekers |-> 0]
    /\ at = [s \in Seekers |-> 1]
    /\ found = {} /\ recorded = {} /\ failed = {} /\ abandoned = {}

-----------------------------------------------------------------------------
(* The surroundings.                                                       *)

(* Targets change at the server.                                           *)
Publish ==
    /\ serving' \in PatternLists \ {serving}
    /\ UNCHANGED <<shared, recorded, runner, seekers>>

(* The interrupt is caught from the first line of Run on.                  *)
Interrupt ==
    /\ ~cancelled
    /\ main \notin {"done", "failed"}
    /\ cancelled' = TRUE
    /\ UNCHANGED <<patterns, counter, chan, server, runner, seekers>>

-----------------------------------------------------------------------------
(* The main goroutine.                                                     *)

(* register: an error ends Run.                                            *)
Register ==
    /\ main = "register"
    /\ main' \in {"first fetch", "failed"}
    /\ UNCHANGED <<shared, inHand, stats, failed, server, seekers>>

(* The first fetchTargets: an error ends Run, else the seekers start.      *)
FirstFetch ==
    /\ main = "first fetch"
    /\ \/ /\ main' = "failed"
          /\ UNCHANGED <<patterns, pc>>
       \/ /\ main' = "loop"
          /\ patterns' = serving
          /\ pc' = [s \in Seekers |-> "top"]
    /\ UNCHANGED <<counter, chan, cancelled, inHand, stats, failed, server,
                   compiled, local, key, at, found, abandoned>>

(* A ticker wins the select: an HTTP call begins.                          *)
Tick(call) ==
    /\ main = "loop"
    /\ main' = call
    /\ UNCHANGED <<shared, inHand, stats, failed, server, seekers>>

(* fetchTargets returns with the list, or with an error that is logged.    *)
Fetched ==
    /\ main = "fetch"
    /\ main' = "loop"
    /\ patterns' = serving
    /\ UNCHANGED <<counter, chan, cancelled, inHand, stats, failed, server,
                   seekers>>

FetchFails ==
    /\ main = "fetch"
    /\ main' = "loop"
    /\ UNCHANGED <<shared, inHand, stats, failed, server, seekers>>

(* sendHeartbeat returns; an error is logged.                              *)
HeartbeatReturns ==
    /\ main = "beat"
    /\ main' = "loop"
    /\ UNCHANGED <<shared, inHand, stats, failed, server, seekers>>

(* A message wins the select.  Its keys are added up; a hit is counted and *)
(* reported before the loop goes on.                                       *)
Receive ==
    /\ main = "loop"
    /\ chan # << >>
    /\ LET m == Head(chan) IN
        /\ IF m.hit = NoHit
           THEN /\ stats' = [stats EXCEPT !.keys = @ + m.keys]
                /\ main' = "loop"
           ELSE /\ stats' = [keys |-> stats.keys + m.keys,
                             hits |-> stats.hits + 1]
                /\ main' = "report"
        /\ inHand' = m.hit
    /\ chan' = Tail(chan)
    /\ UNCHANGED <<patterns, counter, cancelled, failed, server, seekers>>

(* reportMatch returns: the server has stored the match and said so, ...   *)
Reported ==
    /\ main = "report"
    /\ main' = "loop"
    /\ inHand' = NoHit
    /\ recorded' = recorded \cup {inHand}
    /\ UNCHANGED <<shared, serving, failed, stats, seekers>>

(* Fault: the hit of a failed report is put back into the buffer.          *)
ReportFailsForNow ==
    /\ main = "report"
    /\ main' = "loop"
    /\ inHand' = NoHit
    /\ recorded' \in {recorded, recorded \cup {inHand}}
    /\ chan' = Append(chan, [keys |-> 0, hit |-> inHand])
    /\ UNCHANGED <<patterns, counter, cancelled, serving, failed, stats,
                   seekers>>

(* ... or with an error, which is logged: the call broke or timed out, or  *)
(* was answered with another status.  The server may have stored the match *)
(* all the same.  The client does not try again, and drops the key.        *)
ReportFails ==
    /\ main = "report"
    /\ main' = "loop"
    /\ inHand' = NoHit
    /\ failed' = failed \cup {inHand}
    /\ recorded' \in {recorded, recorded \cup {inHand}}
    /\ UNCHANGED <<shared, serving, stats, seekers>>

(* ctx.Done wins the select: the loop is left, with whatever is buffered.  *)
Stop ==
    /\ main = "loop"
    /\ cancelled
    /\ main' = "wait"
    /\ UNCHANGED <<shared, inHand, stats, failed, server, seekers>>

(* Fault: Run does not wait for the seekers.                               *)
FinishAtOnce ==
    /\ main = "wait"
    /\ main' = "done"
    /\ UNCHANGED <<shared, inHand, stats, failed, server, seekers>>

(* wg.Wait returns.                                                        *)
Finish ==
    /\ main = "wait"
    /\ \A s \in Seekers : pc[s] = "exit"
    /\ main' = "done"
    /\ UNCHANGED <<shared, inHand, stats, failed, server, seekers>>

-----------------------------------------------------------------------------
(* A seeker.                                                               *)

(* Top of the loop: leave if ctx is done, ...                              *)
Exit(s) ==
    /\ pc[s] = "top"
    /\ cancelled
    /\ Move(s, "exit")
    /\ UNCHANGED <<shared, server, runner, compiled, local, key, at, found,
                   abandoned>>

(* Fault: ctx is looked at only while a seeker waits for the channel.      *)
EnterAnyway(s) ==
    /\ pc[s] = "top"
    /\ Move(s, "load")
    /\ UNCHANGED <<shared, server, runner, compiled, local, key, at, found,
                   abandoned>>

Enter(s) ==
    /\ pc[s] = "top"
    /\ ~cancelled
    /\ Move(s, "load")
    /\ UNCHANGED <<shared, server, runner, compiled, local, key, at, found,
                   abandoned>>

(* ... load the patterns, recompile them if they are not the ones at hand, *)
(* and sleep over an empty list, or over one of which nothing compiles.    *)
Sync(s) ==
    /\ pc[s] = "load"
    /\ compiled' = [compiled EXCEPT
                      ![s] = IF patterns = << >> \/ patternsMatch(@, patterns)
                             THEN @ ELSE Compilable(patterns)]
    /\ Move(s, IF patterns = << >> \/ compiled'[s] = << >>
               THEN "top" ELSE "ready")
    /\ UNCHANGED <<shared, server, runner, local, key, at, found, abandoned>>

(* Generate a key and count it, in both counters.                          *)
Generate(s) ==
    /\ pc[s] = "ready"
    /\ counter < MaxKeys
    /\ counter' = counter + 1
    /\ local' = [local EXCEPT ![s] = @ + 1]
    /\ key' = [key EXCEPT ![s] = counter']
    /\ at' = [at EXCEPT ![s] = 1]
    /\ Move(s, "test")
    /\ UNCHANGED <<patterns, chan, cancelled, server, runner, compiled, found,
                   abandoned>>

GenerateFails(s) ==
    /\ pc[s] = "ready"
    /\ Move(s, "top")
    /\ UNCHANGED <<shared, server, runner, compiled, local, key, at, found,
                   abandoned>>

(* On to the next pattern, or to the ticker after the last.                *)
NextPattern(s) ==
    /\ at' = [at EXCEPT ![s] = @ + 1]
    /\ Move(s, IF at[s] < Len(compiled[s]) THEN "test" ELSE "tick")

TestMisses(s) ==
    /\ pc[s] = "test"
    /\ NextPattern(s)
    /\ UNCHANGED <<shared, server, runner, compiled, local, key, found,
                   abandoned>>

TestHits(s) ==
    /\ pc[s] = "test"
    /\ found' = found \cup {Pending(s)}
    /\ Move(s, "send")
    /\ UNCHANGED <<shared, server, runner, compiled, local, key, at,
                   abandoned>>

(* Fault: the local count is not consumed.                                 *)
SendHitKeepsCount(s) ==
    /\ pc[s] = "send"
    /\ Len(chan) < Capacity
    /\ chan' = Append(chan, [keys |-> local[s], hit |-> Pending(s)])
    /\ UNCHANGED local
    /\ NextPattern(s)
    /\ UNCHANGED <<patterns, counter, cancelled, server, runner, compiled, key,
                   found, abandoned>>

(* Fault: the send gives up when the buffer is full.                       *)
SendHitDrops(s) ==
    /\ pc[s] = "send"
    /\ chan' = IF Len(chan) < Capacity
               THEN Append(chan, [keys |-> local[s], hit |-> Pending(s)])
               ELSE chan
    /\ local' = [local EXCEPT ![s] = 0]
    /\ NextPattern(s)
    /\ UNCHANGED <<patterns, counter, cancelled, server, runner, compiled, key,
                   found, abandoned>>

(* Fault: ctx.Done is forgotten in the send of a count.                    *)
SendCountOnly(s) ==
    /\ pc[s] = "count"
    /\ Len(chan) < Capacity
    /\ chan' = Append(chan, [keys |-> local[s], hit |-> NoHit])
    /\ local' = [local EXCEPT ![s] = 0]
    /\ Move(s, "top")
    /\ UNCHANGED <<patterns, counter, cancelled, server, runner, compiled, key,
                   at, found, abandoned>>

(* Fault: the buffer is taken to be unlimited.                             *)
SendHitUnbounded(s) ==
    /\ pc[s] = "send"
    /\ chan' = Append(chan, [keys |-> local[s], hit |-> Pending(s)])
    /\ local' = [local EXCEPT ![s] = 0]
    /\ NextPattern(s)
    /\ UNCHANGED <<patterns, counter, cancelled, server, runner, compiled, key,
                   found, abandoned>>

(* The send of a hit blocks while the buffer is full.  It takes the local  *)
(* count along, so a second hit of the same key carries a count of zero.   *)
SendHit(s) ==
    /\ pc[s] = "send"
    /\ Len(chan) < Capacity
    /\ chan' = Append(chan, [keys |-> local[s], hit |-> Pending(s)])
    /\ local' = [local EXCEPT ![s] = 0]
    /\ NextPattern(s)
    /\ UNCHANGED <<patterns, counter, cancelled, server, runner, compiled, key,
                   found, abandoned>>

(* ctx.Done wins the select of the send: the seeker ends, the hit with it. *)
AbandonHit(s) ==
    /\ pc[s] = "send"
    /\ cancelled
    /\ abandoned' = abandoned \cup {Pending(s)}
    /\ Move(s, "exit")
    /\ UNCHANGED <<shared, server, runner, compiled, local, key, at, found>>

(* Has the ticker fired?                                                   *)
CheckTicker(s) ==
    /\ pc[s] = "tick"
    /\ \E to \in {"count", "top"} : Move(s, to)
    /\ UNCHANGED <<shared, server, runner, compiled, local, key, at, found,
                   abandoned>>

(* Then the running count is sent; ctx.Done ends this wait as well.        *)
SendCount(s) ==
    /\ pc[s] = "count"
    /\ \/ /\ Len(chan) < Capacity
          /\ chan' = Append(chan, [keys |-> local[s], hit |-> NoHit])
          /\ local' = [local EXCEPT ![s] = 0]
          /\ Move(s, "top")
       \/ /\ cancelled
          /\ Move(s, "exit")
          /\ UNCHANGED <<chan, local>>
    /\ UNCHANGED <<patterns, counter, cancelled, server, runner, compiled, key,
                   at, found, abandoned>>

Think(s) ==
    \/ Exit(s) \/ Enter(s) \/ Sync(s)
    \/ Generate(s) \/ GenerateFails(s)
    \/ TestMisses(s) \/ TestHits(s) \/ CheckTicker(s)

Send(s) == SendHit(s) \/ AbandonHit(s) \/ SendCount(s)

Call ==
    \/ Register \/ FirstFetch \/ Fetched \/ FetchFails
    \/ HeartbeatReturns \/ Reported \/ ReportFails \/ Finish

(* Run has returned.                                                       *)
Ended == main \in {"done", "failed"} /\ UNCHANGED vars

Next ==
    \/ Publish \/ Interrupt \/ Ended
    \/ Call \/ Tick("fetch") \/ Tick("beat") \/ Receive \/ Stop
    \/ \E s \in Seekers : Think(s) \/ Send(s)

Spec == Init /\ [][Next]_vars

(* Goroutines run; an HTTP call ends within its timeout of 10 seconds; a   *)
(* select picks among its ready cases at random, and a blocked sender is   *)
(* served first-in first-out, so neither a case that is ready again and    *)
(* again nor a sender is passed over for ever.                             *)
Fairness ==
    /\ WF_vars(Call)
    /\ SF_vars(Receive)
    /\ SF_vars(Stop)
    /\ SF_vars(Tick("fetch"))
    /\ \A s \in Seekers : WF_vars(Think(s)) /\ SF_vars(Send(s))

FairSpec == Spec /\ Fairness

-----------------------------------------------------------------------------
(* The types of the state.                                                 *)
TypeOK ==
    /\ serving \in PatternLists
    /\ patterns \in PatternLists \cup {<< >>}
    /\ counter \in 0 .. MaxKeys
    /\ chan \in Seq(Message) /\ Len(chan) <= Capacity
    /\ cancelled \in BOOLEAN
    /\ main \in {"register", "first fetch", "loop", "fetch", "beat", "report",
                 "wait", "done", "failed"}
    /\ inHand \in Hit \cup {NoHit}
    /\ stats \in [keys : Nat, hits : Nat]
    /\ pc \in [Seekers -> {"off", "top", "load", "ready", "test", "send",
                           "tick", "count", "exit"}]
    /\ compiled \in [Seekers -> Seq(Pattern)]
    /\ local \in [Seekers -> Nat]
    /\ key \in [Seekers -> Nat]
    /\ at \in [Seekers -> Nat]
    /\ found \subseteq Hit /\ abandoned \subseteq Hit
    /\ recorded \subseteq Hit /\ failed \subseteq Hit

(* The hits for which reportMatch has run.                                 *)
posted == recorded \cup failed

(* "Count once per generated key, including the key that matches.          *)
(* Reporting consumes the local count": each key the client has generated  *)
(* is in the total of Run, in a message on its way, or in the local count  *)
(* of one seeker, and in one of them only; and Run's count of hits is that *)
(* of the hits it has reported or holds.                                   *)
CountsAddUp ==
    /\ counter = stats.keys
                 + SumFunction([i \in DOMAIN chan |-> chan[i].keys])
                 + SumFunction(local)
    /\ stats.hits = Cardinality(posted \cup Holds(inHand))

(* The hits that a seeker is about to send.                                *)
Sending     == {s \in Seekers : pc[s] = "send"}
PendingHits == {Pending(s) : s \in Sending}

(* Every hit found is with its seeker, in the buffer, in the hand of the   *)
(* main goroutine or at the server, or its report failed, or its seeker    *)
(* left it behind, which happens only after the interrupt.  So all that a  *)
(* running client ever loses are hits whose own report failed; neither a   *)
(* full buffer nor any other call that fails costs one.                    *)
HitsAccountedFor ==
    /\ found = PendingHits \cup HitsIn(chan) \cup Holds(inHand)
                 \cup recorded \cup failed \cup abandoned
    /\ ~cancelled => abandoned = {}

(* No hit is in two places, so none is reported twice: neither two seekers *)
(* nor two messages carry the same one, and none that was posted comes     *)
(* again.                                                                  *)
NoHitTwice ==
    /\ \A s, t \in Sending : Pending(s) = Pending(t) => s = t
    /\ DistinctHits(chan)
    /\ PendingHits \cap (HitsIn(chan) \cup Holds(inHand) \cup posted
                           \cup abandoned) = {}
    /\ HitsIn(chan) \cap (Holds(inHand) \cup posted \cup abandoned) = {}
    /\ Holds(inHand) \cap (posted \cup abandoned) = {}
    /\ posted \cap abandoned = {}

(* Every step of a goroutine is one of the ledger, or none of its          *)
(* business: seekers, buffer and calls hide behind it.                     *)
Ledger == INSTANCE ClientLedger WITH
    Indices     <- UNION {DOMAIN list : list \in PatternLists},
    generated   <- counter,
    counted     <- stats.keys,
    left        <- abandoned,
    interrupted <- cancelled,
    over        <- main \in {"done", "failed"}

KeepsLedger == Ledger!Spec

(* "A scope-only change must trigger a recompile so seekers don't keep     *)
(* testing against the stale scope": a key is generated for, and tested    *)
(* against, the patterns that were current when the seeker looked.         *)
TestsCurrentPatterns ==
    [][\A s \in Seekers : (pc[s] = "load" /\ pc'[s] = "ready")
                            => compiled'[s] = Compilable(patterns)]_vars

(* After an interrupt Run returns: no seeker stays blocked on a buffer     *)
(* that nobody empties any more, and the main goroutine does not wait for  *)
(* one that does.                                                          *)
ShutdownCompletes == cancelled ~> main \in {"done", "failed"}

(* After an interrupt a seeker only winds down: the turn it is in ends,    *)
(* pattern by pattern, and it begins no other, so it generates one key     *)
(* more at most and has a bounded number of steps left.                    *)
Rank(p) == CASE p = "exit"              -> 0
             [] p = "top"               -> 1
             [] p = "count"             -> 2
             [] p = "tick"              -> 3
             [] p \in {"test", "send"}  -> 4
             [] p = "ready"             -> 5
             [] p = "load"              -> 6
             [] p = "off"               -> 7

Stays(s) == UNCHANGED <<pc[s], compiled[s], local[s], key[s], at[s]>>

Advances(s) ==
    /\ pc[s] \in {"test", "send"} /\ pc'[s] \in {"test", "send"}
    /\ UNCHANGED <<compiled[s], key[s]>>
    /\ \/ at[s] < at'[s] /\ at'[s] <= Len(compiled[s])
       \/ at[s] = at'[s] /\ pc[s] = "test" /\ pc'[s] = "send"

SeekersWindDown ==
    [][cancelled => \A s \in Seekers :
          Stays(s) \/ Rank(pc'[s]) < Rank(pc[s]) \/ Advances(s)]_vars

(* A hit of a client that is not interrupted comes to the server in the    *)
(* end, unless the one report of it fails.                                 *)
HitsArrive ==
    \A h \in [key : 1 .. MaxKeys,
              index : UNION {DOMAIN list : list \in PatternLists}] :
        h \in found ~> (h \in recorded \/ h \in failed \/ cancelled)

(* Once the server's patterns stay the same, and fetches succeed again and *)
(* again, every seeker comes to test exactly those that compile, and none  *)
(* goes on when there are none.                                            *)
Settled(s, list) ==
    IF Compilable(list) = << >> THEN pc[s] \in {"top", "load"}
                                ELSE compiled[s] = Compilable(list)

PatternsConverge ==
    \A list \in PatternLists :
        (<>[](serving = list /\ ~cancelled) /\ []<><<Fetched>>_vars)
            => <>[](\A s \in Seekers : Settled(s, list))

(* The package comment of client/main.go says that the client "reports any *)
(* matches back to the server": when Run has returned, the server has all  *)
(* of them.  The code does not keep it.  After an interrupt what is in the *)
(* buffer when the loop is left, and what a seeker was about to send, is   *)
(* not even tried to report; and at any time the key of a report that      *)
(* failed is dropped.                                                      *)
AllHitsReported == main = "done" => found = recorded
=============================================================================
