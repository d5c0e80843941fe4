---------------------------- MODULE ClientProofs ----------------------------
(* Proofs about Client, for any pool of seekers, any patterns and any      *)
(* number of keys: every hit is accounted for and reported once at most,   *)
(* keys are counted once and tested against the current patterns, and the  *)
(* whole implements ClientLedger.                                          *)
EXTENDS Client, FoldLemmas, FiniteSetTheorems, TLAPS

-----------------------------------------------------------------------------
(* The recursive function behind Compilable.                               *)
Keep(list, kept, n) ==
    IF n = 0 THEN << >>
    ELSE IF Compiles(list[n]) THEN Append(kept[n - 1], list[n])
                              ELSE kept[n - 1]

IsKept(kept, list) == kept = [n \in 0 .. Len(list) |-> Keep(list, kept, n)]

(* That function exists, for a list of any length.                         *)
LEMMA KeptExists ==
    ASSUME NEW list, Len(list) \in Nat
    PROVE  \E kept : IsKept(kept, list)
<1> DEFINE Works(n) == \E k : k = [m \in 0 .. n |-> Keep(list, k, m)]
           W == {n \in Nat : Works(n)}
<1>1. 0 \in W
  <2> DEFINE z == [m \in 0 .. 0 |-> << >>]
  <2>1. \A m \in 0 .. 0 : Keep(list, z, m) = << >>
    BY DEF Keep
  <2>2. z = [m \in 0 .. 0 |-> Keep(list, z, m)]
    BY <2>1
  <2> QED
    BY <2>2
<1>2. ASSUME NEW n \in Nat, n \in W
      PROVE  n + 1 \in W
  <2>1. PICK g : g = [m \in 0 .. n |-> Keep(list, g, m)]
    BY <1>2
  <2> DEFINE h == [m \in 0 .. n + 1 |-> Keep(list, g, m)]
  <2>2. \A m \in 0 .. n : h[m] = g[m]
    BY <2>1
  <2>3. ASSUME NEW m \in 0 .. n + 1
        PROVE  Keep(list, h, m) = Keep(list, g, m)
    <3> HIDE DEF h
    <3>1. CASE m = 0
      BY <3>1 DEF Keep
    <3>2. CASE m # 0
      <4>1. m - 1 \in 0 .. n
        BY <3>2
      <4> QED
        BY <2>2, <3>2, <4>1 DEF Keep
    <3> QED
      BY <3>1, <3>2
  <2>4. h = [m \in 0 .. n + 1 |-> Keep(list, h, m)]
    BY <2>3
  <2> HIDE DEF h
  <2> QED
    BY <2>4
<1> HIDE DEF Works
<1>3. Works(Len(list))
  BY <1>1, <1>2, SetInduction
<1> QED
  BY <1>3 DEF IsKept, Works

(* So what is kept of a list is built up one pattern at a time.            *)
LEMMA CompilableIsKept ==
    ASSUME NEW list \in Seq(Pattern)
    PROVE  \E kept : /\ Compilable(list) = kept[Len(list)]
                     /\ \A n \in 0 .. Len(list) :
                           kept[n] = Keep(list, kept, n)
<1>1. Len(list) \in Nat
  OBVIOUS
<1>2. Compilable(list) = (CHOOSE kept : IsKept(kept, list))[Len(list)]
  BY DEF Compilable, IsKept, Keep
<1>3. IsKept(CHOOSE kept : IsKept(kept, list), list)
  BY <1>1, KeptExists
<1> DEFINE k == CHOOSE kept : IsKept(kept, list)
<1> HIDE DEF k
<1>4. Compilable(list) = k[Len(list)] /\ IsKept(k, list)
  BY <1>2, <1>3 DEF k
<1>5. \A n \in 0 .. Len(list) : k[n] = Keep(list, k, n)
  BY <1>4 DEF IsKept
<1> QED
  BY <1>4, <1>5

AllCompile(list) == \A i \in DOMAIN list : Compiles(list[i])

(* What is kept of a list are patterns, and they compile.                  *)
LEMMA CompilableType ==
    ASSUME NEW list \in Seq(Pattern)
    PROVE  /\ Compilable(list) \in Seq(Pattern)
           /\ AllCompile(Compilable(list))
           /\ Len(Compilable(list)) <= Len(list)
<1>1. PICK k : /\ Compilable(list) = k[Len(list)]
               /\ \A n \in 0 .. Len(list) : k[n] = Keep(list, k, n)
  BY CompilableIsKept
<1> DEFINE Good(n) == /\ k[n] \in Seq(Pattern) /\ AllCompile(k[n])
                      /\ Len(k[n]) <= n
           W == {n \in Nat : n <= Len(list) => Good(n)}
<1>2. 0 \in W
  <2>1. k[0] = << >>
    BY <1>1 DEF Keep
  <2>2. /\ k[0] \in Seq(Pattern) /\ Len(k[0]) = 0 /\ DOMAIN k[0] = {}
        /\ 0 \in Nat /\ 0 <= 0
    BY <2>1
  <2>3. Good(0)
    BY <2>2 DEF AllCompile
  <2> HIDE DEF Good
  <2> QED
    BY <2>3
<1>3. ASSUME NEW n \in Nat, n \in W
      PROVE  n + 1 \in W
  <2> SUFFICES ASSUME n + 1 <= Len(list)
               PROVE  Good(n + 1)
    OBVIOUS
  <2>1. Good(n) /\ list[n + 1] \in Pattern
    BY <1>3
  <2>2. k[n + 1] = Keep(list, k, n + 1)
    BY <1>1
  <2>3. CASE Compiles(list[n + 1])
    <3>1. k[n + 1] = Append(k[n], list[n + 1])
      BY <2>2, <2>3 DEF Keep
    <3>2. AllCompile(Append(k[n], list[n + 1]))
      BY <2>1, <2>3 DEF AllCompile
    <3> QED
      BY <2>1, <3>1, <3>2
  <2>4. CASE ~Compiles(list[n + 1])
    <3>1. k[n + 1] = k[n]
      BY <2>2, <2>4 DEF Keep
    <3> QED
      BY <2>1, <3>1
  <2> QED
    BY <2>3, <2>4
<1> HIDE DEF Good
<1>4. Nat \subseteq W
  BY <1>2, <1>3, SetInduction
<1>5. Good(Len(list))
  BY <1>4
<1> QED
  BY <1>1, <1>5 DEF Good

(* Nothing is lost of a list that compiles.                                *)
LEMMA CompilableAll ==
    ASSUME NEW list \in Seq(Pattern), AllCompile(list)
    PROVE  Compilable(list) = list
<1>1. PICK k : /\ Compilable(list) = k[Len(list)]
               /\ \A n \in 0 .. Len(list) : k[n] = Keep(list, k, n)
  BY CompilableIsKept
<1> DEFINE Good(n) == /\ k[n] \in Seq(Pattern) /\ Len(k[n]) = n
                      /\ \A i \in 1 .. n : k[n][i] = list[i]
           W == {n \in Nat : n <= Len(list) => Good(n)}
<1>2. 0 \in W
  <2>1. k[0] = << >>
    BY <1>1 DEF Keep
  <2>2. k[0] \in Seq(Pattern) /\ Len(k[0]) = 0
    BY <2>1
  <2>3. 1 .. 0 = {} /\ 0 \in Nat
    OBVIOUS
  <2>4. Good(0)
    BY <2>2, <2>3
  <2> HIDE DEF Good
  <2> QED
    BY <2>4
<1>3. ASSUME NEW n \in Nat, n \in W
      PROVE  n + 1 \in W
  <2> SUFFICES ASSUME n + 1 <= Len(list)
               PROVE  Good(n + 1)
    OBVIOUS
  <2>0. n + 1 \in DOMAIN list
    OBVIOUS
  <2>1. Good(n) /\ list[n + 1] \in Pattern /\ Compiles(list[n + 1])
    BY <1>3, <2>0 DEF AllCompile
  <2>2. k[n + 1] = Append(k[n], list[n + 1])
    <3>1. k[n + 1] = Keep(list, k, n + 1)
      BY <1>1
    <3> QED
      BY <2>1, <3>1 DEF Keep
  <2>3. /\ Append(k[n], list[n + 1]) \in Seq(Pattern)
        /\ Len(Append(k[n], list[n + 1])) = n + 1
        /\ \A i \in 1 .. n : Append(k[n], list[n + 1])[i] = k[n][i]
        /\ Append(k[n], list[n + 1])[n + 1] = list[n + 1]
    <3> HIDE DEF W
    <3> QED
      BY <2>1
  <2>4. \A i \in 1 .. n : k[n + 1][i] = list[i]
    BY <2>1, <2>2, <2>3
  <2>5. \A i \in 1 .. n + 1 : i \in 1 .. n \/ i = n + 1
    OBVIOUS
  <2> HIDE DEF W
  <2> QED
    BY <2>2, <2>3, <2>4, <2>5
<1> HIDE DEF Good
<1>4. Nat \subseteq W
  BY <1>2, <1>3, SetInduction
<1>5. Good(Len(list))
  BY <1>4
<1> QED
  BY <1>1, <1>5 DEF Good

-----------------------------------------------------------------------------
(* Appending a message adds its hit to those in the buffer, and keeps them *)
(* distinct when it is new.                                                *)
LEMMA AppendHits ==
    ASSUME NEW c \in Seq(Message), NEW m \in Message
    PROVE  /\ HitsIn(Append(c, m)) = HitsIn(c) \cup Holds(m.hit)
           /\ (DistinctHits(c) /\ m.hit \notin HitsIn(c))
                => DistinctHits(Append(c, m))
<1> DEFINE d == Append(c, m)
<1>1. /\ DOMAIN d = DOMAIN c \cup {Len(c) + 1} /\ Len(c) + 1 \notin DOMAIN c
      /\ \A i \in DOMAIN c : d[i] = c[i]
      /\ d[Len(c) + 1] = m
  OBVIOUS
<1> HIDE DEF d
<1>2. HitsIn(d) = HitsIn(c) \cup Holds(m.hit)
  BY <1>1 DEF HitsIn
<1>3. ASSUME DistinctHits(c), m.hit \notin HitsIn(c)
      PROVE  DistinctHits(d)
  <2>1. \A i \in DOMAIN c : c[i].hit # NoHit => c[i].hit # m.hit
    BY <1>3 DEF HitsIn, Holds
  <2> QED
    BY <1>1, <1>3, <2>1 DEF DistinctHits
<1> QED
  BY <1>2, <1>3 DEF d

(* Taking the head of the buffer takes its hit and no other.               *)
LEMMA TailHits ==
    ASSUME NEW c \in Seq(Message), c # << >>
    PROVE  /\ HitsIn(c) = HitsIn(Tail(c)) \cup Holds(Head(c).hit)
           /\ DistinctHits(c) =>
                DistinctHits(Tail(c)) /\ Head(c).hit \notin HitsIn(Tail(c))
<1> DEFINE d == Tail(c)
<1>1. /\ Head(c) = c[1] /\ 1 \in DOMAIN c
      /\ \A i \in DOMAIN d : i + 1 \in DOMAIN c /\ d[i] = c[i + 1] /\ i # 0
      /\ \A i \in DOMAIN c : i # 1 => i - 1 \in DOMAIN d /\ c[i] = d[i - 1]
      /\ DOMAIN c \subseteq Nat /\ DOMAIN d \subseteq Nat
  OBVIOUS
<1> HIDE DEF d
<1>2. HitsIn(c) = HitsIn(d) \cup Holds(c[1].hit)
  <2>1. HitsIn(c) \subseteq HitsIn(d) \cup Holds(c[1].hit)
    <3> SUFFICES ASSUME NEW i \in DOMAIN c, NEW h \in Holds(c[i].hit)
                 PROVE  h \in HitsIn(d) \cup Holds(c[1].hit)
      BY DEF HitsIn
    <3> QED
      BY <1>1 DEF HitsIn
  <2>2. HitsIn(d) \cup Holds(c[1].hit) \subseteq HitsIn(c)
    BY <1>1 DEF HitsIn
  <2> QED
    BY <2>1, <2>2
<1>3. ASSUME DistinctHits(c)
      PROVE  DistinctHits(d) /\ c[1].hit \notin HitsIn(d)
  <2>1. DistinctHits(d)
    <3> SUFFICES ASSUME NEW i \in DOMAIN d, NEW j \in DOMAIN d,
                        d[i].hit = d[j].hit, d[i].hit # NoHit
                 PROVE  i = j
      BY DEF DistinctHits
    <3>1. i + 1 = j + 1
      BY <1>1, <1>3 DEF DistinctHits
    <3> QED
      BY <1>1, <3>1
  <2>2. c[1].hit \notin HitsIn(d)
    <3> SUFFICES ASSUME NEW i \in DOMAIN d, c[1].hit \in Holds(d[i].hit)
                 PROVE  FALSE
      BY DEF HitsIn
    <3>1. c[1].hit = c[i + 1].hit /\ c[1].hit # NoHit
      BY <1>1 DEF Holds
    <3>2. 1 = i + 1
      BY <1>1, <1>3, <3>1 DEF DistinctHits
    <3> QED
      BY <1>1, <3>2
  <2> QED
    BY <2>1, <2>2
<1> QED
  BY <1>1, <1>2, <1>3 DEF d

-----------------------------------------------------------------------------
(* The inductive invariant: the types the argument needs; a key belongs to *)
(* the one seeker that drew it from the counter; and a seeker has found    *)
(* the key it is testing only at patterns before the one it is at.  So a   *)
(* hit is new when it is found.                                            *)

Types ==
    /\ counter \in Nat
    /\ chan \in Seq(Message)
    /\ inHand \in Hit \cup {NoHit}
    /\ pc \in [Seekers -> {"off", "top", "load", "ready", "test", "send",
                           "tick", "count", "exit"}]
    /\ local \in [Seekers -> Nat]
    /\ key \in [Seekers -> Nat]
    /\ at \in [Seekers -> Nat]
    /\ found \subseteq Hit

KeysDrawn ==
    /\ \A s \in Seekers : key[s] <= counter
    /\ \A s \in Seekers : pc[s] \in {"test", "send"} => key[s] # 0
    /\ \A s, t \in Seekers : key[s] = key[t] /\ key[s] # 0 => s = t
    /\ \A h \in found : h.key <= counter

FoundBehind ==
    \A s \in Seekers : \A h \in found :
        h.key = key[s] =>
            /\ pc[s] = "test" => h.index < at[s]
            /\ pc[s] = "send" => h.index <= at[s]

InHandReported == main = "report" <=> inHand # NoHit

NotLaunched ==
    main \in {"register", "first fetch"} => \A s \in Seekers : pc[s] = "off"

Owned == Types /\ KeysDrawn /\ FoundBehind /\ InHandReported /\ NotLaunched

IInv == Owned /\ HitsAccountedFor /\ NoHitTwice

(* Before Run registers there is no hit anywhere.                          *)
LEMMA ClientInit == Init => IInv
  BY DEF Init, IInv, Owned, Types, KeysDrawn, FoundBehind, InHandReported,
         NotLaunched, HitsAccountedFor, NoHitTwice, PendingHits, Sending,
         HitsIn, Holds, DistinctHits, Hit, Message, posted

(* The seekers are launched once, when the first fetch has succeeded.      *)
LEMMA LaunchStep ==
    ASSUME Types, NotLaunched, [Next]_vars
    PROVE  NotLaunched'
<1>1. CASE main' = main /\ main \in {"register", "first fetch"}
  <2>1. UNCHANGED pc
    BY <1>1
    DEF Types, NotLaunched, Next, vars, Call, Think, Send, Move, NextPattern,
        Publish, Interrupt, Ended, Register, FirstFetch, Fetched, FetchFails,
        HeartbeatReturns, Reported, ReportFails, Finish, Tick, Receive, Stop,
        Exit, Enter, Sync, Generate, GenerateFails, TestMisses, TestHits,
        CheckTicker, SendHit, AbandonHit, SendCount, seekers
  <2> QED
    BY <1>1, <2>1 DEF NotLaunched
<1>2. CASE main' # main
  BY <1>2
  DEF NotLaunched, Next, vars, Call, Think, Send, Publish, Interrupt, Ended,
      Register, FirstFetch, Fetched, FetchFails, HeartbeatReturns, Reported,
      ReportFails, Finish, Tick, Receive, Stop, Exit, Enter, Sync, Generate,
      GenerateFails, TestMisses, TestHits, CheckTicker, SendHit, AbandonHit,
      SendCount, seekers, runner, server, shared
<1> QED
  BY <1>1, <1>2 DEF NotLaunched

(* The ownership part is inductive given the types of the hits in transit. *)
LEMMA OwnedStep ==
    ASSUME Owned, HitsAccountedFor, [Next]_vars
    PROVE  Owned'
<1> DEFINE Core == Types /\ KeysDrawn /\ FoundBehind /\ InHandReported
<1>0. SUFFICES Core'
  BY LaunchStep DEF Owned, Types
<1> USE DEF Owned, Types, KeysDrawn, FoundBehind, InHandReported,
            shared, server, runner, seekers, Move, NextPattern, Pending
<1>1. CASE Publish \/ Interrupt \/ Ended \/ UNCHANGED vars
  BY <1>1 DEF Publish, Interrupt, Ended, vars
<1>2. CASE Register \/ Fetched \/ FetchFails \/ HeartbeatReturns \/ Finish
           \/ Tick("fetch") \/ Tick("beat") \/ Stop
  BY <1>2 DEF Register, Fetched, FetchFails, HeartbeatReturns, Finish, Tick,
              Stop
<1>3. CASE FirstFetch
  BY <1>3 DEF FirstFetch
<1>4. CASE Reported \/ ReportFails
  BY <1>4 DEF Reported, ReportFails
<1>5. CASE Receive
  <2>1. Head(chan) \in Message /\ Tail(chan) \in Seq(Message)
    BY <1>5 DEF Receive
  <2>2. Head(chan).hit \in Hit \cup {NoHit}
    BY <2>1 DEF Message
  <2> QED
    BY <1>5, <2>1, <2>2 DEF Receive
<1>6. ASSUME NEW s \in Seekers,
             Exit(s) \/ Enter(s) \/ GenerateFails(s) \/ CheckTicker(s)
             \/ AbandonHit(s)
      PROVE  Core'
  BY <1>6 DEF Exit, Enter, GenerateFails, CheckTicker, AbandonHit
<1>7. ASSUME NEW s \in Seekers, Sync(s)
      PROVE  Core'
  BY <1>7 DEF Sync
<1>8. ASSUME NEW s \in Seekers, Generate(s)
      PROVE  Core'
  BY <1>8 DEF Generate, Hit
<1>9. ASSUME NEW s \in Seekers, TestMisses(s)
      PROVE  Core'
  BY <1>9 DEF TestMisses, Hit
<1>10. ASSUME NEW s \in Seekers, TestHits(s)
       PROVE  Core'
  BY <1>10 DEF TestHits, Hit
<1>11. ASSUME NEW s \in Seekers, SendHit(s)
       PROVE  Core'
  <2>1. [keys |-> local[s], hit |-> Pending(s)] \in Message
    BY DEF Message, Hit
  <2>2. chan' \in Seq(Message)
    BY <1>11, <2>1 DEF SendHit
  <2> QED
    BY <1>11, <2>2 DEF SendHit, Hit
<1>12. ASSUME NEW s \in Seekers, SendCount(s)
       PROVE  Core'
  <2>1. [keys |-> local[s], hit |-> NoHit] \in Message
    BY DEF Message
  <2>2. CASE chan' = Append(chan, [keys |-> local[s], hit |-> NoHit])
             /\ local' = [local EXCEPT ![s] = 0]
             /\ pc' = [pc EXCEPT ![s] = "top"]
    BY <1>12, <2>1, <2>2 DEF SendCount
  <2>3. CASE pc' = [pc EXCEPT ![s] = "exit"] /\ UNCHANGED <<chan, local>>
    BY <1>12, <2>3 DEF SendCount
  <2> QED
    BY <1>12, <2>2, <2>3 DEF SendCount
<1> QED
  BY <1>1, <1>2, <1>3, <1>4, <1>5, <1>6, <1>7, <1>8, <1>9, <1>10, <1>11,
     <1>12 DEF Next, Call, Think, Send

(* A hit that leaves its seeker leaves no copy with another.               *)
LEMMA PendingLeaves ==
    ASSUME Owned, NoHitTwice, NEW s \in Seekers, pc[s] = "send",
           NEW to, to # "send", pc' = [pc EXCEPT ![s] = to],
           key' = key, \A t \in Seekers : t # s => at'[t] = at[t]
    PROVE  PendingHits' = PendingHits \ {Pending(s)}
<1>1. Sending' = Sending \ {s}
  BY DEF Sending, Owned, Types
<1>2. \A t \in Sending' : Pending(t)' = Pending(t)
  BY <1>1 DEF Pending, Sending
<1>3. \A t \in Sending' : Pending(t) # Pending(s)
  BY <1>1 DEF NoHitTwice, Sending
<1> QED
  BY <1>1, <1>2, <1>3 DEF PendingHits, Sending

(* Each step moves a hit from one place to the next, or finds a new one.   *)
LEMMA HitsStep ==
    ASSUME IInv, Owned', [Next]_vars
    PROVE  HitsAccountedFor' /\ NoHitTwice'
<1> DEFINE Apart == /\ DistinctHits(chan)
                    /\ PendingHits \cap (HitsIn(chan) \cup Holds(inHand)
                                          \cup posted \cup abandoned) = {}
                    /\ HitsIn(chan) \cap (Holds(inHand) \cup posted
                                          \cup abandoned) = {}
                    /\ Holds(inHand) \cap (posted \cup abandoned) = {}
                    /\ posted \cap abandoned = {}
<1>1. \A s, t \in Sending' : Pending(s)' = Pending(t)' => s = t
  BY DEF Owned, Types, KeysDrawn, Pending, Sending
<1>2. Owned /\ HitsAccountedFor /\ NoHitTwice /\ Apart
  BY DEF IInv, NoHitTwice
<1>3. SUFFICES HitsAccountedFor' /\ Apart'
  BY <1>1 DEF NoHitTwice
<1> USE DEF shared, server, runner, seekers, posted
<1>4. ASSUME UNCHANGED <<chan, inHand, found, recorded, failed, abandoned>>,
             PendingHits' = PendingHits, cancelled => cancelled'
      PROVE  HitsAccountedFor' /\ Apart'
  BY <1>2, <1>4 DEF HitsAccountedFor
<1>5. ASSUME UNCHANGED <<key, at>>,
             \A s \in Seekers : pc'[s] = "send" <=> pc[s] = "send"
      PROVE  PendingHits' = PendingHits
  BY <1>5 DEF PendingHits, Sending, Pending
<1>6. CASE Publish \/ Interrupt \/ Ended \/ UNCHANGED vars
  BY <1>4, <1>5, <1>6 DEF Publish, Interrupt, Ended, vars
<1>7. CASE Register \/ Fetched \/ FetchFails \/ HeartbeatReturns \/ Finish
           \/ Tick("fetch") \/ Tick("beat") \/ Stop
  BY <1>4, <1>5, <1>7 DEF Register, Fetched, FetchFails, HeartbeatReturns,
                          Finish, Tick, Stop
<1>8. CASE FirstFetch
  <2>1. \A s \in Seekers : pc[s] # "send"
    BY <1>2, <1>8 DEF FirstFetch, Owned, NotLaunched
  <2> QED
    BY <1>2, <1>4, <1>5, <1>8, <2>1 DEF FirstFetch, Owned, Types
<1>9. CASE Reported \/ ReportFails
  <2>1. PendingHits' = PendingHits
    BY <1>5, <1>9 DEF Reported, ReportFails
  <2>2. inHand' = NoHit /\ Holds(NoHit) = {} /\ posted' = posted \cup {inHand}
    BY <1>9 DEF Reported, ReportFails, Holds
  <2>3. Holds(inHand) = {inHand}
    BY <1>2, <1>9 DEF Reported, ReportFails, Owned, InHandReported, Holds
  <2> QED
    BY <1>2, <1>9, <2>1, <2>2, <2>3 DEF Reported, ReportFails, HitsAccountedFor
<1>10. CASE Receive
  <2>1. PendingHits' = PendingHits
    BY <1>5, <1>10 DEF Receive
  <2>2. /\ HitsIn(chan) = HitsIn(chan') \cup Holds(inHand')
        /\ DistinctHits(chan') /\ inHand' \notin HitsIn(chan')
    BY <1>2, <1>10, TailHits DEF Receive, Owned, Types
  <2>3. Holds(inHand) = {}
    BY <1>2, <1>10 DEF Receive, Owned, InHandReported, Holds
  <2>4. Holds(inHand') \cap HitsIn(chan') = {}
    BY <2>2 DEF Holds
  <2>5. UNCHANGED <<found, recorded, failed, abandoned, cancelled>>
    BY <1>10 DEF Receive
  <2> QED
    BY <1>2, <2>1, <2>2, <2>3, <2>4, <2>5 DEF HitsAccountedFor
<1>11. ASSUME NEW s \in Seekers,
              Exit(s) \/ Enter(s) \/ GenerateFails(s) \/ CheckTicker(s)
              \/ Sync(s)
       PROVE  HitsAccountedFor' /\ Apart'
  <2>1. \A t \in Seekers : pc'[t] = "send" <=> pc[t] = "send"
    BY <1>2, <1>11 DEF Exit, Enter, GenerateFails, CheckTicker, Sync, Move,
                       Owned, Types
  <2> QED
    BY <1>4, <1>5, <1>11, <2>1
    DEF Exit, Enter, GenerateFails, CheckTicker, Sync
<1>12. ASSUME NEW s \in Seekers, Generate(s) \/ TestMisses(s)
       PROVE  HitsAccountedFor' /\ Apart'
  <2>1. /\ Sending' = Sending /\ s \notin Sending
        /\ \A t \in Seekers : t # s => key'[t] = key[t] /\ at'[t] = at[t]
    BY <1>2, <1>12 DEF Generate, TestMisses, NextPattern, Move, Owned, Types,
                       Sending
  <2>2. PendingHits' = PendingHits
    BY <2>1 DEF PendingHits, Pending, Sending
  <2> QED
    BY <1>4, <1>12, <2>2 DEF Generate, TestMisses
<1>13. ASSUME NEW s \in Seekers, TestHits(s)
       PROVE  HitsAccountedFor' /\ Apart'
  <2>1. Pending(s) \notin found
    <3>1. Pending(s).key = key[s] /\ Pending(s).index = at[s] /\ at[s] \in Nat
      BY <1>2 DEF Pending, Owned, Types
    <3>2. ~(at[s] < at[s])
      BY <3>1
    <3> QED
      BY <1>2, <1>13, <3>1, <3>2 DEF TestHits, Owned, FoundBehind
  <2>2. Sending' = Sending \cup {s} /\ key' = key /\ at' = at
    BY <1>2, <1>13 DEF TestHits, Move, Owned, Types, Sending
  <2>3. PendingHits' = PendingHits \cup {Pending(s)}
    BY <2>2 DEF PendingHits, Pending
  <2>4. /\ found' = found \cup {Pending(s)}
        /\ UNCHANGED <<chan, inHand, recorded, failed, abandoned, cancelled>>
    BY <1>13 DEF TestHits
  <2> QED
    BY <1>2, <2>1, <2>3, <2>4 DEF HitsAccountedFor
<1>14. ASSUME NEW s \in Seekers, SendHit(s)
       PROVE  HitsAccountedFor' /\ Apart'
  <2> DEFINE m == [keys |-> local[s], hit |-> Pending(s)]
  <2>1. m \in Message /\ Pending(s) \in Hit /\ Pending(s) # NoHit
    BY <1>2, NoHitAssumption DEF Owned, Types, Message, Hit, Pending
  <2>2. Pending(s) \in PendingHits
    BY <1>14 DEF SendHit, PendingHits, Sending
  <2>3. Pending(s) \notin HitsIn(chan)
    BY <1>2, <2>2
  <2>4. /\ HitsIn(chan') = HitsIn(chan) \cup {Pending(s)}
        /\ DistinctHits(chan')
    BY <1>2, <1>14, <2>1, <2>3, AppendHits DEF SendHit, Holds, Owned, Types
  <2>5. PendingHits' = PendingHits \ {Pending(s)}
    BY <1>2, <1>14, PendingLeaves
    DEF SendHit, NextPattern, Move, Owned, Types
  <2>6. UNCHANGED <<found, inHand, recorded, failed, abandoned, cancelled>>
    BY <1>14 DEF SendHit
  <2> QED
    BY <1>2, <2>2, <2>4, <2>5, <2>6 DEF HitsAccountedFor
<1>15. ASSUME NEW s \in Seekers, AbandonHit(s)
       PROVE  HitsAccountedFor' /\ Apart'
  <2>1. Pending(s) \in PendingHits
    BY <1>15 DEF AbandonHit, PendingHits, Sending
  <2>2. PendingHits' = PendingHits \ {Pending(s)}
    BY <1>2, <1>15, PendingLeaves DEF AbandonHit, Move
  <2>3. /\ abandoned' = abandoned \cup {Pending(s)} /\ cancelled
        /\ UNCHANGED <<found, chan, inHand, recorded, failed, cancelled>>
    BY <1>15 DEF AbandonHit
  <2> QED
    BY <1>2, <2>1, <2>2, <2>3 DEF HitsAccountedFor
<1>16. ASSUME NEW s \in Seekers, SendCount(s)
       PROVE  HitsAccountedFor' /\ Apart'
  <2> DEFINE m == [keys |-> local[s], hit |-> NoHit]
  <2>1. m \in Message /\ Holds(NoHit) = {}
    BY <1>2 DEF Owned, Types, Message, Holds
  <2>2. \A t \in Seekers : pc'[t] = "send" <=> pc[t] = "send"
    BY <1>2, <1>16 DEF SendCount, Move, Owned, Types
  <2>3. PendingHits' = PendingHits
    BY <1>5, <1>16, <2>2 DEF SendCount
  <2>4. NoHit \notin HitsIn(chan)
    BY DEF HitsIn, Holds
  <2>5. HitsIn(chan') = HitsIn(chan) /\ DistinctHits(chan')
    <3>1. \/ UNCHANGED chan
          \/ chan' = Append(chan, m)
      BY <1>16 DEF SendCount
    <3>2. m.hit = NoHit /\ chan \in Seq(Message) /\ DistinctHits(chan)
      BY <1>2 DEF Owned, Types
    <3>3. /\ HitsIn(Append(chan, m)) = HitsIn(chan)
          /\ DistinctHits(Append(chan, m))
      BY <2>1, <2>4, <3>2, AppendHits
    <3> QED
      BY <3>1, <3>2, <3>3
  <2>6. UNCHANGED <<found, inHand, recorded, failed, abandoned, cancelled>>
    BY <1>16 DEF SendCount
  <2> QED
    BY <1>2, <2>3, <2>5, <2>6 DEF HitsAccountedFor
<1> QED
  BY <1>6, <1>7, <1>8, <1>9, <1>10, <1>11, <1>12, <1>13, <1>14, <1>15, <1>16
  DEF Next, Call, Think, Send

(* No step of a seeker or of the main goroutine breaks the invariant.      *)
LEMMA ClientStep == IInv /\ [Next]_vars => IInv'
  BY OwnedStep, HitsStep DEF IInv

(* Every hit found is held, stored, failed or, after an interrupt, left.   *)
THEOREM HitsAreAccountedFor == Spec => []HitsAccountedFor
<1>1. IInv => HitsAccountedFor
  BY DEF IInv
<1> QED
  BY <1>1, ClientInit, ClientStep, PTL DEF Spec

(* No hit is in two places, and so none is reported twice.                 *)
THEOREM HitsAreSingle == Spec => []NoHitTwice
<1>1. IInv => NoHitTwice
  BY DEF IInv
<1> QED
  BY <1>1, ClientInit, ClientStep, PTL DEF Spec

-----------------------------------------------------------------------------
(* The rest of the types: the bound of the buffer, and what a seeker has   *)
(* compiled, of which all compiles.                                        *)
CompiledGood == \A s \in Seekers : AllCompile(compiled[s])

(* The empty buffer and the empty lists of the start have the types.       *)
LEMMA TypesInit == Init => TypeOK /\ CompiledGood
<1>1. Capacity \in Nat
  BY SeekersAssumption, FS_CardinalityType DEF Capacity
<1>2. << >> \in Seq(Message) /\ Len(<< >>) = 0 /\ << >> \in Seq(Pattern)
      /\ AllCompile(<< >>) /\ 0 <= Capacity /\ 0 \in 0 .. MaxKeys
  BY <1>1, KeysAssumption DEF AllCompile
<1> HIDE DEF AllCompile, Message, Pattern
<1>3. ASSUME Init PROVE TypeOK
  BY <1>2, <1>3 DEF Init, TypeOK
<1>4. ASSUME Init PROVE CompiledGood
  BY <1>2, <1>4 DEF Init, CompiledGood
<1> QED
  BY <1>3, <1>4

(* What Sync leaves a seeker with.                                         *)
LEMMA SyncCompiles ==
    ASSUME TypeOK, CompiledGood, NEW s \in Seekers, Sync(s)
    PROVE  /\ compiled' \in [Seekers -> Seq(Pattern)] /\ CompiledGood'
           /\ patterns # << >> => compiled'[s] = Compilable(patterns)
<1>1. patterns \in Seq(Pattern)
  <2>1. patterns \in PatternLists \cup {<< >>}
    BY DEF TypeOK
  <2>2. << >> \in Seq(Pattern)
    OBVIOUS
  <2> QED
    BY <2>1, <2>2, PatternsAssumption
<1>2. /\ Compilable(patterns) \in Seq(Pattern)
      /\ AllCompile(Compilable(patterns))
  BY <1>1, CompilableType
<1>3. compiled[s] \in Seq(Pattern) /\ AllCompile(compiled[s])
  BY DEF TypeOK, CompiledGood
<1>4. ASSUME patternsMatch(compiled[s], patterns)
      PROVE  compiled[s] = Compilable(patterns)
  <2>1. Len(compiled[s]) = Len(patterns)
    BY <1>4 DEF patternsMatch
  <2>2. ASSUME NEW i \in 1 .. Len(patterns)
        PROVE  compiled[s][i] = patterns[i]
    <3>1. compiled[s][i] \in Pattern /\ patterns[i] \in Pattern
      BY <1>1, <1>3, <2>1
    <3>2. /\ compiled[s][i].re = patterns[i].re
          /\ compiled[s][i].scope = patterns[i].scope
      BY <1>3, <1>4, <2>1 DEF patternsMatch
    <3> QED
      BY <3>1, <3>2 DEF Pattern
  <2>3. compiled[s] = patterns
    BY <1>1, <1>3, <2>1, <2>2
  <2> QED
    BY <1>1, <1>3, <2>3, CompilableAll
<1>5. compiled' = [compiled EXCEPT
                     ![s] = IF patterns = << >> \/ patternsMatch(@, patterns)
                            THEN @ ELSE Compilable(patterns)]
  BY DEF Sync
<1>6. \/ compiled'[s] = compiled[s]
      \/ compiled'[s] = Compilable(patterns)
  BY <1>5 DEF TypeOK
<1>7. /\ DOMAIN compiled' = Seekers
      /\ \A t \in Seekers : t # s => compiled'[t] = compiled[t]
  BY <1>5 DEF TypeOK
<1>8. \A t \in Seekers : compiled'[t] \in Seq(Pattern)
                         /\ AllCompile(compiled'[t])
  BY <1>2, <1>3, <1>6, <1>7 DEF TypeOK, CompiledGood
<1>9. compiled' \in [Seekers -> Seq(Pattern)]
  BY <1>5, <1>7, <1>8 DEF TypeOK
<1>10. patterns # << >> => compiled'[s] = Compilable(patterns)
  BY <1>4, <1>5 DEF TypeOK
<1> QED
  BY <1>8, <1>9, <1>10 DEF CompiledGood

(* Each step of a goroutine keeps them, given who owns which hit.          *)
LEMMA TypesStep ==
    ASSUME IInv, TypeOK, CompiledGood, [Next]_vars
    PROVE  TypeOK' /\ CompiledGood'
<1> DEFINE Good == TypeOK /\ CompiledGood
<1>0. Capacity \in Nat
  BY SeekersAssumption, FS_CardinalityType DEF Capacity
<1>a. ASSUME UNCHANGED compiled PROVE CompiledGood'
  BY <1>a DEF CompiledGood
<1>c. ASSUME NEW s \in Seekers, NextPattern(s)
      PROVE  /\ at' \in [Seekers -> Nat]
             /\ pc' \in [Seekers -> {"off", "top", "load", "ready", "test",
                                     "send", "tick", "count", "exit"}]
  <2>1. /\ at \in [Seekers -> Nat]
        /\ pc \in [Seekers -> {"off", "top", "load", "ready", "test", "send",
                               "tick", "count", "exit"}]
    BY DEF TypeOK
  <2>2. /\ at' = [at EXCEPT ![s] = at[s] + 1]
        /\ \E to \in {"test", "tick"} : pc' = [pc EXCEPT ![s] = to]
    BY <1>c DEF NextPattern, Move
  <2> QED
    BY <2>1, <2>2
<1>d. ASSUME NEW m \in Message, chan' = Append(chan, m),
             Len(chan) < Capacity
      PROVE  chan' \in Seq(Message) /\ Len(chan') <= Capacity
  <2>1. chan \in Seq(Message)
    BY DEF TypeOK
  <2>2. /\ chan' \in Seq(Message) /\ Len(chan') = Len(chan) + 1
        /\ Len(chan) \in Nat
    BY <1>d, <2>1
  <2> QED
    BY <1>0, <1>d, <2>2
<1>b. main = "report" => inHand \in Hit
  BY DEF IInv, Owned, InHandReported, TypeOK
<1> USE DEF shared, server, runner, seekers, Move, TypeOK
<1>1. CASE Publish \/ Interrupt \/ Ended \/ UNCHANGED vars
  BY <1>1, <1>a DEF Publish, Interrupt, Ended, vars
<1>2. CASE Register \/ Fetched \/ FetchFails \/ HeartbeatReturns \/ Finish
           \/ Tick("fetch") \/ Tick("beat") \/ Stop
  BY <1>2, <1>a DEF Register, Fetched, FetchFails, HeartbeatReturns, Finish,
                    Tick, Stop
<1>3. CASE FirstFetch
  BY <1>3, <1>a DEF FirstFetch
<1>4. CASE Reported \/ ReportFails
  BY <1>4, <1>a, <1>b DEF Reported, ReportFails
<1>5. CASE Receive
  <2>1. /\ Head(chan) \in Message /\ Tail(chan) \in Seq(Message)
        /\ Len(Tail(chan)) = Len(chan) - 1 /\ Len(chan) \in Nat
    BY <1>5 DEF Receive
  <2>2. Head(chan).hit \in Hit \cup {NoHit} /\ Head(chan).keys \in Nat
    BY <2>1 DEF Message
  <2>3. stats' \in [keys : Nat, hits : Nat]
    BY <1>5, <2>2 DEF Receive
  <2>4. Len(chan') <= Capacity
    BY <1>0, <1>5, <2>1 DEF Receive
  <2> QED
    BY <1>5, <1>a, <2>1, <2>2, <2>3, <2>4 DEF Receive
<1>6. ASSUME NEW s \in Seekers,
             Exit(s) \/ Enter(s) \/ GenerateFails(s) \/ CheckTicker(s)
      PROVE  TypeOK' /\ CompiledGood'
  BY <1>6, <1>a DEF Exit, Enter, GenerateFails, CheckTicker
<1>7. ASSUME NEW s \in Seekers, Sync(s)
      PROVE  TypeOK' /\ CompiledGood'
  BY <1>7, SyncCompiles DEF Sync
<1>8. ASSUME NEW s \in Seekers, Generate(s)
      PROVE  TypeOK' /\ CompiledGood'
  <2>1. /\ counter' \in 0 .. MaxKeys /\ counter' \in Nat
        /\ local[s] + 1 \in Nat
    <3>1. counter \in 0 .. MaxKeys /\ local \in [Seekers -> Nat]
      OBVIOUS
    <3>2. counter' = counter + 1 /\ counter < MaxKeys
      BY <1>8 DEF Generate
    <3> HIDE DEF TypeOK
    <3> QED
      BY <3>1, <3>2, KeysAssumption
  <2>2. /\ local' \in [Seekers -> Nat] /\ key' \in [Seekers -> Nat]
        /\ at' \in [Seekers -> Nat]
    BY <1>8, <2>1 DEF Generate
  <2> QED
    BY <1>8, <1>a, <2>1, <2>2 DEF Generate
<1>9. ASSUME NEW s \in Seekers, TestMisses(s)
      PROVE  TypeOK' /\ CompiledGood'
  BY <1>9, <1>a, <1>c DEF TestMisses
<1>10. ASSUME NEW s \in Seekers, TestHits(s) \/ AbandonHit(s)
       PROVE  TypeOK' /\ CompiledGood'
  <2>1. Pending(s) \in Hit
    BY DEF Pending, Hit
  <2> QED
    BY <1>10, <1>a, <2>1 DEF TestHits, AbandonHit
<1>11. ASSUME NEW s \in Seekers, SendHit(s)
       PROVE  TypeOK' /\ CompiledGood'
  <2>1. [keys |-> local[s], hit |-> Pending(s)] \in Message
    BY DEF Message, Hit, Pending
  <2>2. chan' \in Seq(Message) /\ Len(chan') <= Capacity
    BY <1>11, <1>d, <2>1 DEF SendHit
  <2>3. local' \in [Seekers -> Nat]
    BY <1>11 DEF SendHit
  <2> QED
    BY <1>11, <1>a, <1>c, <2>2, <2>3 DEF SendHit
<1>12. ASSUME NEW s \in Seekers, SendCount(s)
       PROVE  TypeOK' /\ CompiledGood'
  <2>1. [keys |-> local[s], hit |-> NoHit] \in Message
    BY DEF Message
  <2>2. chan' \in Seq(Message) /\ Len(chan') <= Capacity
    <3>1. CASE UNCHANGED chan
      BY <3>1
    <3>2. CASE ~UNCHANGED chan
      BY <1>12, <1>d, <2>1, <3>2 DEF SendCount
    <3> QED
      BY <3>1, <3>2
  <2>3. local' \in [Seekers -> Nat]
    <3>1. local \in [Seekers -> Nat]
      OBVIOUS
    <3>2. local' = local \/ local' = [local EXCEPT ![s] = 0]
      BY <1>12 DEF SendCount
    <3> HIDE DEF TypeOK
    <3> QED
      BY <3>1, <3>2
  <2> QED
    BY <1>12, <1>a, <2>2, <2>3 DEF SendCount
<1> QED
  BY <1>1, <1>2, <1>3, <1>4, <1>5, <1>6, <1>7, <1>8, <1>9, <1>10, <1>11,
     <1>12 DEF Next, Call, Think, Send

(* The state keeps its types, and the buffer its bound.                    *)
THEOREM ClientTypes == Spec => []TypeOK
<1> DEFINE TInv == IInv /\ TypeOK /\ CompiledGood
<1>1. Init => TInv
  BY ClientInit, TypesInit
<1>2. TInv /\ [Next]_vars => TInv'
  BY ClientStep, TypesStep
<1>3. TInv => TypeOK
  OBVIOUS
<1> QED
  BY <1>1, <1>2, <1>3, PTL DEF Spec

(* A seeker that has looked generates a key for the patterns it saw: those *)
(* at hand are kept only when they are the current ones, the scopes too.   *)
THEOREM CurrentPatternsTested == Spec => TestsCurrentPatterns
<1> DEFINE TInv == IInv /\ TypeOK /\ CompiledGood
           Current == \A s \in Seekers : (pc[s] = "load" /\ pc'[s] = "ready")
                                   => compiled'[s] = Compilable(patterns)
<1>1. Init => TInv
  BY ClientInit, TypesInit
<1>2. TInv /\ [Next]_vars => TInv'
  BY ClientStep, TypesStep
<1>3. TInv /\ [Next]_vars => [Current]_vars
  <2> SUFFICES ASSUME TInv, Next, NEW s \in Seekers,
                      pc[s] = "load", pc'[s] = "ready"
               PROVE  compiled'[s] = Compilable(patterns)
    OBVIOUS
  <2>0. pc \in [Seekers -> {"off", "top", "load", "ready", "test", "send",
                            "tick", "count", "exit"}]
    BY DEF TypeOK
  <2>1. Sync(s)
    <3>1. ASSUME NEW t \in Seekers, Think(t) \/ Send(t)
          PROVE  Sync(s)
      <4>1. t = s
        BY <2>0, <3>1
        DEF Think, Send, Move, NextPattern, Exit, Enter, Sync, Generate,
            GenerateFails, TestMisses, TestHits, CheckTicker, SendHit,
            AbandonHit, SendCount
      <4>2. Enter(s) \/ Sync(s) \/ ~(Think(s) \/ Send(s))
        BY DEF Think, Send, Exit, Enter, Generate, GenerateFails, TestMisses,
               TestHits, CheckTicker, SendHit, AbandonHit, SendCount
      <4> QED
        BY <3>1, <4>1, <4>2 DEF Enter
    <3>2. CASE Publish \/ Interrupt \/ Ended \/ Call \/ Tick("fetch")
               \/ Tick("beat") \/ Receive \/ Stop
      <4>1. UNCHANGED pc \/ pc' = [t \in Seekers |-> "top"]
        BY <3>2
        DEF Publish, Interrupt, Ended, Call, Register, FirstFetch, Fetched,
            FetchFails, HeartbeatReturns, Reported, ReportFails, Finish,
            Tick, Receive, Stop, seekers, vars
      <4> QED
        BY <4>1
    <3> QED
      BY <3>1, <3>2 DEF Next
  <2>2. patterns # << >>
    BY <2>1 DEF Sync, Move, TypeOK
  <2> QED
    BY <2>1, <2>2, SyncCompiles
<1> QED
  BY <1>1, <1>2, <1>3, PTL DEF Spec, TestsCurrentPatterns

(* After an interrupt a seeker's steps bring it nearer to its end.         *)
LEMMA WindsDown ==
    ASSUME IInv, TypeOK, Next, cancelled, NEW s \in Seekers
    PROVE  Stays(s) \/ Rank(pc'[s]) < Rank(pc[s]) \/ Advances(s)
<1>1. /\ pc \in [Seekers -> {"off", "top", "load", "ready", "test", "send",
                             "tick", "count", "exit"}]
      /\ compiled \in [Seekers -> Seq(Pattern)] /\ at \in [Seekers -> Nat]
      /\ key \in [Seekers -> Nat] /\ local \in [Seekers -> Nat]
  BY DEF TypeOK
<1>2. CASE Publish \/ Interrupt \/ Ended \/ Tick("fetch") \/ Tick("beat")
           \/ Receive \/ Stop \/ Register \/ Fetched \/ FetchFails
           \/ HeartbeatReturns \/ Reported \/ ReportFails \/ Finish
  BY <1>2
  DEF Publish, Interrupt, Ended, vars, Tick, Receive, Stop, Register, Fetched,
      FetchFails, HeartbeatReturns, Reported, ReportFails, Finish, seekers,
      Stays
<1>3. CASE FirstFetch
  <2>1. UNCHANGED <<pc, compiled, local, key, at>> \/ pc'[s] = "top"
    BY <1>3 DEF FirstFetch
  <2>2. pc[s] = "off" /\ UNCHANGED <<compiled, local, key, at>>
    BY <1>3 DEF FirstFetch, IInv, Owned, NotLaunched
  <2> QED
    BY <2>1, <2>2 DEF Stays, Rank
<1>4. ASSUME NEW t \in Seekers, Think(t) \/ Send(t), t # s
      PROVE  Stays(s)
  BY <1>1, <1>4
  DEF Think, Send, Exit, Enter, Sync, Generate, GenerateFails, TestMisses,
      TestHits, CheckTicker, SendHit, AbandonHit, SendCount, NextPattern,
      Move, Stays
<1>5. CASE Exit(s) \/ Sync(s) \/ Generate(s) \/ GenerateFails(s)
           \/ CheckTicker(s) \/ AbandonHit(s) \/ SendCount(s)
  <2>1. \/ pc[s] = "top" /\ pc'[s] = "exit"
        \/ pc[s] = "load" /\ pc'[s] \in {"top", "ready"}
        \/ pc[s] = "ready" /\ pc'[s] \in {"test", "top"}
        \/ pc[s] = "tick" /\ pc'[s] \in {"count", "top"}
        \/ pc[s] = "send" /\ pc'[s] = "exit"
        \/ pc[s] = "count" /\ pc'[s] \in {"top", "exit"}
    <3>1. CASE Exit(s) \/ Generate(s) \/ GenerateFails(s) \/ CheckTicker(s)
      BY <1>1, <3>1 DEF Exit, Generate, GenerateFails, CheckTicker, Move
    <3>2. CASE Sync(s)
      BY <1>1, <3>2 DEF Sync, Move
    <3>3. CASE AbandonHit(s) \/ SendCount(s)
      BY <1>1, <3>3 DEF AbandonHit, SendCount, Move
    <3> QED
      BY <1>5, <3>1, <3>2, <3>3
  <2> QED
    BY <2>1 DEF Rank
<1>6. CASE TestHits(s)
  BY <1>1, <1>6 DEF TestHits, Move, Advances
<1>7. CASE TestMisses(s) \/ SendHit(s)
  <2>1. /\ pc[s] \in {"test", "send"} /\ UNCHANGED <<compiled, key>>
        /\ at'[s] = at[s] + 1
        /\ pc'[s] = IF at[s] < Len(compiled[s]) THEN "test" ELSE "tick"
    BY <1>1, <1>7 DEF TestMisses, SendHit, NextPattern, Move
  <2>2. at[s] \in Nat /\ Len(compiled[s]) \in Nat
    BY <1>1
  <2> QED
    BY <2>1, <2>2 DEF Advances, Rank
<1>8. ~Enter(s)
  BY DEF Enter
<1> QED
  BY <1>2, <1>3, <1>4, <1>5, <1>6, <1>7, <1>8 DEF Next, Call, Think, Send

(* After an interrupt no seeker begins another turn.                       *)
THEOREM SeekersEndSoon == Spec => SeekersWindDown
<1> DEFINE Down == cancelled => \A s \in Seekers :
                     Stays(s) \/ Rank(pc'[s]) < Rank(pc[s]) \/ Advances(s)
<1>1. IInv /\ TypeOK /\ [Next]_vars => [Down]_vars
  BY WindsDown
<1> QED
  BY <1>1, ClientInit, ClientStep, ClientTypes, PTL
  DEF Spec, SeekersWindDown

-----------------------------------------------------------------------------
(* The keys that the messages of a buffer count.                           *)
KeysIn(c) == SumFunction([i \in DOMAIN c |-> c[i].keys])

(* Appending a message adds its keys to those of the buffer.               *)
LEMMA AppendKeys ==
    ASSUME NEW c \in Seq(Message), NEW m \in Message
    PROVE  /\ KeysIn(Append(c, m)) = KeysIn(c) + m.keys
           /\ KeysIn(c) \in Nat
<1> DEFINE d == Append(c, m)
           f == [i \in DOMAIN c |-> c[i].keys]
           g == [i \in DOMAIN d |-> d[i].keys]
           n == Len(c)
<1>1. /\ n \in Nat /\ DOMAIN c = 1 .. n /\ DOMAIN d = 1 .. n + 1
      /\ \A i \in 1 .. n : d[i] = c[i] /\ c[i] \in Message
      /\ d[n + 1] = m
  OBVIOUS
<1> HIDE DEF d, n
<1>2. /\ DOMAIN f = 1 .. n /\ DOMAIN g = 1 .. n + 1 /\ g[n + 1] = m.keys
      /\ \A i \in 1 .. n : f[i] = g[i] /\ f[i] \in Nat
      /\ m.keys \in Nat
  BY <1>1 DEF Message
<1> HIDE DEF f, g
<1>3. \A i \in 1 .. n + 1 : g[i] \in Nat
  <2>1. \A i \in 1 .. n + 1 : i \in 1 .. n \/ i = n + 1
    BY <1>1
  <2> QED
    BY <1>2, <2>1
<1>4. IsFiniteSet(1 .. n)
  BY <1>1, FS_Interval
<1>5. SumFunctionOnSet(f, 1 .. n) = SumFunctionOnSet(g, 1 .. n)
  BY <1>2, <1>4, SumSame
<1>6. /\ SumFunctionOnSet(g, 1 .. n + 1)
           = g[n + 1] + SumFunctionOnSet(g, 1 .. n)
      /\ SumFunctionOnSet(g, 1 .. n) \in Nat
  BY <1>1, <1>3, SumLast
<1>7. KeysIn(c) = SumFunctionOnSet(f, 1 .. n)
  BY <1>2 DEF KeysIn, SumFunction, f
<1>8. KeysIn(d) = SumFunctionOnSet(g, 1 .. n + 1)
  BY <1>2 DEF KeysIn, SumFunction, g
<1> QED
  BY <1>2, <1>5, <1>6, <1>7, <1>8 DEF d

(* The keys of a buffer are a number.                                      *)
LEMMA ChanKeysNat ==
    ASSUME NEW c \in Seq(Message)
    PROVE  KeysIn(c) \in Nat
<1> DEFINE f == [i \in DOMAIN c |-> c[i].keys]
           S == DOMAIN c
<1>1. S = 1 .. Len(c) /\ Len(c) \in Nat /\ \A i \in S : c[i] \in Message
  OBVIOUS
<1>2. IsFiniteSet(S)
  BY <1>1, FS_Interval
<1>3. DOMAIN f = S /\ \A i \in S : f[i] \in Nat
  <2>1. \A i \in S : c[i].keys \in Nat
    BY <1>1 DEF Message
  <2> QED
    BY <2>1
<1> HIDE DEF f, S
<1>4. SumFunctionOnSet(f, S) \in Nat
  BY <1>2, <1>3, SumIsNat
<1> QED
  BY <1>3, <1>4 DEF KeysIn, SumFunction, f

(* Taking the head of the buffer takes its keys.                           *)
LEMMA TailKeys ==
    ASSUME NEW c \in Seq(Message), c # << >>
    PROVE  /\ KeysIn(c) = Head(c).keys + KeysIn(Tail(c))
           /\ KeysIn(Tail(c)) \in Nat /\ Head(c).keys \in Nat
<1> DEFINE d == Tail(c)
           f == [i \in DOMAIN c |-> c[i].keys]
           g == [i \in DOMAIN d |-> d[i].keys]
           n == Len(c) - 1
<1>1. /\ n \in Nat /\ DOMAIN c = 1 .. n + 1 /\ DOMAIN d = 1 .. n
      /\ \A i \in 1 .. n : d[i] = c[i + 1]
      /\ \A i \in 1 .. n + 1 : c[i] \in Message
      /\ Head(c) = c[1] /\ 1 \in 1 .. n + 1
  OBVIOUS
<1> HIDE DEF d, n
<1>2. /\ DOMAIN f = 1 .. n + 1 /\ DOMAIN g = 1 .. n /\ f[1] = Head(c).keys
      /\ \A i \in 1 .. n + 1 : f[i] \in Nat
      /\ \A i \in 1 .. n : g[i] = f[i + 1]
  <2>1. \A i \in 1 .. n : i + 1 \in 1 .. n + 1
    BY <1>1
  <2> QED
    BY <1>1, <2>1 DEF Message
<1> HIDE DEF f, g
<1>3. \A i \in 1 .. n : g[i] \in Nat
  <2>1. \A i \in 1 .. n : i + 1 \in 1 .. n + 1
    BY <1>1
  <2> QED
    BY <1>2, <2>1
<1>4. SumFunctionOnSet(f, 1 .. n + 1) = f[1] + SumFunctionOnSet(g, 1 .. n)
  BY <1>1, <1>2, SumFirst
<1>5. IsFiniteSet(1 .. n)
  BY <1>1, FS_Interval
<1>6. SumFunctionOnSet(g, 1 .. n) \in Nat
  BY <1>3, <1>5, SumIsNat
<1>7. KeysIn(c) = SumFunctionOnSet(f, 1 .. n + 1)
  BY <1>2 DEF KeysIn, SumFunction, f
<1>8. KeysIn(d) = SumFunctionOnSet(g, 1 .. n)
  BY <1>2 DEF KeysIn, SumFunction, g
<1> QED
  BY <1>1, <1>2, <1>4, <1>6, <1>7, <1>8 DEF d

(* A change of one seeker's local count changes their sum by as much.      *)
LEMMA LocalChanges ==
    ASSUME NEW f \in [Seekers -> Nat], NEW s \in Seekers, NEW v \in Nat
    PROVE  /\ SumFunction([f EXCEPT ![s] = v]) + f[s] = SumFunction(f) + v
           /\ SumFunction(f) \in Nat
           /\ SumFunction([f EXCEPT ![s] = v]) \in Nat
<1> DEFINE g == [f EXCEPT ![s] = v]
<1>1. /\ DOMAIN f = Seekers /\ DOMAIN g = Seekers /\ g[s] = v
      /\ \A t \in Seekers : f[t] \in Nat /\ g[t] \in Nat
      /\ \A t \in Seekers : t # s => g[t] = f[t]
  OBVIOUS
<1> HIDE DEF g
<1>2. /\ SumFunctionOnSet(g, Seekers) + f[s]
           = SumFunctionOnSet(f, Seekers) + g[s]
      /\ SumFunctionOnSet(f, Seekers) \in Nat
      /\ SumFunctionOnSet(g, Seekers) \in Nat
  BY <1>1, SeekersAssumption, SumChanges, SumIsNat
<1> QED
  BY <1>1, <1>2 DEF SumFunction, g

-----------------------------------------------------------------------------
(* The counts add up, and only finitely many hits have been posted.        *)
Counted == CountsAddUp /\ IsFiniteSet(posted)

(* Nothing is counted at first.                                            *)
LEMMA CountedInit == Init => Counted
<1> SUFFICES ASSUME Init PROVE Counted
  OBVIOUS
<1>1. KeysIn(<< >>) = 0
  <2> DEFINE f == [i \in DOMAIN << >> |-> << >>[i].keys]
  <2>1. DOMAIN f = {}
    OBVIOUS
  <2> HIDE DEF f
  <2>2. SumFunction(f) = 0
    BY <2>1, SumEmpty DEF SumFunction
  <2> QED
    BY <2>2 DEF KeysIn, f
<1>2. SumFunction([s \in Seekers |-> 0]) = 0
  <2> DEFINE f == [s \in Seekers |-> 0]
  <2>1. DOMAIN f = Seekers /\ \A s \in Seekers : f[s] = 0
    OBVIOUS
  <2> HIDE DEF f
  <2>2. SumFunctionOnSet(f, Seekers) = 0
    BY <2>1, SeekersAssumption, SumOfZeros
  <2> QED
    BY <2>1, <2>2 DEF SumFunction, f
<1>3. Holds(NoHit) = {} /\ {} \cup {} = {}
  BY DEF Holds
<1>4. IsFiniteSet({}) /\ Cardinality({}) = 0
  BY FS_EmptySet
<1> QED
  BY <1>1, <1>2, <1>3, <1>4 DEF Init, Counted, CountsAddUp, KeysIn, posted

(* A count moves from a seeker to the buffer and on to the total of Run.   *)
LEMMA CountedStep ==
    ASSUME IInv, TypeOK, Counted, [Next]_vars
    PROVE  Counted'
<1>1. /\ counter = stats.keys + KeysIn(chan) + SumFunction(local)
      /\ stats.hits = Cardinality(posted \cup Holds(inHand))
      /\ IsFiniteSet(posted)
  BY DEF Counted, CountsAddUp, KeysIn
<1>2. SUFFICES /\ counter' = stats'.keys + KeysIn(chan') + SumFunction(local')
               /\ stats'.hits = Cardinality(posted' \cup Holds(inHand'))
               /\ IsFiniteSet(posted')
  BY DEF Counted, CountsAddUp, KeysIn
<1>3. /\ counter \in Nat /\ chan \in Seq(Message)
      /\ stats \in [keys : Nat, hits : Nat] /\ local \in [Seekers -> Nat]
  <2>1. /\ counter \in 0 .. MaxKeys /\ chan \in Seq(Message)
        /\ stats \in [keys : Nat, hits : Nat] /\ local \in [Seekers -> Nat]
    BY DEF TypeOK
  <2> QED
    BY <2>1, KeysAssumption
<1>4. KeysIn(chan) \in Nat
  BY <1>3, ChanKeysNat
<1>5. \A f \in [Seekers -> Nat] : SumFunction(f) \in Nat
  BY SeekersAssumption, SumIsNat DEF SumFunction
<1> DEFINE Good ==
             /\ counter' = stats'.keys + KeysIn(chan') + SumFunction(local')
             /\ stats'.hits = Cardinality(posted' \cup Holds(inHand'))
             /\ IsFiniteSet(posted')
<1>6. ASSUME UNCHANGED <<counter, stats, chan, local, inHand>>,
             UNCHANGED <<recorded, failed>>
      PROVE  Good
  BY <1>1, <1>6 DEF posted
<1> USE DEF shared, server, runner, seekers, posted
<1>7. CASE Publish \/ Interrupt \/ Ended \/ UNCHANGED vars
  BY <1>6, <1>7 DEF Publish, Interrupt, Ended, vars
<1>8. CASE Register \/ FirstFetch \/ Fetched \/ FetchFails \/ HeartbeatReturns
           \/ Finish \/ Tick("fetch") \/ Tick("beat") \/ Stop
  BY <1>6, <1>8 DEF Register, FirstFetch, Fetched, FetchFails,
                    HeartbeatReturns, Finish, Tick, Stop
<1>9. CASE Reported \/ ReportFails
  <2>1. Holds(inHand) = {inHand} /\ Holds(inHand') = {}
    BY <1>9 DEF IInv, Owned, InHandReported, Reported, ReportFails,
       Holds
  <2>2. posted' = posted \cup {inHand}
    BY <1>9 DEF Reported, ReportFails
  <2>3. posted' \cup Holds(inHand') = posted \cup Holds(inHand)
    BY <2>1, <2>2
  <2>4. IsFiniteSet(posted')
    BY <1>1, <2>2, FS_AddElement
  <2>5. UNCHANGED <<counter, stats, chan, local>>
    BY <1>9 DEF Reported, ReportFails
  <2> QED
    BY <1>1, <2>3, <2>4, <2>5
<1>10. CASE Receive
  <2> DEFINE m == Head(chan)
  <2>1. /\ chan # << >> /\ chan' = Tail(chan) /\ inHand' = m.hit
        /\ UNCHANGED <<counter, local, recorded, failed>>
    BY <1>10 DEF Receive
  <2>2. /\ KeysIn(chan) = m.keys + KeysIn(chan')
        /\ KeysIn(chan') \in Nat /\ m.keys \in Nat
    BY <1>3, <2>1, TailKeys
  <2>3. Holds(inHand) = {}
    BY <1>10 DEF IInv, Owned, InHandReported, Receive, Holds
  <2> HIDE DEF m
  <2>4. stats'.keys = stats.keys + m.keys
    BY <1>3, <1>10 DEF Receive, m
  <2>5. counter' = stats'.keys + KeysIn(chan') + SumFunction(local')
    BY <1>1, <1>3, <1>5, <2>1, <2>2, <2>4
  <2>6. CASE m.hit = NoHit
    <3>1. stats'.hits = stats.hits /\ Holds(inHand') = {}
      BY <1>3, <1>10, <2>1, <2>6 DEF Receive, m, Holds
    <3> QED
      BY <1>1, <2>1, <2>3, <2>5, <3>1
  <2>7. CASE m.hit # NoHit
    <3>1. stats'.hits = stats.hits + 1 /\ Holds(inHand') = {m.hit}
      BY <1>3, <1>10, <2>1, <2>7 DEF Receive, m, Holds
    <3>2. m.hit \notin posted
      <4>1. m.hit \in HitsIn(chan)
        BY <1>3, <2>1, <2>7, TailHits DEF m, Holds
      <4> QED
        BY <4>1 DEF IInv, NoHitTwice
    <3>3. Cardinality(posted \cup {m.hit}) = Cardinality(posted) + 1
      BY <1>1, <3>2, FS_AddElement
    <3>4. posted \cup Holds(inHand) = posted
      BY <2>3
    <3> QED
      BY <1>1, <2>1, <2>5, <3>1, <3>3, <3>4
  <2> QED
    BY <2>6, <2>7
<1>11. ASSUME NEW s \in Seekers,
              Exit(s) \/ Enter(s) \/ Sync(s) \/ GenerateFails(s)
              \/ TestMisses(s) \/ TestHits(s) \/ CheckTicker(s)
              \/ AbandonHit(s)
       PROVE  Good
  BY <1>6, <1>11 DEF Exit, Enter, Sync, GenerateFails, TestMisses, TestHits,
                     CheckTicker, AbandonHit
<1>12. ASSUME NEW s \in Seekers, Generate(s)
       PROVE  Good
  <2>1. /\ counter' = counter + 1
        /\ local' = [local EXCEPT ![s] = local[s] + 1]
        /\ UNCHANGED <<stats, chan, recorded, failed, inHand>>
    BY <1>12 DEF Generate
  <2>2. local[s] \in Nat /\ local[s] + 1 \in Nat
    BY <1>3
  <2>3. /\ SumFunction(local') + local[s]
             = SumFunction(local) + (local[s] + 1)
        /\ SumFunction(local) \in Nat /\ SumFunction(local') \in Nat
    BY <1>3, <2>1, <2>2, LocalChanges
  <2>4. SumFunction(local') = SumFunction(local) + 1
    BY <2>2, <2>3
  <2> QED
    BY <1>1, <1>3, <1>4, <2>1, <2>3, <2>4
<1>13. ASSUME NEW s \in Seekers, NEW h \in Hit \cup {NoHit},
              chan' = Append(chan, [keys |-> local[s], hit |-> h]),
              local' = [local EXCEPT ![s] = 0],
              UNCHANGED <<counter, stats, recorded, failed, inHand>>
       PROVE  Good
  <2>1. [keys |-> local[s], hit |-> h] \in Message /\ local[s] \in Nat
    BY <1>3 DEF Message
  <2>2. KeysIn(chan') = KeysIn(chan) + local[s]
    BY <1>3, <1>13, <2>1, AppendKeys
  <2>3. /\ SumFunction(local') + local[s] = SumFunction(local) + 0
        /\ SumFunction(local) \in Nat /\ SumFunction(local') \in Nat
    BY <1>3, <1>13, LocalChanges
  <2> QED
    BY <1>1, <1>3, <1>4, <1>13, <2>1, <2>2, <2>3
<1>14. ASSUME NEW s \in Seekers, SendHit(s)
       PROVE  Good
  <2>1. Pending(s) \in Hit
    BY DEF Pending, Hit, TypeOK
  <2> QED
    BY <1>13, <1>14, <2>1 DEF SendHit
<1>15. ASSUME NEW s \in Seekers, SendCount(s)
       PROVE  Good
  <2>1. CASE UNCHANGED <<chan, local>>
    BY <1>6, <1>15, <2>1 DEF SendCount
  <2>2. CASE /\ chan' = Append(chan, [keys |-> local[s], hit |-> NoHit])
             /\ local' = [local EXCEPT ![s] = 0]
    BY <1>13, <1>15, <2>2 DEF SendCount
  <2> QED
    BY <1>15, <2>1, <2>2 DEF SendCount
<1> QED
  BY <1>7, <1>8, <1>9, <1>10, <1>11, <1>12, <1>14, <1>15
  DEF Next, Call, Think, Send

(* Every key generated is counted once, wherever its count is, and every   *)
(* hit once that is reported or about to be.                               *)
THEOREM CountsAreKept == Spec => []CountsAddUp
<1> DEFINE CInv == IInv /\ TypeOK /\ CompiledGood /\ Counted
<1>1. Init => CInv
  BY ClientInit, TypesInit, CountedInit
<1>2. CInv /\ [Next]_vars => CInv'
  BY ClientStep, TypesStep, CountedStep
<1>3. CInv => CountsAddUp
  BY DEF Counted
<1> QED
  BY <1>1, <1>2, <1>3, PTL DEF Spec

-----------------------------------------------------------------------------
(* What the ledger needs besides: a seeker tests a key against one of its  *)
(* patterns, it has no more of them than some list, and the seekers have   *)
(* ended, or never begun, when Run returns.                                *)
Indices == UNION {DOMAIN list : list \in PatternLists}

Testing ==
    \A s \in Seekers :
        /\ pc[s] = "ready" => compiled[s] # << >>
        /\ pc[s] \in {"test", "send"} => at[s] \in 1 .. Len(compiled[s])
        /\ 1 .. Len(compiled[s]) \subseteq Indices

SeekersOver ==
    /\ main = "done"   => \A s \in Seekers : pc[s] = "exit"
    /\ main = "failed" => \A s \in Seekers : pc[s] = "off"

LInv == /\ IInv /\ TypeOK /\ CompiledGood /\ Counted
        /\ Testing /\ SeekersOver

(* Before Run registers nobody tests and nobody has ended.                 *)
LEMMA LedgerInvInit == Init => LInv
<1>1. Init => Testing
  <2>1. 1 .. Len(<< >>) = {}
    OBVIOUS
  <2> QED
    BY <2>1 DEF Init, Testing
<1>2. Init => SeekersOver
  BY DEF Init, SeekersOver
<1> QED
  BY <1>1, <1>2, ClientInit, TypesInit, CountedInit DEF LInv

(* Run returns when it has failed before the launch, or waited for all     *)
(* seekers, none of which starts again.                                    *)
LEMMA SeekersOverStep ==
    ASSUME LInv, [Next]_vars
    PROVE  SeekersOver'
<1>1. SeekersOver /\ NotLaunched /\ TypeOK
  BY DEF LInv, IInv, Owned
<1>2. CASE Publish \/ Interrupt \/ Ended \/ UNCHANGED vars \/ Fetched
           \/ FetchFails \/ HeartbeatReturns \/ Tick("fetch") \/ Tick("beat")
           \/ Stop \/ Reported \/ ReportFails \/ Receive
  BY <1>1, <1>2
  DEF SeekersOver, Publish, Interrupt, Ended, vars, Fetched, FetchFails,
      HeartbeatReturns, Tick, Stop, Reported, ReportFails, Receive, runner,
      seekers
<1>3. CASE Register \/ FirstFetch \/ Finish
  BY <1>1, <1>3
  DEF SeekersOver, NotLaunched, Register, FirstFetch, Finish, seekers
<1>4. ASSUME NEW s \in Seekers, Think(s) \/ Send(s)
      PROVE  SeekersOver'
  <2>1. main' = main /\ pc[s] \notin {"exit", "off"}
    BY <1>4
    DEF Think, Send, runner, Exit, Enter, Sync, Generate, GenerateFails,
        TestMisses, TestHits, CheckTicker, SendHit, AbandonHit, SendCount
  <2> QED
    BY <1>1, <2>1 DEF SeekersOver
<1> QED
  BY <1>2, <1>3, <1>4 DEF Next, Call

(* The patterns of a seeker change only between two keys.                  *)
LEMMA TestingStep ==
    ASSUME LInv, [Next]_vars
    PROVE  Testing'
<1>1. Testing /\ TypeOK /\ CompiledGood
  BY DEF LInv
<1>2. /\ pc \in [Seekers -> {"off", "top", "load", "ready", "test", "send",
                             "tick", "count", "exit"}]
      /\ compiled \in [Seekers -> Seq(Pattern)] /\ at \in [Seekers -> Nat]
  BY <1>1 DEF TypeOK
<1>3. CASE UNCHANGED <<pc, compiled, at>>
  BY <1>1, <1>3 DEF Testing
<1>4. CASE FirstFetch
  <2>1. \A s \in Seekers : pc'[s] = pc[s] \/ pc'[s] = "top"
    BY <1>4 DEF FirstFetch
  <2>2. UNCHANGED <<compiled, at>>
    BY <1>4 DEF FirstFetch
  <2> QED
    BY <1>1, <2>1, <2>2 DEF Testing
<1>5. ASSUME NEW s \in Seekers,
             Exit(s) \/ Enter(s) \/ GenerateFails(s) \/ CheckTicker(s)
             \/ AbandonHit(s) \/ SendCount(s)
      PROVE  Testing'
  <2>1. \A t \in Seekers : \/ pc'[t] = pc[t]
                           \/ pc'[t] \in {"exit", "load", "top", "count"}
    BY <1>2, <1>5 DEF Exit, Enter, GenerateFails, CheckTicker, AbandonHit,
                      SendCount, Move
  <2>2. UNCHANGED <<compiled, at>>
    BY <1>5 DEF Exit, Enter, GenerateFails, CheckTicker, AbandonHit, SendCount
  <2> QED
    BY <1>1, <2>1, <2>2 DEF Testing
<1>6. ASSUME NEW s \in Seekers, TestHits(s)
      PROVE  Testing'
  <2>1. /\ pc'[s] = "send" /\ pc[s] = "test" /\ UNCHANGED <<compiled, at>>
        /\ \A t \in Seekers : t # s => pc'[t] = pc[t]
    BY <1>2, <1>6 DEF TestHits, Move
  <2> QED
    BY <1>1, <2>1 DEF Testing
<1>7. ASSUME NEW s \in Seekers, TestMisses(s) \/ SendHit(s)
      PROVE  Testing'
  <2>1. /\ at'[s] = at[s] + 1 /\ UNCHANGED compiled
        /\ pc'[s] = IF at[s] < Len(compiled[s]) THEN "test" ELSE "tick"
        /\ \A t \in Seekers : t # s => pc'[t] = pc[t] /\ at'[t] = at[t]
    BY <1>2, <1>7 DEF TestMisses, SendHit, NextPattern, Move
  <2>2. at[s] \in Nat /\ Len(compiled[s]) \in Nat
    BY <1>2
  <2> QED
    BY <1>1, <2>1, <2>2 DEF Testing
<1>8. ASSUME NEW s \in Seekers, Generate(s)
      PROVE  Testing'
  <2>1. /\ at'[s] = 1 /\ UNCHANGED compiled
        /\ pc[s] = "ready" /\ pc'[s] = "test"
        /\ \A t \in Seekers : t # s => pc'[t] = pc[t] /\ at'[t] = at[t]
    BY <1>2, <1>8 DEF Generate, Move
  <2>2. 1 \in 1 .. Len(compiled[s])
    <3>1. compiled[s] # << >> /\ compiled[s] \in Seq(Pattern)
      BY <1>1, <1>2, <2>1 DEF Testing
    <3> QED
      BY <3>1
  <2> QED
    BY <1>1, <2>1, <2>2 DEF Testing
<1>9. ASSUME NEW s \in Seekers, Sync(s)
      PROVE  Testing'
  <2>1. /\ UNCHANGED at
        /\ pc'[s] # "top" => pc'[s] = "ready" /\ compiled'[s] # << >>
        /\ \A t \in Seekers : t # s => pc'[t] = pc[t]
                                       /\ compiled'[t] = compiled[t]
    <3>1. /\ pc' = [pc EXCEPT ![s] = IF patterns = << >>
                                        \/ compiled'[s] = << >>
                                     THEN "top" ELSE "ready"]
          /\ UNCHANGED at
      BY <1>9 DEF Sync, Move
    <3>2. \A t \in Seekers : t # s => compiled'[t] = compiled[t]
      BY <1>2, <1>9 DEF Sync
    <3>3. \A t \in Seekers : t # s => pc'[t] = pc[t]
      BY <1>2, <3>1
    <3>4. pc'[s] = IF patterns = << >> \/ compiled'[s] = << >>
                   THEN "top" ELSE "ready"
      BY <1>2, <3>1
    <3> QED
      BY <3>1, <3>2, <3>3, <3>4
  <2>2. 1 .. Len(compiled'[s]) \subseteq Indices
    <3>1. CASE patterns = << >>
      <4>1. compiled'[s] = compiled[s]
        BY <1>2, <1>9, <3>1 DEF Sync
      <4> QED
        BY <1>1, <4>1 DEF Testing
    <3>2. CASE patterns # << >>
      <4>1. patterns \in PatternLists /\ patterns \in Seq(Pattern)
        BY <1>1, <3>2, PatternsAssumption DEF TypeOK
      <4>2. compiled'[s] = Compilable(patterns)
        BY <1>1, <1>9, <3>2, SyncCompiles
      <4>3. /\ Len(Compilable(patterns)) <= Len(patterns)
            /\ Len(Compilable(patterns)) \in Nat
        BY <4>1, CompilableType
      <4>4. 1 .. Len(compiled'[s]) \subseteq DOMAIN patterns
        BY <4>1, <4>2, <4>3
      <4> QED
        BY <4>1, <4>4 DEF Indices
    <3> QED
      BY <3>1, <3>2
  <2> QED
    BY <1>1, <2>1, <2>2 DEF Testing
<1>10. CASE Publish \/ Interrupt \/ Ended \/ UNCHANGED vars \/ Register
            \/ Fetched \/ FetchFails \/ HeartbeatReturns \/ Reported
            \/ ReportFails \/ Finish \/ Tick("fetch") \/ Tick("beat")
            \/ Receive \/ Stop
  BY <1>3, <1>10
  DEF Publish, Interrupt, Ended, vars, Register, Fetched, FetchFails,
      HeartbeatReturns, Reported, ReportFails, Finish, Tick, Receive, Stop,
      seekers
<1> QED
  BY <1>4, <1>5, <1>6, <1>7, <1>8, <1>9, <1>10 DEF Next, Call, Think, Send

(* Together they are inductive.                                            *)
LEMMA LedgerInvStep == LInv /\ [Next]_vars => LInv'
<1> SUFFICES ASSUME LInv, [Next]_vars
             PROVE  LInv'
  OBVIOUS
<1>1. IInv /\ TypeOK /\ CompiledGood /\ Counted
  BY DEF LInv
<1>2. IInv' /\ TypeOK' /\ CompiledGood' /\ Counted'
  BY <1>1, ClientStep, TypesStep, CountedStep
<1> QED
  BY <1>2, TestingStep, SeekersOverStep DEF LInv

-----------------------------------------------------------------------------
(* Client implements ClientLedger.                                         *)
Over == main \in {"done", "failed"}

(* The start of Run is an empty ledger.                                    *)
LEMMA LedgerInit == Init => Ledger!Init
  BY DEF Init, Ledger!Init

(* A message that is received has keys in it that were not counted before. *)
LEMMA ReceiveCounts ==
    ASSUME LInv, Receive
    PROVE  Ledger!Next \/ UNCHANGED Ledger!vars
<1> DEFINE n == Head(chan).keys
<1>1. /\ counter \in Nat /\ chan \in Seq(Message) /\ chan # << >>
      /\ stats \in [keys : Nat, hits : Nat] /\ local \in [Seekers -> Nat]
  <2>1. /\ counter \in 0 .. MaxKeys /\ chan \in Seq(Message) /\ chan # << >>
        /\ stats \in [keys : Nat, hits : Nat] /\ local \in [Seekers -> Nat]
    BY DEF LInv, TypeOK, Receive
  <2> QED
    BY <2>1, KeysAssumption
<1>2. KeysIn(chan) = n + KeysIn(Tail(chan)) /\ KeysIn(Tail(chan)) \in Nat
      /\ n \in Nat
  BY <1>1, TailKeys
<1>3. SumFunction(local) \in Nat
  BY <1>1, SeekersAssumption, SumIsNat DEF SumFunction
<1>4. counter = stats.keys + KeysIn(chan) + SumFunction(local)
  BY DEF LInv, Counted, CountsAddUp, KeysIn
<1>5. stats'.keys = stats.keys + n /\ stats.keys \in Nat
  BY <1>1 DEF Receive
<1>6. /\ UNCHANGED <<counter, found, recorded, failed, abandoned, cancelled>>
      /\ ~Over /\ ~Over'
  BY DEF Receive, server, seekers, Over
<1> HIDE DEF n
<1>7. CASE n = 0
  BY <1>5, <1>6, <1>7 DEF Ledger!vars, Ledger!keys, Ledger!hits, Over
<1>8. CASE n # 0
  <2>1. n \in 1 .. counter - stats.keys
    BY <1>1, <1>2, <1>3, <1>4, <1>5, <1>8
  <2>2. Ledger!Count
    BY <1>5, <1>6, <2>1 DEF Ledger!Count, Ledger!hits, Over
  <2> QED
    BY <1>6, <2>2 DEF Ledger!Next, Over
<1> QED
  BY <1>7, <1>8

(* A hit that is found is a new one, of a generated key and a pattern.     *)
LEMMA HitIsFound ==
    ASSUME LInv, NEW s \in Seekers, TestHits(s)
    PROVE  Ledger!Next
<1>1. /\ Pending(s) \notin found /\ found' = found \cup {Pending(s)}
  <2>1. Pending(s).key = key[s] /\ Pending(s).index = at[s] /\ at[s] \in Nat
    BY DEF Pending, LInv, TypeOK
  <2>2. ~(at[s] < at[s])
    BY <2>1
  <2> QED
    BY <2>1, <2>2 DEF TestHits, LInv, IInv, Owned, FoundBehind
<1>2. Pending(s) \in [key : 1 .. counter, index : Indices]
  <2>1. key[s] \in Nat /\ counter \in Nat /\ key[s] <= counter /\ key[s] # 0
    BY DEF LInv, IInv, Owned, Types, KeysDrawn, TestHits
  <2>2. at[s] \in Indices
    BY DEF LInv, Testing, TestHits
  <2>3. key[s] \in 1 .. counter
    BY <2>1
  <2> QED
    BY <2>2, <2>3 DEF Pending
<1>3. /\ UNCHANGED <<counter, stats, recorded, failed, abandoned, cancelled>>
      /\ UNCHANGED main
      /\ ~Over
  BY DEF TestHits, shared, server, runner, LInv, SeekersOver, Over
<1>4. Ledger!Find
  BY <1>1, <1>2, <1>3 DEF Ledger!Find, Ledger!keys, Indices, Over
<1> QED
  BY <1>3, <1>4 DEF Ledger!Next, Over

(* A step of a goroutine is a step of the ledger or a stutter.             *)
LEMMA LedgerStep == LInv /\ [Next]_vars => [Ledger!Next]_(Ledger!vars)
<1> SUFFICES ASSUME LInv, [Next]_vars
             PROVE  Ledger!Next \/ UNCHANGED Ledger!vars
  OBVIOUS
<1>1. ASSUME UNCHANGED <<counter, stats, found, cancelled>>,
             UNCHANGED <<recorded, failed, abandoned>>,
             Over' <=> Over
      PROVE  UNCHANGED Ledger!vars
  BY <1>1 DEF Ledger!vars, Ledger!keys, Ledger!hits, Over
<1> USE DEF shared, server, runner, seekers
<1>2. CASE Publish \/ Ended \/ UNCHANGED vars \/ Fetched \/ FetchFails
           \/ HeartbeatReturns \/ Tick("fetch") \/ Tick("beat") \/ Stop
  BY <1>1, <1>2 DEF Publish, Ended, vars, Fetched, FetchFails,
                    HeartbeatReturns, Tick, Stop, Over
<1>3. CASE Register \/ FirstFetch \/ Finish
  <2>1. /\ UNCHANGED <<counter, stats, found, cancelled>>
        /\ UNCHANGED <<recorded, failed, abandoned>>
        /\ ~Over
    BY <1>3 DEF Register, FirstFetch, Finish, Over
  <2>2. CASE Over'
    BY <2>1, <2>2 DEF Ledger!Next, Ledger!Return, Ledger!keys, Ledger!hits,
                      Over
  <2> QED
    BY <1>1, <2>1, <2>2
<1>4. CASE Interrupt
  BY <1>4 DEF Interrupt, Ledger!Next, Ledger!Interrupt, Ledger!keys,
              Ledger!hits
<1>5. CASE Receive
  BY <1>5, ReceiveCounts
<1>6. CASE Reported \/ ReportFails
  <2>1. /\ ~Over /\ ~Over'
        /\ UNCHANGED <<counter, stats, found, abandoned, cancelled>>
    BY <1>6 DEF Reported, ReportFails, Over
  <2>2. Holds(inHand) = {inHand}
    BY <1>6 DEF Reported, ReportFails, LInv, IInv, Owned, InHandReported,
       Holds
  <2>3. inHand \in found \ (recorded \cup failed \cup abandoned)
    BY <2>2 DEF LInv, IInv, HitsAccountedFor, NoHitTwice, posted
  <2>4. \/ /\ recorded' = recorded \cup {inHand}
           /\ failed' \in {failed, failed \cup {inHand}}
        \/ /\ recorded' = recorded
           /\ failed' = failed \cup {inHand}
    BY <1>6 DEF Reported, ReportFails
  <2>5. Ledger!Report
    BY <2>1, <2>3, <2>4 DEF Ledger!Report, Ledger!Open, Ledger!keys, Over
  <2> QED
    BY <2>1, <2>5 DEF Ledger!Next, Over
<1>7. ASSUME NEW s \in Seekers,
             Exit(s) \/ Enter(s) \/ Sync(s) \/ GenerateFails(s)
             \/ TestMisses(s) \/ CheckTicker(s) \/ SendHit(s) \/ SendCount(s)
      PROVE  UNCHANGED Ledger!vars
  BY <1>1, <1>7 DEF Exit, Enter, Sync, GenerateFails, TestMisses, CheckTicker,
                    SendHit, SendCount, Over
<1>8. ASSUME NEW s \in Seekers, Generate(s)
      PROVE  Ledger!Next
  <2>1. /\ counter' = counter + 1 /\ ~Over
        /\ UNCHANGED <<stats, found, recorded, failed, abandoned>>
        /\ UNCHANGED <<cancelled, main>>
    BY <1>8 DEF Generate, LInv, SeekersOver, Over
  <2> QED
    BY <2>1 DEF Ledger!Next, Ledger!Generate, Ledger!hits, Over
<1>9. ASSUME NEW s \in Seekers, AbandonHit(s)
      PROVE  Ledger!Next
  <2>1. /\ abandoned' = abandoned \cup {Pending(s)} /\ cancelled /\ ~Over
        /\ UNCHANGED <<counter, stats, found, recorded, failed>>
        /\ UNCHANGED <<cancelled, main>>
    BY <1>9 DEF AbandonHit, LInv, SeekersOver, Over
  <2>2. Pending(s) \in PendingHits
    BY <1>9 DEF AbandonHit, PendingHits, Sending
  <2>3. Pending(s) \in found \ (recorded \cup failed \cup abandoned)
    BY <2>2 DEF LInv, IInv, HitsAccountedFor, NoHitTwice, posted
  <2>4. Ledger!Leave
    BY <2>1, <2>3 DEF Ledger!Leave, Ledger!Open, Ledger!keys, Over
  <2> QED
    BY <2>1, <2>4 DEF Ledger!Next, Over
<1> QED
  BY <1>2, <1>3, <1>4, <1>5, <1>6, <1>7, <1>8, <1>9, HitIsFound
  DEF Next, Call, Think, Send

(* The pool of seekers, its buffer and the loop of Run keep the ledger: no *)
(* key and no hit is counted or reported twice, and nothing goes on when   *)
(* Run has returned.                                                       *)
THEOREM ClientKeepsLedger == Spec => KeepsLedger
<1> QED
  BY LedgerInvInit, LedgerInvStep, LedgerInit, LedgerStep, PTL
  DEF Spec, KeepsLedger, Ledger!Spec
=============================================================================
