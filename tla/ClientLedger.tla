---------------------------- MODULE ClientLedger ----------------------------
(***************************************************************************)
(* What the client promises about its keys and hits, whatever its seekers, *)
(* its buffer and its calls do: a key is counted once at most; a hit is of *)
(* a generated key and one of the patterns, is found once and reported     *)
(* once at most; hits are left behind only after an interrupt; and when    *)
(* Run has returned nothing goes on.                                       *)
(***************************************************************************)
EXTENDS Naturals

CONSTANT Indices   \* places of a pattern in its list

VARIABLES
    generated,    \* number of keys generated
    counted,      \* keys in Run's total
    found,        \* hits
    recorded,     \* those the server stores
    failed,       \* those whose report failed
    left,         \* those a seeker left behind
    interrupted,  \* ctx is done
    over          \* Run has returned

keys == <<generated, counted>>
hits == <<found, recorded, failed, left>>
vars == <<keys, hits, interrupted, over>>

Init ==
    /\ generated = 0 /\ counted = 0
    /\ found = {} /\ recorded = {} /\ failed = {} /\ left = {}
    /\ interrupted = FALSE /\ over = FALSE

Generate ==
    /\ generated' = generated + 1
    /\ UNCHANGED <<counted, hits, interrupted, over>>

(* Keys not counted yet are added to the total.                            *)
Count ==
    /\ \E n \in 1 .. generated - counted : counted' = counted + n
    /\ UNCHANGED <<generated, hits, interrupted, over>>

(* A generated key satisfies a pattern for the first time.                 *)
Find ==
    /\ \E h \in [key : 1 .. generated, index : Indices] \ found :
          found' = found \cup {h}
    /\ UNCHANGED <<keys, recorded, failed, left, interrupted, over>>

(* Neither reported nor left behind.                                       *)
Open == found \ (recorded \cup failed \cup left)

(* The report of a hit ends: the server has it, or it failed, or both.     *)
Report ==
    /\ \E h \in Open :
          \/ /\ recorded' = recorded \cup {h}
             /\ failed' \in {failed, failed \cup {h}}
          \/ /\ recorded' = recorded
             /\ failed' = failed \cup {h}
    /\ UNCHANGED <<keys, found, left, interrupted, over>>

Leave ==
    /\ interrupted
    /\ \E h \in Open : left' = left \cup {h}
    /\ UNCHANGED <<keys, found, recorded, failed, interrupted, over>>

Interrupt ==
    /\ ~interrupted
    /\ interrupted' = TRUE
    /\ UNCHANGED <<keys, hits, over>>

Return ==
    /\ over' = TRUE
    /\ UNCHANGED <<keys, hits, interrupted>>

Next ==
    /\ ~over
    /\ Generate \/ Count \/ Find \/ Report \/ Leave \/ Interrupt \/ Return

Spec == Init /\ [][Next]_vars
=============================================================================
