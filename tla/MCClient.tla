------------------------------ MODULE MCClient ------------------------------
(* Small instances of Client for TLC.                                      *)
EXTENDS Client, TLC

CONSTANTS a, bad, fp, both

MCRegexes    == {a, bad}
MCBadRegexes == {bad}
MCScopes     == {fp, both}

AtFp   == [re |-> a, scope |-> fp]
AtBoth == [re |-> a, scope |-> both]
Broken == [re |-> bad, scope |-> both]

(* Two patterns that one key can satisfy both.                             *)
MCTwoPatterns == { << AtFp, AtBoth >> }

(* No target; three patterns that one key can satisfy, so that its hits    *)
(* block a seeker; the same regexes in other scopes, and one that is       *)
(* broken.                                                                 *)
MCLists ==
    { << >>, << AtFp, AtBoth, AtFp >>, << Broken, AtFp, AtFp, AtFp >> }

Symmetry == Permutations(Seekers)
=============================================================================
