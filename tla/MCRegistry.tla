----------------------------- MODULE MCRegistry -----------------------------
(* Small instances of Registry for TLC.                                    *)
EXTENDS Registry

CONSTANTS bad, good

MCSpecs      == {bad, good}
MCValidSpecs == {good}

(* Without -t and VKG_TARGET the server seeds words, which are valid; with *)
(* one of them it seeds that one regex, which is not validated.            *)
MCWordSeeds == << good, good >>
MCRegexSeed == << bad >>
=============================================================================
