--------------------------- MODULE MCAttribution ---------------------------
(* A small instance of Attribution for TLC.                                *)
EXTENDS Attribution

MCWords == {"max", "Max", "MAX", "fox", "Fox"}
MCFold  == [w \in MCWords |-> IF w \in {"fox", "Fox"} THEN "fox" ELSE "max"]
MCCap   == [w \in MCWords |-> IF w \in {"fox", "Fox"} THEN "Fox" ELSE "Max"]

MCRegexes == {"re", "bad"}

Word(w, modes, scope) ==
    [type |-> "word", word |-> w, modes |-> modes, scope |-> scope,
     active |-> TRUE]

(* Words of each case mode, of two modes and of none, in each scope; a     *)
(* regex and one that does not compile; a target that is switched off.     *)
MCRows ==
    { Word("max", {}, Parts),
      Word("MAX", {"sensitive"}, {"pubkey"}),
      Word("MAX", {"capitalized", "sensitive"}, Parts),
      Word("fox", {"insensitive"}, Parts),
      Word("fox", {"capitalized"}, {"fingerprint"}),
      [Word("fox", {"insensitive"}, Parts) EXCEPT !.active = FALSE],
      [type |-> "regex", re |-> "re",  scope |-> {"fingerprint"},
       active |-> TRUE],
      [type |-> "regex", re |-> "bad", scope |-> Parts, active |-> TRUE] }

Shows(tail, inside, fits) ==
    [tail |-> tail, inside |-> inside, fits |-> fits]

Key(fingerprint, pubkey) ==
    [q \in Parts |-> IF q = "pubkey" THEN pubkey ELSE fingerprint]

Nothing == Shows({}, {}, {})

(* A word at the end, in one part or in both, in one spelling or another;  *)
(* one word at the end and one inside; a text that fits the regex.         *)
MCKeys ==
    { Key(Shows({"max"}, {}, {}), Nothing),
      Key(Nothing, Shows({"MAX"}, {}, {})),
      Key(Shows({"Max"}, {}, {}), Shows({"Fox"}, {}, {})),
      Key(Shows({"Fox"}, {"max"}, {"re"}), Nothing),
      Key(Shows({}, {}, {"re"}), Shows({"fox"}, {"MAX"}, {})) }
=============================================================================
