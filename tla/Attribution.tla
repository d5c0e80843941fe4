---------------------------- MODULE Attribution ----------------------------
(***************************************************************************)
(* From targets to patterns and from matches back to targets.  The server  *)
(* compiles its active targets into patterns (pkg/server/compile.go), a    *)
(* client tests keys against the patterns it fetched last and posts those  *)
(* that match (pkg/client/main.go), and the server looks for the target    *)
(* the match belongs to (attributeMatch of pkg/server/routes_matches.go),  *)
(* by a test of its own and among the targets of that later time.          *)
(*                                                                         *)
(* A match does not say which target it was found for: two pieces of code  *)
(* answer the same question, one as a regular expression and one by a      *)
(* search for the word.                                                    *)
(***************************************************************************)
EXTENDS Naturals, FiniteSets

CONSTANTS
    Ids,           \* ids of targets
    Rows,          \* what a target may be
    Words,         \* spellings of words
    Fold,          \* word -> its spelling in lower case
    Cap,           \* word -> its capitalized spelling
    Regexes,       \* patterns of regex targets
    Keys,          \* what a generated key shows
    NoTarget,      \* "no row with this id"
    Unattributed   \* a match's empty TargetID

Parts  == {"fingerprint", "pubkey"}
Scopes == (SUBSET Parts) \ {{}}   \* "both" is Parts
Modes  == {"insensitive", "sensitive", "capitalized"}

WordRow  == [type : {"word"}, word : Words, modes : SUBSET Modes,
             scope : Scopes, active : BOOLEAN]
RegexRow == [type : {"regex"}, re : Regexes, scope : Scopes, active : BOOLEAN]

(* A text shows words at its end, between prefix and suffix of the regular *)
(* expression of a word target, and words elsewhere; a regex fits it or    *)
(* not, and one that does not compile fits none.                           *)
Text == [tail : SUBSET Words, inside : SUBSET Words, fits : SUBSET Regexes]

ASSUME RowsAssumption == Rows \subseteq WordRow \cup RegexRow
ASSUME KeysAssumption == Keys \subseteq [Parts -> Text]
ASSUME WordsAssumption ==
    Fold \in [Words -> Words] /\ Cap \in [Words -> Words]
ASSUME SentinelAssumption == NoTarget \notin Rows /\ Unattributed \notin Ids

VARIABLES
    targets,   \* table targets: id -> row
    patterns,  \* the client's copy of the compiled patterns
    match      \* a match on its way from the client to the table

vars == <<targets, patterns, match>>

RegexPattern == [type : {"regex"}, re : Regexes, scope : Scopes]
WordPattern  == [type : {"word"}, ci : BOOLEAN, scope : Scopes,
                 words : (SUBSET Words) \ {{}}]
Pattern      == RegexPattern \cup WordPattern

Active == {t \in Ids : targets[t] # NoTarget /\ targets[t].active}

ActiveRows == {targets[t] : t \in Active}

-----------------------------------------------------------------------------
(* What the server sends: compilePatterns.  Every case mode of a word asks *)
(* for one spelling, and spellings of one case and one scope are           *)
(* alternatives of one pattern.  The order of the patterns and repetitions *)
(* of a regex are left out.                                                *)

(* A word with no case mode is wanted in any case.                         *)
ModesOf(row) == IF row.modes = {} THEN {"insensitive"} ELSE row.modes

Spellings(row) ==
    {[word |-> IF m = "capitalized" THEN Cap[row.word] ELSE row.word,
      ci   |-> m = "insensitive"] : m \in ModesOf(row)}

(* Fault: the words of all scopes are alternatives of one pattern.         *)
GroupOfAnyScope(rows, ci, scope) ==
    {s.word : s \in {s \in UNION {Spellings(r) : r \in
                        {r \in rows : r.type = "word"}} : s.ci = ci}}

WordGroup(rows, ci, scope) ==
    {s.word : s \in {s \in UNION {Spellings(r) : r \in
                        {r \in rows : r.type = "word" /\ r.scope = scope}} :
                     s.ci = ci}}

RegexPatterns(rows) ==
    {[type |-> "regex", re |-> r.re, scope |-> r.scope] :
        r \in {r \in rows : r.type = "regex"}}

(* Fault: a group that no word belongs to is sent as well.                 *)
EmptyGroupsToo(rows) ==
    {[type |-> "word", ci |-> ci, scope |-> scope,
      words |-> WordGroup(rows, ci, scope)] :
        ci \in BOOLEAN, scope \in Scopes}

WordPatterns(rows) ==
    {p \in {[type |-> "word", ci |-> ci, scope |-> scope,
             words |-> WordGroup(rows, ci, scope)] :
                ci \in BOOLEAN, scope \in Scopes} : p.words # {}}

compilePatterns(rows) == RegexPatterns(rows) \cup WordPatterns(rows)

-----------------------------------------------------------------------------
(* What the client finds.                                                  *)

SameWord(x, w, ci) == IF ci THEN Fold[x] = Fold[w] ELSE x = w

Accepts(p, text) ==
    \/ p.type = "regex" /\ p.re \in text.fits
    \/ p.type = "word"  /\ \E x \in text.tail, w \in p.words :
                              SameWord(x, w, p.ci)

(* The parts of the key that pattern p asks for and accepts.               *)
PartsHit(p, key) == {q \in p.scope : Accepts(p, key[q])}

-----------------------------------------------------------------------------
(* Whom the server attributes it to: attributeMatch.                       *)

containsWord(text, w, ci) ==
    \E x \in text.tail \cup text.inside : SameWord(x, w, ci)

(* Fault: the scope of the target is not looked at.                        *)
TakesAnyScope(row, m) ==
    \E q \in m.parts :
        \/ row.type = "regex" /\ row.re \in m.key[q].fits
        \/ row.type = "word"  /\ \E s \in Spellings(row) :
                                    containsWord(m.key[q], s.word, s.ci)

(* Fault: the flags of both parts are required for scope "both".           *)
TakesIfAllParts(row, m) ==
    /\ row.scope \subseteq m.parts
    /\ \E q \in row.scope :
        \/ row.type = "regex" /\ row.re \in m.key[q].fits
        \/ row.type = "word"  /\ \E s \in Spellings(row) :
                                    containsWord(m.key[q], s.word, s.ci)

Takes(row, m) ==
    \E q \in row.scope \cap m.parts :
        \/ row.type = "regex" /\ row.re \in m.key[q].fits
        \/ row.type = "word"  /\ \E s \in Spellings(row) :
                                    containsWord(m.key[q], s.word, s.ci)

Takers(m) == {t \in Active : Takes(targets[t], m)}

-----------------------------------------------------------------------------
NoMatch == [stage |-> "none"]

Init ==
    /\ targets  = [t \in Ids |-> NoTarget]
    /\ patterns = {}
    /\ match    = NoMatch

(* POST and PUT of a target: any valid row, active or not.                 *)
SaveTarget(t) ==
    /\ \E row \in Rows : targets' = [targets EXCEPT ![t] = row]
    /\ UNCHANGED <<patterns, match>>

DeleteTarget(t) ==
    /\ targets[t] # NoTarget
    /\ targets' = [targets EXCEPT ![t] = NoTarget]
    /\ UNCHANGED <<patterns, match>>

(* The client's main goroutine replaces its copy.                          *)
Fetch ==
    /\ patterns' = compilePatterns(ActiveRows)
    /\ UNCHANGED <<targets, match>>

(* A seeker generates a key that one of its patterns accepts.              *)
Hit ==
    /\ match.stage # "found"
    /\ \E key \in Keys, p \in patterns :
        /\ PartsHit(p, key) # {}
        /\ match' = [stage |-> "found", key |-> key, pattern |-> p,
                     parts |-> PartsHit(p, key)]
    /\ UNCHANGED <<targets, patterns>>

(* The match is stored under t.  Of its target as it was then, row is kept *)
(* for the properties.                                                     *)
File(t, row) ==
    match' = [stage |-> "filed", key |-> match.key, parts |-> match.parts,
              target |-> t, row |-> row]

(* The first of the targets that take it, newest first: any, as times of   *)
(* creation have a resolution of one second and a target keeps its own     *)
(* when it is changed.  None when no target takes it.                      *)
AttributeMatch ==
    /\ match.stage = "found"
    /\ \/ \E t \in Takers(match) : File(t, targets[t])
       \/ Takers(match) = {} /\ File(Unattributed, NoTarget)
    /\ UNCHANGED <<targets, patterns>>

(* The query for the active targets fails: the match is stored all the     *)
(* same.                                                                   *)
QueryFails ==
    /\ match.stage = "found"
    /\ File(Unattributed, NoTarget)
    /\ UNCHANGED <<targets, patterns>>

(* The report is lost, or the client ends.                                 *)
ReportFails ==
    /\ match.stage = "found"
    /\ match' = NoMatch
    /\ UNCHANGED <<targets, patterns>>

Next ==
    \/ \E t \in Ids : SaveTarget(t) \/ DeleteTarget(t)
    \/ Fetch \/ Hit \/ AttributeMatch \/ QueryFails \/ ReportFails

Spec == Init /\ [][Next]_vars

-----------------------------------------------------------------------------
(* The types of the state.  A pattern asks for at least one word, and a    *)
(* match reports at least one part.                                        *)
TypeOK ==
    /\ targets  \in [Ids -> Rows \cup {NoTarget}]
    /\ patterns \subseteq Pattern
    /\ \/ match = NoMatch
       \/ match \in [stage : {"found"}, key : Keys, pattern : Pattern,
                     parts : Scopes]
       \/ match \in [stage : {"filed"}, key : Keys, parts : Scopes,
                     target : Ids \cup {Unattributed},
                     row : Rows \cup {NoTarget}]

(* What a target asks for, one at a time, as the comment on vkg.Target     *)
(* says it: a word in one of its case modes, or a raw regex.               *)
Wants(row, text) ==
    \/ row.type = "regex" /\ row.re \in text.fits
    \/ /\ row.type = "word"
       /\ \E x \in text.tail :
             \/ /\ row.modes = {} \/ "insensitive" \in row.modes
                /\ Fold[x] = Fold[row.word]
             \/ "sensitive"   \in row.modes /\ x = row.word
             \/ "capitalized" \in row.modes /\ x = Cap[row.word]

(* Grouping the words of all targets into a few regular expressions        *)
(* changes nothing: whatever the table of targets, the patterns the client *)
(* gets accept a part of a key exactly if some active target wants it      *)
(* there.                                                                  *)
CompiledAsWanted ==
    \A key \in Keys, q \in Parts :
        (\E p \in compilePatterns(ActiveRows) : q \in PartsHit(p, key))
            <=> \E t \in Active : /\ q \in targets[t].scope
                                  /\ Wants(targets[t], key[q])

(* The two tests of a key agree on its being wanted: a match for a pattern *)
(* that the server would still send when the match arrives finds a target, *)
(* whichever targets came and went in between; only a failing query leaves *)
(* it unattributed.                                                        *)
HitsFindTheirTarget ==
    (match.stage = "found" /\ match.pattern \in compilePatterns(ActiveRows))
        => Takers(match) # {}

(* They agree on the target too, as long as words show up only where the   *)
(* patterns look for them: the target that gets the match would, alone,    *)
(* have sent a pattern that accepts the key in a part that was reported.   *)
OwnPatternAccepts ==
    \E p \in compilePatterns({match.row}) :
        PartsHit(p, match.key) \cap match.parts # {}

Attributed == match.stage = "filed" /\ match.target # Unattributed

FiledWhereWanted ==
    (Attributed /\ \A q \in match.parts : match.key[q].inside = {})
        => OwnPatternAccepts

(* routes_matches.go:76, "attributeMatch tests a match against active      *)
(* targets to find which one it belongs to": then the target that gets the *)
(* match wants the key.  The code does not keep it: attributeMatch looks   *)
(* for a word anywhere in the text.                                        *)
MatchBelongs == Attributed => OwnPatternAccepts
=============================================================================
