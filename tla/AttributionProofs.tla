------------------------- MODULE AttributionProofs -------------------------
(* Proofs about Attribution, for any targets, words, regexes and keys.     *)
EXTENDS Attribution, TLAPS

AnyRow == WordRow \cup RegexRow

-----------------------------------------------------------------------------
(* Lemmas about the pure functions.                                        *)

(* A spelling pairs one of the words with a choice of case.                *)
LEMMA SpellingForms ==
    ASSUME NEW r \in WordRow
    PROVE  /\ \A s \in Spellings(r) : s.word \in Words /\ s.ci \in BOOLEAN
           /\ Spellings(r) # {}
<1>1. Cap[r.word] \in Words /\ r.word \in Words
  BY WordsAssumption DEF WordRow
<1>2. ModesOf(r) # {}
  BY DEF ModesOf
<1>3. \A s \in Spellings(r) :
         \E m \in ModesOf(r) :
            /\ s.word = IF m = "capitalized" THEN Cap[r.word] ELSE r.word
            /\ s.ci = (m = "insensitive")
  BY DEF Spellings
<1>4. Spellings(r) # {}
  BY <1>2 DEF Spellings
<1> QED
  BY <1>1, <1>3, <1>4

(* The spellings of a word are what its case modes ask for.                *)
LEMMA SpellingsWanted ==
    ASSUME NEW r \in WordRow, NEW text \in Text
    PROVE  (\E s \in Spellings(r), x \in text.tail : SameWord(x, s.word, s.ci))
               <=> Wants(r, text)
<1>1. r.type = "word" /\ r.modes \in SUBSET Modes
  BY DEF WordRow
<1> DEFINE Spelled(m) == [word |-> IF m = "capitalized" THEN Cap[r.word]
                                   ELSE r.word,
                          ci   |-> m = "insensitive"]
<1>2. \A x : /\ SameWord(x, Spelled("insensitive").word,
                          Spelled("insensitive").ci)
                  <=> Fold[x] = Fold[r.word]
             /\ SameWord(x, Spelled("sensitive").word, Spelled("sensitive").ci)
                  <=> x = r.word
             /\ SameWord(x, Spelled("capitalized").word,
                          Spelled("capitalized").ci)
                  <=> x = Cap[r.word]
  BY DEF SameWord
<1>3. Spellings(r) = {Spelled(m) : m \in ModesOf(r)}
  BY DEF Spellings
<1>4. \A x : (\E s \in Spellings(r) : SameWord(x, s.word, s.ci))
               <=> \E m \in ModesOf(r) :
                      SameWord(x, Spelled(m).word, Spelled(m).ci)
  BY <1>3
<1> HIDE DEF Spelled
<1>5. ModesOf(r) \subseteq Modes
  BY <1>1 DEF ModesOf, Modes
<1>6. \A x : (\E s \in Spellings(r) : SameWord(x, s.word, s.ci)) <=>
               \/ "insensitive" \in ModesOf(r) /\ Fold[x] = Fold[r.word]
               \/ "sensitive"   \in ModesOf(r) /\ x = r.word
               \/ "capitalized" \in ModesOf(r) /\ x = Cap[r.word]
  BY <1>2, <1>4, <1>5 DEF Modes
<1>7. /\ "insensitive" \in ModesOf(r)
             <=> (r.modes = {} \/ "insensitive" \in r.modes)
      /\ "sensitive" \in ModesOf(r) <=> "sensitive" \in r.modes
      /\ "capitalized" \in ModesOf(r) <=> "capitalized" \in r.modes
  BY DEF ModesOf
<1> QED
  BY <1>1, <1>6, <1>7 DEF Wants

(* A pattern of words accepts a text for one of the spellings that were    *)
(* put into its group.                                                     *)
LEMMA WordsCompiled ==
    ASSUME NEW R \in SUBSET AnyRow, NEW text \in Text, NEW q \in Parts
    PROVE  (\E p \in WordPatterns(R) : q \in p.scope /\ Accepts(p, text))
             <=> \E r \in R : /\ r.type = "word" /\ q \in r.scope
                              /\ \E s \in Spellings(r), x \in text.tail :
                                    SameWord(x, s.word, s.ci)
<1>1. ASSUME NEW p \in WordPatterns(R), q \in p.scope, Accepts(p, text)
      PROVE  \E r \in R : /\ r.type = "word" /\ q \in r.scope
                          /\ \E s \in Spellings(r), x \in text.tail :
                                SameWord(x, s.word, s.ci)
  <2>1. PICK ci \in BOOLEAN, scope \in Scopes :
               p = [type |-> "word", ci |-> ci, scope |-> scope,
                    words |-> WordGroup(R, ci, scope)]
    BY DEF WordPatterns
  <2>2. PICK x \in text.tail, w \in WordGroup(R, ci, scope) :
               SameWord(x, w, ci)
    BY <1>1, <2>1 DEF Accepts
  <2>3. PICK r \in R : /\ r.type = "word" /\ r.scope = scope
                       /\ \E s \in Spellings(r) : s.ci = ci /\ s.word = w
    BY <2>2 DEF WordGroup
  <2> QED
    BY <1>1, <2>1, <2>2, <2>3
<1>2. ASSUME NEW r \in R, r.type = "word", q \in r.scope,
             NEW s \in Spellings(r), NEW x \in text.tail,
             SameWord(x, s.word, s.ci)
      PROVE  \E p \in WordPatterns(R) : q \in p.scope /\ Accepts(p, text)
  <2>1. r \in WordRow /\ r.scope \in Scopes
    BY <1>2 DEF AnyRow, WordRow, RegexRow
  <2>2. s.word \in Words /\ s.ci \in BOOLEAN
    BY <2>1, SpellingForms
  <2>3. s.word \in WordGroup(R, s.ci, r.scope)
    BY <1>2 DEF WordGroup
  <2> DEFINE p == [type |-> "word", ci |-> s.ci, scope |-> r.scope,
                   words |-> WordGroup(R, s.ci, r.scope)]
  <2>4. p \in WordPatterns(R)
    BY <2>1, <2>2, <2>3 DEF WordPatterns
  <2>5. q \in p.scope /\ Accepts(p, text)
    BY <1>2, <2>3 DEF Accepts
  <2> QED
    BY <2>4, <2>5
<1> QED
  BY <1>1, <1>2

(* The patterns compiled from a set of rows accept a part of a text        *)
(* exactly if one of the rows wants it there.                              *)
LEMMA Compiled ==
    ASSUME NEW R \in SUBSET AnyRow, NEW text \in Text, NEW q \in Parts
    PROVE  (\E p \in compilePatterns(R) : q \in p.scope /\ Accepts(p, text))
             <=> \E r \in R : q \in r.scope /\ Wants(r, text)
<1>1. (\E p \in RegexPatterns(R) : q \in p.scope /\ Accepts(p, text))
        <=> \E r \in R : /\ r.type = "regex" /\ q \in r.scope
                         /\ Wants(r, text)
  <2>1. ASSUME NEW p \in RegexPatterns(R), q \in p.scope, Accepts(p, text)
        PROVE  \E r \in R : /\ r.type = "regex" /\ q \in r.scope
                            /\ Wants(r, text)
    <3>1. PICK r \in R : /\ r.type = "regex"
                         /\ p = [type |-> "regex", re |-> r.re,
                                 scope |-> r.scope]
      BY DEF RegexPatterns
    <3> QED
      BY <2>1, <3>1 DEF Accepts, Wants
  <2>2. ASSUME NEW r \in R, r.type = "regex", q \in r.scope, Wants(r, text)
        PROVE  \E p \in RegexPatterns(R) : q \in p.scope /\ Accepts(p, text)
    <3> DEFINE p == [type |-> "regex", re |-> r.re, scope |-> r.scope]
    <3>1. p \in RegexPatterns(R)
      BY <2>2 DEF RegexPatterns
    <3>2. q \in p.scope /\ Accepts(p, text)
      BY <2>2 DEF Accepts, Wants
    <3> QED
      BY <3>1, <3>2
  <2> QED
    BY <2>1, <2>2
<1>2. \A r \in R : r.type = "word" => r \in WordRow
  BY DEF AnyRow, WordRow, RegexRow
<1>3. (\E p \in WordPatterns(R) : q \in p.scope /\ Accepts(p, text))
        <=> \E r \in R : /\ r.type = "word" /\ q \in r.scope
                         /\ Wants(r, text)
  BY <1>2, WordsCompiled, SpellingsWanted
<1>4. \A r \in R : r.type \in {"word", "regex"}
  BY DEF AnyRow, WordRow, RegexRow
<1> QED
  BY <1>1, <1>3, <1>4 DEF compilePatterns

(* A target takes every match of a part it asks for and wants.             *)
LEMMA WantedIsTaken ==
    ASSUME NEW row \in AnyRow, NEW m, NEW q \in row.scope \cap m.parts,
           m.key[q] \in Text, Wants(row, m.key[q])
    PROVE  Takes(row, m)
<1>1. CASE row.type = "regex"
  BY <1>1 DEF Wants, Takes
<1>2. CASE row.type = "word"
  <2>1. row \in WordRow
    BY <1>2 DEF AnyRow, WordRow, RegexRow
  <2>2. \E s \in Spellings(row), x \in m.key[q].tail :
           SameWord(x, s.word, s.ci)
    BY <2>1, SpellingsWanted
  <2> QED
    BY <1>2, <2>2 DEF Takes, containsWord
<1> QED
  BY <1>1, <1>2 DEF AnyRow, WordRow, RegexRow

(* Where no word shows up elsewhere, a target wants what it takes.         *)
LEMMA TakenIsWanted ==
    ASSUME NEW row \in AnyRow, NEW m, Takes(row, m),
           \A q \in m.parts : m.key[q] \in Text /\ m.key[q].inside = {}
    PROVE  \E q \in row.scope \cap m.parts : Wants(row, m.key[q])
<1>1. PICK q \in row.scope \cap m.parts :
         \/ row.type = "regex" /\ row.re \in m.key[q].fits
         \/ row.type = "word"  /\ \E s \in Spellings(row) :
                                     containsWord(m.key[q], s.word, s.ci)
  BY DEF Takes
<1>2. CASE row.type = "regex"
  BY <1>1, <1>2 DEF Wants
<1>3. CASE row.type = "word"
  <2>1. row \in WordRow
    BY <1>3 DEF AnyRow, WordRow, RegexRow
  <2>2. \E s \in Spellings(row), x \in m.key[q].tail :
           SameWord(x, s.word, s.ci)
    BY <1>1, <1>3 DEF containsWord
  <2> QED
    BY <2>1, <2>2, SpellingsWanted
<1> QED
  BY <1>2, <1>3 DEF AnyRow, WordRow, RegexRow

-----------------------------------------------------------------------------
(* Types.                                                                  *)

LEMMA CompiledForms ==
    ASSUME NEW R \in SUBSET AnyRow
    PROVE  compilePatterns(R) \subseteq Pattern
<1>1. RegexPatterns(R) \subseteq Pattern
  BY DEF RegexPatterns, AnyRow, WordRow, RegexRow, Pattern, RegexPattern
<1>2. \A ci \in BOOLEAN, scope \in Scopes :
         WordGroup(R, ci, scope) \subseteq Words
  <2>1. \A r \in R : r.type = "word" => r \in WordRow
    BY DEF AnyRow, WordRow, RegexRow
  <2> QED
    BY <2>1, SpellingForms DEF WordGroup
<1>3. WordPatterns(R) \subseteq Pattern
  BY <1>2 DEF WordPatterns, Pattern, WordPattern
<1> QED
  BY <1>1, <1>3 DEF compilePatterns

(* The rows of active targets are rows.                                    *)
LEMMA ActiveRowsAreRows == TypeOK => ActiveRows \in SUBSET AnyRow
  BY RowsAssumption DEF TypeOK, ActiveRows, Active, AnyRow

(* With no match on its way the types hold.                                *)
LEMMA AttributionInit == Init => TypeOK
  BY DEF Init, TypeOK

(* Targets, patterns and a match in flight keep their types.               *)
LEMMA AttributionStep == TypeOK /\ [Next]_vars => TypeOK'
<1> SUFFICES ASSUME TypeOK, [Next]_vars
             PROVE  TypeOK'
  OBVIOUS
<1>1. ASSUME NEW t \in Ids, SaveTarget(t) \/ DeleteTarget(t)
      PROVE  TypeOK'
  BY <1>1 DEF SaveTarget, DeleteTarget, TypeOK
<1>2. CASE Fetch
  BY <1>2, ActiveRowsAreRows, CompiledForms DEF Fetch, TypeOK
<1>3. CASE Hit
  <2>1. PICK key \in Keys, p \in patterns :
          /\ PartsHit(p, key) # {}
          /\ match' = [stage |-> "found", key |-> key, pattern |-> p,
                       parts |-> PartsHit(p, key)]
    BY <1>3 DEF Hit
  <2>2. p \in Pattern /\ p.scope \in Scopes
    BY DEF TypeOK, Pattern, RegexPattern, WordPattern
  <2>3. PartsHit(p, key) \in Scopes
    BY <2>1, <2>2 DEF PartsHit, Scopes
  <2> QED
    BY <1>3, <2>1, <2>2, <2>3 DEF Hit, TypeOK
<1>4. CASE AttributeMatch \/ QueryFails
  <2>1. match \in [stage : {"found"}, key : Keys, pattern : Pattern,
                   parts : Scopes]
    BY <1>4 DEF AttributeMatch, QueryFails, TypeOK, NoMatch
  <2>2. \A t \in Takers(match) : t \in Ids /\ targets[t] \in Rows
    BY DEF Takers, Active, TypeOK
  <2> QED
    BY <1>4, <2>1, <2>2 DEF AttributeMatch, QueryFails, File, TypeOK
<1>5. CASE ReportFails \/ UNCHANGED vars
  BY <1>5 DEF ReportFails, vars, TypeOK
<1> QED
  BY <1>1, <1>2, <1>3, <1>4, <1>5 DEF Next

(* Every variable keeps its type: no pattern is without words, and no match*)
(* is reported without a part.                                             *)
THEOREM AttributionTypes == Spec => []TypeOK
  BY AttributionInit, AttributionStep, PTL DEF Spec

-----------------------------------------------------------------------------
(* For any targets, the patterns a client gets accept exactly what some    *)
(* active target wants.                                                    *)
THEOREM WantedIsTested == Spec => []CompiledAsWanted
<1>1. TypeOK => CompiledAsWanted
  <2> SUFFICES ASSUME TypeOK, NEW key \in Keys, NEW q \in Parts
               PROVE  (\E p \in compilePatterns(ActiveRows) :
                          q \in PartsHit(p, key))
                        <=> \E t \in Active : /\ q \in targets[t].scope
                                              /\ Wants(targets[t], key[q])
    BY DEF CompiledAsWanted
  <2>1. key[q] \in Text
    BY KeysAssumption
  <2>2. (\E p \in compilePatterns(ActiveRows) :
            q \in p.scope /\ Accepts(p, key[q]))
          <=> \E r \in ActiveRows : q \in r.scope /\ Wants(r, key[q])
    BY <2>1, ActiveRowsAreRows, Compiled
  <2> QED
    BY <2>2 DEF PartsHit, ActiveRows
<1> QED
  BY <1>1, AttributionInit, AttributionStep, PTL DEF Spec

(* A match in flight reports the parts in which its pattern accepts its    *)
(* key, and the row that took a match that is filed is kept with it.       *)
MatchIsTrue ==
    /\ match.stage = "found"
          => match.parts = PartsHit(match.pattern, match.key)
    /\ Attributed => match.row \in Rows /\ Takes(match.row, match)

MInv == TypeOK /\ MatchIsTrue

(* No match is on its way at first.                                        *)
LEMMA MatchInit == Init => MInv
  BY AttributionInit DEF Init, MInv, MatchIsTrue, NoMatch, Attributed

(* A match in flight keeps the parts its pattern accepted, and the row     *)
(* that took it.                                                           *)
LEMMA MatchStep == MInv /\ [Next]_vars => MInv'
<1> SUFFICES ASSUME MInv, [Next]_vars
             PROVE  MatchIsTrue'
  BY AttributionStep DEF MInv
<1>1. CASE UNCHANGED match
  BY <1>1 DEF MInv, MatchIsTrue, Attributed
<1>2. CASE Hit
  BY <1>2 DEF Hit, MatchIsTrue, Attributed
<1>3. CASE AttributeMatch \/ QueryFails
  <2>1. ASSUME NEW t \in Takers(match), File(t, targets[t])
        PROVE  MatchIsTrue'
    <3>1. targets[t] \in Rows /\ Takes(targets[t], match)
      BY <2>1 DEF Takers, Active, MInv, TypeOK
    <3>2. /\ match'.stage = "filed" /\ match'.row = targets[t]
          /\ match'.key = match.key /\ match'.parts = match.parts
      BY <2>1 DEF File
    <3>3. Takes(match'.row, match')
      BY <3>1, <3>2 DEF Takes
    <3> QED
      BY <3>1, <3>2, <3>3 DEF MatchIsTrue, Attributed
  <2>2. ASSUME File(Unattributed, NoTarget)
        PROVE  MatchIsTrue'
    BY <2>2 DEF File, MatchIsTrue, Attributed
  <2> QED
    BY <1>3, <2>1, <2>2 DEF AttributeMatch, QueryFails
<1>4. CASE ReportFails
  BY <1>4 DEF ReportFails, NoMatch, MatchIsTrue, Attributed
<1> QED
  BY <1>1, <1>2, <1>3, <1>4
  DEF Next, SaveTarget, DeleteTarget, Fetch, vars

(* A match for a pattern that is still current finds a target, whatever    *)
(* happened to the targets since the client fetched it.                    *)
THEOREM HitsAreAttributed == Spec => []HitsFindTheirTarget
<1>1. MInv => HitsFindTheirTarget
  <2> SUFFICES ASSUME MInv, match.stage = "found",
                      match.pattern \in compilePatterns(ActiveRows)
               PROVE  Takers(match) # {}
    BY DEF HitsFindTheirTarget
  <2> DEFINE p == match.pattern
             key == match.key
  <2>1. /\ key \in Keys /\ match.parts \in Scopes
        /\ match.parts = PartsHit(p, key)
    BY DEF MInv, TypeOK, MatchIsTrue, NoMatch
  <2>2. PICK q \in match.parts : q \in Parts
    BY <2>1 DEF Scopes
  <2>3. q \in p.scope /\ Accepts(p, key[q]) /\ key[q] \in Text
    BY <2>1, <2>2, KeysAssumption DEF PartsHit
  <2>4. PICK r \in ActiveRows : q \in r.scope /\ Wants(r, key[q])
    BY <2>2, <2>3, ActiveRowsAreRows, Compiled DEF MInv
  <2>5. PICK t \in Active : r = targets[t]
    BY DEF ActiveRows
  <2>6. Takes(r, match)
    BY <2>2, <2>3, <2>4, ActiveRowsAreRows, WantedIsTaken DEF MInv
  <2> QED
    BY <2>5, <2>6 DEF Takers
<1> QED
  BY <1>1, MatchInit, MatchStep, PTL DEF Spec

(* Where words show up only at the end of a text, the target that gets a   *)
(* match wants it.                                                         *)
THEOREM FiledRight == Spec => []FiledWhereWanted
<1>1. MInv => FiledWhereWanted
  <2> SUFFICES ASSUME MInv, Attributed,
                      \A q \in match.parts : match.key[q].inside = {}
               PROVE  OwnPatternAccepts
    BY DEF FiledWhereWanted
  <2>1. match.key \in Keys /\ match.parts \in Scopes
    BY DEF MInv, TypeOK, NoMatch, Attributed
  <2>2. \A q \in match.parts : q \in Parts /\ match.key[q] \in Text
    BY <2>1, KeysAssumption DEF Scopes
  <2>3. match.row \in AnyRow /\ Takes(match.row, match)
    BY RowsAssumption DEF MInv, MatchIsTrue, AnyRow
  <2>4. PICK q \in match.row.scope \cap match.parts :
               Wants(match.row, match.key[q])
    BY <2>2, <2>3, TakenIsWanted
  <2>5. PICK p \in compilePatterns({match.row}) :
               q \in p.scope /\ Accepts(p, match.key[q])
    BY <2>2, <2>3, <2>4, Compiled
  <2> QED
    BY <2>4, <2>5 DEF OwnPatternAccepts, PartsHit
<1> QED
  BY <1>1, MatchInit, MatchStep, PTL DEF Spec
=============================================================================
