\* A word inside the text of a match.
CONSTANTS
    Ids          = {t1, t2}
    Rows         <- MCRows
    Words        <- MCWords
    Fold         <- MCFold
    Cap          <- MCCap
    Regexes      <- MCRegexes
    Keys         <- MCKeys
    NoTarget     = NoTarget
    Unattributed = Unattributed
SPECIFICATION Spec
INVARIANTS MatchBelongs
