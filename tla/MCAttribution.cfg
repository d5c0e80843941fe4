\* Two targets, eight rows, five keys.
CONSTANTS
    Ids          = {t1, t2}
    Rows         <- MCRows
    Words        <- MCWords
    Fold         <- MCFold
    Cap          <- MCCap
    Regexes      <- MCRegexes
    Keys         <- MCKeys
    NoTarget     = NoTarget
    Unattributed = Unattributed
SPECIFICATION Spec
INVARIANTS TypeOK CompiledAsWanted HitsFindTheirTarget FiledWhereWanted
