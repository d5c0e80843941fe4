\* Two seekers and two patterns: hits, counts and the buffer.
CONSTANTS
    Seekers      = {s1, s2}
    a = a
    bad = bad
    fp = fp
    both = both
    Regexes      <- MCRegexes
    BadRegexes   <- MCBadRegexes
    Scopes       <- MCScopes
    PatternLists <- MCTwoPatterns
    MaxKeys      = 2
    NoHit        = NoHit
SYMMETRY Symmetry
SPECIFICATION Spec
INVARIANTS TypeOK CountsAddUp HitsAccountedFor NoHitTwice
PROPERTIES KeepsLedger SeekersWindDown
