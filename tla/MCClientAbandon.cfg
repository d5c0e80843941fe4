\* An interrupt while a hit is on its way.
CONSTANTS
    Seekers      = {s1}
    a = a
    bad = bad
    fp = fp
    both = both
    Regexes      <- MCRegexes
    BadRegexes   <- MCBadRegexes
    Scopes       <- MCScopes
    PatternLists <- MCTwoPatterns
    MaxKeys      = 1
    NoHit        = NoHit
SPECIFICATION Spec
INVARIANTS AllHitsReported
