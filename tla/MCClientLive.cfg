\* One seeker, changing patterns, three hits and a count for a buffer of two;
\* with fairness: no symmetry.
CONSTANTS
    Seekers      = {s1}
    a = a
    bad = bad
    fp = fp
    both = both
    Regexes      <- MCRegexes
    BadRegexes   <- MCBadRegexes
    Scopes       <- MCScopes
    PatternLists <- MCLists
    MaxKeys      = 1
    NoHit        = NoHit
SPECIFICATION FairSpec
PROPERTIES TestsCurrentPatterns PatternsConverge ShutdownCompletes HitsArrive
