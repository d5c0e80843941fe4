\* Deleting the seed, a regex of -t, then a restart.
CONSTANTS
    Requests     = {r1, r2}
    TargetIds    = {t1, t2}
    bad = bad
    good = good
    Specs        <- MCSpecs
    ValidSpecs   <- MCValidSpecs
    SeedSpecs    <- MCRegexSeed
    NoTarget     = NoTarget
    NoMatch      = NoMatch
    Unattributed = Unattributed
SPECIFICATION Spec
PROPERTIES SeedsOnFirstRunOnly
