\* A POST of a match and a DELETE of its target.
CONSTANTS
    Requests     = {r1, r2}
    TargetIds    = {t1, t2}
    bad = bad
    good = good
    Specs        <- MCSpecs
    ValidSpecs   <- MCValidSpecs
    SeedSpecs    <- MCWordSeeds
    NoTarget     = NoTarget
    NoMatch      = NoMatch
    Unattributed = Unattributed
SPECIFICATION Spec
INVARIANTS NoOrphanMatch
