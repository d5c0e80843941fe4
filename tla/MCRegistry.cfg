\* Two requests of any kind against one server.
CONSTANTS
    Requests     = {r1, r2}
    TargetIds    = {t1, t2, t3}
    bad = bad
    good = good
    Specs        <- MCSpecs
    ValidSpecs   <- MCValidSpecs
    SeedSpecs    <- MCWordSeeds
    NoTarget     = NoTarget
    NoMatch      = NoMatch
    Unattributed = Unattributed
SPECIFICATION Spec
INVARIANTS TypeOK DeleteFinal AcknowledgedKept SeedsNeverDoubled
PROPERTIES StoredMatchNeverOrphaned RequestsAreAtomic
