\* Three tabs, two tables, two refreshes at a time; with fairness.
CONSTANTS
    Tabs      = {"dashboard", "targets", "matches"}
    Kinds     = {"targets", "matches"}
    Slots     = {s1, s2}
    QueueSize = 2
SPECIFICATION FairSpec
INVARIANTS TypeOK RestIsCurrent
PROPERTIES ViewConverges
