\* A change that is announced to a live stream and not shown.
CONSTANTS
    Tabs      = {"dashboard", "targets", "matches"}
    Kinds     = {"targets", "matches"}
    Slots     = {s1, s2}
    QueueSize = 2
SPECIFICATION Spec
INVARIANTS UpdatesStream
