SPECIFICATION Spec
CONSTANTS
    a = a
    b = b
    Absent = Absent
    Nodes = {a, b}
    Captures = {c1, c2}
    Readers = {r1}
    Contents <- SmallContents
INVARIANTS NeverHalfACatalog FailureLeavesNothing PublishedReadsAreWhole
PROPERTY ImplementsSnapshotCatalog
CHECK_DEADLOCK FALSE
