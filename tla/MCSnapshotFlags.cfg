\* What the public snapshot says about the refresh of a book.
CONSTANTS
    Books = {b1}
    Threads = {t1, t2}
    MaxOps = 3
SPECIFICATION RefreshSpec
INVARIANTS
    SnapshotFlagsAreTrue
