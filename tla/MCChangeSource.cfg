\* changeBookSource disturbed by a refresh on the same connection.
CONSTANTS
    Books = {b1, b2}
    WebThreads = {t1}
    Worker = w
    blank = blank
    first = first
    second = second
    Blank = blank
    Titles <- MCTitles
    Catalogs <- MCCatalogs
    Few = 3
    MaxOps = 4
SPECIFICATION Spec
INVARIANT
    CopyBeforeErase
