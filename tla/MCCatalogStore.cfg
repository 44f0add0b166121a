\* The catalog cache under one web thread and the refresh worker.
CONSTANTS
    Books = {b1, b2}
    WebThreads = {t1}
    Worker = w
    blank = blank
    first = first
    second = second
    Blank = blank
    Titles <- MCTitles
    Catalogs <- MCCatalogs
    Few = 3
    MaxOps = 4
SPECIFICATION Spec
INVARIANTS
    TypeOK
    NoTransactionLeftOpen
    WholeCatalogs
    UndisturbedCopyBeforeErase
