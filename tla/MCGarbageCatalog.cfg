\* What checkBookUpdate does with a blank catalog.
CONSTANTS
    Books = {b1}
    WebThreads = {t1}
    Worker = w
    blank = blank
    first = first
    second = second
    Blank = blank
    Titles <- MCTitles
    Catalogs <- MCCatalogs
    Few = 3
    MaxOps = 4
SPECIFICATION Spec
PROPERTY
    GoodCatalogKept
