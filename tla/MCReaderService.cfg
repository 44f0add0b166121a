CONSTANTS
    Readers = {r1, r2}
    Chapters = {"a", "b", "c", "d", "x"}
    Catalogs <- MCCatalogs
    RebuildAt = 1
    Few = 2
    Workers = 2
    Sessions <- MCSessions
    Feeds = {"f"}
    Clients = {"c1", "c2"}
    Raters = {g1}
    Channels <- MCChannels
    Items <- MCItems
    FeedPages <- MCFeedPages
    Pages <- MCPages
    MaxRequests = 3
    Outings <- MCOutings
    Urls = {"p1", "p2", "p3"}
    ChapterIds = {"a", "b", "c", "d"}
    Sites <- MCSites
    MaxNext = 2
    MaxApi = 2
    MaxText = 2
    MaxAsked = 6
    Books = {"b1", "b2"}
    Found = 2
    Parallel = 2
    Grades = 2
    Visits <- MCVisits
SPECIFICATION ReaderSpec
INVARIANTS
    ReaderTypeOK
    TextOfItsChapter
    DownloadsAreTrue
    FeedRowsAgree
    ArticlesReachReaders
    PagesAreWhole
    ScreensAreTrue
PROPERTIES
    DownloadIsOver
CHECK_DEADLOCK FALSE
