CONSTANTS
    Threads = {t1}
    Urls = {"a", "b", "c"}
    Names <- MCNames
    Feeds <- MCFeeds
    Stored <- MCStored
    Temp = "temp"
    Workloads <- MCLongSession
    Concurrency = 1
    Searchers = 1
    Outcomes = {"good", "invalid"}
    Requested <- MCRequested
    Keywords = {k1}
    PoolMax = 1
    MaxBooks = 2
    Budget = 5
    Timeout = 3
    MinTimeout = 1
    ExcellentMs = 2
    GoodMs = 2
    PoorMs = 3
    Durations = {0, 1, 9}
    RuleWork = {1}
    Separators = {"&&", "||"}
    Rules = {}
    IndexLists = {}
    Sizes = {1, 3}
    Appliers = {a1, a2}
    Contents = {"a", "b"}
    Phrases <- MCPhrases
    Length <- MCLength
    Jobs = {}
    Finds <- MCFinds
    RuleCapacity = 2
    RegexCapacity = 1
    CssPages = {}
    CssSelectors = {}
    StepPages = {}
    Paths = {}
    SoupRules = {}
    JsonValues <- MCJsonValues
    JsonRules = {}
    Seekers = {w1}
    Origins = {}
    Links = {}
    Offers = {}
SPECIFICATION ServiceSpec
INVARIANT SelectionStaysInRange
CHECK_DEADLOCK FALSE
