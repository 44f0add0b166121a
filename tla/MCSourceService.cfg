CONSTANTS
    Threads = {t1, t2}
    Urls = {"a", "b", "c"}
    Names <- MCNames
    Feeds <- MCFeeds
    Stored <- MCStored
    Temp = "temp"
    Workloads <- MCWorkloads
    Concurrency = 2
    Searchers = 2
    Outcomes = {"good", "invalid"}
    Requested <- MCRequested
    Keywords = {k1, k2}
    PoolMax = 1
    MaxBooks = 2
    Budget = 5
    Timeout = 3
    MinTimeout = 1
    ExcellentMs = 2
    GoodMs = 2
    PoorMs = 3
    Durations = {0, 1, 3, 9}
    RuleWork = {1}
    Separators = {"&&", "||"}
    Rules <- MCRules
    IndexLists <- MCIndexLists
    Sizes = {1, 3}
    Appliers = {a1, a2}
    Contents = {"a", "b"}
    Phrases <- MCPhrases
    Length <- MCLength
    Jobs <- MCJobs
    Finds <- MCFinds
    RuleCapacity = 2
    RegexCapacity = 1
    CssPages <- MCCssPages
    CssSelectors <- MCCssSelectors
    StepPages <- MCStepPages
    Paths <- MCXPaths
    SoupRules <- MCSoupRules
    JsonValues <- MCJsonValues
    JsonRules <- MCJsonRules
    Seekers = {w1, w2}
    Origins = {"n1", "n2", "n3"}
    Links = {"u", "v", "w"}
    Offers <- MCOffers
SPECIFICATION ServiceSpec
INVARIANTS
    ServiceTypeOK
    SelectionInRange
    LockedRequestsLeaveNoTrace
    FetchedFromRequested
    ListMatchesTable
    ReportsAreTrue
    CandidatesAreTold
    StreamIsTrue
    GradesAreTrue
    RulesAreFollowed
PROPERTIES
    ServiceEnds
CHECK_DEADLOCK FALSE
