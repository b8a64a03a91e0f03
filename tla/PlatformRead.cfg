CONSTANTS
    AllowedNames = {"docker-compose.yml", "docker-compose.odd.yml", "link.md", "elsewhere.md"}
    Entities = {"a", "b"}
    FileNames = {"docker-compose.yml", "docker-compose.odd.yml"}
    ComposeNames = {"docker-compose.yml", "docker-compose.odd.yml"}
    ReadmeNames = {"link.md"}
    OddNames = {"docker-compose.odd.yml"}
    Contents = {"one", "big", "cut"}
    Services <- MCServices
    Big = "big"
    Cut = "cut"
    Trees <- MCTrees
    LinkSets <- MCLinkSets
    Guards <- MCGuards
    Calls <- MCCalls
    MaxChanges = 2
    MaxCalls = 2
SPECIFICATION Spec
INVARIANTS
    DirtyMarks
    CountsAreTotals
    ListsWhatIsThere
    NothingUnseenIsLost
    DivergenceOfTheHead
    FlagsSayWhatGlobsMean
\* The calls are bounded.
CHECK_DEADLOCK FALSE
