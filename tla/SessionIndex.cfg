SPECIFICATION MCSpec
CONSTANTS
    r1 = r1  r2 = r2  x1 = x1  x2 = x2  g1 = g1  g2 = g2
    NoDoc = NoDoc
    NoProc = NoProc
    Run = {}
    Index = {x1, x2}
    Gc = {}
    DocId = {1, 2, 3, 4, 5, 6}
    Text <- Texts
    Summary <- Cut
    Existing <- IndexedBefore
    Records <- RunRecords
    Passages <- ShrinkingFile
    NodeText = "cut"
    MinConfidence <- NoMinimum
    Consolidating = {}
    Dated = {}
    Damaged = {1}
    None = None
    Line <- Lines
    Request <- Requests
    Fault <- Faults
    Path <- Paths
    Root <- MCRoot
    PathOf <- Directory
    Content <- Files
    Concept <- Concepts2
    Number <- Numbers
    Ratio = {"0", "1"}
    Date = {"2026-01-01"}
    Query <- Queries
    Dangling = {"[9]"}
    Definition <- Workflows
    Plan <- MCPlan
    Chunks <- MCChunks
    Shorten <- MCShorten
    MaxCommands = 4
INVARIANT SerialReindexIsExact
VIEW AnswersApart
PROPERTY CommandsKeepTheirWord
