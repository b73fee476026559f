SPECIFICATION Spec
CONSTANTS
    r1 = r1  r2 = r2  x1 = x1  x2 = x2  g1 = g1  g2 = g2
    NoDoc = NoDoc
    NoProc = NoProc
    Run = {r1, r2}
    Index = {}
    Gc = {g1, g2}
    DocId = {1, 2, 3}
    Text <- Texts
    Summary <- Cut
    Existing <- RecordedBefore
    Records <- RunRecords
    Passages <- SameFile
    NodeText = "cut"
    MinConfidence <- Minimum
    Consolidating = {g1}
    Dated = {g2}
    Damaged = {}
INVARIANTS GcKeepsRecords RecencyFollowsRuns
SYMMETRY Recorders
