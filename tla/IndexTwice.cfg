SPECIFICATION Spec
CONSTANTS
    r1 = r1  r2 = r2  x1 = x1  x2 = x2  g1 = g1  g2 = g2
    NoDoc = NoDoc
    NoProc = NoProc
    Run = {}
    Index = {x1, x2}
    Gc = {}
    DocId = {1, 2, 3, 4}
    Text <- Texts
    Summary <- Cut
    Existing <- Empty
    Records <- RunRecords
    Passages <- SameFile
    NodeText = "cut"
    MinConfidence <- NoMinimum
    Consolidating = {}
    Dated = {}
    Damaged = {}
INVARIANTS NoSecondCopy
