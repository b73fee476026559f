CONSTANTS
    low = low
    crit = crit
    dep = dep
    NaN = NaN
    Task = {low, crit, dep}
    AgingRate = 200
    Deps <- MCDeps
    Submissions <- MCSubmissions
    MaxPending = 3
    MaxClock = 11
SPECIFICATION Spec
INVARIANTS WaitIsBounded
PROPERTIES BoundedOvertaking NoneOnlyWhenNothingReady
