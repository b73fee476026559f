SPECIFICATION Spec
CONSTANTS
    NoEntry = NoEntry
    Nobody = Nobody
    Run = {r1}
    Search = {t1, t2}
    Query = {q1, q2}
    Capacity = 1
INVARIANT NoStaleAnswer
