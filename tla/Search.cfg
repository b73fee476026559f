SPECIFICATION SearchSpec
CONSTANTS
    NoEntry = NoEntry
    Nobody = Nobody
    Run = {r1}
    Search = {t1, t2}
    Query = {q1, q2}
    Capacity = 1
    Client = {c1, c2, c3}
    MaxConcurrent = 1
    MaxBytes = 4
    None = None
    Letter <- MCLetters
    Continua = {"kanji", "kana"}
    Katakana = {"kana"}
    Small <- MCSmall
    KeywordStop = {}
    Lower <- MCLower
    Code <- MCCode
    Idf <- MCIdf
    Hash <- MCHash
    Relational <- MCRelational
    ExpansionStop = {}
    KindText <- MCKindText
    Rounds = 2
    Gain <- MCGain
    Decay <- MCDecay
    Number <- MCNumbers
    Date <- MCDates
    Alphabet <- MCAlphabet
    Forbidden <- MCForbidden
    Thresholds <- MCThresholds
INVARIANTS MissedRunsOverlap LruConsistent SlotsReturned NoSilentDrop
INVARIANTS TextIsKept GraphSearchIsExact QueriesAreSound SearchIsSound RoundTrips JudgementsAreRight
PROPERTIES PeersCannotStall
