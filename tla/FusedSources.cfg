SPECIFICATION CasesSpec
CONSTANTS
    None = None
    Letter <- MCLetters
    Continua = {"kanji", "kana"}
    Katakana = {"kana"}
    Small <- MCSmall
    KeywordStop = {}
    Lower <- MCLower
    Code <- MCCode
    Idf <- MCIdf
    Hash <- MCHash
    Relational <- MCRelational
    ExpansionStop = {}
    KindText <- MCKindText
    Rounds = 2
    Gain <- MCGain
    Decay <- MCDecay
    Number <- MCNumbers
    Date <- MCDates
    Alphabet <- MCAlphabet
    Forbidden <- MCForbidden
    Thresholds <- MCThresholds
INVARIANT SourcesSurvive
CHECK_DEADLOCK FALSE
