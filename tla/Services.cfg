SPECIFICATION Spec
CONSTANTS
    Fold <- MCFold
    Manifests <- MCManifests
    MaxAgents = 3
    Peer = {p1, p2}
    Cap = {"planning", "coding"}
    MaxMessages = 3
    MaxProviders = 2
    Field <- MCFields
    Key = key
    Window = 1
    MaxTime = 3
    MaxSealed = 2
    MaxVerified = 3
    Role = {"dev", "ops"}
    Permission <- MCPermissions
    Rule <- MCRules
    Identity <- MCIdentities
    Token = {"tok"}
    Tool <- MCTools
    RuntimeId = {"r1", "r2", "r3"}
    RuntimeKind = {"edge", "cpu"}
    RuntimeCap = {"planning", "coding"}
    MaxRules = 2
    None = None
    Lower <- MCLower
    EntityWord <- MCEntityWords
    StopWord = {}
    OrgSuffix = {}
    Cue <- MCCue
    Label <- MCLabels
    Kind = {"concept"}
    Confidences = {50}
    Text <- MCTexts
    Probe <- MCProbe
    Source = {"file"}
    Branch = {"main", "dev"}
    Edits <- MCEdits
    KindToken <- MCKindToken
    MaxNodes = 2
    MaxVersions = 3
    MaxEdges = 2
    MaxDocs = 2
    MaxPrunes = 1
    MAX_SUMMARIZED_NEIGHBOURS = 1
    LabelLess <- MCLabelLess
    MaxQueue = 2
INVARIANTS MergeIsUnion IndexFollowsBus ExtractionIsIdempotent LookupsAreExact
INVARIANTS NothingLostOrReordered TurnsAreEven AcceptedOnce 
PROPERTIES DecisionsAreMonotone
CHECK_DEADLOCK FALSE
