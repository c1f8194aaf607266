CONSTANTS
    NoKey = NoKey
    IntSpan = 1000000000
    Pieces <- MCPieces
    Letters = {"a", "b"}
    MaxPieces = 4
    MaxLetters = 3
SPECIFICATION DeskSpec
INVARIANTS
    MatcherIsReference
    QuotedRuleIsExact
    PreviewAgrees
    EffortKeepsMappings
CHECK_DEADLOCK FALSE
