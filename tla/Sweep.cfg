CONSTANTS
    Size = 3
    Threshold = 2
    EarlyExitCount = 2
    Entropies = {0, 1, 4}
    MaxAdds = 6
    MaxTokens = 3
    MaxRecords = 4
SPECIFICATION SweepSpec
INVARIANTS
    AddDecidesByRule
    ReplayIsRouter
    ScoreDecidesReplay
    AUROCIsPairwise
    RateMatchedIsRouter
