SPECIFICATION TrustSpec
CONSTANTS
    Scale = 10
    Scores = {0, 5, 10}
    NaN = NaN
    w_direct = 5
    w_indirect = 2
    w_history = 3
    DecayDown = 50
    DecayUp = 90
    Trim = 20
    MaxOthers = 5
INVARIANTS TrustWithinEvidence OneLiarIsTrimmed
PROPERTY SilenceCarriesHistory
