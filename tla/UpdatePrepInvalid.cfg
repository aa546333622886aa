SPECIFICATION PrepSpec
CONSTANTS
    Versions = {1, 2, 3}
    Invalid = {3}
    First = 2
    Elapsed = {1}
    Preparation = 40
    MaxDownload = 30
    MaxOffers = 1
    MaxTroubles = 0
INVARIANT ValidatedRuns
