\* The chain under two appenders and a writer that bypasses the advisory lock.
CONSTANTS
    Keys = {supplier}
    Values = {x}
    Missing = missing
    Edits = {}
    NoEdit = noEdit
    Requests = {r1, r2}
    Outsiders = {w}
    Hashes = {h}
    NoHash = noHash
    SieIds = {s}
    EnforceBlockedReason = TRUE
    MaxEvidence = 1
    MaxPackets = 2
    MaxOutside = 2
    MaxEvents = 12
SPECIFICATION FairSpec
INVARIANTS
    ChainLinear ConflictNeedsTwoOutsiders
PROPERTIES
    RetriedOnce EveryRequestEnds ImplementsPostingBook
