\* The await of updateEvidenceExtraction lets a decision in: what was posted is overwritten.
CONSTANTS
    Keys = {supplier}
    Values = {x}
    Missing = missing
    Edits = {edit}
    NoEdit = noEdit
    Requests = {r1, r2}
    Hashes = {h}
    NoHash = noHash
    SieIds = {s1, s2}
    EnforceBlockedReason = TRUE
    MaxEvidence = 2
    MaxPackets = 3
    MaxEvents = 11
SPECIFICATION MCSpec
SYMMETRY MCSymmetry
INVARIANT DecidedSuggestionIsPosted
