\* Uploads, composes, refreshes and decisions, with lock-free regenerations of suggestions.
CONSTANTS
    Keys = {supplier}
    Values = {x}
    Missing = missing
    Edits = {edit}
    NoEdit = noEdit
    Requests = {r1, r2}
    Outsiders = {}
    Hashes = {h}
    NoHash = noHash
    SieIds = {}
    EnforceBlockedReason = TRUE
    MaxEvidence = 2
    MaxPackets = 4
    MaxOutside = 0
    MaxEvents = 14
SPECIFICATION Spec
SYMMETRY MCSymmetry
INVARIANTS
    TypeOK RowsFollowLog ApprovedFieldsComplete VouchersAreDistinct
