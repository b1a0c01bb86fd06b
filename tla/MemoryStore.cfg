\* Two requests interleave at the await of updateEvidenceExtraction; a file is
\* uploaded again between composes and refreshes.
CONSTANTS
    Keys = {supplier}
    Values = {x}
    Missing = missing
    Edits = {edit}
    NoEdit = noEdit
    Requests = {r1, r2}
    Hashes = {h}
    NoHash = noHash
    SieIds = {s1}
    EnforceBlockedReason = TRUE
    MaxEvidence = 3
    MaxPackets = 4
    MaxEvents = 16
SPECIFICATION MCSpec
SYMMETRY MCSymmetry
INVARIANTS
    TypeOK PostedOnce RowsFollowLog StoredOnce NoBlockedApproval
PROPERTIES
    ImplementsPostingBook
