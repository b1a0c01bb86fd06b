\* suggestVoucher writes a suggestion computed before a refresh committed.
CONSTANTS
    Keys = {supplier}
    Values = {x}
    Missing = missing
    Edits = {edit}
    NoEdit = noEdit
    Requests = {r1, r2}
    Outsiders = {}
    Hashes = {h}
    NoHash = noHash
    SieIds = {}
    EnforceBlockedReason = TRUE
    MaxEvidence = 1
    MaxPackets = 2
    MaxOutside = 0
    MaxEvents = 14
SPECIFICATION Spec
SYMMETRY MCSymmetry
INVARIANT OpenSuggestionIsLogged
