\* Two composes, one request at a time, leave evidence without a voucher.
CONSTANTS
    Keys = {supplier}
    Values = {x}
    Missing = missing
    Edits = {edit}
    NoEdit = noEdit
    Requests = {r}
    Outsiders = {}
    Hashes = {h}
    NoHash = noHash
    SieIds = {}
    EnforceBlockedReason = TRUE
    MaxEvidence = 2
    MaxPackets = 4
    MaxOutside = 0
    MaxEvents = 14
SPECIFICATION Spec
INVARIANT ContextAgreesWithSnapshot
