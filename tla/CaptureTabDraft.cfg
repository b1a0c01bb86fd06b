\* A draft of the tab over a reload.
CONSTANTS
    Tabs = {t1}
    Contents = {f}
    NoFile = noFile
    HashAvailable = TRUE
    Storages = {"indexeddb", "session", "memory"}
    MaxDrafts = 2
    MaxEvidence = 2
    MaxReloads = 1
SPECIFICATION Spec
INVARIANTS TabDraftKept
