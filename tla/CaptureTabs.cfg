\* Two tabs share IndexedDB and the server.
CONSTANTS
    Tabs = {t1, t2}
    Contents = {f}
    NoFile = noFile
    HashAvailable = TRUE
    Storages = {"indexeddb"}
    MaxDrafts = 2
    MaxEvidence = 2
    MaxReloads = 1
SPECIFICATION Spec
SYMMETRY MCSymmetry
INVARIANTS
    PersistentDraftKept ProcessedOnce
