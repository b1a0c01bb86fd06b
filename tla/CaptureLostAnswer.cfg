\* A retry after a lost answer.
CONSTANTS
    Tabs = {t1}
    Contents = {f}
    NoFile = noFile
    HashAvailable = TRUE
    Storages = {"indexeddb"}
    MaxDrafts = 1
    MaxEvidence = 1
    MaxReloads = 0
SPECIFICATION Spec
INVARIANTS DuplicateWasExtracted
