\* One browser and two Spaces; everything may fail.
SPECIFICATION FairSpec
CONSTANTS
    Spaces = {s1, s2}
    Instances = {browser}
    Nobody = Nobody
    Faults = {"save", "journal", "read", "remove", "load"}
INVARIANTS
    Consistent
    DeletionRemembered
    CleanedIsGone
PROPERTIES
    UncommittedKeepsData
    DeletionCompletes
