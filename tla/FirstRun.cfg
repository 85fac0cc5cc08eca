SPECIFICATION Spec
CHECK_DEADLOCK FALSE
CONSTANTS
    None = None
    Texts = {None, ann}
    Names = {ann, ren}
    FirstName = ann
    Signature = bohan
    Types = {beef, hot}
    MaxLaunches = 3
    MaxPlaces = 1
INVARIANTS
    TypeOK
    ConfigurationKept
    MemoryMatchesFile
    TagsDistinct
