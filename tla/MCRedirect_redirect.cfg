CONSTANTS
    one = one
    Tab = {one}
    MayOpen <- OauthPart
    Entry <- OauthEntry
    MaxEntries <- ThreeFields
    FromEnv = {}
    MaxSaves <- OneSave
SPECIFICATION Spec
CHECK_DEADLOCK FALSE
INVARIANTS KeepsStarting
