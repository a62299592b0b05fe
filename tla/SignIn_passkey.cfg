SPECIFICATION Spec
CONSTANTS
    User = {u1}
    Browser = {b1, b2}
    MaxSessions = 3
    MaxSecrets = 2
    MaxChallenges = 1
    PasskeyOver = TRUE
    None = None
    Ended = Ended
    Scene = {{"logout", "endOthers", "keyOptions", "saveKey", "removeKey"}}
INVARIANT SignedInAs
CHECK_DEADLOCK FALSE
