SPECIFICATION Spec
CONSTANTS
    Sessions = {s1}
    Ghosts = {}
    Gaps <- MCGaps
    Lates = {FALSE}
    Runs = {r1, r2}
    MaxEvents = 3
    MaxDeaths = 1
    None = None
INVARIANTS
    TypeOK
    NothingBehindWatermark
    OneRowPerKey
    SessionCountsExact
CHECK_DEADLOCK FALSE
