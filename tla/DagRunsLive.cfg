SPECIFICATION FairSpec
CONSTANTS
    Sessions = {s1, s2}
    Ghosts = {s2}
    Gaps = {2}
    Lates = {TRUE}
    Runs = {r1, r2}
    MaxEvents = 2
    MaxDeaths = 1
    None = None
PROPERTY SessionsCatchUp
CHECK_DEADLOCK FALSE
