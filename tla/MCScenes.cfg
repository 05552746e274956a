SPECIFICATION FairSpec
INVARIANTS
    LoneRunsAreIdempotent
PROPERTIES
    OncePerSwitchOff
    SwitchOffHandled
CONSTANTS
    r1 = r1
    r2 = r2
    mum = mum
    Runs = {r1, r2}
    People = {mum}
    Home = Home
    Planned = 1
    MaxRows = 1
