SPECIFICATION Spec
INVARIANTS
    BedtimeOnce
CONSTANTS
    r1 = r1
    r2 = r2
    mum = mum
    Runs = {r1}
    People = {mum}
    Home = Home
    Planned = 2
    MaxRows = 0
