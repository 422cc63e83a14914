CONSTANTS
    c1 = c1
    c2 = c2
    c3 = c3
    c4 = c4
    r1 = r1
    r2 = r2
    r3 = r3
    r4 = r4
    x = x
    y = y
    z = z
    NoOne = NoOne
    Clients = {c1, c2, c4}
    Streams = {c1}
    Monitors = {c4}
    Requests = {r1, r2, r3}
    Owner <- Pair
    MaxText <- TwoEach
    MaxChunks <- OneButLast
    Glyphs = {x, y}
    Texts <- Rewritten
    Rewrites = TRUE
    StopLength = 1
SPECIFICATION FairSpec
INVARIANTS
    TypeOK
    NoOrphans
    KnownWhileServed
PROPERTIES
    StepExclusive
    StreamInOrder
    HandlersEnd
