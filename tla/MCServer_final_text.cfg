CONSTANTS
    c1 = c1
    c2 = c2
    c3 = c3
    c4 = c4
    r1 = r1
    r2 = r2
    r3 = r3
    r4 = r4
    x = x
    y = y
    z = z
    NoOne = NoOne
    Clients = {c1, c3}
    Streams = {c1, c3}
    Monitors = {}
    Requests = {r1, r4}
    Owner <- TwoStreams
    MaxText <- TwoEach
    MaxChunks <- NoChunks
    Glyphs = {x, y, z}
    Texts <- Growing
    Rewrites = FALSE
    StopLength = 0
SPECIFICATION Spec
PROPERTIES
    StreamsOutput
