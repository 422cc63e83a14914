CONSTANTS
    s1 = s1
    s2 = s2
    s3 = s3
    p1 = p1
    p2 = p2
    p3 = p3
    p4 = p4
    a = a
    Tokens = {a}
    Seqs = {s1, s2, s3}
    Pages = {p1, p2, p3, p4}
    BlockSize = 2
    EnablePrefixCaching = FALSE
    Prompts <- OneOrThree
    MaxTokens = 3
    MaxDraft = 1
    MaxNumSeqs = 2
    MaxBatchedTokens = 3
    MaxPrefillChunk = 2
    EnableChunkedPrefill = TRUE
    DecodePriority = FALSE
    Greedy = {s1, s2}
    WithStops = {s2}
SYMMETRY Symmetry
VIEW View
SPECIFICATION EngineSpec
INVARIANTS
    EngineTypeOK
    QueuesExact
    BatchIsWork
    BatchWithinLimits
    TurnsLegal
