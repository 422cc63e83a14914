CONSTANTS
    s1 = s1
    s2 = s2
    p1 = p1
    p2 = p2
    p3 = p3
    p4 = p4
    a = a
    Tokens = {a}
    Seqs = {s1, s2}
    Pages = {p1, p2, p3, p4}
    BlockSize = 2
    EnablePrefixCaching = TRUE
    Prompts <- ThePrompts
    MaxTokens = 3
    MaxDraft = 1
    MaxNumSeqs = 2
    MaxBatchedTokens = 3
    MaxPrefillChunk = 2
    EnableChunkedPrefill = TRUE
    DecodePriority = TRUE
    Greedy = {s1, s2}
    WithStops = {}
    Warmups <- TheWarmups
    Workload <- TheWorkload
    MaxConcurrency = 2
CHECK_DEADLOCK FALSE
VIEW View
SPECIFICATION HarnessSpec
INVARIANTS
    RecordsExact
    MetricsExact
PROPERTIES
    HarnessEnds
