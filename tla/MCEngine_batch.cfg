CONSTANTS
    s1 = s1
    s2 = s2
    p1 = p1
    p2 = p2
    p3 = p3
    a = a
    Tokens = {a}
    Seqs = {s1, s2}
    Pages = {p1, p2, p3}
    BlockSize = 3
    EnablePrefixCaching = TRUE
    Prompts <- ThreeOrFour
    MaxTokens = 2
    MaxDraft = 0
    MaxNumSeqs = 2
    MaxBatchedTokens = 4
    MaxPrefillChunk = 4
    EnableChunkedPrefill = FALSE
    DecodePriority = TRUE
    Greedy = {}
    WithStops = {}
VIEW View
SPECIFICATION FairEngineSpec
INVARIANTS
    QueuesExact
PROPERTIES
    NoProgressIsGenuine
    Termination
