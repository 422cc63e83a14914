CONSTANTS
    s1 = s1
    p1 = p1
    p2 = p2
    p3 = p3
    a = a
    Tokens = {a}
    Seqs = {s1}
    Pages = {p1, p2, p3}
    BlockSize = 2
    EnablePrefixCaching = FALSE
    Prompts <- UpToTwo
    MaxTokens = 4
    MaxDraft = 2
    MaxNumSeqs = 2
    MaxBatchedTokens = 2
    MaxPrefillChunk = 2
    EnableChunkedPrefill = FALSE
    DecodePriority = TRUE
    Greedy = {s1}
    WithStops = {}
SYMMETRY Symmetry
VIEW View
SPECIFICATION EngineSpec
PROPERTIES
    NoProgressIsGenuine
