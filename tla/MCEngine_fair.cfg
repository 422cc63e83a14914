CONSTANTS
    s1 = s1
    s2 = s2
    s3 = s3
    p1 = p1
    p2 = p2
    a = a
    Tokens = {a}
    Seqs = {s1, s2, s3}
    Pages = {p1, p2}
    BlockSize = 2
    EnablePrefixCaching = FALSE
    Prompts <- UpToTwo
    MaxTokens = 2
    MaxDraft = 0
    MaxNumSeqs = 2
    MaxBatchedTokens = 2
    MaxPrefillChunk = 1
    EnableChunkedPrefill = TRUE
    DecodePriority = TRUE
    Greedy = {}
    WithStops = {}
VIEW View
SPECIFICATION FairEngineSpec
PROPERTIES
    AdmittedPromptRuns
    RunningFinishes
    Termination
