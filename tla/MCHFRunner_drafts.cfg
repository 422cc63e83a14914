CONSTANTS
    s1 = s1
    s2 = s2
    p1 = p1
    p2 = p2
    p3 = p3
    a = a
    b = b
    e = e
    Seqs = {s1, s2}
    Pages = {p1, p2, p3}
    Tokens = {a, b, e}
    BlockSize = 3
    EnablePrefixCaching = TRUE
    Prompts <- RepeatingPrompts
    MaxTokens = 4
    MaxDraft = 2
    Greedy = {s1, s2}
    StopStrings = {s2}
    Terminals <- EndsWithE
    MinNgram = 2
    MaxNgram = 3
    Models <- MarkovModels
    Argmax <- Predict
SPECIFICATION HFSpec
SYMMETRY Symmetry
VIEW View
INVARIANTS
    HFTypeOK
    CacheBehindText
    RepeatsAreDrafted
    HFNeverRaises
PROPERTIES
    ImplementsGreedyDecode
