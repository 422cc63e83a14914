CONSTANTS
    s1 = s1
    s2 = s2
    p1 = p1
    p2 = p2
    p3 = p3
    a = a
    b = b
    Seqs = {s1, s2}
    Pages = {p1, p2, p3}
    Tokens = {a, b}
    BlockSize = 2
    EnablePrefixCaching = TRUE
    Prompts <- SharedPrompts
    MaxTokens = 1
    MaxDraft = 0
    NumLayers = 2
    BlockN = 2
    MinContext = 1
    MaxScore = 1
    NoPage = NoPage
SPECIFICATION Spec
SYMMETRY Symmetry
INVARIANTS
    PoolConsistent
    PagesReturned
    AdmissionExact
    ForwardReadsValid
    BatchedForwardExact
PROPERTIES
    ValidSlotsImmutable
    ImplementsPrivateCache
