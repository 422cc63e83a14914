CONSTANTS
    s1 = s1
    s2 = s2
    p1 = p1
    p2 = p2
    p3 = p3
    a = a
    b = b
    Seqs = {s1, s2}
    Pages = {p1, p2, p3}
    Tokens = {a, b}
    BlockSize = 1
    EnablePrefixCaching = TRUE
    Prompts <- ChainPrompts
    MaxTokens = 1
    MaxDraft = 0
SPECIFICATION Spec
SYMMETRY Symmetry
INVARIANTS
    TypeOK
    IndexSound
    NoForeignKV
