------------------------------ MODULE MCEngine ------------------------------
(* Small instances of Engine for TLC.                                      *)
EXTENDS Engine, TLC

CONSTANTS a

\* The scheduler sees the length of a prompt and, with prefix caching, its blocks.
UpToTwo == {<<a>>, <<a, a>>}
ThreeOrFour == {<<a, a, a>>, <<a, a, a, a>>}
OneOrThree == {<<a>>, <<a, a, a>>}

\* Pages are interchangeable, and so are the requests of one kind.
Symmetry ==
    UNION {Permutations(Pages), Permutations(Seqs \ Greedy),
           Permutations(Greedy \ WithStops), Permutations(Greedy \intersect WithStops)}

\* What the engine can tell of a page: who holds it where, and with prefix caching
\* its metadata.  It never looks at the K/V.
Look(p) ==
    <<ref_count[p],
      [s \in Seqs |-> IF p \in Range(block_table[s]) THEN LogicalBlock(block_table[s], p) ELSE 0],
      IF EnablePrefixCaching
      THEN <<block_hash[p], block_tokens[p], computed_tokens[p], IsIndexed(p)>>
      ELSE <<>>>>

\* States that differ only in the names of pages, or in what nobody looks at,
\* have the same futures.  No property of the runs with a view names a page.
View ==
    <<[look \in {Look(p) : p \in Pages} |-> Cardinality({p \in Pages : Look(p) = look})],
      token_ids, prompt_len, reqVars, work, num_tokens, query, queueVars, stepVars>>

=============================================================================
