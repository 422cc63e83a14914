-------------------------- MODULE MCServingHarness --------------------------
(* A small instance of ServingHarness for TLC.                             *)
EXTENDS ServingHarness

CONSTANTS a

TheWarmups == <<<<a, a, a>>, <<a>>>>
TheWorkload == <<<<a, a, a>>, <<a>>, <<a, a, a, a>>, <<a, a>>>>
ThePrompts == Range(TheWarmups) \union Range(TheWorkload)

\* As in MCEngine: what the engine can tell of a page, and no K/V.
PageLook(p) ==
    <<ref_count[p],
      [s \in Seqs |-> IF p \in Range(block_table[s]) THEN LogicalBlock(block_table[s], p) ELSE 0],
      block_hash[p], block_tokens[p], computed_tokens[p], IsIndexed(p)>>

View ==
    <<[look \in {PageLook(p) : p \in Pages} |-> Cardinality({p \in Pages : PageLook(p) = look})],
      token_ids, prompt_len, reqVars, work, num_tokens, query, queueVars, stepVars,
      driverVars, telemetryVars>>

=============================================================================
