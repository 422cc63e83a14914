----------------------------- MODULE MCHFRunner -----------------------------
(* Small instances of HFRunner for TLC.                                    *)
EXTENDS HFRunner, TLC

CONSTANTS a, b, e

\* The first prompt lets a request come to speculate near its limit, and in the
\* second one a terminal token follows a bigram that comes again, as in chats.
RepeatingPrompts == {<<e, a, b>>, <<a, a, e, a>>}

\* All models whose prediction depends on the last token and on whether its
\* position is odd: right and wrong drafts come in every order, and a context of
\* the wrong length is noticed.  Behind e they predict a.
MarkovModels == [{a, b} \X {0, 1} -> Tokens]
Predict(m, text) ==
    LET last == text[Len(text)]
    IN  IF last = e THEN a ELSE m[<<last, Len(text) % 2>>]

EndsWithE == [s \in Seqs |-> {e}]

\* Pages are interchangeable.
Symmetry == Permutations(Pages)

\* What a free page held before matters only to prefixes found in the index.
Remembered == IF hash_to_block_id = <<>> THEN used_block_ids ELSE Pages
View == <<poolVars, hash_to_block_id, block_table, token_ids, prompt_len,
          [p \in Remembered |-> <<block_hash[p], block_tokens[p], computed_tokens[p]>>],
          reqVars, runVars, model, kv_cache>>

=============================================================================
