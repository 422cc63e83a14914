------------------------------ MODULE HFRunner ------------------------------
(***************************************************************************)
(* Requests on the Hugging Face reference backend: engine/model_runner.py  *)
(* and spec_decode/*.py.                                                   *)
(*                                                                         *)
(* The backend reserves pages in the BlockManager for admission control,   *)
(* but its K/V is in a cache object that each request has to itself.  It   *)
(* is scheduled and post-processed as PagedRunner describes; kv and query, *)
(* which belong to the paged backend, stay as they are.  A cache holds the *)
(* tokens it was fed, in order: the model's prediction depends on nothing  *)
(* but them.  The forward passes of a batch run one after the other, and   *)
(* one of them is one action here.                                         *)
(***************************************************************************)
EXTENDS PagedRunner

CONSTANTS
    Greedy,         \* requests with temperature 0
    StopStrings,    \* requests with stop strings
    Terminals,      \* stop_token_ids and, unless ignored, the eos_token_id
    MinNgram,       \* NGramProposer.min_ngram
    MaxNgram,       \* NGramProposer.max_ngram
    Models,         \* the models that may be loaded
    Argmax(_, _)    \* the arg max of a model's logits after a text

ASSUME KindsAssumption == Greedy \subseteq Seqs /\ StopStrings \subseteq Seqs
ASSUME TerminalsAssumption == Terminals \in [Seqs -> SUBSET Tokens]
ASSUME NgramAssumption == MinNgram \in Nat \ {0} /\ MaxNgram \in Nat

VARIABLES
    model,      \* ModelRunner.model
    kv_cache    \* Sequence._kv_cache, as the tokens it covers; None is <<>>

hfVars == <<vars, model, kv_cache>>

HFInit ==
    /\ Init
    /\ model \in Models
    /\ kv_cache = [s \in Seqs |-> <<>>]

-----------------------------------------------------------------------------
(* NGramProposer and GreedyVerifier.                                       *)

\* Mutant: the last occurrence of a suffix is not tried.
Occurrences_Early(text, n) ==
    {i \in 0 .. Len(text) - n - 2 :
        SubSeq(text, i + 1, i + n) = SubSeq(text, Len(text) - n + 1, Len(text))}

\* Where the last n tokens of the text occur before its end.
Occurrences(text, n) ==
    {i \in 0 .. Len(text) - n - 1 :
        SubSeq(text, i + 1, i + n) = SubSeq(text, Len(text) - n + 1, Len(text))}

\* The tokens that followed the latest occurrence of the longest suffix that
\* has one.
propose(text, max_tokens) ==
    LET Sizes == {n \in MinNgram .. Min({MaxNgram, Len(text) - 1}) :
                        Occurrences(text, n) # {}}
        size == Max(Sizes)
        start == Max(Occurrences(text, size)) + size
    IN  IF Sizes = {} THEN <<>>
        ELSE SubSeq(text, start + 1, Min({Len(text), start + max_tokens}))

\* Mutant: the drafts are accepted wherever they match, not up to a mismatch.
Accepted_Any(drafts, predicted) ==
    Max({k \in 0 .. Len(drafts) : k = 0 \/ drafts[k] = predicted[k]})

\* GreedyVerifier.verify: the number of drafts before the first mismatch.
Accepted(drafts, predicted) ==
    Max({k \in 0 .. Len(drafts) : \A i \in 1 .. k : drafts[i] = predicted[i]})

\* The tokens up to the first one that ends the request.
UptoTerminal(s, tokens) ==
    LET Ends == {i \in DOMAIN tokens : tokens[i] \in Terminals[s]}
    IN  IF Ends = {} THEN tokens ELSE SubSeq(tokens, 1, Min(Ends))

-----------------------------------------------------------------------------
(* The model.                                                              *)

last_token(s) == token_ids[s][Len(token_ids[s])]

\* The tokens that Sampler may pick after a text.
Samples(s, text) == IF s \in Greedy THEN {Argmax(model, text)} ELSE Tokens

\* What a runner's item leaves alone.  Nothing is ever marked computed.
Ran(s) ==
    /\ work' = [work EXCEPT ![s] = "done"]
    /\ UNCHANGED <<poolVars, computed_tokens, hash_to_block_id, block_table,
                   reqVars, num_tokens, query, kv, model>>

\* run_prefill: one chunk of the prompt, and the first output token after the
\* last one.
RunPrefill(s) ==
    LET end == Min({num_computed[s] + num_tokens[s], prompt_len[s]})
        cache == kv_cache[s] \o SubSeq(token_ids[s], num_computed[s] + 1, end)
    IN  /\ work[s] = "scheduled" /\ IsPrefilling(s)
        /\ kv_cache' = [kv_cache EXCEPT ![s] = cache]
        /\ IF end >= prompt_len[s]
           THEN \E token \in Samples(s, cache) : append_and_record(s, <<token>>)
           ELSE UNCHANGED <<token_ids, prompt_len, block_tokens, block_hash>>
        /\ Ran(s)

\* Mutant: drafts may fill all the rest of the output.
DraftsFor_All(s) ==
    LET remaining == MaxTokens - num_generated(s)
    IN  IF remaining <= 1 \/ kv_cache[s] = <<>> \/ s \in StopStrings \/ s \notin Greedy
        THEN <<>>
        ELSE propose(token_ids[s], Min({MaxDraft, remaining}))

\* The drafts of SpecDecodeManager.step, none where it falls back to run_decode.
DraftsFor(s) ==
    LET remaining == MaxTokens - num_generated(s)
    IN  IF remaining <= 1 \/ kv_cache[s] = <<>> \/ s \in StopStrings \/ s \notin Greedy
        THEN <<>>
        ELSE propose(token_ids[s], Min({MaxDraft, remaining - 1}))

\* run_decode: one forward over the last token.  Without a cache the model sees
\* that token only, and keeps nothing.
RunDecode(s) ==
    /\ work[s] = "scheduled" /\ ~ IsPrefilling(s)
    /\ DraftsFor(s) = <<>>
    /\ \E token \in Samples(s, Append(kv_cache[s], last_token(s))) :
            append_and_record(s, <<token>>)
    /\ kv_cache' = IF kv_cache[s] = <<>> THEN kv_cache
                   ELSE [kv_cache EXCEPT ![s] = Append(@, last_token(s))]
    /\ Ran(s)

\* Mutant: the token that was fed before the drafts is not counted.
KeepLength_Short(old, emitted) == old + emitted - 1

\* _crop_cache: what is kept of a cache of old tokens, extended by a burst of
\* which so many tokens are emitted.
KeepLength(old, emitted) == old + emitted

\* SpecDecodeManager.step with a proposal.  The emitted tokens are the accepted
\* drafts and the model's own next token, a correction or a bonus, cut behind a
\* terminal one; cropping twice keeps the shorter length.
RunSpeculative(s) ==
    LET drafts == DraftsFor(s)
        output == kv_cache[s] \o <<last_token(s)>> \o drafts
        old == Len(kv_cache[s])
        predicted == [i \in 1 .. Len(drafts) + 1 |->
                        Argmax(model, SubSeq(output, 1, old + i))]
        accepted == Accepted(drafts, predicted)
        emitted == UptoTerminal(s, SubSeq(drafts, 1, accepted)
                                        \o <<predicted[accepted + 1]>>)
    IN  /\ work[s] = "scheduled" /\ ~ IsPrefilling(s)
        /\ drafts # <<>>
        /\ append_and_record(s, emitted)
        /\ kv_cache' = [kv_cache EXCEPT ![s] =
                            SubSeq(output, 1, KeepLength(old, Len(emitted)))]
        /\ Ran(s)

-----------------------------------------------------------------------------

\* Mutant: a burst gets a slot for its first token only.
HFLookahead_One(s) == 1

\* _decode_lookahead
HFLookahead(s) ==
    IF MaxDraft > 0 /\ s \in Greedy \ StopStrings
    THEN Min({1 + MaxDraft, Max({1, MaxTokens - num_generated(s)})})
    ELSE 1

\* _finish_reason.  A stop string may turn up in the text of any request that
\* has one.
Finishes(s, stop_matched) ==
    /\ num_generated(s) > 0
    /\ \/ stop_matched /\ s \in StopStrings
       \/ last_token(s) \in Terminals[s]
       \/ num_generated(s) >= MaxTokens

HFPostprocess(s, finish) ==
    /\ \E stop_matched \in BOOLEAN : finish = Finishes(s, stop_matched)
    /\ Postprocess(s, finish)

\* The end of a request takes its cache along.
DropCache(s) == kv_cache' = [kv_cache EXCEPT ![s] = <<>>]

KeepCache == UNCHANGED kv_cache

HFNext ==
    \E s \in Seqs :
        \/ RunPrefill(s)
        \/ RunDecode(s)
        \/ RunSpeculative(s)
        \/ /\ \/ AddRequest(s)
              \/ \E chunk \in 0 .. prompt_len[s] : Admit(s, chunk)
              \/ \E chunk \in 1 .. prompt_len[s] : SchedulePrefill(s, chunk)
              \/ ScheduleDecode(s, HFLookahead(s))
              \/ HFPostprocess(s, FALSE)
              \/ Forget(s)
           /\ KeepCache /\ UNCHANGED model
        \/ /\ HFPostprocess(s, TRUE) \/ Abort(s) \/ Fail(s, FALSE)
           /\ DropCache(s) /\ UNCHANGED model

HFSpec == HFInit /\ [][HFNext]_hfVars

-----------------------------------------------------------------------------
(* Properties.                                                             *)

\* The type invariant of the backend; no output exceeds its limit.
HFTypeOK ==
    /\ TypeOK
    /\ model \in Models
    /\ kv_cache \in [Seqs -> Seq(Tokens)]
    /\ \A s \in Seqs : num_generated(s) \in 0 .. MaxTokens

\* "The cache contains every sequence token except the final emitted token"
\* (spec_decode/manager.py:102), and while a prompt is in chunks the part of it
\* that has run: whatever was drafted, rejected and cropped, the next forward
\* continues the request's own text.  A request without pages has no cache, and
\* no prefix is ever taken for cached that this backend has not run.
CacheBehindText ==
    \A s \in Seqs :
        LET ran == IF work[s] = "done" THEN num_tokens[s] ELSE 0
        IN  IF status[s] = "ACTIVE" /\ block_table[s] # <<>>
            THEN kv_cache[s] = SubSeq(token_ids[s], 1,
                                      IF num_generated(s) > 0
                                      THEN Len(token_ids[s]) - 1
                                      ELSE num_computed[s] + ran)
            ELSE kv_cache[s] = <<>>

\* The proposer misses no repetition: whenever the last MinNgram tokens have
\* occurred before, a burst is drafted that continues an occurrence of the
\* longest repeated suffix.
RepeatsAreDrafted ==
    \A s \in Seqs :
        LET text == token_ids[s]
            Ending(n) == SubSeq(text, Len(text) - n + 1, Len(text))
            Followed(n, i) == i + n < Len(text) /\ SubSeq(text, i + 1, i + n) = Ending(n)
            draft == propose(text, 1)
        IN  \A n \in MinNgram .. MaxNgram : \A i \in 0 .. Len(text) :
                Followed(n, i) =>
                    \E m \in n .. MaxNgram : \E j \in 0 .. Len(text) :
                        Followed(m, j) /\ draft = <<text[j + m + 1]>>

\* The runner finds prompt tokens to run and reserved slots, unshared and in
\* order, for every token that it emits.  It is never asked for a token beyond
\* the limit of a request, of which step() would return no last one.
HFNeverRaises ==
    \A s \in Seqs :
        /\ ~ DeallocateRaises(s)
        /\ work[s] = "scheduled" =>
            IF IsPrefilling(s)
            THEN /\ num_tokens[s] > 0
                 /\ num_tokens[s] = uncomputed_tokens(s) => ~ RecordRaises(s, 1)
            ELSE /\ num_generated(s) < MaxTokens
                 /\ ~ RecordRaises(s, Len(DraftsFor(s)) + 1)

Decode == INSTANCE GreedyDecode WITH text <- token_ids

\* Chunks, caches and speculation are invisible: a greedy request gets the
\* tokens that the model predicts one after the other, and no request gets a
\* token behind a terminal one or beyond its limit.
ImplementsGreedyDecode == Decode!Spec

=============================================================================
