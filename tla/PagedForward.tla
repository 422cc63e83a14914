---------------------------- MODULE PagedForward ----------------------------
(***************************************************************************)
(* One forward pass of the paged transformer over a whole batch, layer by  *)
(* layer: the metadata that nanovllm_pp/paged/runner.py builds, the model  *)
(* of paged/model.py and the attention of paged/kernels.py.                *)
(*                                                                         *)
(* PagedRunner runs requests one at a time and gives each slot the text    *)
(* its vectors were computed from.  This module adds no state: for any     *)
(* batch that the runner could launch in the current state it computes     *)
(* what the batched forward stores and returns, and the properties say     *)
(* that this is what the requests would get one by one from a transformer  *)
(* that has no cache, no pages and no batch.                               *)
(*                                                                         *)
(* Arithmetic is abstracted to terms: a hidden state is the term of all    *)
(* that went into it, so two are equal only if they were computed alike.   *)
(***************************************************************************)
EXTENDS PagedRunner, SequencesExt

CONSTANTS
    NumLayers,   \* config.num_hidden_layers
    BlockN,      \* BLOCK_N, the tokens that the decode kernel takes at a time
    MinContext,  \* the smallest MAX_CONTEXT it is compiled for
    MaxScore,    \* attention scores are 0 .. MaxScore
    NoPage       \* -1, the padding of a block table's row

ASSUME NumLayersAssumption == NumLayers \in Nat \ {0}
ASSUME BlockNAssumption == BlockN \in Nat \ {0}
ASSUME MinContextAssumption == MinContext \in Nat \ {0}
ASSUME MaxScoreAssumption == MaxScore \in Nat
ASSUME NoPageAssumption == NoPage \notin Pages

\* What comes of a slot that holds no text's vectors.
NaN == [nan |-> TRUE]

ASSUME NaNAssumption == NaN \notin Tokens

Layers == 1 .. NumLayers
Slots == Pages \X (0 .. BlockSize - 1)

-----------------------------------------------------------------------------
(* The transformer on a text, without any cache.                           *)

\* k_proj, v_proj, k_norm and the rotary embedding of a position.
KeyValue(position, hidden) ==
    IF hidden = NaN THEN NaN ELSE [position |-> position, hidden |-> hidden]

\* Attention over a set of keys and values, the residuals and the MLP.
DecoderLayer(position, hidden, attended) ==
    IF NaN \in attended \union {hidden} THEN NaN
    ELSE [position |-> position, residual |-> hidden, attended |-> attended]

\* The hidden state behind layer l at the last token of a text.
Hidden[l \in 0 .. NumLayers] ==
    [text \in Seq(Tokens) |->
        IF l = 0 THEN Last(text)
        ELSE DecoderLayer(Len(text) - 1, Hidden[l - 1][text],
                          {KeyValue(n - 1, Hidden[l - 1][SubSeq(text, 1, n)]) :
                              n \in 1 .. Len(text)})]

\* Layer l's part of a slot, given the text that the slot stands for.
Stored(l, text) ==
    IF text = Garbage THEN NaN ELSE KeyValue(Len(text) - 1, Hidden[l - 1][text])

-----------------------------------------------------------------------------
(* _metadata: the tensors of a batch of work items [seq, start, tokens].   *)

End(item) == item.start + Len(item.tokens)

MaximumPages(items) == Max({required_blocks(End(items[i])) : i \in DOMAIN items})

\* Mutant: the tokens of a chunk count their positions from its own start.
Positions_FromZero(item) == [j \in DOMAIN item.tokens |-> j - 1]

Positions(item) == [j \in DOMAIN item.tokens |-> item.start + j - 1]

SlotMapping(item) ==
    [j \in DOMAIN item.tokens |->
        LET pos == item.start + j - 1
        IN  <<physical_block_id(item.seq, pos), Offset(pos)>>]

\* query_start_loc: where each request's tokens end in the flattened batch.
QueryStarts(items) ==
    [i \in 0 .. Len(items) |->
        SumFunctionOnSet([j \in DOMAIN items |-> Len(items[j].tokens)], 1 .. i)]

\* A block table, padded to the longest one of the batch.
Row(table, width) ==
    [b \in 0 .. width - 1 |-> IF b < Len(table) THEN table[b + 1] ELSE NoPage]

\* Per token its id, position and slot; per request the end of its tokens in the
\* flattened batch, its context length, and its padded block table.
Metadata(items) ==
    [input_ids |-> FlattenSeq([i \in DOMAIN items |-> items[i].tokens]),
     positions |-> FlattenSeq([i \in DOMAIN items |-> Positions(items[i])]),
     slot_mapping |-> FlattenSeq([i \in DOMAIN items |-> SlotMapping(items[i])]),
     query_starts |-> QueryStarts(items),
     context_lens |-> [i \in DOMAIN items |-> End(items[i])],
     block_tables |-> [i \in DOMAIN items |->
                          Row(block_table[items[i].seq], MaximumPages(items))]]

-----------------------------------------------------------------------------
(* Attention over the pages.  `cache` is one layer's slice of the pool.    *)

\* store_kv: scatter the new vectors to their slots.
store_kv(cache, slot_mapping, values) ==
    [slot \in Slots |->
        IF slot \in Range(slot_mapping)
        THEN values[Max({i \in DOMAIN slot_mapping : slot_mapping[i] = slot})]
        ELSE cache[slot]]

\* The key and value of a position, through a row of the block tables.
Load(cache, row, pos) ==
    LET page == pos \div BlockSize
    IN  IF page \in DOMAIN row /\ row[page] # NoPage
        THEN cache[<<row[page], Offset(pos)>>]
        ELSE NaN

\* Mutant: a token attends to those behind it in its chunk.
Attends_All(query_pos, key_pos) == TRUE

\* causal_mask
Attends(query_pos, key_pos) == key_pos <= query_pos

\* paged_prefill_attention: the request's whole context is gathered and masked.
\* A masked NaN is a NaN all the same: it is multiplied by zero.
PrefillAttention(cache, metadata, i) ==
    LET request == CHOOSE r \in DOMAIN metadata.context_lens :
                       i \in metadata.query_starts[r - 1] + 1 .. metadata.query_starts[r]
        context == 0 .. metadata.context_lens[request] - 1
        Gathered(pos) == Load(cache, metadata.block_tables[request], pos)
    IN  {Gathered(pos) : pos \in {k \in context : \/ Attends(metadata.positions[i], k)
                                                  \/ Gathered(k) = NaN}}

Pow2[n \in Nat] == IF n = 0 THEN 1 ELSE 2 * Pow2[n - 1]

\* triton.next_power_of_2
NextPowerOf2(n) == CHOOSE m \in {Pow2[k] : k \in 0 .. n} : m >= n /\ (m = 1 \/ m \div 2 < n)

\* Mutant: compiled for the context of the first request.
MaxContext_First(context_lens) == Max({MinContext, NextPowerOf2(context_lens[1])})

\* MAX_CONTEXT, for which the kernel is compiled.
MaxContext(context_lens) == Max({MinContext, NextPowerOf2(Max(Range(context_lens)))})

TokenMask(offset, context_length) == offset < context_length

\* Mutant: what has been accumulated is not rescaled to the new maximum.
Correction_None(x, running_max, next_max) == x

\* x * exp(running_max - next_max); the first running maximum, -inf, is -1.
Correction(x, running_max, next_max) ==
    IF running_max < 0 THEN 0 ELSE x \div Pow2[next_max - running_max]

\* One turn of the kernel's loop, over the BlockN offsets from `first`: `weight`
\* is the share that each offset has of the accumulator, and `sum` their sum.
\* Weights are powers of two, scaled by 2^MaxScore to be integers.
SoftmaxChunk(run, first, context_length, score) ==
    LET offsets == first .. first + BlockN - 1
        live == {k \in offsets : TokenMask(k, context_length)}
        next_max == Max({run.max} \union {score[k] : k \in live})
        probability == [k \in offsets |->
            IF k \in live THEN Pow2[MaxScore + score[k] - next_max] ELSE 0]
    IN  [max |-> next_max,
         sum |-> Correction(run.sum, run.max, next_max) + SumFunction(probability),
         weight |-> [k \in DOMAIN run.weight \union offsets |->
             IF k \in offsets THEN probability[k]
             ELSE Correction(run.weight[k], run.max, next_max)]]

\* _paged_decode_kernel: the online softmax of one row.
OnlineSoftmax(context_length, max_context, score) ==
    LET chunks == (max_context + BlockN - 1) \div BlockN
        after[c \in 0 .. chunks] ==
            IF c = 0 THEN [max |-> -1, sum |-> 0, weight |-> <<>>]
            ELSE SoftmaxChunk(after[c - 1], (c - 1) * BlockN, context_length, score)
    IN  after[chunks]

\* paged_decode_attention: row i attends to the offsets with a weight.
DecodeAttention(cache, metadata, i) ==
    LET softmax == OnlineSoftmax(metadata.context_lens[i], MaxContext(metadata.context_lens),
                                 [k \in Nat |-> 0])
    IN  {Load(cache, metadata.block_tables[i], k) :
            k \in {j \in DOMAIN softmax.weight : softmax.weight[j] > 0}}

\* paged_decode_attention_reference: a softmax over the whole context at once.
ReferenceSoftmax(score) ==
    LET weight == [k \in DOMAIN score |-> Pow2[score[k]]]
    IN  [weight |-> weight, sum |-> SumFunction(weight)]

-----------------------------------------------------------------------------
(* The model.                                                              *)

\* Qwen3Attention: what the i-th token attends to.
Attention(cache, metadata, is_decode, i) ==
    IF is_decode THEN DecodeAttention(cache, metadata, i)
                 ELSE PrefillAttention(cache, metadata, i)

\* Qwen3DecoderLayer: the hidden states of the flattened tokens, and the pool
\* [layer, page, offset], behind one more layer.
LayerForward(l, run, metadata, is_decode) ==
    LET stored == store_kv(run.kv_cache[l], metadata.slot_mapping,
                           [i \in DOMAIN run.hidden |->
                               KeyValue(metadata.positions[i], run.hidden[i])])
    IN  [hidden |-> [i \in DOMAIN run.hidden |->
                        DecoderLayer(metadata.positions[i], run.hidden[i],
                                     Attention(stored, metadata, is_decode, i))],
         kv_cache |-> [run.kv_cache EXCEPT ![l] = stored]]

\* Qwen3Model.forward, through all layers.
Qwen3Model(metadata, is_decode, kv_cache) ==
    LET behind[l \in 0 .. NumLayers] ==
            IF l = 0 THEN [hidden |-> metadata.input_ids, kv_cache |-> kv_cache]
            ELSE LayerForward(l, behind[l - 1], metadata, is_decode)
    IN  behind[NumLayers]

\* _forward: the logits, one row per index, and the pool as it leaves it.
BatchForward(items, is_decode, logit_indices) ==
    LET out == Qwen3Model(Metadata(items), is_decode,
                          [l \in Layers |-> [slot \in Slots |-> Stored(l, kv[slot[1]][slot[2]])]])
    IN  [logits |-> [row \in DOMAIN logit_indices |-> out.hidden[logit_indices[row] + 1]],
         kv_cache |-> out.kv_cache]

-----------------------------------------------------------------------------
(* The batches that the runner launches.                                   *)

\* run_prefill_batch
PrefillItem(s) ==
    [seq |-> s, start |-> Start(s),
     tokens |-> SubSeq(token_ids[s], Start(s) + 1, Min({Start(s) + num_tokens[s], prompt_len[s]}))]

PrefillLogits(items) == [i \in DOMAIN items |-> Metadata(items).query_starts[i] - 1]

\* _run_decode_sequences and verify_tokens: the last token, and drafts behind it.
DecodeItem(s, drafts) ==
    [seq |-> s, start |-> Start(s), tokens |-> <<token_ids[s][Start(s) + 1]>> \o drafts]

Scheduled == {s \in Seqs : work[s] = "scheduled"}

\* The batches of one kind: some of the requests it may take, in any order.
Batches(S) == SetToAllKPermutations(S) \ {<<>>}
PrefillItems(batch) == [i \in DOMAIN batch |-> PrefillItem(batch[i])]
DecodeItems(batch) == [i \in DOMAIN batch |-> DecodeItem(batch[i], <<>>)]

-----------------------------------------------------------------------------
(* Properties.                                                             *)

\* The request's text up to and with the j-th token of a work item.
TextOf(item, j) == SubSeq(token_ids[item.seq], 1, item.start) \o SubSeq(item.tokens, 1, j)

\* The slots as PagedRunner's Forward leaves them, run for each item.
KvAfter(items) ==
    LET After(item) == Written(item.seq, item.start,
                               [j \in DOMAIN item.tokens |-> TextOf(item, j)])
    IN  [p \in Pages |-> [o \in 0 .. BlockSize - 1 |->
            LET Writers == {i \in DOMAIN items : <<p, o>> \in Range(SlotMapping(items[i]))}
            IN  IF Writers = {} THEN kv[p][o] ELSE After(items[CHOOSE i \in Writers : TRUE])[p][o]]]

\* A batch does for each request what the transformer does for its text alone:
\* the rows have the texts' logits, every layer's written slots have the texts'
\* vectors, and no other slot has changed.
ForwardExact(items, is_decode, logit_indices, texts) ==
    LET out == BatchForward(items, is_decode, logit_indices)
        after == KvAfter(items)
    IN  /\ out.logits = [row \in DOMAIN texts |-> Hidden[NumLayers][texts[row]]]
        /\ \A l \in Layers : \A slot \in Slots :
                out.kv_cache[l][slot] = Stored(l, after[slot[1]][slot[2]])

Prefills == {s \in Scheduled : IsPrefilling(s)}

\* Batched prefills and batched decodes: chunks at any offset behind cached
\* prefixes, rows of different lengths, in any company and any order.
BatchedForwardExact ==
    /\ \A batch \in Batches(Prefills) :
        LET items == PrefillItems(batch)
        IN  ForwardExact(items, FALSE, PrefillLogits(items),
                         [i \in DOMAIN items |-> TextOf(items[i], Len(items[i].tokens))])
    /\ \A batch \in Batches(Scheduled \ Prefills) :
        LET items == DecodeItems(batch)
        IN  ForwardExact(items, TRUE, [i \in DOMAIN items |-> i - 1],
                         [i \in DOMAIN items |-> TextOf(items[i], 1)])

\* The verification forward of speculative decoding: row j judges the j-th
\* draft by the text before it, whatever the drafts behind it are.
VerificationExact ==
    \A s \in Scheduled \ Prefills :
        \A drafts \in {d \in UNION {[1 .. n -> Tokens] : n \in 1 .. MaxDraft} :
                           Len(d) < num_tokens[s]} :
            LET item == DecodeItem(s, drafts)
            IN  ForwardExact(<<item>>, FALSE, [j \in DOMAIN item.tokens |-> j - 1],
                             [j \in DOMAIN item.tokens |-> TextOf(item, j)])

\* paged_decode_attention_reference: the kernel's online softmax over chunks
\* gives each position of a context, for any scores, the share that a softmax
\* over the whole context gives it, and nothing to any other offset, in
\* whatever batch the request decodes.
KernelAgreesWithReference ==
    \A batch \in Batches(Scheduled \ Prefills) :
        LET items == DecodeItems(batch)
            context_lens == [i \in DOMAIN items |-> End(items[i])]
            max_context == MaxContext(context_lens)
        IN  \A i \in DOMAIN items : \A score \in [0 .. context_lens[i] - 1 -> 0 .. MaxScore] :
                LET context == DOMAIN score
                    \* Other offsets score high: only the mask can keep them out.
                    Score(k) == IF k \in context THEN score[k] ELSE MaxScore
                    online == OnlineSoftmax(context_lens[i], max_context,
                                            [k \in 0 .. max_context + BlockN |-> Score(k)])
                    reference == ReferenceSoftmax(score)
                IN  /\ context \subseteq DOMAIN online.weight
                    /\ \A k \in DOMAIN online.weight :
                        online.weight[k] * reference.sum
                            = online.sum * IF k \in context THEN reference.weight[k] ELSE 0

=============================================================================
