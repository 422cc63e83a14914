----------------------------- MODULE PagedRunner -----------------------------
(***************************************************************************)
(* The life of requests on the paged backend: nanovllm_pp/paged/runner.py  *)
(* and paged/spec_decode.py over the BlockManager, with the physical K/V   *)
(* pages they write.                                                       *)
(*                                                                         *)
(* A request is admitted, scheduled, run through the model and             *)
(* post-processed; a model error or a cancellation ends it early.  The     *)
(* scheduler's policy is left open here: any request may be picked for any *)
(* legal piece of work, in any interleaving.  Engine composes these actions *)
(* with the scheduler's queues and budgets.                                *)
(*                                                                         *)
(* The K/V vectors of a token depend on every token before it.  A slot of  *)
(* kv therefore holds the whole text its vectors were computed from, and   *)
(* Garbage (torch.empty, a half-finished or a misread forward) if they     *)
(* belong to no text.                                                      *)
(***************************************************************************)
EXTENDS BlockManager

CONSTANTS
    Prompts,      \* tokenized prompts that clients send
    MaxTokens,    \* SamplingParams.max_tokens
    MaxDraft      \* max_spec_tokens, 0 without speculative decoding

ASSUME PromptsAssumption == Prompts \subseteq Seq(Tokens) \ {<<>>}
ASSUME MaxTokensAssumption == MaxTokens \in Nat \ {0}
ASSUME MaxDraftAssumption == MaxDraft \in Nat

VARIABLES
    status,         \* NEW: no such request; ACTIVE: WAITING or RUNNING; FINISHED
    num_computed,   \* Sequence.num_computed_tokens
    work,           \* where the request's ScheduledItem is in the step
    num_tokens,     \* ScheduledItem.num_tokens
    query,          \* tokens of the forward pass in flight
    kv              \* the physical pages, kv_cache

reqVars == <<status, num_computed>>
runVars == <<work, num_tokens, query, kv>>
vars == <<bmVars, reqVars, runVars>>

Garbage == <<>>

Init ==
    /\ BlockManagerInit
    /\ status = [s \in Seqs |-> "NEW"]
    /\ num_computed = [s \in Seqs |-> 0]
    /\ work = [s \in Seqs |-> "idle"]
    /\ num_tokens = [s \in Seqs |-> 0]
    /\ query = [s \in Seqs |-> <<>>]
    /\ kv = [p \in Pages |-> [o \in 0 .. BlockSize - 1 |-> Garbage]]

uncomputed_tokens(s) == prompt_len[s] - num_computed[s]
num_generated(s) == Len(token_ids[s]) - prompt_len[s]
IsPrefilling(s) == uncomputed_tokens(s) > 0

\* Mutant: a prefill starts from the beginning of a prompt with a cached prefix.
Start_Prompt(s) == IF IsPrefilling(s) THEN 0 ELSE Len(token_ids[s]) - 1

\* The first position the request's scheduled forward runs on.
Start(s) == IF IsPrefilling(s) THEN num_computed[s] ELSE Len(token_ids[s]) - 1

-----------------------------------------------------------------------------
(* Arrival and scheduling.                                                 *)

\* add_request: a Sequence for a non-empty prompt.
AddRequest(s) ==
    /\ status[s] = "NEW"
    /\ \E prompt \in Prompts :
        /\ token_ids' = [token_ids EXCEPT ![s] = prompt]
        /\ prompt_len' = [prompt_len EXCEPT ![s] = Len(prompt)]
    /\ status' = [status EXCEPT ![s] = "ACTIVE"]
    /\ num_computed' = [num_computed EXCEPT ![s] = 0]
    /\ UNCHANGED <<poolVars, metaVars, block_table, runVars>>

Schedule(s, n) ==
    /\ work' = [work EXCEPT ![s] = "scheduled"]
    /\ num_tokens' = [num_tokens EXCEPT ![s] = n]
    /\ UNCHANGED <<query, kv>>

\* Admission allocates the pages of the whole prompt and of the first output
\* token.  The chunk that runs in this step may be empty: the chunked scheduler
\* can run out of request slots after it has allocated.
Admit(s, chunk) ==
    /\ status[s] = "ACTIVE" /\ work[s] = "idle"
    /\ allocate(s, 1)
    /\ chunk \in 0 .. prompt_len[s] - cached_prefix_tokens(s)
    /\ num_computed' = [num_computed EXCEPT ![s] = cached_prefix_tokens(s)]
    /\ IF chunk > 0 THEN Schedule(s, chunk) ELSE UNCHANGED runVars
    /\ UNCHANGED status

SchedulePrefill(s, chunk) ==
    /\ status[s] = "ACTIVE" /\ work[s] = "idle"
    /\ block_table[s] # <<>>
    /\ chunk \in 1 .. uncomputed_tokens(s)
    /\ Schedule(s, chunk)
    /\ UNCHANGED <<bmVars, reqVars>>

\* _decode_lookahead: one token, or a speculative burst (greedy requests
\* without stop strings).
Lookaheads(s) ==
    {1, Min({1 + MaxDraft, Max({1, MaxTokens - num_generated(s)})})}

ScheduleDecode(s, lookahead) ==
    /\ status[s] = "ACTIVE" /\ work[s] = "idle"
    /\ num_generated(s) > 0
    /\ lookahead \in Lookaheads(s)
    /\ may_append(s, lookahead)
    /\ Schedule(s, lookahead)
    /\ UNCHANGED reqVars

-----------------------------------------------------------------------------
(* The model.                                                              *)

\* The forward pass reads back exactly this request's text before `start`.
ReadsOwnText(s, start) ==
    \A pos \in 0 .. start - 1 :
        kv[physical_block_id(s, pos)][Offset(pos)] = SubSeq(token_ids[s], 1, pos + 1)

\* store_kv through slot_mapping: the i-th value goes to position start + i - 1.
Written(s, start, values) ==
    [p \in Pages |-> [o \in 0 .. BlockSize - 1 |->
        LET Hits == {i \in DOMAIN values : /\ physical_block_id(s, start + i - 1) = p
                                           /\ Offset(start + i - 1) = o}
        IN  IF Hits = {} THEN kv[p][o] ELSE values[Max(Hits)]]]

\* One model forward over the request's query: the prompt chunk, or the last
\* token and the drafts behind it.  Nothing is marked valid yet.
Forward(s, drafts) ==
    LET start == Start(s)
        tokens == IF IsPrefilling(s)
                  THEN SubSeq(token_ids[s], start + 1,
                              Min({start + num_tokens[s], prompt_len[s]}))
                  ELSE <<token_ids[s][start + 1]>> \o drafts
        values == [i \in 1 .. Len(tokens) |->
            IF ReadsOwnText(s, start)
            THEN SubSeq(token_ids[s], 1, start) \o SubSeq(tokens, 1, i)
            ELSE Garbage]
    IN  /\ work[s] = "scheduled"
        /\ IF IsPrefilling(s) THEN drafts = <<>> ELSE Len(drafts) < num_tokens[s]
        /\ kv' = Written(s, start, values)
        /\ query' = [query EXCEPT ![s] = tokens]
        /\ work' = [work EXCEPT ![s] = "forwarded"]
        /\ UNCHANGED <<bmVars, reqVars, num_tokens>>

Committed(s) ==
    /\ work' = [work EXCEPT ![s] = "done"]
    /\ query' = [query EXCEPT ![s] = <<>>]
    /\ UNCHANGED <<poolVars, block_table, reqVars, num_tokens, kv>>

\* The rows of run_prefill_batch and _run_decode_sequences: mark the written
\* range, then sample a token unless prompt tokens are left.
Commit(s) ==
    LET start == Start(s)
        n == Len(query[s])
    IN  /\ work[s] = "forwarded"
        /\ IsPrefilling(s) \/ n = 1
        /\ mark_computed(s, start, n, block_hash)
        /\ IF start + n >= prompt_len[s]
           THEN \E token \in Tokens : append_and_record(s, <<token>>)
           ELSE UNCHANGED <<token_ids, prompt_len, block_tokens, block_hash>>
        /\ Committed(s)

\* Mutant: the rejected drafts are marked with the accepted ones.
CommitSpeculative_MarkAll(s) ==
    LET drafts == Tail(query[s])
    IN  /\ work[s] = "forwarded"
        /\ ~ IsPrefilling(s) /\ Len(query[s]) > 1
        /\ \E accepted \in 0 .. Len(drafts), token \in Tokens :
            /\ append_and_record(s, SubSeq(drafts, 1, accepted) \o <<token>>)
            /\ mark_computed(s, Start(s), Len(query[s]), block_hash')
        /\ Committed(s)

\* PagedSpecDecodeManager.step after verify_tokens: the accepted drafts and one
\* token of the model's own, recorded before the range is marked.  A burst cut
\* at a terminal token ends in an accepted draft, which is the same set.
CommitSpeculative(s) ==
    LET drafts == Tail(query[s])
    IN  /\ work[s] = "forwarded"
        /\ ~ IsPrefilling(s) /\ Len(query[s]) > 1
        /\ \E accepted \in 0 .. Len(drafts), token \in Tokens :
            /\ append_and_record(s, SubSeq(drafts, 1, accepted) \o <<token>>)
            /\ mark_computed(s, Start(s), accepted + 1, block_hash')
        /\ Committed(s)

-----------------------------------------------------------------------------
(* The end of a step, and the end of a request.                            *)

ReleaseSlot(s) ==
    /\ work' = [work EXCEPT ![s] = "idle"]
    /\ num_tokens' = [num_tokens EXCEPT ![s] = 0]
    /\ query' = [query EXCEPT ![s] = <<>>]

\* Scheduler.postprocess for one item of a step that ran without error.
Postprocess(s, finish) ==
    LET computed == IF IsPrefilling(s) THEN num_computed[s] + num_tokens[s]
                                       ELSE num_computed[s]
    IN  /\ work[s] = "done"
        /\ finish => computed >= prompt_len[s]
        /\ num_generated(s) >= MaxTokens => finish
        /\ num_computed' = [num_computed EXCEPT ![s] = computed]
        /\ ReleaseSlot(s)
        /\ IF finish
           THEN /\ status' = [status EXCEPT ![s] = "FINISHED"]
                /\ deallocate(s)
           ELSE UNCHANGED <<status, poolVars, block_table>>
        /\ UNCHANGED <<metaVars, token_ids, prompt_len, kv>>

\* Mutant: a cancelled request keeps its pages.
Abort_Leak(s) ==
    /\ status[s] = "ACTIVE" /\ work[s] = "idle"
    /\ status' = [status EXCEPT ![s] = "FINISHED"]
    /\ UNCHANGED <<bmVars, num_computed, runVars>>

\* abort_request between steps.
Abort(s) ==
    /\ status[s] = "ACTIVE" /\ work[s] = "idle"
    /\ status' = [status EXCEPT ![s] = "FINISHED"]
    /\ deallocate(s)
    /\ UNCHANGED <<metaVars, token_ids, prompt_len, num_computed, runVars>>

\* The exception handler of LLMEngine.step for one request of the batch.  The
\* forward may have died half way: `torn` says it left its slots half written.
\* The request's pages leave the index, shared ones included.
Fail(s, torn) ==
    /\ work[s] # "idle"
    /\ torn => work[s] = "scheduled"
    /\ kv' = IF torn THEN Written(s, Start(s), [i \in 1 .. num_tokens[s] |-> Garbage]) ELSE kv
    /\ hash_to_block_id' = IndexWithout(Range(block_table[s]))
    /\ status' = [status EXCEPT ![s] = "FINISHED"]
    /\ deallocate(s)
    /\ ReleaseSlot(s)
    /\ UNCHANGED <<block_hash, block_tokens, computed_tokens, token_ids,
                   prompt_len, num_computed>>

\* forget_request: the Sequence object is dropped.
Forget(s) ==
    /\ status[s] = "FINISHED"
    /\ status' = [status EXCEPT ![s] = "NEW"]
    /\ token_ids' = [token_ids EXCEPT ![s] = <<>>]
    /\ prompt_len' = [prompt_len EXCEPT ![s] = 0]
    /\ num_computed' = [num_computed EXCEPT ![s] = 0]
    /\ UNCHANGED <<poolVars, metaVars, block_table, runVars>>

Drafts == UNION {[1 .. n -> Tokens] : n \in 0 .. MaxDraft}

Next ==
    \E s \in Seqs :
        \/ AddRequest(s)
        \/ \E chunk \in 0 .. prompt_len[s] : Admit(s, chunk)
        \/ \E chunk \in 1 .. prompt_len[s] : SchedulePrefill(s, chunk)
        \/ \E lookahead \in 1 .. 1 + MaxDraft : ScheduleDecode(s, lookahead)
        \/ \E drafts \in Drafts : Forward(s, drafts)
        \/ Commit(s)
        \/ CommitSpeculative(s)
        \/ \E finish \in BOOLEAN : Postprocess(s, finish)
        \/ Abort(s)
        \/ \E torn \in BOOLEAN : Fail(s, torn)
        \/ Forget(s)

Spec == Init /\ [][Next]_vars

-----------------------------------------------------------------------------
(* Properties.                                                             *)

\* The type invariant of the manager, the requests and the runner.
TypeOK ==
    /\ BlockManagerTypeOK
    /\ status \in [Seqs -> {"NEW", "ACTIVE", "FINISHED"}]
    /\ num_computed \in [Seqs -> Nat]
    /\ work \in [Seqs -> {"idle", "scheduled", "forwarded", "done"}]
    /\ num_tokens \in [Seqs -> Nat]
    /\ query \in [Seqs -> Seq(Tokens)]
    /\ kv \in [Pages -> [0 .. BlockSize - 1 -> Seq(Tokens)]]

\* The positions of a request whose K/V the manager vouches for.
ValidPositions(s) ==
    {pos \in 0 .. Len(token_ids[s]) - 1 :
        /\ IsMapped(s, pos)
        /\ Offset(pos) < computed_tokens[physical_block_id(s, pos)]}

\* No request ever sees another text's K/V: each position of a request that is
\* marked computed holds vectors computed from exactly the request's own text
\* up to it, through sharing, eviction, reuse and failed forwards.
NoForeignKV ==
    \A s \in Seqs : \A pos \in ValidPositions(s) :
        kv[physical_block_id(s, pos)][Offset(pos)] = SubSeq(token_ids[s], 1, pos + 1)

\* A hash in the prefix index names a page that carries that hash, is written
\* throughout, and holds the K/V of the hashed prefix, whether the page is in
\* use or free; an evicted or a failed page is never found.
IndexSound ==
    \A h \in DOMAIN hash_to_block_id :
        LET p == hash_to_block_id[h]
        IN  /\ block_hash[p] = h
            /\ computed_tokens[p] = BlockSize
            /\ \A o \in 0 .. BlockSize - 1 :
                    kv[p][o] = SubSeq(h, 1, Len(h) - BlockSize + o + 1)

\* A forward finds every position it attends to valid: all the text before its
\* first query token, and nothing at or after that token.
ForwardReadsValid ==
    \A s \in Seqs :
        work[s] \in {"scheduled", "forwarded"} => ValidPositions(s) = 0 .. Start(s) - 1

\* The internal RuntimeErrors of block_manager.py and of run_prefill_batch
\* cannot be raised: in every state in which the runtime makes a call, the call
\* finds its slots reserved, unshared and contiguous, and its pages releasable.
NeverRaises ==
    \A s \in Seqs :
        /\ ~ DeallocateRaises(s)
        /\ work[s] = "scheduled" =>
            LET last == IF IsPrefilling(s) THEN Start(s) + num_tokens[s] - 1
                                           ELSE Len(token_ids[s]) - 1 + num_tokens[s]
            IN  /\ \A pos \in 0 .. last : IsMapped(s, pos)
                /\ num_tokens[s] > 0
        /\ work[s] = "forwarded" =>
            LET n == Len(query[s])
            IN  /\ ~ MarkRaises(s, Start(s), n)
                /\ Start(s) + n >= prompt_len[s] =>
                        ~ RecordRaises(s, IF IsPrefilling(s) THEN 1 ELSE n)

\* Admission accepts a prompt exactly when the claimed pages and the fresh ones
\* can both be had: an accepted one never runs out half way, and a refused one
\* would have.  Every admitted prompt has a token left to run.
AdmissionExact ==
    \A s \in Seqs :
        status[s] = "ACTIVE" /\ block_table[s] = <<>> =>
            LET claimed == Range(reusable_prefix_block_ids(s))
            IN  /\ can_allocate(s, 1) <=>
                        Cardinality(free_block_ids \ claimed)
                            >= required_blocks(prompt_len[s] + 1) - ReusableBlocks(s)
                /\ cached_prefix_tokens(s) < prompt_len[s]

\* While anybody holds a page, no step rewrites a slot of it that is valid.
ValidSlotsImmutable ==
    [][\A p \in Pages : \A o \in 0 .. BlockSize - 1 :
        ref_count[p] > 0 /\ ref_count'[p] > 0 /\ o < computed_tokens[p]
            => kv'[p][o] = kv[p][o] /\ computed_tokens'[p] > o]_vars

\* The pages in use are those of the live requests: however a request ends, by
\* finishing, by cancellation or by a model error, no page leaks.
PagesReturned ==
    used_block_ids = UNION {Range(block_table[s]) : s \in {r \in Seqs : status[r] = "ACTIVE"}}

-----------------------------------------------------------------------------
(* Each request has the illusion of a private, append-only cache.          *)

PrivateMemory(s) ==
    [i \in 1 .. Cardinality(ValidPositions(s)) |->
        kv[physical_block_id(s, i - 1)][Offset(i - 1)]]

Private == INSTANCE PrivateCache WITH
    text <- token_ids, memory <- [s \in Seqs |-> PrivateMemory(s)]

\* Paging, sharing and eviction are invisible: the system implements a cache
\* that each request has to itself.
ImplementsPrivateCache == Private!Spec

=============================================================================
