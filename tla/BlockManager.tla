---------------------------- MODULE BlockManager ----------------------------
(***************************************************************************)
(* The page allocator of the engine: nanovllm_pp/engine/block_manager.py.  *)
(*                                                                         *)
(* A pool of fixed-size pages backs the KV cache of every request.  A      *)
(* request maps its logical blocks to pages through its block table, pages *)
(* that hold the same full prompt prefix may be shared, and a page whose   *)
(* last reference goes away is free but keeps its contents for later       *)
(* reuse.  This module has the manager's state and one operator per method *)
(* that changes it; PagedRunner calls them in the order the runtime does.  *)
(*                                                                         *)
(* A block's hash is a SHA-256 chain over its parent's hash and its own    *)
(* tokens.  Without collisions the chain identifies exactly the token      *)
(* prefix it digests, so the hash IS that prefix here and NoHash, Python's *)
(* None, is the empty one.                                                 *)
(***************************************************************************)
EXTENDS Integers, Sequences, FiniteSets, FiniteSetsExt, Functions

CONSTANTS
    Pages,                \* the physical pages, range(num_blocks)
    BlockSize,            \* token positions in one page
    EnablePrefixCaching,  \* EngineConfig.enable_prefix_caching
    Seqs,                 \* Sequence objects
    Tokens                \* token ids

ASSUME BlockSizeAssumption == BlockSize \in Nat \ {0}
ASSUME PagesAssumption == IsFiniteSet(Pages)
ASSUME SeqsAssumption == IsFiniteSet(Seqs)
ASSUME PrefixCachingAssumption == EnablePrefixCaching \in BOOLEAN

VARIABLES
    ref_count,         \* Block.ref_count
    block_hash,        \* Block.hash
    block_tokens,      \* Block.token_ids
    computed_tokens,   \* Block.computed_tokens
    free_block_ids,    \* BlockManager.free_block_ids
    used_block_ids,    \* BlockManager.used_block_ids
    hash_to_block_id,  \* BlockManager.hash_to_block_id, a partial function
    block_table,       \* Sequence.block_table
    token_ids,         \* Sequence.token_ids
    prompt_len         \* Sequence.prompt_len

poolVars == <<ref_count, free_block_ids, used_block_ids>>
metaVars == <<block_hash, block_tokens, computed_tokens, hash_to_block_id>>
bmVars == <<poolVars, metaVars, block_table, token_ids, prompt_len>>

NoHash == <<>>

BlockManagerInit ==
    /\ ref_count = [p \in Pages |-> 0]
    /\ block_hash = [p \in Pages |-> NoHash]
    /\ block_tokens = [p \in Pages |-> <<>>]
    /\ computed_tokens = [p \in Pages |-> 0]
    /\ free_block_ids = Pages
    /\ used_block_ids = {}
    /\ hash_to_block_id = <<>>
    /\ block_table = [s \in Seqs |-> <<>>]
    /\ token_ids = [s \in Seqs |-> <<>>]
    /\ prompt_len = [s \in Seqs |-> 0]

-----------------------------------------------------------------------------
(* Address arithmetic.  Positions count from 0 as in the code; the entries *)
(* of a block table, like all TLA+ sequences, from 1.                      *)

\* math.ceil(n / block_size)
required_blocks(n) == (n + BlockSize - 1) \div BlockSize

\* The token position has an entry in the block table: the check of
\* physical_block_id, without which it raises.
IsMapped(s, pos) == pos \div BlockSize < Len(block_table[s])

physical_block_id(s, pos) == block_table[s][pos \div BlockSize + 1]

Offset(pos) == pos % BlockSize

\* The tokens of logical block i of a text, fewer than BlockSize at its end.
BlockSlice(text, i) ==
    SubSeq(text, (i - 1) * BlockSize + 1, Min({i * BlockSize, Len(text)}))

LogicalBlock(table, p) == CHOOSE i \in DOMAIN table : table[i] = p

compute_block_hash(parent, tokens) == parent \o tokens

\* Mutant: a block's hash digests its own tokens and not its parent's.
PrefixHash_Unchained(text, i) == BlockSlice(text, i)

\* hash_prompt_blocks: the chained hash of full block i of a text.
PrefixHash(text, i) == SubSeq(text, 1, i * BlockSize)

\* The page is the one the prefix index names for its own hash.
IsIndexed(p) ==
    /\ block_hash[p] \in DOMAIN hash_to_block_id
    /\ hash_to_block_id[block_hash[p]] = p

-----------------------------------------------------------------------------
(* Admission.                                                              *)

Prompt(s) == SubSeq(token_ids[s], 1, prompt_len[s])

\* Mutant: a prompt that ends on a block boundary can be reused whole.
MaxReusable_Whole(s) == prompt_len[s] \div BlockSize

\* The last prompt block is never reused: its last token has to run through
\* the model to produce the logits of the first output token.
MaxReusable(s) ==
    Min({prompt_len[s] \div BlockSize, Max({0, required_blocks(prompt_len[s]) - 1})})

IsReusable(s, i) ==
    LET hash == PrefixHash(Prompt(s), i)
    IN  /\ hash \in DOMAIN hash_to_block_id
        /\ LET p == hash_to_block_id[hash]
           IN  /\ block_hash[p] = hash
               /\ block_tokens[p] = BlockSlice(Prompt(s), i)
               /\ computed_tokens[p] = BlockSize

ReusableBlocks(s) ==
    IF EnablePrefixCaching
    THEN Max({k \in 0 .. MaxReusable(s) : \A i \in 1 .. k : IsReusable(s, i)})
    ELSE 0

reusable_prefix_block_ids(s) ==
    [i \in 1 .. ReusableBlocks(s) |-> hash_to_block_id[PrefixHash(Prompt(s), i)]]

\* Mutant: counts the blocks that could be reused and not those that were found.
cached_prefix_tokens_All(s) == MaxReusable(s) * BlockSize

cached_prefix_tokens(s) == ReusableBlocks(s) * BlockSize

\* Mutant: a page that another request holds costs a free page all the same.
can_allocate_NoSharing(s, n) ==
    Cardinality(free_block_ids) >= required_blocks(prompt_len[s] + n)

\* A free cached page still costs a free page; only a page another request
\* holds reduces the number the admission needs.
can_allocate(s, n) ==
    LET reusable == reusable_prefix_block_ids(s)
        active_shared ==
            Cardinality({i \in DOMAIN reusable : ref_count[reusable[i]] > 0})
    IN  Cardinality(free_block_ids)
            >= required_blocks(prompt_len[s] + n) - active_shared

\* Mutant: reserves for the tokens there are, one short of those to come.
MissingPages_Short(s, n) ==
    required_blocks(Len(token_ids[s]) + n - 1) - Len(block_table[s])

MissingPages(s, n) ==
    required_blocks(Len(token_ids[s]) + n) - Len(block_table[s])

can_append(s, n) == Cardinality(free_block_ids) >= MissingPages(s, n)

\* set.pop() returns an arbitrary free page: n of them, in the order taken.
FreshChoices(n, available) == Injection(1 .. n, available)

\* Mutant: a page keeps its index entry when it is taken for other contents.
IndexWithout_Stale(F) == hash_to_block_id

\* The index once allocate_fresh_block has evicted the pages of F.
IndexWithout(F) ==
    Restrict(hash_to_block_id,
             {h \in DOMAIN hash_to_block_id :
                ~ \E p \in F : h = block_hash[p] /\ IsIndexed(p)})

\* allocate(seq, num_new_tokens = n): shared pages first, then fresh ones for
\* the rest of the prompt and the n slots after it.
allocate(s, n) ==
    LET prompt == Prompt(s)
        reusable == reusable_prefix_block_ids(s)
        total == required_blocks(prompt_len[s] + n)
    IN  /\ block_table[s] = <<>>
        /\ can_allocate(s, n)
        /\ \E fresh \in FreshChoices(total - Len(reusable),
                                     free_block_ids \ Range(reusable)) :
            LET table == reusable \o fresh
                F == Range(fresh)
                Slice(p) == BlockSlice(prompt, LogicalBlock(table, p))
            IN  /\ block_table' = [block_table EXCEPT ![s] = table]
                /\ free_block_ids' = free_block_ids \ Range(table)
                /\ used_block_ids' = used_block_ids \union Range(table)
                /\ ref_count' = [p \in Pages |->
                        IF p \in F THEN 1
                        ELSE IF p \in Range(reusable) THEN ref_count[p] + 1
                        ELSE ref_count[p]]
                /\ block_tokens' = [p \in Pages |->
                        IF p \in F THEN Slice(p) ELSE block_tokens[p]]
                /\ block_hash' = [p \in Pages |->
                        IF p \notin F THEN block_hash[p]
                        ELSE IF Len(Slice(p)) = BlockSize
                             THEN PrefixHash(prompt, LogicalBlock(table, p))
                             ELSE NoHash]
                /\ computed_tokens' = [p \in Pages |->
                        IF p \in F THEN 0 ELSE computed_tokens[p]]
                /\ hash_to_block_id' = IndexWithout(F)
                /\ UNCHANGED <<token_ids, prompt_len>>

\* may_append(seq, n) when it returns True.  The pages it adds carry no tokens.
may_append(s, n) ==
    /\ can_append(s, n)
    /\ \E fresh \in FreshChoices(MissingPages(s, n), free_block_ids) :
            LET F == Range(fresh)
            IN  /\ block_table' = [block_table EXCEPT ![s] = @ \o fresh]
                /\ free_block_ids' = free_block_ids \ F
                /\ used_block_ids' = used_block_ids \union F
                /\ ref_count' = [p \in Pages |-> IF p \in F THEN 1 ELSE ref_count[p]]
                /\ block_tokens' = [p \in Pages |-> IF p \in F THEN <<>> ELSE block_tokens[p]]
                /\ block_hash' = [p \in Pages |-> IF p \in F THEN NoHash ELSE block_hash[p]]
                /\ computed_tokens' = [p \in Pages |-> IF p \in F THEN 0 ELSE computed_tokens[p]]
                /\ hash_to_block_id' = IndexWithout(F)
                /\ UNCHANGED <<token_ids, prompt_len>>

-----------------------------------------------------------------------------
(* Token metadata and validity.                                            *)

\* append_token and record_token for each token of a burst: the tokens go to
\* the request and to the reserved slots; a page that fills up gets its hash.
\* `first` is the logical block of the first new position; every later page of
\* the burst was empty, so the parent chain below starts at its parent.
append_and_record(s, tokens) ==
    LET old == Len(token_ids[s])
        first == old \div BlockSize + 1
        last == (old + Len(tokens) - 1) \div BlockSize + 1
        table == block_table[s]
        Touched == {table[i] : i \in first .. last}
        parent == IF first = 1 THEN NoHash ELSE block_hash[table[first - 1]]
        \* tokens of the burst up to and in logical block i
        Upto(i) == SubSeq(tokens, 1, Min({i * BlockSize - old, Len(tokens)}))
        In(i) == SubSeq(tokens, Max({(i - 1) * BlockSize - old, 0}) + 1, Len(Upto(i)))
        Text(p) == block_tokens[p] \o In(LogicalBlock(table, p))
    IN  /\ token_ids' = [token_ids EXCEPT ![s] = @ \o tokens]
        /\ block_tokens' = [p \in Pages |->
                IF p \in Touched THEN Text(p) ELSE block_tokens[p]]
        /\ block_hash' = [p \in Pages |->
                IF p \in Touched /\ Len(Text(p)) = BlockSize
                THEN compute_block_hash(parent, block_tokens[table[first]]
                                                    \o Upto(LogicalBlock(table, p)))
                ELSE block_hash[p]]
        /\ UNCHANGED prompt_len

\* The first of the positions from..to that lies in the page of pos, as an
\* offset: where a contiguous write of from..to starts in that page.
EntryOffset(from, pos) == Max({from, pos - Offset(pos)}) - (pos - Offset(pos))

\* What makes record_tokens raise, at any of the next n positions: the position
\* is not reserved, is not the next one of its page, or the page is shared.
RecordRaises(s, n) ==
    LET old == Len(token_ids[s])
    IN  \E pos \in old .. old + n - 1 :
            \/ ~ IsMapped(s, pos)
            \/ LET p == physical_block_id(s, pos)
               IN  EntryOffset(old, pos) # Len(block_tokens[p]) \/ ref_count[p] > 1

\* Mutant: the valid length is not capped at the page.
ValidLength_Uncapped(s, p, end) == end - (LogicalBlock(block_table[s], p) - 1) * BlockSize

\* How much of page p is valid once the text of s is computed up to `end`.
ValidLength(s, p, end) ==
    Min({BlockSize, end - (LogicalBlock(block_table[s], p) - 1) * BlockSize})

\* mark_computed(seq, start, n), with `hashes` the block hashes it reads.  A
\* page that becomes valid throughout enters the prefix index, unless another
\* page with the same hash is there already (setdefault).
mark_computed(s, start, n, hashes) ==
    LET Touched == {physical_block_id(s, pos) : pos \in start .. start + n - 1}
        computed == [p \in Pages |->
            IF p \in Touched
            THEN Max({computed_tokens[p], ValidLength(s, p, start + n)})
            ELSE computed_tokens[p]]
        published == {p \in Touched : /\ EnablePrefixCaching
                                      /\ computed[p] = BlockSize
                                      /\ computed_tokens[p] < BlockSize
                                      /\ hashes[p] # NoHash}
        Publisher(h) == CHOOSE p \in published : hashes[p] = h
        index == hash_to_block_id
    IN  /\ computed_tokens' = computed
        /\ hash_to_block_id' =
            [h \in DOMAIN index \union {hashes[p] : p \in published} |->
                IF h \in DOMAIN index THEN index[h] ELSE Publisher(h)]

\* What makes mark_computed raise: a position that is not in the block table,
\* not the next one of its page, or without a token.  Positions from the end of
\* the text on are recorded by the caller just before.
MarkRaises(s, start, n) ==
    \E pos \in start .. start + n - 1 :
        \/ ~ IsMapped(s, pos)
        \/ LET p == physical_block_id(s, pos)
           IN  /\ Offset(pos) >= computed_tokens[p]
               /\ \/ EntryOffset(start, pos) > computed_tokens[p]
                  \/ pos < Len(token_ids[s]) /\ Offset(pos) >= Len(block_tokens[p])

-----------------------------------------------------------------------------
(* Release.                                                                *)

\* Mutant: every page of the table is freed, whoever else holds it.
LastReferences_Shared(s) == Range(block_table[s])

\* The pages of the request that nobody else holds.
LastReferences(s) == {p \in Range(block_table[s]) : ref_count[p] = 1}

\* deallocate(seq): drop one reference to every page of the table.  A page
\* that nobody holds is free, and keeps its hash, its tokens and its K/V.
deallocate(s) ==
    LET P == Range(block_table[s])
        Freed == LastReferences(s)
    IN  /\ ref_count' = [p \in Pages |-> IF p \in P THEN ref_count[p] - 1 ELSE ref_count[p]]
        /\ free_block_ids' = free_block_ids \union Freed
        /\ used_block_ids' = used_block_ids \ Freed
        /\ block_table' = [block_table EXCEPT ![s] = <<>>]

\* What makes deallocate raise.
DeallocateRaises(s) ==
    \/ ~ IsInjective(block_table[s])
    \/ \E p \in Range(block_table[s]) : ref_count[p] <= 0

-----------------------------------------------------------------------------
(* What the manager's state must satisfy: assert_invariants.               *)

\* The types of the manager's state; a prompt is a prefix of its text.
BlockManagerTypeOK ==
    /\ ref_count \in [Pages -> Nat]
    /\ block_hash \in [Pages -> Seq(Tokens)]
    /\ block_tokens \in [Pages -> Seq(Tokens)]
    /\ computed_tokens \in [Pages -> 0 .. BlockSize]
    /\ free_block_ids \subseteq Pages
    /\ used_block_ids \subseteq Pages
    /\ \A h \in DOMAIN hash_to_block_id : /\ h \in Seq(Tokens)
                                          /\ hash_to_block_id[h] \in Pages
    /\ block_table \in [Seqs -> Seq(Pages)]
    /\ token_ids \in [Seqs -> Seq(Tokens)]
    /\ prompt_len \in [Seqs -> Nat]
    /\ \A s \in Seqs : prompt_len[s] <= Len(token_ids[s])

Holders(p) == {s \in Seqs : p \in Range(block_table[s])}

\* A reference count is the number of block tables that hold the page; no
\* table holds a page twice; the free pages are exactly the unreferenced ones
\* and the used pages the rest.
PoolConsistent ==
    /\ \A s \in Seqs : IsInjective(block_table[s])
    /\ \A p \in Pages : ref_count[p] = Cardinality(Holders(p))
    /\ free_block_ids = {p \in Pages : ref_count[p] = 0}
    /\ used_block_ids = Pages \ free_block_ids

\* A page's K/V never counts as valid beyond its tokens, nor its tokens beyond
\* the page.
ValidBehindTokens ==
    \A p \in Pages : /\ computed_tokens[p] <= Len(block_tokens[p])
                     /\ Len(block_tokens[p]) <= BlockSize

=============================================================================
