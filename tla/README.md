# Verification of nano_vllm_pp

TLA+ models of the inference engine in `src/nanovllm_pp`: the paged KV cache, the
paged runner with speculative decoding, the batched forward pass with its attention
kernels, the continuous-batching scheduler, the engine step, the reference backend
with exact speculative decoding, weight quantization, the serving benchmark, and the
HTTP server that shares one engine among its clients. TLC
checks the models on small instances; TLAPS proves the theorems listed below for
every value of the constants. `PROJECT.json` lists the components, the runs, the
mutants, the hazards and the source lines behind every definition.

    tlc -workers 2 -config MCEngine_chunked.cfg MCEngine
    tlapm PagedRunnerProofs.tla

## The system

An HTTP handler (or `LLMEngine.generate`) adds requests and calls `step` until
they have finished. A step asks the scheduler for a batch; the scheduler reserves
KV pages in the block manager for each request it picks; the runner pushes the
batch through the model in one or more forward passes, writes K/V into the pages,
marks what it has written and appends the sampled tokens; `postprocess` moves
requests between the queues and returns the pages of those that are done.

| component | state | operations | what is hard | what makes it correct |
|---|---|---|---|---|
| page allocator, `engine/block_manager.py` | pages with reference counts, tokens, hash and valid length; free and used sets; prefix index; block tables | `can_allocate`, `allocate`, `can_append`, `may_append`, `record_tokens`, `mark_computed`, `deallocate` | pages shared by requests that end in any order; free pages that stay findable; reuse before all K/V is written | ownership is exact, no leak, the index is sound, admission is exact, no internal error can be raised |
| paged runner, `paged/runner.py`, `paged/spec_decode.py` | K/V pages; the query in flight | `run`, `run_prefill_batch`, `_run_decode_sequences`, `PagedSpecDecodeManager.step` | rejected drafts stay in the pages; a model error in the middle of a batch | a forward reads valid K/V of its own text only; valid slots are never rewritten |
| scheduler, `engine/scheduler.py`, `scheduling/` | `waiting`, `running`, token budget | `schedule` in two modes, `postprocess`, `abort` | deque rotation during iteration; one budget shared by two loops; reservations larger than a token | queues are exact, limits are kept, no false "no progress", no starvation |
| engine step, `engine/llm_engine.py` | known requests, the batch at work | `add_request`, `step`, `abort_request`, `forget_request` | requests added and cancelled between steps; failure half-way | no request is left half-way through a step that has ended; work ends |
| HTTP server, `server/app.py` | step lock, one coroutine per HTTP request | `add_requests`, `drive`, `stream_tokens`, `step_once`, `snapshot_outputs`, `release_requests` | every handler's step advances the requests of all; cancellation at every await | nothing is orphaned, steps exclude everything else, streams are in order, every handler ends |
| HF reference backend, `engine/model_runner.py`, `spec_decode/` | one private cache per request | `run_prefill`, `run_decode`, `SpecDecodeManager.step` | cropping the cache after rejected drafts | the cache holds every token but the last one |
| transformer and kernels, `paged/model.py`, `paged/kernels.py` | hidden states and K/V, layer by layer | `_metadata`, `store_kv`, gathered prefill attention, the Triton decode kernel | rows of several requests in one batch; padded block tables; causal masks inside a chunk or a verification; chunks of a running softmax | every row gets the logits that its text alone would get; the kernel is a softmax over exactly its context |
| quantization, `quantization/int8_weight_only.py` | weights, scales, packed bytes | quantize, pack, unpack | odd widths, rounding and clamping at the ends of the range | nothing is lost in packing; the error is half a step at most |
| serving harness and telemetry, `benchmarks/serving_harness.py`, `RequestTracker` | records, client slots, counters | warm up, send, step, observe, forget | bursts and finishes in one step; state left by the warm-up | records, tracker and counters tell what happened; the harness ends |
| remaining observability and benchmarks | clocks and statistics | passive | percentiles | not modelled |

## Modules

Their order is the order in which they were planned and built: the cache first,
because a mistake there silently changes what users are told, then the scheduler,
then the server.

**BlockManager** has the manager's state and one operator per method that changes
it. Names are those of the source. A block's hash is a SHA-256 chain over its
parent and its own tokens; without collisions (which `docs/DESIGN.md` excludes) it
identifies the digested prefix, so the hash *is* that prefix. `set.pop()` on the
free pages is any choice. The loops of `record_tokens` and `mark_computed` are one
step each, and `RecordRaises`, `MarkRaises` and `DeallocateRaises` say when some
turn of the loop would raise.

**PagedRunner** adds requests and the life of a piece of work: `Admit`,
`SchedulePrefill` or `ScheduleDecode`, then `Forward`, then `Commit` or
`CommitSpeculative`, then `Postprocess`; `Fail` is the exception handler of `step`
and `Abort` is `abort_request`. Which request is picked when is left open, so the
properties hold for any scheduler. The vectors of a token depend on every token
before it, hence a slot of `kv` holds the *text* that its vectors were computed
from, or `Garbage`; a forward that reads anything but its own text writes garbage,
and a failing one may leave its slots half written (`torn`). The sampled token is
any token and a draft any sequence of tokens: the n-gram proposer and the verifier
choose among these.

**PagedForward** opens up the forward pass that PagedRunner has as one action. It
adds no state. For any set of requests that the runner may put into one batch it
builds what `_metadata` builds (concatenated rows, positions, slots, starts and padded
block tables), runs the layers of `Qwen3Model` over it, and reads the logits back by
row. Values are terms: a hidden state records the token it started from and the
set of K/V that each layer attended to, and `KeyValue` the hidden state and
the position that rotary embedding used; two different computations are therefore two
different terms. `PrefillAttention` gathers and masks as the PyTorch path does,
`DecodeAttention` goes through the context in the chunks of the Triton kernel, with its
running maximum, sum and accumulator over small integer scores; `Pow2` stands for the
exponentials, and `NaN` for what is computed from a slot that holds no K/V. Its invariants compare each row with what a transformer without cache
or batch computes from the request's text.

**PrivateCache** is the abstract promise to a request: a private, append-only
memory of its own text. PagedRunner implements it (`ImplementsPrivateCache`).

**Engine** extends PagedRunner with the queues and `LLMEngine.step`. Every turn of
a queue loop, every row of a forward and every item of `postprocess` or of the
exception handler is one action: an action of PagedRunner for that request,
conjoined with what the loop does to the queues, the budget and the batch. Client
calls happen only between steps (`pc = "idle"`), because the lock serialises them
with `step`. `Groups` is the order of forward passes in `PagedModelRunner.run`.
Requests with temperature 0 (`Greedy`) decode by themselves through the speculative
manager when there is one; those that have stop strings as well (`WithStops`) get no
drafts there, and a lookahead of one token.

**ServingHarness** composes the engine with `run_serving_workload`. One thread warms
the engine up through `generate`, optionally clears the prefix index, resets counters
and tracker, and then sends, steps, observes and forgets. `Turn` is any turn of the
engine's own loops together with the telemetry that `step` and `allocate` take on the
way (`Track`, `CountAdmissions`, `Sample`). The clock decides only when a request is
due: `Tick`, at any point between two rounds of the loop. A request that has been
forgotten leaves its model value to the next one. All requests here are greedy,
ignore the end-of-text token and finish at their output length, as the harness asks.

**Quantization** has the arithmetic of one output channel over integers: levels by
round-half-to-even and clamp, two nibbles per byte, and back. It declares no state; its
theorems are in the module.

**Server** models the handlers as coroutines that move from await to await, the
lock with its line of waiters (`asyncio.Lock` is first come, first served), and the
worker thread of `step_once`. Critical sections without an await are one action;
the one that awaits the worker is two, `StartStep` and `EndStep`, between which
anything else may happen. `Monitors` are clients of `/metrics`, which reads the
engine under the same lock; a chat completion is a completion here. `Disconnect`
raises `CancelledError` at the await a handler is in. The engine is reduced to which
requests exist, how many tokens they have and whether they have finished; a step runs
any non-empty set of live requests, or raises (a model error, or no progress). What it
runs of a request is a chunk of its prompt, which gives no token (`chunks`), or more
tokens. The text of a stream is a sequence of glyphs that is decoded anew from all its
tokens: it grows by any number of glyphs, or, where `Rewrites` holds, becomes any other
text, because the tokenizer may clean up whitespace, complete a character or drop
special tokens once it sees what follows (`Decoded`). A stop string ends the text before
it (`Cut`); stop strings are all of `StopLength` glyphs. `rewritten` is a history
variable: this stream's text has once changed other than by growing.

**HFRunner** models the reference backend. It takes the scheduling, the pages and the
end of requests from PagedRunner and has forward passes of its own: `RunPrefill`,
`RunDecode` and `RunSpeculative`, each a whole pass with its sampling and recording,
because the passes of a batch run one after the other. A cache is the sequence of
tokens it was fed; it is dropped with its request. Unlike in PagedRunner the model is
a function of the text, `Argmax`, the n-gram scan is the operator `propose`, and the
verifier accepts what it says. This backend never calls `mark_computed`, so that no
prefix is ever found in the index, which `CacheBehindText` would notice.

**GreedyDecode** is the abstract promise of decoding: a text grows by what the model
predicts for exactly the text before, up to a terminal token or the limit. HFRunner
implements it (`ImplementsGreedyDecode`), one burst being one step of it.

`MC*.tla` and the `.cfg` files give the constants their values. `*Proofs.tla` hold
the theorems.

## Runs

| run | instance | what it shows |
|---|---|---|
| `paged_chain` | 2 requests, 3 one-token pages, two prompts that are permutations of each other | the prefix index is sound and no request reads K/V of another text although the same tokens occur behind different parents and parents are evicted before children |
| `paged_shared` | 2 requests, 3 two-token pages, one prompt of three tokens; the two fit only if they share | ownership, no leaks, exact admission, valid reads, immutability of valid slots, the illusion of a private cache, and that a batched forward behind shared pages computes what each prompt alone would, with chunked prefill, cancellation and torn forwards |
| `paged_burst` | 2 requests, 3 four-token pages, two drafts, two layers | whatever is drafted and rejected, slots of rejected drafts are never taken for valid ones, verification and batched decode compute what the text alone would, and the chunked kernel is a softmax over exactly the context |
| `engine_batch` | 2 requests, 3 three-token pages, prompts that end on a block boundary and behind it, cached prefixes, no chunked prefill | queues are exact, a no-progress error means that the pool is exhausted for everyone, and work ends once clients stop |
| `engine_chunked` | 3 requests (one speculates, one is greedy with stop strings, one samples), 4 pages, chunks before decodes | queues, batch and budget are exact with chunks and bursts that share the budget (`QueuesExact`, `BatchIsWork`, `BatchWithinLimits`), and no loop is about to schedule what the allocator or the runner would refuse, or a request twice (`TurnsLegal`) |
| `engine_fair` | 3 requests, 2 pages, chunks of one token, decode priority | liveness: admitted prompts get through and decodes finish while prompts keep arriving; work ends once they stop |
| `harness` | warm-up of 2 prompts, then 4 prompts of 1 to 4 tokens through 2 slots, 4 two-token pages, bursts, warm and cold starts | records, tracker and counters of a measurement are those of its own requests, the sampled peak of pages is no less than any request needed, and the harness ends |
| `hf_drafts` | one request with drafts and one with stop strings, 3 three-token pages, 81 models | greedy decoding on the HF backend with chunks, n-gram drafts, rejections and terminal tokens in bursts is plain greedy decoding; caches stay one token behind; reserved slots suffice (`HFNeverRaises`); no repetition is missed (`RepeatsAreDrafted`) |
| `server` | a stream of up to two tokens whose text may be rewritten, a completion of two prompts and a reader of the metrics; a chunk before the first token of two of the prompts | no request outlives its handler (`NoOrphans`) or is forgotten under it (`KnownWhileServed`), one step at a time and no look at the engine meanwhile (`StepExclusive`); until a text is rewritten, the stream's client has what it has grown to, once and in order, and whatever happened to it, what the client was sent ends with the current text after each snapshot (`StreamInOrder`); every handler ends (`HandlersEnd`) |
| `two_token_budget`, `final_text`, `stop_text` | minimal ones | the disagreements below (`NoProgressIsGenuine`, `StreamsOutput`, `SendsDeltas`) |

### Why the bounds are enough

Requests end, are forgotten and start again, so the small sets of requests stand for
an unbounded succession of them. Pages are fewer than the live requests need, so
that blocking, eviction and reuse happen in every engine and cache run. Block sizes
1, 2 and 3 put the boundary between pages before, in and behind a prompt, a chunk
and a burst; prompts have one to four tokens and outputs one to four, so that a
prompt is shorter than a page, ends on its boundary, and spans two. Two request
slots for three requests let the batch limit and the token budget bind separately.
Two owners of a page are the least that can disagree about it; a third adds nothing
to a reference count that is checked against the exact set of holders, and the
theorems below are about any number.

Pages are interchangeable, and so are the requests of one kind: the safety runs use
that as symmetry, the liveness runs do not. `View` of the engine runs and of `harness`
names no page: it says how many pages there are of each kind, where the kind of a page
is what the engine can tell of it (who holds it at which place of a block table, and
with prefix caching its tokens, hash, valid length and index entry). It leaves out the
K/V, which no guard of a schedule reads. A permutation of the pages takes behaviours to
behaviours, and no property of those runs names a page or its K/V, so states that are
equal under the view have the same futures as far as the properties can tell. `hf_drafts`
hides the contents of free pages as long as the prefix index is empty, when nothing
can find them. Its models predict from the last token and the parity of its position:
that is enough for drafts to be right and wrong in every order, and for a context that
has lost or gained a token to be noticed; `CacheBehindText` compares the whole context.

Bounds, by name: `MaxTokens` and `MaxText` (tokens per request; the prompts of the
completion in `server` end with their first one, as its text is not read before the
end), `MaxChunks` (chunks of a prompt without a token), `Texts` over `Glyphs` and
`StopLength` (what a stream may say: two glyphs let a text grow and start otherwise
than before, three let it be cut behind what was sent), `MaxDraft` (speculative tokens), `MaxNgram` (3 instead of 5), `NumLayers` (2, so that what one
layer stores feeds the next), `BlockN`, `MinContext` and `MaxScore` (the chunk, the
least context and the scores of the decode kernel), `Prompts`, `Warmups`, `Workload`
and `MaxConcurrency`, and the sets `Pages`, `Seqs`, `Tokens`, `Clients` and `Requests`.
No counter is capped otherwise.

### Fairness

`FairEngineSpec` assumes weak fairness of `Step`, what `LLMEngine.step` does by
itself: `generate()` and the server's handlers call `step` again for as long as
their requests are unfinished, and once called it runs to its end. Client calls, and
the model's exceptions (`ModelError`), get no fairness: they may happen at any time
or never. After an exception `generate()` stops, but then its caller has been told;
on the server the handlers of the other requests go on. `HarnessSpec` assumes weak
fairness of its one thread and of the clock that makes requests due; a step that
raises ends the harness, which `HarnessEnds` counts as an end.

`FairSpec` of Server assumes weak fairness for each handler: the event loop resumes
every coroutine that is ready, the line for the lock is first come, first served,
and a worker thread returns. Clients are under no obligation: they may never send
anything, or never go away.

`RunningFinishes` needs decode priority (without it, endless prompts may take the
whole budget), and allows for the engine's report that nothing can run.
`Termination` and `HandlersEnd` are about the time after the last arrival: the
scheduler passes over a prompt that does not fit for as long as smaller ones come,
and `docs/DESIGN.md` promises no admission under oversubscription. A prompt that is
larger than the whole pool is never admitted, and ends in the no-progress report.

## What is proved

Every theorem is about the specification with all its constants open: any pool, block
size, prompts, budgets, queues, drafts, models and clients. The assumptions are those
stated by name in the modules, which mirror what `EngineConfig`,
`BlockManager.__init__` and `add_request` enforce, and finiteness of the sets of pages
and requests. The three theorems that need more say so in their statements (below).

### Ownership of pages (`PagedRunnerProofs`)

The argument is one inductive invariant, `Inv == TypeOK /\ PoolConsistent /\ \A s :
Accounting(s)`. Type correctness is not inductive by itself, because recording and
marking are defined only at positions with a reserved page; `Accounting` carries the
reservations from the step that made them to the step that uses them (for instance
that a decode at work has `Len(token_ids) + num_tokens` reserved slots), and
`PoolConsistent` is what makes a release well defined. The module starts with lemmas
about the manager's methods; then comes one lemma per action, `StepInv` for all, and

- `TypeCorrectness`, `OwnershipConsistent` (the audit `assert_invariants` for any
  number of requests, pages and sharers), `NoPageLeaks`;
- `AdmissionIsExact`; its core is that the reusable pages of a prompt are pairwise
  different, so those that are free can be counted;
- `OutputsWithinLimit`: no request generates more than `max_tokens`. The invariant is
  `OutputFits`: while a forward is in flight, what the commit can add at most still
  fits, accepted drafts and bonus token included.

### Contents of pages (`PagedRunnerProofs`, second part)

That no request reads K/V of another text is not inductive either. `KVInv` adds to
`Inv` what it takes:

- `Contents`: each page of a request has the tokens of its block of the text, the
  hash of the prefix if they fill the page, and the K/V of what is computed. This is
  what a request finds;
- `IndexSound`: the same of a page that is only in the index, since the next request
  to find it knows nothing but its hash;
- `SharedFull`: a page of two owners is computed throughout. Without it one
  owner's forward could write a slot that is another's;
- `ValidBehindTokens`: a page is not marked beyond what is recorded in it, so that
  recording further tokens leaves marked slots alone;
- `InFlight`: between a forward and its commit, the slots behind the valid ones hold
  the K/V of the query, drafts included, and the query starts with the rest of the
  text. The commit marks just the part that agrees with the text it records.

`ContentsInvariance` proves it, with one lemma per action. From it follow
`IndexAlwaysSound`, `ValidNeverAhead`, `NoRequestReadsForeignKV`,
`ForwardFindsItsContext` and `NoInternalError` (no method can raise on a live request:
every position it touches is reserved, and every page it releases is held).
`ValidSlotsAreImmutable` is a property of steps: whoever writes is behind the valid
length of pages that nobody shares.

`RunnerRefinesPrivateCache` shows that PagedRunner implements PrivateCache. A request's
memory is what its pages hold up to its valid length. `AddRequest` maps to `Begin`;
`Admit` to `Extend` if a cached prefix is found and to a stutter otherwise; scheduling
and `Forward` to stutters, however the forward ends; `Commit` and `CommitSpeculative`
to `Extend`; `Postprocess` to `Release` if it ends the request; `Abort` and `Fail` to
`Release`; `Forget` to `Forget`.

### The batched forward pass (`PagedForwardProofs`)

`BatchesAreExact` and `VerificationIsExact` say of any batch that the runner could launch
in a reachable state what a reader of `_metadata`, the model and the kernels wants to
know: each row comes out as if its request were alone, without cache, pages or batch.
No strengthening beyond `KVInv` is needed; it is the pages' contents that the forward
depends on. The way there:

- *flattening*: the concatenated rows are a partition of the places of the batch, and
  `query_start_loc` its borders (`FlattenSeqIs`, `SumsPartition`);
- *slots*: no two rows write the same slot, and what one request writes is never read by
  another (`WritesOwnSlots`, from `SharedFull`), so that behind the writes the pages of
  every request hold its text up to the last token of the batch (`SlotHolds`), which is
  also what `KvAfter`, and hence PagedRunner's `Forward`, say (`MetadataRows`);
- *attention*: a row's gathered and masked context (`PrefillAttends`), and what the
  kernel reads for it (`DecodeAttends`), is what the same layer has stored for the
  beginnings of its text;
- *layers*: one layer takes the texts' hidden states to those above them and the slots to
  their vectors (`LayerExact`), therefore all of them do (`ModelExact`).

`KernelIsExact` is about the Triton kernel's loop for any scores. The invariant of the loop,
`Accumulated`, says that after any number of chunks the running sum and accumulator are
those of a softmax under the running maximum over the offsets so far. A chunk that is
masked throughout, the first chunk's rescaling from minus infinity, and a compiled context
longer than the row's are all covered by it (`NextChunk`, `MaxContextCovers`).

`Hidden`, the layers of the model and the turns of the loop are functions defined by
recursion over a number. That such a function exists, and what it computes, is proved by
looking at the least number for which it would fail (`SmallestNat`).

### The engine (`EngineProofs`)

A turn of a loop is by its definition an action of PagedRunner or leaves requests and
pages alone. The lemma `EngineRefinesRunner` says so, and carries what is proved of
PagedRunner over to the engine: `EngineKeepsPool`, `EngineKeepsContents` and
`EngineRefinesPrivateCache`. It says nothing about the scheduler's decisions, because a
turn that the runner has to refuse would merely be disabled.

That no such turn comes up is `TurnsAreLegal` (`EngineSpec => []TurnsLegal`): whatever
a loop has still to come to can be prefilled, or decoded, when its turn comes, without
`allocate` meeting a request that has pages or the runner one that has nothing to run.
The invariant behind it, `StillToCome`, is that a loop has not scheduled what it has not
come to, and that the loop that comes first schedules nothing from the queue of the
second: a turn takes the head of the queue away or puts it behind what is left of the
turns (`NextInLine`), and a prompt whose last chunk has been scheduled is out of
`waiting` but not yet in `running` when the decode loop starts (`LoopEntered`). The queues tell
the rest (`WaitingMayPrefill`, `RunningMayDecode`), together with `WholePrompts` where
chunks are off.

The queues need an invariant of their own, `SchedulerInv == SchedulerTypeOK /\ Turns /\
QueuesExact /\ BatchAtWork`. The two properties depend on each other: the queues tell
where a request belongs from whether its last chunk is in flight, and that is known of
the batch only. `Turns` bounds the turns that a loop has left by the length of its queue;
without it a rotation of an empty deque could not be excluded. `QueuesAreExact` follows,
and `BatchIsWithinLimits` adds that the work of the batch and what is left of the budget
make up the budget, with lemmas about sums over finite sets. `QueueLemmas` has these, and
what appending to, popping from and removing from a queue without repetitions does; the
server's line for the lock uses it too.

`ForwardsInv` is about the passes that a batch is divided into. While the model runs, each
request of the batch has been through it or is in a group that is still to run: the parts
cut out of the batch cover it (`PartIs`, `GroupsCover`), and a group is left when nothing
in it is scheduled or forwarded any more. Hence `BatchIsTheWork`: `postprocess` never meets
a request that no pass has run, whichever of them prefill, decode or speculate.
`EngineTypeCorrectness` needs both invariants.

`ReportIsGenuine` (`MaxDraft = 0 => (EngineSpec => NoProgressIsGenuine)`) follows a
step through its loops: as long as the batch is empty, every request whose turn has
passed is out of pages (`Tried`), and without chunks a waiting prompt is within the
budget and holds no pages (`WholePrompts`). With drafts the statement is false:
`two_token_budget` is the counterexample, hence the hypothesis.

### The reference backend (`HFRunnerProofs`)

The theorems have the hypothesis `ModelPredictsTokens`: the loaded model's arg max of
any text is a token of the vocabulary. It is not an `ASSUME` of the module, because TLC
would have to evaluate it over all texts.

`HFInv` strengthens `CacheBehindText` by what each stage of a request's step has
reserved and run, by the fact that no token of an unfinished output is terminal, and by
an empty prefix index: this backend marks no page as computed, therefore finds no cached
prefix, therefore never starts a prompt behind tokens that its private cache has
not seen. `HFTypeCorrectness` and `CachesFollowTexts` follow.

`NoRepetitionMissed` is about the operator `propose` for every text: the backward
scan finds an occurrence of the longest repeated suffix.

`BackendDecodesGreedily` (`HFSpec => ImplementsGreedyDecode`) is exact speculative
decoding. `AddRequest` maps to `Begin`; a prefill that samples, a decode and a
speculative step to one `Emit` of one or more tokens; `Forget` to `End`; everything
else to a stutter. Accepted drafts equal the predictions up to the first mismatch, each of
which was made from a context that by `CacheBehindText` was the request's own
text; the cut at a terminal token keeps `Emit`'s guard.

`PagesFollowTexts` is a second invariant, `PagesInv`: the pages of a request record the
blocks of its text, and no page has two holders. `BackendNeverRaises`
(`HFNeverRaises`) needs it, because whether a slot can be recorded depends on how
full its page is, and a page in common could have been filled by the other holder.

### The server (`ServerProofs`)

The first invariant ties the lock, the worker and the await of each handler together
(`worker <=> holder # NoOne`, and a handler is in `"stepping"` exactly when it is the
holder). `NothingOrphaned`, `OwnRequestsKnown` and `StepsExclusive` follow, for any number of
clients: what a handler has registered is in the engine until that handler itself takes
it away, however steps and clean-ups of others interleave with its awaits.
`StepsExclusive` also covers `/metrics`, for which it needs to know what each handler's
outcome can be. `Line` says that exactly those who await the lock stand in line for
it, once each; with it `ServerTypes`. `StreamsInOrder` makes no assumption about what
more tokens do to a text. It needs `Sent`: the last snapshot is always the end of what
was sent, and as long as a served text has only grown, it is all that was sent and the
beginning of the text, whoever's steps let it grow; only the stream's own handler takes
the text away.

### The serving harness (`ServingHarnessProofs`)

Every action of the benchmark's driver is a turn of the engine, a call that a client
makes, or leaves the engine alone (`DriverSteps`), except the cold start: it empties the
prefix index between two steps. `ColdStartKept` shows that this keeps the invariants of
pages and queues, since no state formula needs a page to be in the index. So what is
proved of the engine is carried over the benchmark: `HarnessKeepsContents`.

`RecordsAreExact` rests on `RecordsInv`. `OneRecordEach` says that the records that
are not completed are those of the requests that the engine knows, one each.
`RecordsTell` says what record and tracker tell of a request at every stage of a step,
also where `RecordsExact` does not look: a request may be finished only in the last
loop of a step or until the driver has looked at it, and has all its tokens by then;
a tracker lags behind the tokens only while the request is in the batch.

`MetricsAreExact` adds `MetricsTell`. The counters are compared with the records in
the middle of a step too, when a request may have its pages although its record has not
noted it: `Admitted` and `CachedOf` read the state of active requests from the engine,
and `Noted` says that the record catches up when the driver looks. `NothingToReuse`
follows a cold start until the second admission: the index stays empty as long as no
request has had pages. `Peaks` follows the sample: no request of the batch grows between
the sample and the end of the step, its pages cover its text
when it ends, and the driver takes the sample into the peak before it forgets the
request. The sums over the records are folds over finite sets; adding one summand and
changing one (`SumWithOne` of `QueueLemmas`, `SumAfter`) is all that the steps need.

### Quantization

`QuantizationError` bounds the error of a restored weight by half a step, for any width
and number of levels, from two lemmas: rounding is to the nearest integer, and a weight
within the channel's maximum never meets the clamp. `PackingRoundTrip` shows that the
packed bytes give the levels back at every position of odd and even widths,
`INT8StorageError` and `INT4StorageError` put the two together for the layers. That
`amax` returns a bound of the row is a hypothesis; floats round once more, which is left
out.

### Only model-checked

- Liveness (`AdmittedPromptRuns`, `RunningFinishes`, `Termination`, `HandlersEnd`,
  `HarnessEnds`): the prover has no support for reasoning about fairness and ENABLED.

## Where code and documents disagree

- **A stream can lose its last tokens** (`final_text`). A stream takes a snapshot
  only after a step that it ran itself. If the step of another handler finishes its
  request, `all_finished` ends the loop and the final chunk has empty text.
  `docs/DESIGN.md:298` promises a delta after each step.
- **A stream can repeat its text** (`stop_text`). A stop string of several tokens is
  cut off when it is complete, by which time its beginning has been sent. The shorter
  text does not start with the previous one, and is sent again as a whole: in the run
  the client has `xy`, the stop string `yz` is completed, and `x` is sent once more.
  `docs/DESIGN.md:298` promises deltas, and the comment at `app.py:217` expects the
  resend for rewritten whitespace only.
- **A token budget of two stops speculative requests** (`two_token_budget`).
  `config.py:54` accepts a budget of 2 with speculative decoding, but a lookahead of
  `1 + max_spec_tokens` over the budget is passed over rather than shortened: a greedy
  request without stop strings to which three or more output tokens remain is reported
  as making no progress with free pages.

The same report also comes when only the drafts of a burst, and not its next token,
lack a page (`scheduler.py:132`). `NoProgressIsGenuine` is therefore checked to
*hold* in instances without speculation.

Behaviour that no document excludes, but that a reader should know of: a step that
raises ends the handler that ran it with 503, whoever's requests were in the batch,
while the owners of the failed requests receive a normal response with
`finish_reason` `"error"` (`app.py:119`); `add_requests` withdraws the earlier
prompts of a submission for three types of exceptions only (`app.py:98`), and the
tokenizer could raise others; a step that raises ends `generate()` with the other
requests of the call still queued (`llm_engine.py:499`); the harness warms one
representative per decode bucket, but in one batch, whose kernel is compiled for the
longest context of the batch (`serving_harness.py:142`); `RequestTracker` keeps the
records of finished requests for the life of the server.

## Not modelled

- Floating point: the rounding of attention, of normalisation and of scales; rotary
  arithmetic; sampling probabilities. Terms and exact weights stand for them.
- Model loading, pool sizing from free GPU memory, device selection, argument parsing,
  chat templates: sequential code that runs before there is any state to get wrong, or
  formatting.
- On the HF backend, queues and batches: the scheduler is the one in Engine.
- The wall clock: phase profile, percentiles, trace, throughput; `Tick` keeps of it only
  the order of arrivals. The traversal that replaces layers by quantized ones, and the
  memory report. One-shot benchmark scripts, workload generation, tutorials.
- CUDA: kernels of one stream take effect in the order in which they are enqueued.
