# draft-thinker: specification, model checking and proofs

draft-thinker is an LLM gateway. A small *drafter* model streams an answer; the
gateway scores the entropy of each token's distribution over a sliding window,
and either serves the finished draft or escalates to the *heavyweight* model. It
can start the heavyweight call early (speculation), keeps accepted drafts in a
semantic cache, and falls back from one provider to the other when one fails.
This directory models the gateway in TLA+: the decision rule, the streaming calls,
the two routing loops, the request handler, the cache, the process around them from
its configuration to its shutdown, and the collector, replay and statistics that the
published numbers come from. TLC checks small instances; TLAPS proves theorems for
every value of the constants.

Paths below are relative to `src/`.

## 1. The system

### Components, their state and operations

| Component | Code | State | Operations | Modelled in |
|---|---|---|---|---|
| Entropy window | `internal/entropy/window.go` | ring buffer, cursor, count, running sum, filled flag; one per request | `NewWindow`, `Add`, `Average`, `Reset` | `EntropyWindow`, `WindowMachine` |
| Token entropy | `internal/entropy/entropy.go` | none | `ComputeEntropy`, `ExtractTokenEntropy` | an input of the other modules |
| Streaming client | `pkg/client/openai_compat.go` | a goroutine and a channel of capacity 16 per call | `Stream`, `Complete`; both write to the request they are given | `StreamClient`, `StreamReader`; the writes and the kinds of error in `ChatHandler` |
| Embedding client | `pkg/client/embedding.go` | none | `Embed`, one HTTP call | the steps `LookupEmbed` and `InsertEmbed` of `SemanticCache` |
| Serial router | `internal/router/router.go` | locals of `Route` | `Route` | `Router` |
| Speculative executor | `internal/speculative/executor.go` | locals of `Execute`, the speculative call | `Execute` | `SpeculativeExecutor`, `RoutingContract`, `ExecutorAsRouter` |
| Chat handler | `internal/gateway/handler.go`, `assemble.go`, `errors.go` | the shared `*ChatCompletionRequest`, the reply, metrics | `ServeHTTP` and its four routes, two fallbacks, cache insert; `streamHeavyweight` with a goroutine and a channel of its own | `ChatHandler`; the forwarder in `StreamReader` |
| Semantic cache | `internal/cache/*.go`, `internal/gateway/cache_handler.go` | Redis entries and Qdrant points with the same id | `Lookup`, `Insert`, `Evict` | `SemanticCache` |
| Server, middleware | `internal/gateway/server.go`, `middleware.go`, `cmd/gateway/main.go` | the listener, the signal and error channels, a response writer per request | start, shutdown, request id, logging, recovery | `GatewayServer` |
| Configuration | `internal/config/*.go` | one record | `Load`: defaults, then validation | `GatewayConfig` |
| Metrics | `internal/metrics/*.go` | Prometheus counters | `Record*` | requests, errors and routing decisions, in `ChatHandler` |
| Trace collector | `benchmarks/cmd/collect`, `benchmarks/internal/collect` | a JSONL file, the set of collected prompts, a pool of workers | `Collect`, `Evaluate`, `NewStore`, `Append`, `LoadRecords`, the retries and reruns | `Collector`, `RecordStore` |
| Replay and statistics | `benchmarks/internal/sweep` | none | `Replay`, `EntropyScore`, confusion counts, `ThresholdForRate`, `AUROC`, costs, bootstrap | `TraceReplay`, `Sweep` (not the costs and the bootstrap) |
| Other benchmark tools | `benchmarks/cmd/*` | files | fetch, features, compare, load test, replays | not modelled |
| Protocol types, dashboard, training scripts | `pkg/protocol`, `web/`, `benchmarks/*.py` | none | none | not modelled |

### How they interact

* `ServeHTTP` runs on one goroutine per request. It looks the question up in the
  cache, opens the drafter's stream on a *clone* of the request and calls `Route`
  or `Execute`, which read the drafter's channel and block in a `select` on it and
  the request's context.
* `Execute` may call `heavyweight.Stream` inside the loop over a chunk's tokens,
  on the *shared* request and a context derived from the client's. On an
  escalation its `Result` carries the channel and the cancel function to the
  handler; otherwise `Execute` cancels the call and leaves a goroutine that drains
  its channel.
* Each streaming call is a goroutine that scans the body into a bounded channel
  and closes it. The send of a chunk also waits for the context; the send of an
  error does not.
* An accepted draft is inserted in the cache by a goroutine with a context of its
  own, after the request has gone on. Nothing waits for it at shutdown.
* `main` builds everything from one configuration record, starts the listener on a
  goroutine and waits for a signal or for the listener's error. Each request runs
  through `recoveryMiddleware`, `loggingMiddleware` and `requestIDMiddleware`, in this
  order; the logging one wraps the response writer.
* On the escalation path `streamHeavyweight` receives the first chunk itself and then
  leaves a goroutine that copies the heavyweight's channel to another one, of
  capacity 1, which `streamSSE` reads.
* The collector's workers share one client per provider, the record store behind its
  mutex, and the context that the interrupt cancels. A run of the command resumes
  from the file an earlier run left. The replay reads that file and drives the same
  `entropy.Window` as the gateway.
* The cache's three operations run on request and insert goroutines against two
  stores and have no lock or transaction.

### What is hard

* A `select` with several ready cases picks one at random: a closed channel and a
  done context are not told apart in any order (`executor.go:51`, `router.go:41`).
* The speculative call has to end up cancelled *or* handed over, exactly once, on
  each of Execute's returns, also after a failed start (`executor.go:106-118`).
* Abandoned channels must be drained or their goroutines stay (`executor.go:99`,
  `:128`, `router.go:71`); the forwarder's channel is not drained (`handler.go:460`).
* A client may be gone at any step of its request: what is then tried, written and
  counted (`handler.go:355`).
* Shutdown: signals before `main` watches for them, an error of the listener while
  requests are answered, a grace period shorter than a stream (`main.go:101-119`).
* A Go zero value stands for "not configured": defaults repair and hide what the
  file says before it is validated (`load.go:10-116`).
* The request object is mutated by the heavyweight client and read afterwards by
  the fallback branches (`handler.go:360`, `:407`).
* Both providers can fail one after the other, before or after the reply has begun.
* The cache writes to two stores one after the other; each write can fail, fail
  after taking effect, become visible late, or never be made because of a crash.
* An interrupt ends a drafter's channel like a finished body does, and a write that
  falls short leaves a line that the next one continues (`collect/store.go:79`).

`PROJECT.json` lists the hazards at their lines with the properties that cover them.
Those that no property covers are in section 6.

### What makes each component correct

* Window: the running sum over the ring is the sum of the last `Size` entropies,
  and the decision of each `Add` is the documented rule on the whole sequence.
* Streaming call: a reader sees the chunks in order without a gap, nothing follows
  an error, and the goroutines of the call and of the forwarder end, but for two
  sends that nothing interrupts, which `GoroutinesEnd` names.
* Router and executor: the verdict is the rule's, it comes in bounded time, no
  unowned heavyweight call is left behind, and no goroutine but one with an error to
  send and nobody who reads it (`DrafterStuck`, `HeavyStuck`); the executor is the
  router plus a call that never changes a decision.
* Handler: each request is answered, in the mode it asked for, with the answer
  its routing header names; a fallback answer is never cached; a heavyweight
  error is never hidden behind a drafter's; a handed call is used and released;
  the counters of a request agree with each other and with its reply.
* Server: it listens only with a configuration its parts were written for; a request
  is cut only for one of three reasons; a signal ends the process; a log line tells
  the status that was sent.
* Collector: no prompt is recorded twice whatever is interrupted, crashes or is
  rerun; no trace that was cut short is stored as complete; each run ends.
* Replay: a trace is escalated offline where the gateway would have, and its
  threshold-free score says so at every threshold. The AUROC counts pairs, ties as
  half, and the threshold for the router's own rate gives the router back.
* Cache: what is served answers a similar prompt and was not evicted; what was
  stored stays servable; the clean-up of an orphaned point never hits a live entry.

## 2. The modules

```
EntropyWindow ──► Router ──► RouterProps ──► MCRouter
      │              ▲
      │              │ refines (Serial)
      └──► SpeculativeExecutor ──► ExecutorAsRouter ──► SpeculativeExecutorProps ──► MCSpeculativeExecutor
      │              │                                        │ refines (Contract)   └─► SpeculativeExecutorProofs
      │              └── StreamClient (twice: drafter, heavy)  └── RoutingContract
      └──► WindowMachine         │
               └──► TraceReplay  └──► StreamReader (with streamHeavyweight's forwarder)
                        └──► Sweep
EscalationRule (reference rule, instantiated by EntropyWindow)
EntropyWindow ──► WindowProofs; with RouterProps and Sweep ──► DecisionProofs
StreamReader ──► StreamReaderProofs
RecordStore ──► Collector ──► MCCollector, CollectorProofs
ChatHandler (uses the outcomes RoutingContract allows) ──► ChatHandlerProofs
GatewayConfig ──► GatewayServer ──► MCGatewayServer, GatewayServerProofs
SemanticCache ──► MCSemanticCache, SemanticCacheProofs
```

**`EntropyWindow`** has `Add` and `NewWindow` as operators on a window record. The
entropies are integers on a fixed-point scale; the comparison with the average is
written `sum > Threshold * n`. The floating-point drift of the running sum is
outside the model. `Tracks(w, s)` says that the window `w` is what adding the
entropies `s` leaves; it is the invariant of whoever owns a window.
**`EscalationRule`** states the rule of
`docs/SYSTEM_DESIGN.md` 3.1 on a whole sequence, with no ring and no running sum.
**`WindowMachine`** drives one window through every sequence of `Add` and `Reset`.
**`TraceReplay`** reads a trace through that machine as `sweep.Replay` and
`sweep.EntropyScore` do; scores are sums over `Size` tokens, not averages. **`Sweep`**
reads several traces in a row, keeps of each its score, the replayed decision and the
judge's verdicts, and has the confusion counts, `ThresholdForRate` and `AUROC` as
operators on these records. Ranks are doubled, so that midranks are whole numbers;
a record that holds an error is read and skipped. `Sorts` has every ascending
arrangement of the records: Go's sorts are not stable, and the properties are about
each order that they may leave ties in.

**`StreamClient`** is one streaming call: a record with the goroutine's place
(scanning, offering a chunk, failing, closed), the channel's buffer, how the body
ended, and the chunks scanned. It is instantiated by each module that reads a
channel, once per call, with that call's context. **`StreamReader`** gives it a
reader that may stop anywhere and a context that may be cancelled anywhere: the
union of every loop that ranges over such a channel. The reader takes from the
channel itself or, as `streamSSE` does on an escalation, from `merged`, behind
`streamHeavyweight`'s wait for the first item (`WaitForFirst`) and its goroutine
(`ForwardTake`, `ForwardSend`, `ForwardEnd`).

**`Router`** and **`SpeculativeExecutor`** model `Route` and `Execute` statement
by statement at the points where another goroutine can act: the `select`, each
token of a chunk, the start of the heavyweight call. One action per branch:

| Code | Action |
|---|---|
| `<-ctx.Done()` | `CtxReturn` |
| channel closed | `AcceptDraft` |
| `sc.Err != nil` | `DrafterError` |
| a chunk | `ReceiveChunk`, then per token `Score` with one of the next three |
| window escalates | `EscalateDraft` (with the drain goroutine) |
| soft threshold, not yet triggered | `TriggerSpeculation`, then `StartHeavy` or `StartHeavyFails` |
| neither | `KeepDrafting` |

**`RoutingContract`** is the abstract specification: a verdict is given once, a
call is started at most once and before the verdict, an escalation hands it over
and every other verdict cancels it. `SpeculativeExecutorProps` maps `Execute` to
it. **`ExecutorAsRouter`** maps the same state to `Router`, forgetting the
heavyweight call.

**`ChatHandler`** models a request from `ServeHTTP` to its reply; a step is a call
to a provider or to the router with its outcome. The request record separates what
the client sent (`asked`, `wanted`) from the shared object (`stream`, `model`) that
the heavyweight client writes to. All requests ask the same question of the same
model, so each may be answered from what another cached. The cache is a set of stored
answers here: what it does inside is `SemanticCache`'s subject. `Disconnect` may come
at any step: a call that is begun afterwards fails as timed out, and the handler runs
on. `failure` is the kind of error a failed call returned, from which
`handleUpstreamError` takes the status; `errors`, `counted` and `decisions` are what
the request added to three counters. Left out: the branch for a writer without `Flush`
(the logging middleware's writer always has it) and the `X-` headers that carry
latencies and reasons. A reply to a client that is gone is what the handler tried to
write.

**`GatewayConfig`** has `applyDefaults` and `validate` as operators on a record of
integers and switches, and which routes `NewServer` can register. **`GatewayServer`**
is the process: `main` statement by statement where something outside can act, the
goroutine of the listener, signals, the timer of the shutdown, and requests that
begin a reply by `WriteHeader` or `Write`, return or panic. What a handler does
between is `ChatHandler`'s subject; here it may take for ever. A request has two
statuses, the one its `responseWriter` remembers and the one net/http sent, because
`recoveryMiddleware` writes to the latter's writer past the former.

**`SemanticCache`** models `Lookup`, `Insert` and `Evict` call by call. The outcome
of a store call is: success, failure without effect, failure *with* effect (a
timeout after the server acted). Qdrant acknowledges a write (`wait` is not set)
before searches see it: `backlog` holds acknowledged writes, applied in order. A
search is approximate in Qdrant and exact in the model (`Nearest`): that the index
returns a point which is not the nearest is not among the outcomes, that a search
returns nothing is (it may fail). Redis entries expire. `Crash` ends an operation
between two calls. `stored`, `dropped` and `evicted` are history variables for the
properties.

**`RecordStore`** is the JSONL file: the records on terminated lines that parse, and
the pieces on an unterminated last line. `Append` succeeds, fails without effect,
fails after the whole line was written (`Sync`), or falls short. **`Collector`**
models `main` of `cmd/collect` with one worker per prompt: `Collect`'s calls in
order, `Evaluate`'s two attempts, the waits after a rate limit, the interrupt, a crash
(perhaps in the middle of an `Append`), and the rerun of the command. The drafter's
channel appears by its outcomes, which `StreamReader` justifies: a whole body, an
error, or, once the context is done, a body that was cut short and looks whole. A
call on a context that is done fails. The test of the context before an `Append`
(`main.go:130`) and the `Append` are one step: an interrupt between them finds a
record whose calls have all returned before it. Left out: the delay between
dispatches, the selection of prompts, and the numbers in a record.

An operator whose comment begins with "Mutant of" is the form a plausible bug would
give the definition after it; it is used by no specification, only to see that a
property notices it.

## 3. What the runs check

All runs use two TLC workers and take from a second to about two minutes.

| Run | Bounds | Result |
|---|---|---|
| `window` (`Sweep.cfg`) | `Size` 3, entropies 0, 1, 4 around threshold 2, early exit 2; a trace of up to six tokens (two times around the ring) before the first record, records of three tokens together, four records | each decision is the rule's; a replay escalates where the gateway does; a score above the threshold and a replay that escalates are the same; AUROC is pairwise; the rate-matched threshold gives the router back |
| `stream` (`StreamReader.cfg`) | capacity 2 and five chunks, so that both channels fill and the producer waits; with and without the forwarder | no gap, nothing after an error, the goroutines end or are stuck in one of two sends, the reader's loop ends |
| `router` (`Router.cfg`) | capacity 1, up to four chunks of up to two tokens | decision is the rule's; Route returns; a disconnect is noticed; the drafter's goroutine ends |
| `executor` (`SpeculativeExecutor.cfg`) | capacity 1, up to three chunks from each provider, soft threshold 1 below threshold 2 | ownership of the call, judged drafts, refinement of `RoutingContract` (with its liveness: a verdict is given) and of `Router` (whose decisions are the rule's), the goroutines end or are stuck in the send of an error |
| `handler` (`ChatHandler.cfg`) | two requests, all 16 configurations, both modes and both kinds of model name, a disconnect at any step | what is cached, what each request is answered, what the counters say, and that each request ends |
| `cache` (`SemanticCache.cfg`) | two goroutines, two ids, three prompts of which two are similar, backlog 2 | a hit is similar to the question, the clean-up of an orphaned point meets no live entry, what was stored stays servable, what was evicted is not served |
| `collector` (`Collector.cfg`) | three prompts, one of them graded exactly, two workers, one retry, two runs, one short write | no duplicate, bounded loss, no trace of an interrupt, complete when undisturbed, each run ends |
| `server` (`GatewayServer.cfg`) | two requests; an empty file and a full one, each with at most one number at the values around its bounds, and every metrics path | listens only with a sound configuration, cuts requests only for cause, logs what was sent, a signal ends it |
| `executor_truncated_draft`, `handler_shared_request`, `handler_both_fail`, `collector_torn_line` | the same modules | violated: the findings below |

Why the bounds are enough. The loops only look at one item at a time, and at
whether the channel is empty, full or in between: capacity 1 has the two extremes
at once, and three chunks let a draft go on after a failed start, a second start
and a full buffer. Chunks cover no token, a quiet, a soft and a hard token, and two
tokens in one chunk, so that each branch is taken in the middle of a chunk and at
its end. In the cache two goroutines are needed for a race and two ids for a search
that has a choice; an operation on a third id would touch nothing that these share.
In the handler requests meet only in the cache, and two are needed for one to be
served what the other stored. In the server two requests let one be in flight while
the other has returned or panicked; the checks of `validate` each read one field, but
for the cache's, which also read its switch, and the soft threshold, a product of two
fields whose bounds are those of one. In the sweep four records have two ties of both
classes at once, and all the positions that a rate of quarters can select.

The collector needs more prompts than workers for the semaphore to be full, and two
runs for a resume after each kind of end; two prompts with three runs and two short
writes were checked too, with the same result.

Deadlock is checked in the `window` and `cache` runs. `CHECK_DEADLOCK FALSE` is set
where the modelled program stops: a stream that has been read to its end, a draft
that has been decided, requests that have all been answered, a process that exited.
A module's type invariant is a conjunct of one of its checked properties
(`AddDecidesByRule`, `DecisionIsRule`, `NoGapInDelivery`, `CountersAgree`,
`LogTellsWhatWasSent`) or is
proved.

### Fairness

* A goroutine that can run is scheduled: `WF` on `Execute`, `Route`, the clients'
  goroutines and the drains. Each is one goroutine's program, so weak fairness of
  the disjunction of its steps is what the Go scheduler gives. In a `select` no
  fairness between ready cases is assumed.
* A body ends, fails or gives another chunk: the `http.Client` has a timeout, which
  bounds the whole body. The model bounds the chunks of a body by `MaxChunks`.
  `DisconnectIsNoticed` does *not* assume it, and `Router`'s specification has
  fairness of `Route` alone: the other temporal properties of `RouterProps` name
  the fairness they need as their hypothesis.
* The context of a handler that has returned is cancelled by `net/http`. Nothing
  makes a client disconnect before.
* In `StreamReader` the forwarder is scheduled too. Nothing makes the reader read on:
  it may leave at any point, and then the forwarder's send may wait for ever.
* Neither does anything make the caller of `Execute` read a channel it was handed
  (`CallerReads` has no fairness): `streamSSE` leaves on a failed write
  (`handler.go:500`) and its forwarder then keeps an item for ever. The heavyweight's
  goroutine ends all the same once the handler's context is done, unless it has an
  error to send and the channel is full: `NoGoroutineLeft` names that case
  (`HeavyStuck`), for handed channels alone.
* In `GatewayServer` `main` and the timer of the shutdown go on. Handlers, the
  listener and signals have no fairness: a handler may never return.
* In `ChatHandler` a handler goroutine keeps running, since each provider call ends
  within its timeout.
* In `Collector` main and each worker are scheduled; provider calls end within their
  clients' timeouts, so that a call is one step. Nothing is assumed of the interrupt,
  the crash and the rerun.
* `SemanticCache` assumes no fairness: its properties are safety properties.

## 4. Findings

Each is a run whose property is violated, and quotes the line that promises the
property; `PROJECT.json` has the details.

1. **A disconnect can accept a truncated draft** (`executor.go:60`, run
   `executor_truncated_draft`). A cancelled send closes the drafter's channel as
   `[DONE]` does. If `Execute`'s `select` takes the closed channel rather than
   `ctx.Done()`, it accepts what was drafted so far, and the handler inserts it in
   the cache under a background context.
2. **What the heavyweight client writes to the shared request changes what a fallback
   serves** (`handler.go:360` and `:407`, run `handler_shared_request`). `Stream` sets
   the request's stream field: when the drafter fails after a speculative call was
   tried, a JSON client is answered in SSE. `buildRequest` replaces the model `auto` by
   the heavyweight's: the re-run of the drafter asks the drafter's endpoint for the
   heavyweight's model.
3. **Both providers failing can be answered 200 with an empty stream**
   (`handler.go:374`, run `handler_both_fail`).
4. **A record appended after a torn line is lost** (`collect/store.go:79`, run
   `collector_torn_line`). `Append` does not end a line that an earlier write left
   unterminated, so a record that was reported as written becomes a part of the
   malformed line, which every reader skips. `LossIsBounded` shows that it is one
   record per short write.

More disagreements have no run of their own:

* `docs/SYSTEM_DESIGN.md:80` says an escalation aborts the draft immediately;
  `Execute` and `Route` leave a goroutine that reads it to its end (`EscalateDraft` in
  both modules).
* `docs/RESULTS.md:289` says that prompts whose collection failed were collected again
  by rerunning the command; `NewStore` counts a record that holds an error as
  collected, so that a rerun skips it (`NewStore` in `RecordStore`).
* `docs/METRICS.md:160` says `fallback_heavyweight` counts requests "served by the
  heavyweight directly"; it is counted before the heavyweight is called, and so also
  when that fails, and for clients that are gone (`FallbackDecided`; `CountersAgree`
  says what does hold). `fallback_draft` is counted when it is served.
* An upstream that is slower than its client's timeout is answered 500
  (`internal_error`), not 504: the timeout of the `http.Client` is not the deadline of
  the context that `openai_compat.go:106` asks. The last conjunct of `CountersAgree`
  states it: a timeout is counted only for a client that is gone.
* The request id in the log and in the panic report is always empty: both middlewares
  run outside the one that sets it (`middleware.go:77`, `:87`).

## 5. Proofs

Eight modules hold theorems; `tlapm` checks them to the last leaf. TLC evaluates the
assumptions on the constants in each run, and checks the properties that follow from
each inductive invariant; the invariants themselves were checked with TLC before they
were proved. Every invariant that a passing run checks is a theorem, and so are the
action property and the refinement between executor and router; what TLC alone
checks is liveness.

### `WindowProofs` and `DecisionProofs`

For every window size, threshold and early-exit count, all natural entropies, and a
drafter with any chunks, capacity and length of body (`WindowAssumption`,
`RouterAssumption`, `MachineAssumption`):

| Theorem | States | In words |
|---|---|---|
| `RouterDecidesByRule` | `Spec => []DecisionIsRule` | `Route` escalates at the first token at which the rule does, and only there |
| `WindowDecidesByRule` | `SweepSpec => []AddDecidesByRule` | each decision of `Window.Add` is the rule's on the whole sequence |
| `ReplayInductive` | `SweepSpec => []ReplayInv` | the replay's invariant |
| `ReplayDecidesByRule` | `SweepSpec => []ReplayIsRouter` | the offline replay escalates where the gateway does |
| `ScoreDecides` | `SweepSpec => []ScoreDecidesReplay` | the threshold-free score is above a threshold iff the replay at it escalates |
| `RecordsInductive` | `SweepSpec => []RecordsInv` | each record's score still decides it at the threshold it was replayed at |
| `RecordsCanBeSorted` | `SweepSpec => []SortsExist` | there is an ascending arrangement of the records |
| `AUROCCountsPairs` | `SweepSpec => []AUROCIsPairwise` | AUROC's rank sum counts the pairs that the score orders, ties as half |
| `RateMatchesRouter` | `SweepSpec => []RateMatchedIsRouter` | the threshold for a rate takes as many as wanted, and the router's records at its rate |

The rule is about a whole sequence and the code keeps a ring of `Size` entries with a
running sum. `Tracks` relates the two: the `j`-th newest entropy is `j` slots behind
the cursor, and the sum is the total of the last `Size` of them. It is needed because
`Add` subtracts the entry it overwrites: the decision alone says nothing of the other
slots. `AddTracks` proves that `Add` keeps it and `EscalatesIsRule` that it makes the
decision the rule's; they are about the operators, so the router and the replay
both cite them. Below these are facts about `Total`, a sum defined by a recursive
function. The library's induction rules cannot be instantiated by the provers, so
`SetInduction` derives induction for a *set* of numbers from the well-founded minimum
of the naturals (`WFMin`), and `SumsExist`, `SumsUnique` and `TotalIs` give the
recursion equations from it.

`IInv` of `RouterProps` is `DecisionIsRule` with `Tracks` of what `Route` has scored.
`ReplayInv` is `Tracks` of the tokens of the current trace with the three properties.
`RecordsInv` carries `ScoreDecidesReplay` from the trace into the record made of it.

The statistics are about any number of records in any ascending arrangement of them,
and nothing is assumed of a sort but that it is one; `RecordsCanBeSorted` shows that
this is never about no arrangement at all. The lemmas below them, in the order of the
module:

* *Sums over finite sets.* The library's `SumFunction` is a fold that a recursive
  function defines, by picking elements one after the other. `SumUnfolds` gets its
  equation, as `TotalIs` does for `Total`, and `SumOfMore` that any element may be
  taken off, whichever the fold picks. From these follow sums of sums, over unions,
  images and pairs, and that a sum of ones counts.
* *Positions.* A set of positions closed downwards is `1 .. c`, and one closed upwards
  is the last `c` (`FirstOnes`, `LastOnes`), so a run of ties lies between the
  lower scores and the scores that are no higher. Hence twice a midrank is one more than
  what the item wins against all items, ties and itself as half (`MidrankWins`).
* *AUROC.* What the unacceptable drafts win among themselves is the square of their
  number (`SumOfSquare`), which is what `U` subtracts with the ones; the rest are
  their wins against the acceptable ones (`RankSum`), and the arrangement maps these
  pairs one to one to pairs of records (`RanksCountWins`).
* *Rates.* At most the `m` highest scores are above the threshold, and all of them
  unless it is tied (`MatchedTakesHighest`, `MatchedNumber`). At the router's own rate
  the records that escalate are the last `e` positions by `RecordsInv`, so the score
  below them is lower even if others are tied, and the threshold takes exactly them
  (`MatchedIsRouter`).

### `StreamReaderProofs`

For every capacity and any number of chunks, with and without the forwarder:

| Theorem | States | In words |
|---|---|---|
| `Inductive` | `Spec => []IInv` | the invariant below |
| `DeliveryHasNoGap` | `Spec => []NoGapInDelivery` | what was received, and what is on its way, is the body's beginning |
| `ErrorIsLast` | `Spec => []NothingFollowsAnError` | an error ends the stream |

`NoGapInDelivery` follows the items from the body through the channel, the forwarder's
hand and `merged` to the reader, and compares them one by one with what was scanned.
It is almost inductive; `PlacesInv` adds what each goroutine holds at each place, so
that a send or a receive moves an item over one seam of this line (lemma `Seam`).

### `ChatHandlerProofs`

For any set of requests and every configuration:

| Theorem | States | In words |
|---|---|---|
| `Inductive` | `Spec => []IInv` | the invariant below |
| `AcceptedDraftsCached` | `Spec => []OnlyAcceptedDraftsCached` | the cache holds accepted drafts only |
| `RepliesSayWhatTheyAre` | `Spec => []ReplyIsWhatItSays` | a reply's header names the provider of its answer |
| `HeavyErrorsSurface` | `Spec => []HeavyErrorSurfaces` | the heavyweight's error is not hidden by a drafter's |
| `CallsReleased` | `Spec => []CallReleased` | no handler returns with a handed call running |
| `HeavyIsCalledOnce` | `Spec => []HeavyCalledOnce` | an escalation makes one heavyweight call |
| `ModesAreAsked` | `Spec => []ModeIsAsked` | JSON or SSE as asked, but for the one known exception |
| `CountersAgreed` | `Spec => []CountersAgree` | the counters of a request agree with its reply |

Most of these are about finished requests and say nothing on the way. `IInv` has for
a request that is being handled (`Ongoing`) what the handler's locals are at each
place: which decisions it has counted, whether it holds a call, how many it began and
with which failure it came there. For a finished one (`Ended`) it has the properties
together. Requests meet only in the cache, so the proof has a lemma per action
that shows one request from `Ongoing` to `Ongoing` or `Ended`, and lemmas for the ways
to answer that several actions share (`AnswerOk`, `HeavyAnswerOk`, `SurfaceErrorOk`).

### `GatewayServerProofs`

For every configuration file of integers and switches (`ConfigAssumption`) and any set
of requests:

| Theorem | States | In words |
|---|---|---|
| `Inductive` | `Spec => []IInv` | the invariant below |
| `ListensSound` | `Spec => []ListensWithSoundConfig` | what listens has a configuration its parts were written for |
| `CutForCause` | `Spec => []CutOnlyForCause` | a request is cut only for the three reasons |
| `LogIsTrue` | `Spec => []LogTellsWhatWasSent` | a log line tells the status that was sent |

`LoadedIsSound` is about `applyDefaults` and `validate` alone: what they let pass is
sound. The run can only try files with a number or two near a bound. `StartInv`
carries that from `Load` to the listener, `ExitInv` says which exit goes with which
place of `main`, and `WritersAgree` what the two writers of a request hold before it
returns or panics.

### `SpeculativeExecutorProofs`

For every capacity, every bound on the bodies, every set of chunks and every window
(`ExecutorAssumption`, `WindowAssumption`):

| Theorem | States | In words |
|---|---|---|
| `Inductive` | `Spec => []IInv` | the invariant below |
| `CallAlwaysOwned` | `Spec => []CallIsOwned` | a return of `Execute` has cancelled the call it started, or hands it over |
| `HandedCallStaysLive` | `Spec => []HandedCallIsLive` | nothing cancels or drains a handed call under its reader |
| `AcceptedIsJudged` | `Spec => []AcceptedDraftIsJudged` | a draft accepted for a client that is there is a whole body |
| `ExecutorRefinesRouter` | `Spec => DecidesAsRouter` | `Execute` implements `Route` |
| `ExecutorDecidesByRule` | `Spec => []EscalationIsRule` | `Execute` escalates at the first token at which the rule does, and only there |
| `ExecutorRefinesContract` | `Spec => StepsOfContract` | `Execute` implements the safety part of `RoutingContract` |
| `ContractOwns` | `StepsOfContract => []CallIsOwned` | the contract alone leaves no decided draft with a call that nobody owns |

`IInv` is the conjunction of `TypeOK` and six parts, each of which says what the
local variables of `Execute` mean at a place of its loop:

* `TokenInv`: the loop over a chunk's tokens has one left to score.
* `VerdictInv`: which of the recorded results go with which place in the code.
* `CallInv`: after each place, whether the speculative call is running, cancelled
  or handed over. `CallIsOwned` alone is not inductive: it says nothing while
  `Execute` is still in its loop, where the next return has to know whether a call
  is running.
* `GoroutineInv`: when the two channels are empty, closed, drained.
* `DraftInv`: while the draft is undecided, the number of chunks the drafter's
  goroutine scanned is the number drafted, plus the chunks in the channel, plus the
  one it offers; an error is the last item of a channel. This is what makes "the
  channel is closed and empty" mean "the body was read to its end".
* `AcceptInv`: `DraftInv` frozen at the moment of acceptance.

The proof has a lemma per group of conjuncts, and in each one step per action. The
operators on channels (`ReceiveBuffer`, `SendBuffer`) and on calls (`DrafterType`,
`DrafterSteps`) are lemmas of their own. The refinements map each action:
`StartHeavy` and all steps of the heavyweight's goroutine stutter in `Router`, and a
step of the drafter's goroutine is the same step there. `EscalationIsRule` is about the
window too, which the refinement does not show, and is proved directly from the lemmas
of `WindowProofs`; it is `DecisionIsRule` for a `Result` that may say that a
speculative call is running. `CallIsOwned` is proved twice: from `IInv`, and through
the contract, which shows that the contract says what its readers take from it.

### `SemanticCacheProofs`

For any number of goroutines, ids and prompts, any backlog and any similarity:

| Theorem | States | In words |
|---|---|---|
| `TypeCorrect` | `Spec => []TypeOK` | an operation holds the prompt or id its next call needs |
| `Inductive` | `Spec => []IInv` | the invariant below |
| `CleanupIsSafe` | `Spec => []CleanupFindsNoEntry` | the delete of an orphaned point never meets a live entry |
| `StoredStays` | `Spec => []StoredStaysServable` | what was reported stored is servable until it expires or is evicted |
| `EvictedIsNotServed` | `Spec => NoHitAfterEvict` | an action property: no lookup ends in a hit on an evicted id |
| `HitsAreSimilar` | `Spec => []HitIsSimilar` | what is served answers a prompt similar to the one asked |

`CleanupFindsNoEntry` relates a lookup that has read "no entry" to the store at the
time of its later delete, with any number of other operations in between. It holds
because of what `IInv` adds: an id is in nobody's sight until its upsert has been
issued, and the entry is written before that (`HiddenUntilUpsert`); an id that is
not in use is nowhere in either store (`UnusedIsNowhere`); at most one insert works
on an id, since ids are random UUIDs (`InsertOwnsItsId`); an eviction in progress is
marked (`EvictionIsMarked`); and an evicted id never gets an entry again
(`EvictedStaysGone`).

`HitIsSimilar` needs a second invariant, `SimInv`, on top of it: a lookup compares its
prompt with a point and serves an entry it reads later. `Tells(i)` collects the prompts
that the two stores, the writes on their way and the inserts in progress say an id
stands for; there is never more than one (`OnePromptPerId`), so the comparison still
holds when the entry is read (`ReadIsSimilar`).

### `CollectorProofs`

For any number of prompts, workers, retries, runs and short writes, and any choice
of the exactly graded prompts (`CollectorAssumption`):

| Theorem | States | In words |
|---|---|---|
| `Inductive` | `Spec => []IInv` | the invariant below, with the bound of the semaphore |
| `NoDuplicates` | `Spec => []NoDuplicateRecords` | no prompt ever has two records |
| `LossBounded` | `Spec => []LossIsBounded` | a short write costs at most one acknowledged record |
| `InterruptTraceless` | `Spec => []InterruptLeavesNoTrace` | no error of an interrupt and no cut draft in the file |
| `UndisturbedRunsCollectAll` | `Spec => []UndisturbedRunCollectsAll` | a run that nothing disturbed ends with every prompt collected |

Each property relates the file to something that is not in it, and `IInv` says what:

* `WorkerInv`: what a worker's record reports at each place of `Collect`. A draft
  that was cut short is in a record that is not yet complete only while the context
  is cancelled, and the next call on that context fails.
* `FreshInv`: a prompt in work, and a prompt that the loop may still dispatch, has
  no record that a reader would find. A restart re-establishes it, since `NewStore`
  reads the file with the parser of `LoadRecords`.
* `LossInv`: the short writes pay for the records lost so far *and*, while a torn
  line is unterminated, for the one that the next write will lose.
* `CoverInv`, on top of `IInv`: while nothing has disturbed a run, each prompt its loop
  has passed is in work or collected, so that `wg.Wait` returns with all of them.

The proof first settles the file: whatever becomes of a write, a reader finds the
records of `file` and perhaps the new one at the end (`WritesLoaded`), and a step
writes one record or none (`StepKind`). The rest follows from these two lemmas and
from `FailOk` and `CallsOk`, which do the same for the steps of a worker.

### Only model-checked

* Everything temporal that needs fairness: `KeepsContract`'s fairness part,
  `NoGoroutineLeft`, `RouteReturns`, `DisconnectIsNoticed`, `DrafterGoroutineEnds`,
  `GoroutinesEnd`, `ReaderReturns`, `EveryRequestEnds`, `EveryRunEnds`, `SignalEnds`.
  `ENABLED`, and with it fairness, is beyond the prover. `ExecutorRefinesContract`
  and the inductive invariants are the safety half of these.
* The four properties that the code violates (section 4): TLC's counterexamples are
  the evidence.

## 6. What is not modelled

Not modelled for good:

* The arithmetic of entropies, similarities, costs and bootstrap intervals (floating
  point, logarithms, random resampling), JSON and SSE formatting, the Prometheus
  library, the grading of answers by regular expressions, protocol types, the
  dashboard, and the Python training and plotting scripts. They keep no state that
  another part depends on.
* The other benchmark commands and the load test's mock upstream: drivers that read
  and write files, or inject the failures that every model here allows anyway.
* The delivery of signals, net/http, Redis and Qdrant beyond what the code relies on.
* In `ChatHandler`: a writer that cannot flush, which the middleware chain rules out.

Hazards of the code that no property covers, and why:

* `entropy/window.go:34`: the running sum drifts in floating point; `load.go:92`: a
  threshold that is NaN is accepted. The models use integers.
* `load.go:53`: an early exit of 0 tokens cannot be configured (0 means the default,
  10). `EntropyWindow` admits every integer, so the rule holds for what can be.
  Negative timeouts are accepted too, and mean no deadline at all.
* `cache/qdrant.go:55`: an existing collection is taken whatever its dimension, so a
  changed `embedding_dimensions` makes every upsert and search fail: the cache is off
  and the gateway says so only in its log. A failing search and upsert are outcomes in
  `SemanticCache`; the dimension over several starts is not in the model.
* `cache/qdrant.go:82`: a dangling point that is nearest hides a live entry until a
  lookup cleans it up; that this happens would be a liveness property over lookups
  that may never come. `CleanupFindsNoEntry` has its safety.
* `cache/store.go:33`: the key text ignores the model, the sampling parameters and the
  assistant's turns, and `handler.go:572`: equal questions that miss together are
  inserted twice under two ids. Design decisions; the model's prompts are key texts,
  and `NoHitAfterEvict` is about an id.
* `cache/store.go:57`: a lookup that fails counts neither as a hit nor as a miss.
* `collector.go:139`: with `-drafter-only` no call follows the draft, so that an
  interrupt can store a truncated trace; `InterruptLeavesNoTrace` excepts it.
* `handler.go:200`: on the JSON path a handed channel that closes without data is served
  as an empty 200 answer; `ReplyIsWhatItSays` excepts it.
* `docs/METRICS.md:112` calls the speculative triggers "calls fired": `executor.go:109`
  counts before the call, so a start that fails counts too.

What the models leave open, and a later version could add:

* The three speculation counters. They could be compared with `RoutingContract`: a
  trigger is a cancellation, a handed call, a failed start or a return with an error,
  which no counter records.
* The costs and latencies of the sweep's statistics, which are sums over the same
  records, and the policies that are one comparison of a field.
