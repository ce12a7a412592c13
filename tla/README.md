# NAU in TLA+

A verification project kept beside the NAU strategy laboratory: a FastAPI server
that lets language models propose trading strategies, backtests them, keeps the
ones that survive, and trades them on paper. The modules describe the parts of
the program whose correctness depends on the order in which threads, handlers,
processes and scripts act, and the computations whose rules interact in ways a unit
test hardly reaches. TLC checks them on small instances; TLAPS proves the most
important invariants for every value of the constants.

Paths below are relative to the repository (`src/`).

1. Inventory; 2. The modules; 3. Runs; 4. What is proved; 5. Plan;
6. Where code and text disagree; 7. Not modelled.

## 1. Inventory

### How the system works

An operator posts a brief to `/agent/run`. The handler admits an *AUTO run*, a
daemon thread that works in rounds: load data, propose and backtest a few
strategies, rank them, scan the best for robustness, run one finalist on a sealed
holdout window, and publish it in `strategy_catalog.json` if the verdict is
good. A *continuous* run repeats rounds until a stop request, a ceiling (hours,
tokens, cost) or one of two circuit breakers ends it. Proposals may contain
generated Python blocks, which live as module files plus `registry.json` on disk
and as evaluators in memory. Backtests, robustness suites and generated code run
in child processes with a deadline, and a suite's child owns a pool of workers.
Everything a run does is appended to a JSONL session log, which is all that is left
of it after the server restarts.

Beside AUTO, pages let users compose a strategy in a conversation with the model,
preview a plan, start single backtests, sweeps and suites as background jobs, and
poll them. The *Strategy Builder* (`strategy_studio`) keeps drafts and versions
of visually edited strategies in SQLite, measures and optimises them, and deploys a
measured version on a paper trading node. All of them read bars: crypto from
one parquet file per series that is extended from the exchange, equities from
catalogs that scripts write while the server runs.

### Components

| Component | State | Operations | Partners | Module |
|---|---|---|---|---|
| AUTO worker and admission (`web/routes/agent_backtest.py`, `web/shared.py`) | slot semaphore, `_AGENT_PROGRESS`, `_WorkerState`, generated blocks of the run | `run`, `stop`, `_agent_worker` and its helpers | catalog, block store, session log, LLM, sandbox | `AutoRun`, `RunPool` |
| Candidates of a round (`agent.py`, `codegate.py`, `agent_backtest.py`) | fingerprints seen, dead families, degraded ids, blocks of the run | propose, write and repair a block, compose, deduplicate, backtest, rank | AUTO, block store, LLM | `CandidateSearch` |
| Session log (`_session_log`, `_start_heartbeat`, `web/routes/sessions.py`) | one JSONL file per run, `.reconcile_watermark` | append, heartbeat, `_reconcile_session_logs` | worker, restart of the process | `AutoSession` |
| Strategy catalog (`composer.py`, `web/routes/strategy.py`) | `strategy_catalog.json`, `_CATALOG_LOCK` | `load_catalog` (which prunes), `append_to_catalog`, `mutate_catalog`, `delete_custom_block` | block store, AUTO, Lab, pages | `StrategyCatalog` |
| Custom block store (`custom_block_store.py`) | module files, `registry.json`, `BLOCK_REGISTRY` in memory, registry guard | save, delete, batches of either, `cleanup_agent_run`, import at start | AUTO, routes, sandbox children | `BlockStore` |
| LLM calls (`llm_dispatch.py`, `llm_client.py`, `openrouter_backend.py`, `_admit_llm_budget`) | counters of a run, active model, learned limits, high-water mark, provider processes | admit, call, poll, account, retry, fall back, wait | workers, provider | `LlmCall` |
| Sandboxed children and pools (`sandbox.py`, `parallel_exec.py`, `auto/robustness.py`) | child, queue, deadline, executor and its workers | run in a child, read, reap, batch, time out, rebuild, watchdogs | AUTO, suites | `GuardedSuite` |
| Robustness suite and gate (`auto/robustness.py`, `backtest_robustness.py`, `agent_backtest.py`) | sections of a report, passers, the sealed days | split, peers, slices, walk-forward, simulate, tally, rank, sealed verdict | AUTO, data | `RobustnessGate` |
| Walk-forward optimisation (`backtest_robustness.py`, `wfo_optimizer.py`) | population and best of each window | bound the windows, evaluate a generation, breed, reduce | pool | `WalkForward`, `WfoWindows` |
| Composed strategy (`composer.py`) | deferred decisions, position, decision log | `on_bar`, entries, exits, flips, brackets | exchange | `ComposedStrategy` |
| Winner narrative (`progress` route) | `winner_narrative`, `narrative_inflight` | single-flight LLM call of a poll, reset by the next round | worker, polls | `WinnerNarrative` |
| Jobs of the pages (`web/shared.py`, `web/routes/backtest.py`, `robustness.py`, `lab.py`) | bounded progress stores, session guards, last results | admit, run, poll, evict | sessions, threads | `WebJobs` |
| Chats and drafts (`web/shared.py`, `web/routes/strategy.py`) | `ChatStore`, `_DRAFTS` | turn, apply, save, expire, evict | model | `ChatDrafts` |
| Plan preview (`web/routes/backtest.py`) | `_PLAN_CACHE`, `_PLAN_INFLIGHT` | look up, compute, join, refine | model | `PlanPreview` |
| Studio jobs (`web/routes/strategy_studio.py`, `strategy_studio/store.py`) | drafts, versions, job rows, suggestions, claimed jobs in memory | edit, save, start, finish, reconcile, accept, deploy | background threads, restart | `StudioJobs` |
| Studio definitions, compiler, optimiser (`strategy_studio/*`) | a definition, a sweep | edit, compile, lower, sweep, rank, apply | Studio jobs, engine | `StrategySweep` |
| Studio deployments (`strategy_studio/runner.py`) | deployment row, launch and serve threads, node, kill switch | pick up, launch, announce, pause, resume, stop, monitor, reconcile | operators, trading node | `PaperRunner` |
| Crypto bars (`data.py`, `nau_data/*`) | parquet file, sidecar of holes, lock files, engine catalog | load, extend, refresh, copy, export | exchange, backtests | `BarCache` |
| Readers of equity bars (`data.py`) | decoded series and its signature, manifest memo, page rows | load, decode, remember, list | scripts, pages | `ExternalBars` |
| Equity scripts (`ingest_equities.py`, `download_massive.py`, `repair_massive_intraday.py`, `stitch_ticker.py`) | bar files, `_manifest.json`, staging directory | ingest, download and swap, rebuild, repair, stitch | provider, readers | `EquityIngest` |
| Stall watchdog, token ledger, graph and texts of the Studio, backtest engine, rendering, server start, settings, one-shot scripts | | | | section 7 |

### What is hard here, and what makes each part correct

* **AUTO.** The worker has some fifteen ways out of a round, and the slot, the two
  progress flags, the log's `session_end` and the cleanup of blocks are written at
  different places on each. Correct means: a slot comes back exactly once; a
  sealed window is used once per run whatever failed; a round's cleanup never takes
  the blocks of a published strategy; breakers, stop requests and ceilings end the
  run. A round's candidates are correct if what may win was never tried before, is
  no tagged stop-gap, and stands on blocks that passed their trial.
* **Session log.** A heartbeat thread and the worker append to one file; the process
  dies; another one decides from the last line which runs were cut short.
* **Stores.** Reading the catalog can write it, and its lock covers read-modify-write
  calls but not the pruning read. A batch of blocks is several file operations, one
  registry replacement and an evaluator in memory, any of which can fail or be
  the last thing the process did.
* **LLM calls.** Admission, accounting, retries with larger limits, a fallback for
  good and waits share state between runs; a stop, a ceiling or a deadline may come
  between any two of them.
* **Processes.** The result, the exit and the deadline of a child race; so do a batch's
  timeout and its last futures; any process may die or hang under any other.
* **Robustness.** A section may be missing for many reasons, and must then count
  neither way; what chooses must not have seen what judges.
* **Pages.** Handlers interleave where they await, jobs outlive the entry that shows
  them, bounded stores evict what is in use.
* **Strategy Builder.** Rows survive the process, claims do not; three writers share
  a draft; a definition may change under a sweep; an operator's stop races a launch.
* **Bars.** Readers take no lock, writers die holding one, a bar may be fetched while
  it forms, and a series is more than one file.

`PROJECT.json` lists every hazard at its line, with the properties that cover it
or the reason why none does.

## 2. The modules

`AutoRun` is the core: `RunPool` is its abstract specification, `AutoSession`
extends it, and the theorems are about it. The other modules model one
component each and share no state with one another; where one computes what
another takes as given, the latter allows any outcome, and the comment says so.
*Hosts* put components into one instance: a behaviour of a host runs one of its
*parts* while the others rest, so that the state space is the sum of theirs and not
the product.

| Host | Parts | Runs |
|---|---|---|
| `MCWorker` | `AutoRun` (one run), `GuardedSuite` | `AutoRunOne`, `PoolLeavesHung` |
| `MCRounds` | `AutoRun` (two runs; a research-only run), `ComposedStrategy`, `WalkForward`, `WfoWindows`, `RobustnessGate`, `CandidateSearch` | `AutoRunTwo`, `PromotionLosesBlocks` |
| `MCAutoSession` | `AutoSession` | `SessionOne`, `SessionEndedClosed` |
| `MCStores` | `StrategyCatalog`, `BlockStore` | `Stores`, `CatalogLostUpdate` |
| `MCServices` | `PaperRunner`, `LlmCall`, `WebJobs`, `ChatDrafts`, `PlanPreview`, `WinnerNarrative` | `Services`, `NarrativeOfItsWinner`, `DeploymentRevived` |
| `MCDesk` | `StudioJobs`, `LlmCall`, `BarCache`, `ExternalBars`, `EquityIngest`, `StrategySweep` | `Desk` |

The theorems (section 4) stand in modules of their own:

| Module | about |
|---|---|
| `AutoRunProofs` | `AutoRun` |
| `StoreProofs` | `StrategyCatalog`, `BlockStore` |
| `CallProofs` | `LlmCall`, `GuardedSuite` |
| `StrategyProofs` | `CandidateSearch`, `ComposedStrategy`, `WfoWindows`, `RobustnessGate`, `WalkForward` |
| `StudioProofs` | `StudioJobs`, `PaperRunner`, `StrategySweep` |
| `PageProofs` | `WebJobs`, `ChatDrafts`, `PlanPreview` |
| `BarProofs` | `ExternalBars`, `BarCache` |
| `IngestProofs` | `EquityIngest` |

### AutoRun and the worker

The worker is a program counter `wk[r].pc` and the locals of `_WorkerState` that
outlive a round (`winless`, `errs`, `lastErr`, `consumed`, `kept`), plus those of
the round. A step is what the thread does between two accesses another thread
can fall between: each access to the progress dict is one critical section of
`_AGENT_LOCK`, each log line one append under its own lock.

| pc | code | actions |
|---|---|---|
| `start`, `top` | up to `while True`, then budget check, stop check, reset | `WorkerStart`, `RoundOverBudget`, `RoundAbandoned`, `RoundStart` |
| `work` | the iterations: backtest, next proposal | `Iterate`, `IterationsOver` |
| `judge`, `scan`, `pick` | ranking, robustness scan, no winner | `JudgeStopped`, `RankNothing`, `RankSome`, `ScanOne`, `ScanOver`, `NoWinner`, `PickWinner` |
| `gate`, `save`, `publish`, `announce`, `pause` | `_run_promotion_gate`, `append_to_catalog`, the winner fields, the log line and cleanup, the three seconds with `done` set | `Gate`, `GateOverBudget`, `Save`, `Publish`, `Announce`, `Pause` |
| any of these | the four exception handlers | `LLMCallCancelled`, `AgentBudgetReached`, `TerminalLLMError`, `RoundError` |
| `end`, `final` | `session_end`, then the round's `finally` (`token_snapshot`) | `EndLog`, `Final` |
| `tail`, `tailend`, `lastlog`, `leave` | after the loop; the budget return; `_agent_worker_with_slot` | `LoopEnd`, `LoopEndLog`, `LastLog`, `Leave` |

Abstractions, all on the side of more behaviours unless said otherwise:
what a backtest, a proposal, the scan or the holdout verdict yields is any
outcome; `budget[r]` may become spent at any moment of a run (the ceilings
only grow towards their limit); a strategy is the round that produced it, and
the generated blocks of a round are one element of `generated[r]`, counted as the
finalist's. Log lines other than the last one and the `session_end` records are
forgotten. Left out, that is, fewer behaviours: a thread that cannot be started,
I/O errors inside `_cleanup_generated` and `_session_log` (both swallow them),
`TerminalLLMError` from anywhere but a proposal, and the discarding of the blocks of
single candidates inside a round, which is `CandidateSearch`'s. `run()` raises
`n_iterations` to at least 2, hence the assumption on `Iters`.

### CandidateSearch

What `AutoRun` calls an iteration: `ProposeInitial` and `Idea` are the model's
proposals, `WriteBlock` an attempt at one block under the attempt limit and the token cap,
with the repairs of `FirstFlaw`, `SaveBatch` the transaction over the two,
`Compose` the random composition that replaces what failed, `Kept`/`Replaced` the
deduplication against fingerprints and families, `Backtest` the verdict on one
candidate and what it teaches, `Rank` the pool of those that may win and the cleanup
at the end of a round. A strategy is an entry block, an exit block and a choice of parameters.

### AutoSession

`AutoRun`'s steps are reused whole: `WorkerStep` is a `Worker` step plus what it
means for the session (the heartbeat thread starts with the worker; a log line
moves the file past the watermark). `BeatRead`/`BeatWrite` are the two halves of
`_beat`. `Crash` takes threads, semaphore and progress store, and leaves log,
catalog and blocks. `Arm`, `SnapLive`, `Glob`, `Inspect`, `CloseOne`,
`ScanLogsOver` are `_reconcile_session_logs`, which takes no lock.

### StrategyCatalog and BlockStore

A catalog call is a sequence of the reads and writes of `load_catalog`: the raw
records (`ReadRaw`), which may be unreadable (`ReadRawFails`: an empty catalog to the
caller, also to one that writes it back), the registry's names, which may be unreadable
too (`ReadNames`), the filter, and the write of the filtered list (`Prune`) when something
was filtered and nothing was broken. `append_to_catalog` and `mutate_catalog` hold the lock
around it. Files are replaced atomically, so a read sees one version. `Valid` is
`_catalog_is_valid`: a strategy whose block is on disk and not in `BLOCK_CATALOG` (`view`)
stays; any other is put to `spec.validate()` (`Passes`), which looks its block up in
`BLOCK_REGISTRY` (`mem`) and may refuse it (`refused`) or raise. Beside the calls on the
file run those on the registry in memory: a block is deleted or edited in its chat
(`EditBlock`, `SaveBlock`), leaves and comes under `_REGISTRY_LOCK` (`Unregister`,
`RegisterBlock`), and `BLOCK_CATALOG` is cleared and filled again (`ClearView`,
`FillView`) while its readers take no lock. What validate() makes of a strategy built from
an edited block is any choice.

The code does lose saved strategies in four ways, each reachable in the model:

1. the block is deleted, which is meant, and a prune under way takes others along
   (`CatalogLostUpdate`);
2. `spec.validate()` refuses a strategy that was saved (`composer.py:642`), because its block was
   edited or it was written under other rules: the next load prunes it for good. A validate hook that
   raises is not pruned, and is lost with the next append;
3. a load runs between `clear()` and `update()` of a rebuild, or between the registry's change and its
   rebuild (`composer.py:294`): whatever is not built from a custom block on disk is pruned;
4. the file cannot be read: `_read_catalog_raw` promises that callers never save then
   (`composer.py:657`), and `append_to_catalog` and `mutate_catalog` save what they have,
   the new strategy alone (`composer.py:911`).

`mishaps` remembers 2 to 4, and `NothingLostWhileBlocksStay` claims that nothing else loses a
strategy. Not modelled: the save route's edit of an existing strategy, the memo keyed by
mtime and size, a failing save.

A block transaction holds the guard from `Enter` to `Release` or `UndoRegistry`. Files
and registry hold version numbers, so "the file of an earlier save" and "no
file" are different things, and restoring the wrong one is visible. `Register`,
`Validated`, `ValidateFails` are the callback with which AUTO validates a
candidate inside the open transaction. `Crash` is a death at any step and the
import that follows. Not modelled: a second server process, sandbox children that
read without the guard, a partial write of a module file, quarantine of a
malformed registry, the caller's own registration after `save_custom`.

### LlmCall

One call of a run's worker from `Begin` to its answer. `Fits` is admission: tokens used
plus the bound of this request against the ceiling, where the bound rises with what
was ever observed (`high`). A request is a process of the CLI or of the API backend
(`process`), polled (`poll`), accounted for, retried with a larger limit when
truncated (`learned` keeps the limit), sent to the fallback when the model has no credit
(`active`, for good and for all runs), or waited out. `ended` is the event that
ends a run from outside, a stop or its hours; what it leads to depends on where the
call stands. `over` and `late` are history: what an answer had beyond its reservation,
and requests sent after a stop.

### GuardedSuite

`_run_in_child`: `StartChild`, the server's thread that reads the queue and reaps
(`ServerThread`), `Expire`, and the deaths and exits of server and child. The child of a
suite owns a pool (`suite`, `future`, `worker[g][u]` for the g-th pool that was
built): it submits a batch, collects, gives up on `BatchTimeout`, and replaces the
pool. Watchdogs of children and workers end orphans. Workers may finish, hang or crash.

### RobustnessGate, WalkForward, WfoWindows, ComposedStrategy

`RobustnessGate` takes one round's ranked candidates through the suite. `Sealed`
is the part of the days that only the last verdict may see; `TestPeers` and
`FamilyMedian`, `TestSlices`, `WalkForwardTest` and `MonteCarlo` fill the sections of
`report` from figures that may be `Missing`; `SuiteFails` is a suite without an
answer; `Judge` is `_robustness_tally`; `Pick` the best of the passers by raw score and
peer factor; `Promote` the sealed verdict with the benchmark leg. `answers` and
`looked` are history: what the backtests gave, and the last day anything looked at.

`WalkForward` is the parallel search of each window's parameters: `population`, the
folds of each candidate as units of one batch, the reduction, the next generation, the
fallbacks when a window has no bars, no parameters or lost its units. `Optimised`
is the reference: the path without a pool, as a function of the same draws.

`WfoWindows` computes the lengths of the windows from the pace of trades or a suite's form
and lays them in the calendar, with months of their real lengths.

`ComposedStrategy` is one bar at a time: `OnBar` settles what was deferred, reads the
blocks' signals, decides on exit, entry or flip, and queues commands (`out`); the exchange
takes these after the handler has returned and may fill resting orders between bars.
`decisions` is the decision log, `sent` the tags of orders.

### PaperRunner

One deployment: its row (`status`), the background task that launches the node
with a timeout (`launch`), the thread that serves it (`serve`), what is
registered and trades (`node`), the events between them (`flags`), the kill switch
with its monitor (`switch`, `tick`), handlers of pause, resume and stop (`click`),
and a restart that reconciles rows. Each critical section of the runner and
each write of the row is a step.

### StudioJobs and StrategySweep

`StudioJobs` is one strategy of the Strategy Builder as its handlers and
background threads treat it: draft and versions, jobs with a row in SQLite and a
claim in memory, suggestions, the AI loop, the deploy gate, the death of the process
and the reconciliation on the first listing after it. A definition is the set of the
edits in it. What is done under one draft lock, and each transaction, is a step.
The store may raise where a row is to be ended (`StudioFault`, counted by
`studioFaults`): in the reconciliation (`ReconcileFails`), whose flag `Flag` has set before
and which is logged and never repeated, and in the handler of a job's exception
(`FailUnwritten`), after which the claim goes and the row still runs. `unended` is history:
the rows this process failed to end in one of these ways.

`StrategySweep` is what a definition contains: the edits (`mutations.py`), what
compiles, what `to_nautilus` lowers for the engine (`Lowered`), and the optimizer's sweep
on a copy of it: axes and grid, windows in the sample, screen, folds, ranking, and the
application of a result to the working copy that may have changed meanwhile. What the code
sorts is defined by its order (`InOrder`: in each place the member with so many before
it). A score is the mean less half a deviation, which is a root: `PenalizedScore` is that
number in steps of 1 / (2 `Fine`), rounded down, and a step is so small that two candidates
of which one is steadier never round to the same score.

### WebJobs, ChatDrafts, PlanPreview, WinnerNarrative

`WebJobs`: admission past the session's guard into a bounded store, the thread of each
kind of job, polls that take the outcome out, last results with their own cap. Handlers
do not await between guard and thread start, so each is a step. `ChatDrafts`:
draft lists and conversations; a turn copies the conversation, awaits the model
and commits to whatever is then in the store. `PlanPreview`: the single-flight cache of plans.
`WinnerNarrative`: polls and rounds around a flag that is also a token.

### BarCache, ExternalBars, EquityIngest

`BarCache`: `load_bybit_bars` of one series by several callers: the unlocked read, the
fetch of tail, head and holes under the lock file, half bars, the sidecar of known holes,
the copy to the engine's catalog under another lock, exports, callers that die with a
lock, time that passes. `ExternalBars`: readers of a catalog that scripts rewrite without a
lock, in three independent behaviours (`serving`): decoded series, manifest, page rows.
`EquityIngest`: the scripts themselves, a step per file they replace, with
refused renames and a kill at any step; a bar is its label, its file and the scripts its
prices come from.

## 3. Runs

| Run | Part | Question | Bounds |
|---|---|---|---|
| `AutoRunOne` | runs | Do the breakers hold, does a stop or a ceiling end the run, is nothing left on disk, does every published strategy keep its blocks through the rounds' cleanups? | 1 continuous run, 4 rounds, 2 timeframes, 2 error texts, 2 passers, breakers at 2 |
| | suite | Is what was delivered answered, and is nothing left running by a call, a killed child or a killed server? | 1 guarded call, 2 units, 1 rebuild of the pool |
| `AutoRunTwo` | runs | Is each slot given back once, does unadjusted data or a used window publish nothing, does the log agree with the catalog; refinement of `RunPool` | a continuous run of 2 rounds on 1 timeframe and a single run contend for 1 slot and a store of 1, so that a window sealed in one round is met again in the next; a continuous research-only run of 2 rounds by itself |
| | strategy | Do orders, protection, position and decision log belong together, also when decisions are deferred? | 6 bars, short selling and trend filter, all 12 specifications of bracket, target, limit, delay |
| | walk | Does the parallel search find what the serial one finds, whatever other windows lose? | 2 windows, 2 generations, 2 values, 4 shapes of folds, 1 lost unit |
| | windows | Is a bar judged once, are there as many windows as promised? | 26 start dates at the ends of months, 11 spans, 6 paces, 3 forms |
| | gate | Does what is missing count neither way, does the better evidence win, is the verdict on unseen days? | 8 figures of a strategy, 3 of a peer, 4 candidates, 3 ranks |
| | search | What may win, what stays on disk, what is counted? | 2 rounds of 2 backtests or one of 3, 2 library blocks, 2 attempts, 3 tokens |
| `SessionOne` | | Does every log end, and the heartbeat? | 2 rounds, 1 crash, the first strike ends the run |
| `Stores` | catalog | Is a saved strategy lost though its block stays, validate() passes it, no load meets a rebuild and the file can be read? | 2 threads, 3 strategies, 1 block, 3 calls, 3 initial files |
| | blocks | Do files, registry and memory agree? | 2 threads, a pair and a single block, 3 calls, 2 faults, 1 crash |
| `Services` | runner | Is a node ever hidden from the operator, do rows settle? | 2 operators, 3 clicks, 2 measurements, 1 restart |
| | llm | Does every call end? | 1 worker, 2 calls, 1 planned wait |
| | jobs | One visible job of a session and guard, every session freed | 3 jobs of 2 sessions, stores of 1 or 2, a guard pruned at 1 |
| | chat | Is a turn ever lost under overlap, expiry, eviction? | 2 users, 5 requests, 1 conversation, 1 draft list |
| | plan | One computation of a key, everyone answered | 3 previews, 2 keys, a cache of 1 |
| `Desk` | studio | Are edits lost, is the deployed definition the measured one, are orphaned jobs found? | 2 handlers, 3 requests, 2 jobs, 1 suggestion, 1 death, 1 refused write or listing of rows |
| | llm | Does the ceiling hold, is a given-up call over? | 2 runs, 2 calls, either backend |
| | bars | Is what is loaded complete and final, is nothing fetched lost? | 2 loaders, 3 calls, bars 0 to 5, 1 hole, 1 fault or death |
| | readers | Is what is answered as new as promised? | 2 readers, 3 versions, 3 calls, 3 ticks, 1 break |
| | scripts | Do the series of a ticker agree, does a script change its own only? | 2 tickers and a stitched one, 3 days in 2 years, 2 scripts, 1 refused rename, kills |
| | sweep | Books, ranking, windows, what the engine ran, what is applied | 2 definitions, 13 bars, 3 points, 2 edits, 1 sweep |
| `PoolLeavesHung`, `PromotionLosesBlocks`, `SessionEndedClosed`, `CatalogLostUpdate`, `NarrativeOfItsWinner`, `DeploymentRevived` | | each shows one statement of the repository that the code does not keep (section 6) | the smallest that reach it |

**Why the bounds are enough to be interesting.** Both breakers' limits are 2,
so one bad round is survived and two in a row are not, and with four rounds a
streak can begin, be broken by another outcome, and begin again. Two timeframes
with four rounds exhaust the sealed windows and come back. Two error texts give
equal and alternating errors. A store of one entry makes every second admission
evict or be refused. One crash has a process before it, which may have armed the
watermark or not, and one after it, which reconciles. Two threads with three
calls put a pruning read around an append or a removal and leave one call for
what follows; two faults let a rollback fail as well as the operation
that caused it. One rebuild gives a pool that was given up and one in use. Six
bars open, turn, defer and close a position and open the next. Two generations
breed once, and two windows let one lose a unit while the other does not. The start
dates straddle the months that are too short for them, the spans the points
where one window more fits. The figures lie on either side of every rule of the gate. With caps of
one, every second conversation, draft list, plan or last result evicts one. Requests
for bars 0 to 4 and 4 to 5 extend a file at both ends while the last bar forms. Two scripts are one
that leaves something behind and one that finds it. A sweep of three points has
one that is screened out, one with thin folds and one that is ranked.

**Deadlock** checking is off in every run: runs end and calls are bounded, and a
system with nothing left to do stops. That nothing waits for ever is
what the liveness properties say.

**Fairness.**

* A worker of AUTO is weakly fair because every step it takes is bounded by a
  timeout of its own: provider calls, backtest and robustness children, the
  three-second pause. `RunsEnd` assumes further that ceilings are reached
  (`run()` gives every admitted run a positive number of hours and time passes);
  `StopEndsRun` does not.
* In `AutoSession` the heartbeat sleeps a bounded period, time passes, and someone
  opens the sessions page after a restart, for reconciliation runs on that visit.
* In the catalog and the block store a thread inside a call is scheduled; calls
  are bounded, so nobody is overtaken for ever at a lock.
* `SuiteFairness`: the server's thread is scheduled and its deadline passes (strongly,
  for the wait is entered again for every message), a process that was killed exits, watchdogs
  wake. Nothing is fair about the computation: it may hang.
* `LlmFairness`: a request is answered or fails by its own deadline, a planned wait passes.
* `RunnerFairness`: launch and serve threads and handlers are scheduled, the launch by its
  timeout; a node that was told to stop exits; the monitor measures.
* `JobsFairness`, `PlanFairness`: jobs' threads and the event loop run, model calls
  end by their timeout.
* Stops, requests, polls, faults and crashes are never fair.

**Sensitivity.** `PROJECT.json` names for each property of a
passing run one or more plausible bugs in the code (a forgotten reset, a swapped snapshot,
a lock that is not re-entrant, an off-by-one in a window) under which TLC finds that
property violated. A property that is a conjunction has one for each conjunct that
can fail by itself.

## 4. What is proved

### The life of a run

These hold for any finite set of runs, any number of slots, any store and any
limits. `AutoRunProofs` proves

* `TypeCorrect`: `Spec => []TypeOK`. It is not only typing: it bounds the
  winless count and the error streak by their breakers' limits.
* `SlotsNeverLeak`: `Spec => []SlotsAccounted`.
* `BreakersAreKept`: `Spec => BreakersHold`.

These rest on `Invariance`, `Spec => []IInv` with

    IInv == TypeOK /\ SlotsAccounted /\ Flow

`TypeOK` is not inductive alone. The winless counter is bumped on three paths,
and stays in its range only because a run that reached the limit is already on
its way out: that is what `Flow` says, relating program counter, way out
and counters (`Kept` holds of a worker record, `FlowOf` of each). The same
conjunct yields `BreakersHold`, for a worker at `top` has both counters below
their limits. `SlotsAccounted` needs that only `StartRun` moves a run into `Alive`
and only `Leave` moves one out of it. Every other step is a `Kept` step: the lemma
`KeptIsEnough` says that if the new worker record is well typed and satisfies
`FlowOf`, stays in `Alive`, and the rest of the state is well typed, then `IInv`
holds again; one lemma per action (`RoundStartKeeps`, `GateKeeps`, ...) shows just
that, and `WorkerKeeps` and `IInvNext` collect them.

Its second part, on what a run leaves behind, adds an invariant `PInv` and proves

* `PromotionIsSound`: `Spec => []PromotionSound`.
* `RunsImplementPool`: `Spec => ImplementsPool`, the refinement that a run
  checks for two runs.

Counting publications against windows is not inductive: between the gate and the
catalog write a verdict exists that is not yet published. `PInv` says for each run
that there are never more published entries than consumed windows, and fewer as long as
a promoted finalist waits to be saved (`Windows`), that a promoted
finalist is never of a research-only run (`Research`), and that published entries
are of rounds that are over, or of the current one once it has been saved
(`Order`). Most actions touch neither catalog nor windows and are `Quiet`; the
gate, the save and the start of a round have a lemma each. The refinement then
needs only that a step of `AutoRun` is `StartRun` (`Pool!Begin`, whose guard is the
free slot `SlotsAccounted` counts), `Leave` (`Pool!End`), a `Save` that promotes
(`Pool!Publish`, whose guard is `Order`), or a stutter.

It then adds `EInv` and proves

* `CatalogAlwaysResolves`: `Spec => []CatalogResolves`.
* `NothingIsLeftBehind`: `Spec => []NothingLeftBehind`.
* `EndIsAlwaysLogged`: `Spec => []EndIsLogged`.
* `WinnerIsAlwaysPublished`: `Spec => []WinnerIsPublished`.

Each of them speaks of the end of a path, so `EInv` says where on the path its
obligation is met. `Safe`: a published strategy's blocks are on disk and either
kept by name or about to be, by the announcement of a promoted finalist that is
still to come; that window, between `Save` and `Announce`, is why the set of kept
names alone does not suffice. `Tidy`: the program counters by which the round's
cleanup has happened, which for the exception handlers is after `session_end` and
for the others before. `Logged`: the program counters behind which only the exit
lies. `Story`: for a single run, what the outcome to be logged has to do with the
catalog. A step is `Plain` (no entry, cleanup or `session_end`), a cleanup
(`CleansKeep`), or one of `Save`, `EndLog`, `LastLog` and `Iterate`.

### The stores

`StoreProofs` proves of the catalog, for any threads, strategies and blocks,

* `CatalogTypeCorrect`: `CatalogSpec => []CatalogTypeOK`.
* `NothingIsLost`: `CatalogSpec => []NothingLostWhileBlocksStay`.

A call holds a snapshot of the file between its read and its write, and what it writes
loses nothing only if the snapshot is not stale. So the invariant `CInv` has, beside the
type (by which a call that reads to write owns the lock, and `BLOCK_CATALOG` is whole unless somebody
owns the registry's), `Holding` (what a call
holds was saved by somebody) and `Current`: as long as no block was deleted and none of the mishaps of
section 2 happened, the file contains what was saved and not
removed, the snapshot of a call that will write is the file, and a pruning read,
which owns no lock, has nothing to prune and so will not write. `CatalogLostUpdate`
shows that without the premise the last part is false.

And of the block store, for any writers, blocks and batches,

* `StoreTypeCorrect`: `StoreSpec => []StoreTypeOK`.
* `BlocksAgreeAlways`: `StoreSpec => []BlocksAgree`.

That files and registry agree while nobody is inside a transaction says nothing of
what happens inside one. `BInv` has `Whole` of the transaction that holds the guard: by how
much files and registry differ at each of its steps, so that going back over its
snapshots, or forward over its copy, makes them equal again; and `Remembered` of every
block in the evaluator's memory: the registry names it, or names it again once the
transaction is undone, or its delete is about to remove it. All of it holds until a
roll-back fails or the process dies between two files (`torn`), which is where the property
stops as well.

### LLM calls

`CallProofs` proves, for any runs, ceilings, sizes of prompts and answers,
scales and numbers of waits,

* `CeilingsHold`: `LlmSpec => []CeilingHolds`.
* `GivenUpStaysGivenUp`: `LlmSpec => []GivenUpCallsAreOver`.

and of guarded children, for any number of calls,

* `DeliveredAlwaysAnswered`: `SuiteSpec => []DeliveredIsAnswered`.

A ceiling is compared when a request is admitted and met when its answer is accounted,
with a bound for the answer that other runs keep raising. `LInv` says of each call
(`Paid`) that what its run used and what is reserved for it fit below the ceiling while
it is in flight, and that the reservation covers its prompt and `max`; since the
reservation is kept with the call, the high-water mark may move as it likes. `Heeds` says by
which request a run whose operator has stopped it is at, and on which model: after one late
request the API backend can only be on the fallback, and after two it
can send no more. `Left` says of a provider process that its call is being polled
or waited for, or was ended by a ceiling. Four lemmas carry the rest: `OneCaller` (a
step of one run disturbs no other), `RaisedKeeps` (every way a call in flight can fail),
`OnlyHours` (a call that was admitted can only be aborted by the end of the hours) and
`NoneOfThisCall` (before it is sent, a call has no process).

For a child the invariant is `Looked`: a call that holds its child crashed has looked at
the pipe after the child died, so that nothing can have been put into it since.

### Strategies

`StrategyProofs` proves

* `CandidatesAlwaysSound`: `SearchSpec => []CandidatesAreSound`, for any rounds,
  iterations, budgets of tokens and attempts.
* `TradesAlwaysAccountedFor`: `StrategySpec => []TradesAreAccountedFor`.
* `DeferredExitsAlwaysHit`: `StrategySpec => DeferredExitsHitTheirPosition`, both for any
  number of bars.
* `WindowsAlwaysWhole`: `WindowsSpec => []WindowsAreWhole`, from any date, for any number of
  months and any pace of trades.
* `SelectionAlwaysSound`: `GateSpec => []SelectionIsSound`, for any data, scores, basket and
  figures.
* `WinnerAlwaysTheSame`: `WalkSpec => []SameWinner`, for any windows, values, draws,
  generations and losses, and up to the default three folds of `WF_FOLDS`.

A candidate is sound by what was recorded before it ran: `MarksInv` says that one that is not
new, or stands in for a proposal, is marked by the time it runs; `StoredInv`, that before a
candidate is chosen the store has nothing of it, so that discarding a round leaves what
is kept; `BatchInv`, what is written when, an entry before its exit.

A composed strategy's handlers queue commands that the exchange carries out one by one, with
fills in between. `WorkInv` says for each form the queue can have (a cancellation, closes, an entry with
its legs, and any rest of these) what then rests on the exchange: flat with at most one
entry, or one unit and its protection; `LogInv`, that every order sent belongs to one
decision and every decision sent one. `DeferInv` says that while an exit is deferred, no
entry is at work or on its way, unless the exit was deferred on
a bar whose entry turned the position (`flips`, section 6); so the position the exit meets
is the one it was meant for.

That tests overlap by three days at most is a matter of the calendar: `MonthFacts` gives the
days before a month to within two of 30.4375 per month, so that a span of days bounds the
months in it (`MonthsLater`), and `NextTestIsLater` says where the next test starts once its day is
cut to the length of its month. `WindowsInv` relates the cursor to the windows made.

For the gate, `ReportInv` says of each section of a report what the backtests behind it gave
(`answers`), `StageInv` which sections can be without an answer yet, so that
`Tally`, which reads only the report, decides what `GateIsSound` says of the answers.
`PassersInv` ties what a passer is worth to its raw score and its share of peers, so that
of equal scores the one worth more has the larger share (`WorthMore`); `LookInv` says which
days a search has looked at.

For the pool, `InStep` says that a window that lost nothing is, after each batch, at the
generation the search without a pool is at: its population and its best are those of
`Searched`, whose recursive equation `GenerationFollows` establishes (a least generation
at which no such function exists is impossible). `RepliesAreScored` shows that a
lost unit still leaves scores that are numbers, so every population has an elite.

### Strategy Builder

`StudioProofs` proves, for any numbers of jobs, handlers, operators and faults,

* `EditsAlwaysSurvive`: `StudioSpec => EditsSurvive`, which needs only that the rows are typed:
  whoever changes the working copy reads it in the critical section it writes it in.
* `DeployedWasMeasuredAlways`: `StudioSpec => []DeployedWasMeasured`.
* `OrphansAlwaysFound`: `StudioSpec => []OrphansAreFound`: after the reconciliation a running
  row belongs to a job of this process, unless the store raised when this process was to end
  it. Such a row is what the code loses (section 6), and no other.
* `NodeAlwaysSeen`: `RunnerSpec => []NodeIsSeen`.
* `SweepAlwaysSound`: `SweepSpec => []SweepIsSound`, for any definitions, splits, scores, grids
  and numbers of edits.
* `GridAlwaysTheProduct`: `SweepSpec => []GridIsTheProduct`, of the grid a sweep tries. No run
  checks this one: `PointsOf` draws the points from all the functions to `Int`. It also says that a thinned grid
  never holds the last corner, where the comment in `_grid` says "keeps the corners"
  (`optimizer.py:294`).

For jobs, `JobInv` has `Threads` (a thread runs exactly for claimed rows, a row is done only
when its thread is past its work, and a request that has made a row is the only one to
claim it, so nobody writes over the row a deployment rests on) and `Orphaned`: once an earlier
process' rows were looked for, a running row is claimed, or about to be, or a request that
is on its way to interrupt rows will come by it (`Finds`, which follows the
request through its three reads), or the row is in `unended`: a reconciliation that fails puts there
all it had still to interrupt, and a thread leaves a running row only when its end could not be
written. For deployments, `NodeIsSeen` is kept by `EndsMean`:
whoever wrote `stopped` or `failed` over a node that may still come up left a mark that
the serving thread must come by (`Doomed`), or is about to leave it.

For the sweep, `SweepInv` has a part for each claim. `BaseInv`: a rule that is in the
working copy and in the definition that was swept has the same block and indicator in
both, because an id is never used again and no edit of a rule changes them; every edit is
shown to leave such a definition (`Redrawn`), and so is the application of a
result (`AppliedDraws`), whose values the swept definition held. `BooksInv` counts the
points that are out, alive and still to come at each point of the sweep. `RunInv` says that
what was scored can be set in the definition that was swept, is not refused by the engine
and has scores of three folds in five (`Candidates`), which is what `EntersAsDrawn` and the last part of
`SteadyFirst` rest on. `RankedInv` and `TakenInv` say which list and which step the
results and the working copy come from.

That the ranking prefers the steady is arithmetic. `OrderedOnce` gives the order its meaning:
counting who comes before is an injection of the candidates into as many places, and so
takes each place once. `RootThereIs` finds the rounded root, and `SteadierScoresMore` shows
that less spread survives the rounding: were the scores not apart, the square of the larger
deviation, which exceeds that of the smaller by at least the square of the precision, would be
reached from it by adding less than `PreciseEnough` leaves room for. `WindowsStandApart`
follows from two facts of rounding (`FloorsGrow`, `RoundsUpByOne`): a window's end is at most
one bar beyond the floor its successor starts from, and the purge is at least one.
The number of points, which the books are balanced with, is a number because the recursive
function behind `Combos` satisfies its equation (`CombosFollow`, by a least number of axes at
which it would not). What the points are follows the same equation: widening a list that has
each point of some owners once by one more owner gives rows of equal length, in
which a place is a quotient and a remainder (`RowOfEach`, `EachInItsRow`), so the wider list
has each wider point once (`WiderListsEach`, `CombosListEach`); and the places that thinning
picks grow, because they are quotients of multiples of a number larger than the divisor (`GridThins`).

### Pages

`PageProofs` proves, for any plan of jobs, sessions, users and requests,

* `OneVisibleJobAlways`: `JobsSpec => []OneVisibleJob`.
* `NothingSaidIsEverLost`: `ChatSpec => NothingSaidIsLost`.
* `ExpiredStaysGoneAlways`: `ChatSpec => ExpiredStaysGone`, which no run checks.
* `PlansAlwaysShared`: `PlanSpec => [](PlanTypeOK /\ OneComputation /\ WaitsForAnAnswer)`, the
  safety part of `PlansAreShared`, and the types and the cap of the cache with it.

`Admitted` says that a session's guard names its one unfinished visible job. Conversations are
kept in a list, so `ChatInv` says that there is one of a name and none yet of the name a request
is still opening one under; then a step adds a turn to the conversation it was asked
in, and an answer to one that has expired goes nowhere. `SingleFlight` says without counting
that a key is computed by the one request that stands for it and is not cached meanwhile, so
what a computation adds to the cache is new there.

### Bars

`BarProofs` proves, for any readers and loaders, windows, horizons and faults,

* `CachesNeverLagAlways`: `ExternalSpec => []CachesNeverLag`.
* `RowsOfTheirWindowAlways`: `ExternalSpec => []RowsOfTheirWindow`.
* `BarsAlwaysSound`: `BarSpec => []BarsAreSound`.
* `FetchedIsAlwaysKept`: `BarSpec => FetchedIsKept`.

Of external catalogs a behaviour serves one of three caches, each with an invariant of its
own (`ReaderInv` is their disjunction). A caller of the series or of the manifest has been shown every version from
the one whose signature it took (`Shown`), and what it got is no older (`NoOlder`). The frame and
its sidecar are two files, so the sidecar is never younger than the frame, a writer's frame never older than
what a caller outside the lock is about to read (`Replaces`). On the page every row was read
after its window began, for a row joins the window it was read for (`PageInv`).

Of the exchange's bars, `BarInv` says that the owner of the lock works on what the file has,
how much of what was asked for each stage of a load has gathered (`Gathered`), and that a
bar still forming stands last or was buried by a forced refresh. That nothing fetched is lost
follows. `CatalogInv` adds for the engine's catalog that while no copy failed and no two loads
waited at once, at most one load copies, and it copies the file.

### Scripts of equities

`IngestProofs` proves, for any tickers, years and days, scripts in any order, refused
renames and kills,

* `SeriesAlwaysAgree`: `IngestSpec => []SeriesAgree`.
* `ScriptsAlwaysChangeTheirOwn`: `IngestSpec => []ScriptsChangeTheirOwn`.

Both speak of what stands when a script is over; `IngestInv` says what stands before, stage
by stage. A ticker of a download still has what it had or has what came for it
(`Swapped`); while its series are moved out one after the other, those moved are empty and
set aside is what they held (`Moving`). While series are built, each coarser one is the one
there was and still to come, dropped, or built from the minutes there are (`Stands`).
A repair has replaced the day in the series behind it and holds the rest of the one in hand
(`Repairs`). Why a repair that ends leaves series that agree is a fact about bars: the
coarser bars of a day follow from the minutes of that day alone (`DerivedTogether`,
`DerivedOutside`), whichever files these are in (`DerivedOfOneRun`).

### Assumptions and limits

The proofs assume what the modules assume of their constants, which TLC evaluates on every
run: `RunsAssumption`, `LimitsAssumption`, `ErrorsAssumption`; `UsesAssumption`,
`RequestsAssumption`, `ThreadsAssumption`; `BatchesAssumption`, `StoreBoundsAssumption`,
`WritersAssumption`; `LlmAssumption`; `SuiteBoundsAssumption`; `AnswersFitTheirReserve`,
`BlockLimits`, `SomeBlockOpens`, `StrategyAssumption`, `WindowsAssumption`,
`GateAssumption`, `WalkAssumption`; `StudioBoundsAssumption`,
`RunnerBoundsAssumption`, `SweepAssumption`; `PlanAssumption`, `JobBoundsAssumption`, `PreviewAssumption`,
`ChatBoundsAssumption`; `ExternalAssumption`, `BarAssumption`, `IngestAssumption`. Nearly all say that a number
is a number, or that a mark (nobody, unlocked, gone) is no name. The others: limits
read from the environment are at least the lower bound the code gives them (`BlockLimits`);
an answer costs no more than the bound of tokens its request was admitted with
(`AnswersFitTheirReserve`, `agent.py:1676`); some built-in block may open a position
(`SomeBlockOpens`); the first day of the data is a day of the calendar (`WindowsAssumption`);
a round's data has days, and finitely many (`GateAssumption`); a candidate has at most the default
three folds (`WalkAssumption`), up to which a score, whose deviation is a root, is tabulated;
a sweep has at least two folds of at least a month, and what a user begins with, adds or
types is a definition, a rule or a range (`SweepAssumption`).

Every safety property and every action property of a passing run is proved, the one
inside `PlansAreShared` too. Only model-checked:

* Liveness (`StopEndsRun`, `RunsEnd`, `LogsSettle`, `EveryCallReturns`,
  `NothingOutlivesItsOwner`, `RowsSettle`, `CallsEnd`, `SessionsAreFreed`,
  `PreviewsAreShown` in `PlansAreShared`), which is out of the prover's reach.

## 5. Plan

Built in this order, the most important behaviour first; all of it is done but the
last items.

1. `AutoRun`, `RunPool`: the life of a run, its refinement to the pool.
2. `AutoSession`: log, heartbeat, crash, reconciliation.
3. `StrategyCatalog`, `BlockStore`: the two shared stores.
4. `AutoRunProofs`; `StoreProofs`; `CallProofs`; `StrategyProofs`; `StudioProofs`;
   `PageProofs`; `BarProofs`; `IngestProofs`, each after what it is about.
5. `GuardedSuite`, `LlmCall`: what a worker waits for.
6. `RobustnessGate`, `WalkForward`, `WfoWindows`, `CandidateSearch`,
   `ComposedStrategy`: what a round computes.
7. `PaperRunner`, `StudioJobs`, `StrategySweep`: the Strategy Builder.
8. `WebJobs`, `ChatDrafts`, `PlanPreview`, `WinnerNarrative`: behind the pages.
9. `BarCache`, `ExternalBars`, `EquityIngest`: bars.
10. To come: the save route's edit of an existing strategy; `CandidateSearch` on top of `BlockStore`'s
    transactions in place of its own.

## 6. Where code and text disagree

The violation runs show, each with TLC's trace:

* `SessionEndedClosed`: `token_snapshot` follows `session_end`, so after a restart
  the log of a run that ended is closed a second time, as interrupted.
* `CatalogLostUpdate`: a page listing strategies while a block is gone can overwrite
  an append that happened between its read and its write.
* `NarrativeOfItsWinner`: `narrative_inflight` is a flag and no token: cleared by the next
  round and raised again by another poll, it lets the first poll store the story of
  the earlier winner under the later one.
* `PoolLeavesHung`: the pool that timed out is shut down before its workers are
  terminated, and shutting it down forgets them.
* `DeploymentRevived`: a request that overlaps a stop writes its status over `stopped`.
* `PromotionLosesBlocks`: a repetition that is discarded takes with it the blocks of
  a strategy promoted by an earlier round.

Also seen while modelling, without a run of their own. Where a definition in
parentheses states the text, it stands in the module and is not checked by a run;
`agent_backtest.py` is the one in `web/routes`.

*AUTO.* The budget return at the head of a round never sets `continuous_finished`,
described as the permanent end (`agent_backtest.py:4102`). A continuous run in
its pause (`done` set) is not among `live_run_ids()`, and its log is closed as
interrupted (`LiveRunsSpared`). With more than one slot, `create_or_refuse` may evict
such a run, although the comment at `agent_backtest.py:5540` says an active run's
state is never dropped. After a crash nobody removes the generated blocks of the run
that died.

*Candidates.* A degraded candidate that deduplication replaces gets a new id and
sheds its mark, so a random composition can enter the pool of winners
(`agent_backtest.py:1827` against the comment at 3096). When a strategy is reused,
its id is marked, which excludes its honest first run too. A
`TerminalLLMError` in a later proposal is swallowed there (3095). Tokens of an answer that
does not parse are not counted against a block's cap (`agent.py:2122`). A stop discards the blocks of a
reused strategy that did run. A block with role "both" is tried as an exit only.

*Stores.* A strategy is also lost when validate() refuses it, when a load meets a rebuild of
`BLOCK_CATALOG`, and when an append cannot read the file (the list in section 2; the last one against
`composer.py:657`). A death between the two unlinks of a batch delete leaves one block
of a pair registered and importable (`NoOrphanImported`). An append or removal
rewrites the catalog without the records that could not be parsed, which reading takes
care to keep (`composer.py:916`). The stale prune that loses an append can bring back
a strategy a user deleted. Deleting a block looks up its dependents and deletes it with
no lock over both (`web/routes/strategy.py:1128`).

*LLM calls.* The CLI's process is killed when a call is cancelled or times out, but not
when a ceiling ends it (`llm_client.py:927`, docstring at 782). A call that succeeds
while it is being cancelled is missing from the ledger (`llm_dispatch.py:631`).

*Processes.* The child of generated code has no parent watchdog (`sandbox.py:934`).
The family stage of a suite has no timeout of its own (`auto/robustness.py:868`).

*Gate.* The benchmark leg of the sealed verdict uses the metrics of the whole run,
lead-in included, though trades are scored by "ONLY entries inside the sealed window"
(`agent_backtest.py:2679`, 3709). `wfo_test` judges by re-optimised figures where the
specification's own unit was lost (docstring `auto/robustness.py:150`). A peer that fails
leaves the denominator when it is lost, so that a loss can turn a refusal into a pass. The
components of one stitched series do not exclude each other as peers. The
message says in-sample to out-of-sample "≥ 0.7 = robust" where the code has 0.5. A raw score of
zero ignores the peer factor.

*Walk-forward.* A candidate with a failed fold is not rejected as the docstring says
(`backtest_robustness.py:582`), but judged by a minimum share of folds. "Winners are
deterministically identical" (334) fails for a window that lost a unit: `SameWinner`
speaks of the others. Windows that step by their test overlap by up to three days or
leave up to two between them, because cursor and end are moved from days of
their own; widening may leave one window less than `WFO_MIN_WINDOWS`.

*Composed strategy.* A deferred exit closes the position that a deferred entry of the same
bar has just turned. A bracket's limit entry without a target sends its stop to a flat
book. When flat, a new entry that fails still cancels the resting one.

*Pages.* The joiners of `/plan` are shown metrics of the request that computes
(`web/routes/backtest.py:2057`). `_DRAFTS` may grow past its cap (`web/routes/strategy.py:73`).
`job_in_flight` is looked up and acted upon without a lock over both.

*Strategy Builder.* The flag of the reconciliation is set before it runs and its exception is
only logged (`strategy_studio.py:195-201`), so after one refused read of the store the rows an earlier
process left run on, and each keeps the start of its kind answered with 409 until a restart: the
lock the reconciliation is called for, "KALICI" (permanent) at 208 and 1006. The same follows when
`fail_run`, `fail_opt` or the closing `finish_loop` raises (968-973). "All outcomes land in
studio_runs" (963) fails with it. A listing between claim and row may stamp a live job interrupted
(`LiveJobsSpared`). Two accepts of a suggestion may apply it twice, and a dismissal overwrites an
acceptance. Lowering drops the filters of the exit block (`strategy_studio/backtest.py:584`),
where the docstring promises `UnsupportedStrategy` (`ExitsAsDrawn`). A parameter
of a regime's filter that is marked for optimisation is never an axis, because `iter_rules` leaves
such filters out (`schema.py:174`; `MarkedAreSwept`). Sampling a large grid does not keep
its last corner ("keeps the corners", `optimizer.py:294`). Without an embargo,
rounding lets neighbouring windows share a bar. Legal edits can make a draft that does not
compile.

*Crypto bars.* A half bar that a crop left in the file stays until the next fetch of the
tail, and a forced refresh of later bars buries it. Copies to the engine's catalog hold what was
read before the catalog's lock was taken, so an older copy can come last; the append path never
replaces a half bar there. An unreadable cache file is taken for an empty one, and
the next write drops its history. A hole once known as empty is never asked for again. A lock
is broken after 1800 seconds, whoever holds it.

*Equity scripts.* A download with failures describes in the manifest bars it threw away
(`OnlyNewBarsEnter`, `download_massive.py:351`). A repair sets its file aside and
writes, so that a kill leaves none ("atomically replaces"). With several files of
minutes it changes whichever comes first. A rebuild leaves the old coarser bars of a ticker
without minutes in session. If the roll-back of a swap fails as well, the backup is removed with
the staging directory. The manifest is read, changed and written without a lock, and
`_invalidate_external_rows_cache` has no caller.

## 7. Not modelled

* **Backtest engine** (`backtest.py`, `strategies.py`, `indicators.py`): simulation
  over price bars with the external Nautilus engine. Every module takes any figure it may
  give. So with the statistics of Monte Carlo, stress and sensitivity runs.
* **Stall watchdog, token ledger**: they record and change nothing a run depends on.
* **Studio graph, parsing of suggestions, prompts, rendering of pages**: text and layout;
  what is done with an answer is modelled.
* **Server start, settings, one-shot scripts**: I/O, run by hand one at a time.
* **In the processes**: the watchdog of a child is a thread of it, so native code that holds the
  interpreter's lock may delay it; the model lets it be slow, not starve.
* **In the rounds**: a cleanup of blocks that raises inside itself and is swallowed.
* **In the handlers**: a response that fails before its background task starts, so that a job keeps its
  claim; a waiter that is cancelled and takes the shared future of a plan with it.
* **In the walk-forward**: a test window without bars, for which no test is sent
  (`test_empty`, `backtest_robustness.py:756`); how a child is bred, which is a draw fixed in advance;
  an embargo other than 2, though `WfoWindows` is proved about for that value only. `SameWinner`
  compares the two paths where both have all their units: a window that lost some is the
  matter of section 6.
* **In the equity scripts**: directories that `rmtree(ignore_errors=True)` fails to remove; days counted
  by UTC where a script does so, instead of by session.
* Of each modelled component, what its section above and its note in `PROJECT.json` leave out.

Two abstractions are common to all modules: prices, sizes, texts and names are choices
from a few values, and a component's partners are choices of outcomes. A hazard
between two components that no module contains both of is therefore not reached, except where
the environment of one allows all that the other may do.
