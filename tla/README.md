# Sandworm in TLA+

A verification development of Sandworm: TLA+ modules translated from `src/`,
TLC runs that check them on small instances, and TLAPS proofs of the properties
that matter most, for every value of the constants. Paths such as
`platform/store.py:179` are those below `src/sandworm/`.

Contents: 1 the system, 2 what is hard in it, 3 modules and how they correspond
to the code, 4 the runs, 5 fairness, 6 proofs, 7 what the code does otherwise
than its documentation says, 8 what is not modelled, 9 plan.

## 1. The system

Sandworm analyses untrusted files. A command line (`cli.py`) runs one analysis
in-process; a *platform* (`platform/`) runs many: an HTTP API and any number of
worker processes share one SQLite database and a directory of files.

| Part | State | Operations | Talks to |
|---|---|---|---|
| Job queue, `platform/store.py` | table `jobs` | `enqueue`, `cancel`, `claim`, `heartbeat`, `finish` | called by API, workers, command line, each in one SQLite transaction |
| Local workers, `platform/worker.py` | a claim, a child process, `attempts/<lease>` | `run_once`, `serve_worker`, `execute` | the queue; the child runs the pipeline |
| Schedules and retention, `store.py:197-227`, `worker.py:126` | table `schedules`, sample files | `schedule`, `tick_schedules`, `unschedule`, `retain` | the queue, the file system |
| Remote workers, `platform/remote.py`, `api.py:343-414` | a claim, a child, the server's copy of the result | `remote_worker`, the `/api/worker/*` handlers | the queue, over HTTPS |
| Accounts, `store.py:79-121`, `api.py:77-209` | tables `users`, `credentials` | login, keys, rotation, revocation, disabling | every API request |
| Rate limits, `store.py:123` | table `rates` | `rate` | every API request |
| Sandbox run, `core/pipeline.py:177`, `sandbox/*` | a backend job, a VM, its files, a bundle of artifacts | `submit`, `status`, `collect`, `destroy` | QEMU, a CAPE server, recorded reports |
| Pipeline, `core/pipeline.py:316` | evidence store, live feed, static cache, the result | `analyze_sample`, `persist_run` | analyzers, backends, the cache file, everything below |
| Evidence, `core/evidence.py`, `provenance.py` | ordered, indexed, deduplicated items | `append`, `extend`, `query`, `dump`, `load` | everything |
| Triage and registry, `core/triage.py`, `analyzers/registry.py`, `base.py` | the analyzers registered | `triage`, `select`, `analyze` | the pipeline |
| Analyzers, `analyzers/static/*` | none, but for the queue of `discover()` | `run` | the sample in, evidence out |
| Observations, `analyzers/dynamic/*`, `analyzers/memory/*`, `sandbox/runtime.py`, `enrich/*` | none | `normalize_*`, `diff_snapshots`, `EnrichSnapshot` | reports in, evidence out |
| Corpus index, `core/corpus_index.py` | a SQLite index of evidence files | `ingest`, `search` | the command line |
| Reconstruction, `reconstruct/*` | none: functions of the evidence | `map_evidence`, `fuse`, `build_narrative`, `explain`, `correlate`, `reconstruct_runtime` | the pipeline |
| Detection, `detect/*` | none, but for the archive of the rule search | YARA, Sigma and Suricata generation, `optimize` | the evidence and its map; clean documents |
| Assessment, `reporting/summary.py`, `coverage.py` | none | risk, score, coverage | the evidence, its map, the rules |
| Graph and copilot, `graphdb/*`, `copilot/*` | the reasoning graph | `build_graph`, `ask`, `propose` | the persisted evidence; an external provider |

What makes the parts correct:

- **Queue.** A result reaches a row only under the lease of its latest claim; a
  worker that is heard of keeps its job; a lost one is retried, at most three
  times; jobs are handed out in the order they are due; a request to stop is
  never overtaken by a result; a finished job stays what it is until it expires.
- **Workers.** What is served was written by a child that ended cleanly; at most
  one worker can publish for a job; no child runs unwatched; every job is
  decided, whichever process dies or hangs.
- **Schedules and retention.** A live job has its sample, an expired one has
  none; one schedule runs once per interval; a broken one stops.
- **Accounts.** Rotation never loses the last key; a workspace keeps an
  administrator.
- **Rate limits.** No bucket admits more than the limit, none refuses before it.
- **Sandbox run.** However a run ends, the VM and its disks are gone; nothing is
  merged before every artifact was ingested; runtime evidence is of this very sample.
- **Cache and index.** Readers never take a mixture for a file.
- **Analysis.** What is concluded is the same in whatever order the analyzers ran,
  and after the evidence was written and read again; a process hidden from the
  process list is told, and stays out of the tree of the visible ones; an address is tied to a
  function of this sample only.
- **Reconstruction and assessment.** Nothing is called observed that no run
  showed; every claim cites evidence that is in the store; more evidence never
  weakens a claim; the factors of the score add up to it.
- **Detection.** A rule that ships matches no clean document; the frontier of the
  rule search never loses what beats everything else that was judged.
- **Disassembly.** An instruction belongs to one function, a call leads to decoded code.
- **Copilot.** Whatever the provider answers, what is cited was shown to it and is
  evidence of the run.

## 2. What is hard

Workers that stall, die or hang while the clock goes on; leases taken from
workers that do not know it; a cancellation racing with a result; files that no
transaction covers, written by one process, removed by another and copied by a
third; HTTP replies that never arrive; an API that dies in the middle of an
upload; handlers that span several transactions; a cache and an index that read
a file while it is rewritten; subscribers and audit records that fail in the middle of
a merge or a load; and clean-up that must happen however an analysis ends.

The analysis has other difficulties: its analyzers run in the order in which a
set of strings is iterated, which differs from process to process; recorded reports
may be of another sample, or of a part of its format; several readers of the
evidence (map, summary, coverage, narrative, runtime view, graph) must agree on what
was observed, though each decides it by its own fields; tables of techniques that
analyzers, rules and readers keep apart; signals that are discounted in the order
of their strength; rows that are cut at a limit before they are compared; rules
tested on raw strings that match wide ones as well; and a provider that is not
trusted to cite only what it was shown. `PROJECT.json` lists these hazards line by line with the properties that
cover them.

## 3. Modules

| Module | Models | Composition |
|---|---|---|
| `JobContract` | what a user is promised of a job: open, stopping, decided once, served result | abstract |
| `JobStore` | the `jobs` table under arbitrary callers | implements `JobContract` |
| `LocalWorkers` | `worker.py`: workers and their children | extends `JobStore`, implements it |
| `RemoteWorkers` | `remote.py` and the worker handlers of `api.py` | extends `JobStore`, implements it |
| `Schedules` | schedules, ticks, uploads, retention and sample files | own view of the `jobs` table |
| `SandboxRun` | `_run_backend()`, three backends, ingestion of reports | |
| `StaticCache` | the cache file of `analyze_sample()` | |
| `Accounts` | users, credentials and the requests that use them | |
| `RateLimit` | `PlatformStore.rate()` | |
| `CorpusIndex` | `CorpusIndex.ingest()` against a writer | |
| `Disassembly` | `discover()`: entries, blocks, calls | |
| `RuleSearch` | the genetic search of `detect/optimize.py` | |
| `Lists` | the operators on sequences that the analysis is built from | used by all below |
| `Evidence` | items, identity, append, provenance | used by all below |
| `StaticAnalyzers`, `ScriptAnalyzers` | what each static analyzer concludes | extend `Evidence` |
| `Observations` | what recorded and collected reports become, correlation | extends `AttackMap` |
| `AttackMap` | mapping, fusion, narrative, timelines, process tree | extends `Evidence` |
| `Assessment` | score, risk, Sigma, coverage, graph | extends `AttackMap` |
| `Signatures` | YARA and Suricata generation | extends `Evidence` |
| `Analysis` | `analyze_sample()`, `persist_run()`, the copilot | extends all of these |
| `MC*` | constants for TLC; `MCCore` and `MCService` also put two and six parts without common state side by side | extend the above |
| `*Proofs` | invariants, lemmas, theorems | extend the above |

**JobStore.** One action per transaction: `Enqueue`, `Cancel`, `ClaimNothing` and
`ClaimJob` (the sweep `MarkLost` is part of both), `Heartbeat`, `Finish`, and
`Retain` in two steps because `retain()` selects and expires in different
transactions. SQLite serialises them (`BEGIN IMMEDIATE` or one statement).
Time: `wait[j]` counts down to the due time, `age[j]` is the age of the
heartbeat in ticks, both saturating, since the code compares them to bounds
only; `ahead[j]` holds the jobs due before `j`, which is all that
`ORDER BY due` tells apart. A lease is the number of the claim that drew it:
the code draws 192 random bits, so that they never repeat. Callers are open:
any lease ever drawn may be presented at any time, for any job, which covers
every worker, local or remote, late or wrong.

**LocalWorkers.** `run_once()` line by line: `Idle`/`Take` (claim), `Launch`
(attempt directory and child), `Poll` (heartbeat, deadline), `ChildGone`,
`StopChild` (TERM, wait, KILL), `Report` (`finish`). The child only ends in one
of the ways its parent can tell apart (`Exit`). `Die` takes a worker away at any
point and leaves its child running; `Restart` is the service manager.

**RemoteWorkers.** Two sides: the process (`Take`, `Fetch`, `Launch`, `Beat`,
`BeatAnswer`, ..., `Report`) and the API's handling of an upload, which takes
several transactions with files in between (`PostCheck`, `SaveBegin`, `SaveEnd`,
`PostFinish`) and goes on when the client has given up. `TakeUnheard` is the
answer that is lost after its commit. A local worker runs beside them.

**Schedules.** The files of a sample and the rows that refer to them:
`submit()` stores before it inserts, a tick copies within a transaction that may
be rolled back (`TickBegin`, `TickCopy`, `TickCopied`, `TickDisable`,
`TickCommit`, `TickFails`), `retain()` removes files before it expires the row.
Jobs are `free` until their identifier is drawn. Claims and results are reduced
to `FinishJob`: which worker holds a job is the subject of the modules above.

**SandboxRun.** The controller is at one program point; every call may fail
(`Fails` goes to the `except` block), `Interrupt` is Ctrl-C and goes to the
`finally` block, `Kill` is the signal of a worker and skips both. `Merge` appends the
evidence of one artifact at a time, in the order of ingestion (`Earlier`), since each
append calls the subscribers of the store: one that raises, or the audit record after
the merge, leads to the `except` block with part or all of the evidence merged. The
program point `late` tells that case from a failure before the merge. Contents of an
artifact are `own`, `edited`, `other`, `broken`, `gone`: what hashing, parsing
and binding to a sample tell apart. The guest writes a report slowly or not at
all, the CAPE host decides when it likes, an analyst edits recorded reports
under the run. Assumed: removing an existing file works, and no second Ctrl-C
arrives in the `finally` block.

**StaticCache.** A file of pieces: truncation, writes at a private offset,
reads, deaths and full disks in the middle. `Load` has three outcomes: the file does not
parse and nothing of it is appended; all of it is; or a subscriber or the audit record
fails on the way, and the fresh run starts with what was appended. **CorpusIndex.** The same writer
against two passes through one descriptor. A piece is named after the version of
the file and its place: lines of different runs differ, as each has a run and a
time. **RateLimit.** The bucket is computed before the transaction begins, so
calls may count in another order than they read the clock. A count above the
limit stands for every greater one. **Accounts.** A request is authenticated in
one transaction (`Authenticate`, or `Refuse` for the 401) and acts in later ones;
`dropped` and `overlap` record what the exceptions of two properties are about:
`WorkspaceKeepsAdmin` says nothing of two accounts disabled at once, nor `LimitHolds` of a
bucket that a call straddles. The models have both cases (section 7, 11 and 12), and no line of
the repository promises anything of them.

**Disassembly.** `TakeEntry`, `TakeBlock`, `Decode`, `EndBlock`, `EndFunction` are
the loops of `discover()` over the queue of entries, the blocks of a function and
the instructions of a block, with both limits. The decoder is external: an image
is any function from addresses to instructions. **RuleSearch.** `Evaluate`,
`Breed`, `NextGeneration`, `Finish`; the random generator may give anything.

**Evidence.** An item is a record with dictionaries as functions on the keys that
are there; its identity is what `Evidence.make` hashes: everything but confidence,
time and order. `Extend` is `append` in a row, which drops an item whose identity
is known. **StaticAnalyzers** and **ScriptAnalyzers** have one operator per
analyzer, from what its parser found (a record of *content*) to its items, with their
order, limits, confidences and hints. **Observations** does the same from the rows of
reports; a row of a memory report keeps the name of its pid column, as the row is copied
into the item and the process tree looks for one of the two. A word of a sample or report is a member of a small set; texts are the
mentions and needles found in them.

**AttackMap** and **Assessment** are functions of the sequence of evidence, as in
the code. Confidences are integers: a probability is kept as its scaled log-odds,
which preserves every comparison the code makes. **Signatures** knows of a token only
the traits that ranking and matching look at, and of a clean document the tokens
and their encodings.

**Analysis** goes through `analyze_sample()`: `Triage`, `Dispatch` (the tags in any
order), `Analyze` (one analyzer, which may raise and then gives nothing),
`Collect`, `Decompile`, `StartBackend` and the staging of what it collected
(`StageCape`, `StageMemory`, `StageTraces`, `StageDumps`), `Merge` or `BackendFails`,
`Enrich`, `Reconstruct`, `PersistRun`; then `Ask` and `Propose`, in which the provider may
select any evidence. `Staging` keeps a failed run's evidence out of the store. The
live feed is the subscriber of `append`; where it raises (`AddSome`), the items so far
stay, and the analysis ends or, within `_run_backend()`, goes on as a static one. A plugin
is taken to read the sample only: `docs/writing-an-analyzer.md:75` lets one name a dynamic
source, which is beyond what the properties say of evidence of a run. How a backend is driven is left to
`SandboxRun`, the cache file to `StaticCache`.

## 4. Runs

Bounds are constants of the modules. All runs check deadlock but those of
`Analysis`, `sandbox_killed` and `cache_changes`, whose behaviours end.

| Run | Instance | Shows |
|---|---|---|
| `core` | two parts side by side: 2 jobs in 2 workspaces, a worker for both and one confined to the first, 3 attempts, 1 tick of staleness, delays up to 1; a sandbox run over each backend, deadline of 2 ticks | the table keeps every promise under arbitrary callers and implements `JobContract`; clean-up, merging after the last artifact, attribution, termination |
| `workers` | 1 job, 2 workers, 3 attempts, 1 death, deadline 1 tick | safety and liveness of the local workers |
| `schedules` | 3 jobs, 2 schedules, 1 tick process, overdue by 1 interval, 1 crash, batches of 1 | files and rows agree; runs apart; broken schedules stop |
| `remote` | 1 job, 2 processes with one key, a local worker, 2 attempts, 1 fault | whole uploads, exclusion, no orphaned child, every job decided |
| `service` | six parts side by side, see below | rotation and administrators; the limit; one version in the index; no leak from a damaged cache; the frontier of the rule search; functions and calls |
| `analysis` | 34 calls of `analyze_sample()`, small limits (4 rows of a memory section, 3 correlations, 4 strings of a rule, 3 nodes retrieved, 4 lines of context) | what is concluded from evidence |
| `static_claims`, `hidden_in_tree`, `hidden_unlinked` | the calls of `analysis`, for `hidden_unlinked` with 1 row of a memory section | section 7 |
| `source_retained`, `sandbox_killed`, `cache_changes` | the smallest instance | section 7 |

The queue and the sandbox run of `core` share no variable: `part` says which of them a
behaviour is about, and the states are the sum, not the product.

`service` explores `Accounts` (2 users of one workspace, 2 credentials, 2 requests at a
time), `RateLimit` (2 callers, limit 2, 3 buckets), `CorpusIndex` (2 processes, 2
lines, 2 versions), `StaticCache` (4 analyses, 2 formats, 2 pieces, 2 faults),
`RuleSearch` (3 strings, 3 variants, 2 clean documents, a population of 3, 2
generations) and `Disassembly` (5,400 images of addresses 0, 1, 2 and 4 in two
regions, 3 functions, 5 instructions). They share no variable, so that each
is gone through while the others stand still: `part` says which. Users,
credentials and requests are symmetric.

The calls of `analysis` have every format and every analyzer at least once, every kind
of report taken and refused (another sample, another format, none declared, two
of a kind, broken), analyzers that raise, a plugin before the built-in ones, backends
that fail at any point of the staging, and a copilot that is asked for every
label. The rows of memory reports come with the column `PID` and with `pid`, and a
subscriber of the store may raise at any item. All orders of the tags are explored; limits are small enough for each to
be met.

Why the bounds suffice. One job is enough for the worker runs: jobs share only
the order of claims, which `core` checks with two, and a worker serves one at a
time. Three attempts (two in `remote`) pass through the first claim, a retry and
the last one, the cases the sweep tells apart. Two workers give every race of two holders of
one job; a third would repeat the role of one of them, and the theorems do not
depend on the number. One tick of staleness and one of deadline separate
"within", "exactly at" and "beyond" the limits, since counters saturate just above
them. One fault per behaviour is what each recovery path is written for; two in
sequence use the attempts up, which the theorems cover. Three buckets are
needed for a call to straddle two and another to count in each. Two versions
suffice for a reader to meet a mixture; two lines for a line to be torn and
another to be whole; in `schedules` a source, its copy and an upload meet with
three jobs, and a failing copy beside a broken schedule with two schedules.

Every property has a mutant: a plausible bug of one definition, written beside it
and marked `mutant`, under which TLC finds the property violated.

## 5. Fairness

Safety is checked under the fair specifications as well: they have the same
reachable states. What fairness assumes:

- `LocalWorkers`: time passes; a worker that can go on does so (a loop without
  waits on others); a dead one is started again (`Restart=on-failure` in
  `deploy/sandworm-worker.service`). Nothing is asked of a child, which may hang,
  nor of clients; `StopChild` ends a hung one with KILL.
- `RemoteWorkers`: the same for processes; the API executes what it was asked;
  a local worker that keeps its lease reports in the end, which is what
  `run_once()` guarantees by its deadline and `LocalWorkers` checks.
- `Schedules`: time passes and workers tick: `serve_worker()` claims every two
  seconds at the latest. Any single tick may fail, and may do so for ever.
- `SandboxRun` (in `core`): the controller goes on and time passes while it waits. A guest
  may be silent and a task may stay pending for ever.

Deaths and faults are bounded (`MaxCrashes`, `MaxFaults`): no retry limit survives
unbounded ones, and a job then fails, which decides it too.

## 6. Proofs

TLAPS proves, for all values of the constants that the `ASSUME`s of the modules
allow:

- `JobStoreProofs`: type correctness, `AttemptsBounded`, `CompletedIsPublished`,
  `FencedPublication`, `FinalStaysFinal`, `CancellationSticks`, `LeaseHonoured`,
  `ClaimsInDueOrder` and that `JobStore` implements `JobContract`. The invariant `IInv` adds to the
  types what ties the columns of a row together: leases are numbers of claims made, a held row has the
  lease of its latest claim, a result never is of a later claim than was made,
  and rows selected for retention are finished (needed because the `UPDATE` of
  `retain()` does not look at the status again).
- `LocalWorkersProofs`, `RemoteWorkersProofs`: every step of the composition is a
  step of `JobStore` or a stutter, so that the theorems above hold of both; and
  `ServedOutputIsFinished`, `AttemptIsFresh`, `OnePublisher`,
  `NoChildOutlivesItsWatch`, `ServedUploadIsWhole`, `OneAcceptableUpload`,
  `WatchEndsChild`, `StaysInWorkspace`. The invariants `WInv` and `RInv` say what each
  program point knows: which lease it holds, whether that lease was drawn for its
  job, whether its child runs, and what has been written under it. They are needed
  as the properties speak of finished jobs, whereas what makes them true is
  known only to the worker (or upload) that is about to finish one.
- `SchedulesProofs`: type correctness, `LiveJobHasSample`, `ExpiredJobHasNone`,
  `RunsApart`. The invariant adds what an open tick has copied and which
  identifiers are still free.
- `SandboxRunProofs`: `SandboxTypeOK`, `ReleasedWhenOver`, `MergedWhenAllTaken`,
  `OnlyOwnEvidence`, `PublishedRunIsObserved`. `IInv` is the conjunction of
  `Owned` (every process and file belongs to `submit()` or to the holder of the
  handle), `Merged` (evidence enters the store from the last point on, from what is staged) and
  `Traced` (how far the guest's trace has come at each point).
- `PartsProofs` has the six parts of `service`.
  - `RateLimit`: `RateTypeOK`, `LimitHolds`, `RefusedMeansFull`. `Counted` ties the
    count of the row to what an unstraddled bucket admitted; `Backed` holds of
    straddled ones too.
  - `CorpusIndex`: `IndexTypeOK`, `IndexIsOneVersion`, `QuietFileIsIndexed`. The file is
    always of one version (`Whole`), so what a pass reads is of versions that grow along
    the file (`Grown`), and the second pass meets no older ones than the first
    (`Passes`); if both passes met the same, the last piece of the first pass is no
    younger than the first piece of the second one, and all are of one version.
  - `StaticCache`: `FreshRunIsItsOwn`; `CacheInv` says what a run has in its store at
    each point. A run that did not take the file has its own evidence and no other; of one
    whose load failed on the way only the first half can be said (section 7, 3).
  - `Accounts`: `RotationKeepsKey`, `WorkspaceKeepsAdmin`. `AccountsInv` adds that what a
    rotation is about to revoke is its own account's (`RequestsAreOwn`), so that the
    key just issued is none of those (`SomeKeyLasts`), and that who is about to disable
    an account is active and alone in it (`OneDisables`).
  - `Disassembly`: `FunctionsAreApart`, `CalleesAreFound`. `ApartInv` says that the first
    instruction of a function is its entry, `CalleesInv` that every call leads to what is
    queued or was looked at, and that what was looked at was decoded, is about to be, or
    met the limit. Assumed of an image: the targets are integers, and `Nowhere` is none
    of them.
  - `RuleSearch`: `FrontierIsBest`. That the frontier keeps what beats the rest rests on
    two facts: no genome dominates itself or what dominates it, and a finite set
    under such an order has, above each member, one that nothing dominates.
- `ListProofs` proves what `Lists` computes: what a filter, a map, a concatenation or a
  fold has in it, and in which order, also after picking and joining; and that lists
  with the same elements, none of them twice, are led onto one another by a
  renumbering. Recursive functions and folds are shown to be what they are by a set of
  indices: the least index at which a claim fails (`LeastNat`) has
  a predecessor at which it holds. This replaces the library's induction theorems,
  which no prover here can use.
- `AnalysisProofs` proves of `analyze_sample()` and the copilot: `ScoreIsExplained`,
  `CleanRuleShips`, `AddressesMatchTheSample`, `ObservedOnlyWhenRun`, `ClaimsAreBacked`,
  `CitedIsShown`, `HiddenIsTold`, `HiddenStaysOutOfTree`, `AnyOrderConcludesTheSame` and
  `EvidenceOnlyStrengthens`; see below.

### The analysis

`Inv` is what they rest on. Its parts:

- `Gathered`: the selected analyzers and their results are lists, and what an analyzer
  returned is static evidence.
- `Kept`: every item of the store and of what is staged is `Held`: it has the shape and
  the lane of its maker, and a confidence from 0 to 100 (hundredths); only runtime items have a time; a library artifact is benign
  content; a runtime item carries no status, and one that starts a process, if it has the
  key of the tree, names one that a report or a row of the call names by it
  (`Started`), or is about a hidden one; an address is tied only where
  the static evidence of this store has a function for it. Where the store, or what is
  staged, shows that the sample ran, there was a backend and it captured
  something. Hence the lemmas on the analyzers: one for each operator of
  `StaticAnalyzers`, `ScriptAnalyzers` and `Observations`, that all it returns is like this,
  whatever was found.
- `Concluded`: once there is a result, it is what the readers make of the store as it is
  now, and what was persisted is that store.

The properties speak of the end, whereas an item becomes sound where it is made and
stays so through deduplication, annotation and enrichment: without `Kept` nothing is
known of the store that `Reconstruct` reads. From `Inv`, each property is a fact about the
readers: that the factors add up whatever the discount; that an address is tied to a
function only through the comparison of `correlate()`; that every reader that
calls something observed has found a runtime item, although map, summary, narrative
and process tree each decide it by other fields; that what a reader cites is the
identity of an item it was given; that the answer cites a subset of the context.

`HiddenIsTold` needs a second invariant, `Told`. It says at each point of the
staging where the items of an accepted memory report are: still to come, staged, or in
the store; and that those of a hidden process are told as hidden. From the rows of the
report (`PsScan` without `PsList`) to the view this is a chain of six readers. It
speaks of runs that kept their bundle: a refused report or a failed run tells nothing.
`HiddenStaysOutOfTree` says by what else such a process can become a node: a sandbox
report or snapshot saw it start (`SeenStarting`), or a row of a list or scan has its pid
under the key of the tree (`NamedStarting`); the latter is the case `hidden_in_tree` shows.

`AnyOrderConcludesTheSame` rests on `Settled`: no id is in the store twice, and what was
concluded is `Conclude` of the store. The rest is about two stores that are `Alike`: the
same items, each once, of which those of a run are in the same order. Each reader gives
the same of both, one lemma a reader (`MapSame` to `ViewSame`, joined in `ConcludeSame`).
Most ask whether there is an item, and which (`Echoes`). Counts and sums go through a
renumbering that leads one store onto the other (`Onto`): how many network
indicators there are, and the n-th largest support, which is a matter of the values and not of
their places (`NthSame`). The readers of the run (process tree, timeline, view) do depend on
the order, but see only items whose order is that of the run (`ShownSame`). Writing the
store and reading it again is the identity on a store without an id twice
(`ReloadSame`), and static items in any order before those of the run are `Alike` to
the store (`ReorderedIs`).

`EvidenceOnlyStrengthens` speaks of a step: the store only grows, at its end (`Grown`). So
what supports a technique in a lane is a function that only gets wider (`Widens`); then
none of the n largest values is smaller (`NthMore`), so neither is the discounted sum of
the lane (`PooledMore`), nor the weighted sum over the lanes with its cap
(`FuseMore`); and the strongest standing of a set is not above that of a larger one
(`GrownMap`). This needs each support within the table of log-odds (`SupportIs`), hence
the confidences in `Kept`: the tables of the analyzers (imports, symbols, sinks, markers,
YARA rules, kinds of indicators) have a lemma each.

TLC finds `Inv`, `Told` and `Settled` to hold in all states of `analysis` (4306).

Assumed, by name, in the modules that declare the constants: a call gives lists where
the code has lists, and its contents, reports and documents are what their parsers can
return (`CallAssumption`): finitely many strings, YARA hits of the built-in rules, and
snapshot indicators whose confidence is a natural number (`EvidenceItem` refuses a
negative one, and `enrich` caps it above). Limits are natural numbers
(`LimitAssumption`, `AskAssumption`), and a token is not both binary and a stop word
(`SignatureAssumption`). TLC evaluates them for the 34 calls. `Evidence` has its own
dictionaries (`:>`, `@@`): those of the TLC module have no definition in the
prover's library.

Types, `AttemptIsFresh`, `CompletedIsPublished`, `FinalStaysFinal`, `CancellationSticks`,
`ClaimsInDueOrder`, `StaysInWorkspace`, `PublishedRunIsObserved` and `RefusedMeansFull` are proved only:
no run lists them.

Only model-checked: the liveness properties (`DecidesEveryJob`, `TakesEveryStop`,
`BrokenScheduleStops`, `RunEnds`), as fairness is out of the prover's reach. Every other
property of a passing run has a theorem.

## 7. Where the code and its documentation differ

Each of these was met while modelling. The first six have a run that shows
them; the others are as the code is, in the models or in what they abstract.

1. `source_retained`: a schedule created while `retain()` is at work is enabled
   without a source (`store.py:200`, `worker.py:129-138`); `docs/platform.md:68-69`
   promises that samples of enabled schedules are kept. Its next tick disables it.
2. `sandbox_killed`: an attempt that its worker kills leaves `overlay.qcow2` and
   `payload.iso` behind (`worker.py:88`); `sandbox/base.py:172-174` says that
   `destroy` is always called.
3. `cache_changes`: a run that reads the cache while another one writes it, or
   after one died there, takes a part of the evidence for all of it
   (`core/evidence.py:258`, `core/pipeline.py:374-396`). The same property fails for bytes
   that were cached under the name of another format, and when a subscriber or the audit
   record fails while a hit is appended: the fresh run keeps what was loaded, and writes
   it back with its own.
4. `static_claims`: a run whose merge is interrupted by a subscriber, or whose audit record
   fails after it, is labelled static with runtime evidence in its store, and its summary
   claims that execution was observed (`core/pipeline.py:264-293`);
   `tests/test_provenance.py:1` says "must never".
5. `hidden_in_tree`: with the column `pid` instead of `PID`, which `vol3.py:95, 120, 251`
   accept, the scanned row of a hidden process is an ordinary node of the tree
   (`vol3.py:252`, `runtime.py:89-90, 121-125`); `tests/test_dynamic_memory_replay.py:145`
   and `runtime.py:78` say that it is not part of it.
6. `hidden_unlinked`: a process beyond row 500 of PsList that is within the first 500 of
   PsScan is told as hidden (`vol3.py:115` against `vol3.py:125-126`).

Platform and sandbox:

7. A silent worker's result is accepted until some claim sweeps its row
   (`store.py:184, 238`); `docs/platform.md:75-77` reads as if the lease ended by
   itself after 90 seconds. Harmless: nothing else was started.
8. `QemuBackend.collect()` decodes a line of `serial.log` that the guest is still
   writing, and fails the run (`qemu.py:159`).
9. Payload files written before the `try` block stay if one of these writes fails
   (`qemu.py:98-109`), against the comment at `qemu.py:134`.
10. A recorded report is hashed and opened again for ingestion
    (`core/pipeline.py:124, 215, 244`): an edit in between is ingested under the old
    digest, if it still names this sample.
11. A call to `rate()` that straddles two buckets takes the row back and lets the
    younger bucket start again (`store.py:124-130`).
12. A request that was authenticated before its account was disabled is served to
    its end (`docs/platform.md:31` says "immediately"); two administrators can
    disable each other at the same time (`api.py:191-197`).

Analysis:

13. A hint that is not in `TECHNIQUE_INFO` is lost, and the rule of that technique is
    skipped with it (`reconstruct/attack_map.py:258-267`): T1140 of `decode.py:164` and
    `unpack.py:167`, and hints of `elf.py`; `attack_map.py:30-31` says that a hint is enough.
14. The cache is keyed by the digest, while the format of a text sample may depend
    on its name (`core/pipeline.py:174`, `core/triage.py:153-174`).
15. The tags that select the analyzers are iterated as a Python set of strings
    (`core/pipeline.py:400-403`), whose order changes from process to process, while
    `core/pipeline.py:415-416` promises "a stable analyzer order". The order of the
    store differs; `AnyOrderConcludesTheSame` shows that the conclusions do not.
16. Evidence with the contents of an earlier item is dropped even if its confidence is
    higher: the first one stays.
17. A registered plugin that is no `BaseAnalyzer` and raises ends the analysis
    (`analyzers/base.py:63` contains only what its subclasses raise), and every
    analysis registers the built-in analyzers again, over a plugin of the same name.
18. A run whose recorded reports were all refused is still labelled "replay"
    (`core/pipeline.py:133-147, 513-514`); one whose reports were taken has
    `analysis_mode` "static only" while its `runtime_observed` is true
    (`reporting/summary.py:339`).
19. A phase with one observed technique is told as reached by all of its techniques
    (`reconstruct/narrative.py:84`); a technique is covered as soon as a rule is tagged
    with its tactic (`reporting/coverage.py:4-6`).
20. A process whose parents form a cycle is in no tree (`reconstruct/runtime.py:118-140`).
21. The strict point of the rule search has the least false positives, not none, and
    its matcher looks at raw strings while shipped rules also match UTF-16 ones.
22. A location of a function in the disassembly is its lowest instruction, while its
    size is counted from its entry.

## 8. Not modelled

The parsers of file formats (PE, ELF, PDF, OLE, PHP expressions and so on), emulation,
capa and the decoding of bytes: an analyzer is modelled from what its parser found. The HTML
report and the exports lay out what the modelled functions give. Clustering and
lineage compare many runs by hashing text. The filters of text for the provider, the
Neo4j client, the configuration and the offline evaluation are single passes without
shared state, where tests on files say more than a model. The isolation gate
(`guard_detonation`) has no caller in `src/` but its tests. Audit events are written
after the operations and read for display. Passwords, tokens and encryption are
abstracted to whether they match. The read-only handlers of the API see one row at a
time and change nothing. `EvidenceStore` has a lock for its writers, but the
pipeline appends from one thread, in which its subscribers run too. `PROJECT.json` lists every part with
its reason.

## 9. Plan

Order: what decides about other people's work first, then what holds it, then
functions.

1. Done: the platform (`JobContract`, `JobStore`, `LocalWorkers`, `RemoteWorkers`,
   `Schedules`, `Accounts`, `RateLimit`), the sandbox (`SandboxRun`), what is kept
   (`StaticCache`, `CorpusIndex`), the analysis (`Evidence` to `Analysis`),
   `Disassembly` and `RuleSearch`; theorems about all of them.
2. Done: theorems for every safety and action property of a passing run. Liveness
   stays with TLC.
3. Open, model: `LineageIndex`, whose save is a read-modify-write without a lock;
   differential runs (`enrich/differential.py`); the loops of the parsers
   (containers, PHP expressions) against reference definitions.
