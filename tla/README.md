# Conduct: a verification development

Conduct dispatches AI jobs of several clients to local (Ollama) and cloud (Anthropic,
Bedrock) models. It is a FastAPI process, a Postgres database, a Redis server with RQ and
one worker process. This directory holds TLA+ models of it, the TLC configurations that
check them on small instances, and TLAPS proofs for every size of the instance.

    tlc -workers 2 -config JobLifecycle_worker.cfg MCJobLifecycle
    tlapm Scoring_proofs.tla

`PROJECT.json` maps every definition to the lines of the source it stands for, and lists
the runs, the mutants (for each property a plausible bug it catches), the hazards and the
theorems.

## 1. Inventory

How the parts meet: a handler of the API (`routes/*`, `mcp_server.py`) and the worker
(`worker/runner.py`) call the same executors (`worker/executor.py`), share all state
through rows, and never lock one. Every session is READ COMMITTED with
`expire_on_commit=False`; a commit writes the assigned columns `WHERE id = ...` without
looking at the row again. Redis holds the queues and is never part of a transaction with
Postgres. The worker is one RQ `SimpleWorker` (no fork) that drains the queues `conduct`,
`conduct-media` and `conduct-shadow` in this order and runs each job in an `asyncio.run`
of its own under RQ's SIGALRM timeout (600 s; 3600 s for media and training).

| Component | State | Operations | Hard behaviour | What makes it correct | Module |
|---|---|---|---|---|---|
| Job submission (`routes/jobs.py`, `routes/image.py`, `routes/tts.py`, `mcp_server.py`) | `jobs.status`, the RQ record | insert, enqueue, run inline, answer | row and queue are two systems; Redis may fail before or after it took the job | no row stays PENDING with nobody to carry it; a job is started once | `JobLifecycle`, promised by `JobBoard` |
| Worker (`worker/runner.py`, `worker/queue.py`) | the job it holds, `jobs.status` | dequeue, check, route, swap, execute, safety net | crash, timeout that is no `Exception`, replay, minutes between check and RUNNING | no second start; a completed job is never demoted; RUNNING means somebody is at it | `JobLifecycle` |
| Executors (`worker/executor.py`, `tts/executor.py`) | job columns, `client_app_usage` | RUNNING, call, meter, store, commit | read-modify-write of counters, one transaction for result and usage | usage counts the stored results | `JobLifecycle`, by kind `Media`, `CodeEval`, `Residency` |
| Cancellation (`routes/jobs.py:639-682`) | `jobs.status`, the RQ record | read, ask RQ or remove the record, write | three steps against a worker that goes on | a job taken from the queue never starts; a live job is not cancelled | `JobLifecycle` |
| Routing engine (`routing/engine.py`, `retry/static.py`) | none | decide | floors, promoted fallbacks, opt-in, credentials | never a cloud model that the level forbids | `Routing` |
| Egress control (all callers of models) | rule, opt-in, credentials, decisions, planned shadows | submit, dispatch, call, fall back, fan out, shadow, judge | each path decides at another time, from another copy of the policy | confidential content stays local; internal content needs an opt-in | `Egress` |
| Eval shadows and fan-out (`eval/shadow_*.py`, `eval/fanout.py`) | `job_shadows`, their RQ records | plan, insert, enqueue, run | two commits and an enqueue each, no safety net, a cap that ignores what is in flight | no row runs twice; every row settles; the cap is passed only by what was under way | `Shadows`, calls in `Egress` |
| Judges and scores (`worker/executor.py:479-1200`, `eval/scoring.py`) | JSONB `metadata` of jobs and shadows, eval tokens | judge, tally, apply a score, redeem a link | whole-document writes of a stale copy, two commits for one verdict, check-then-set | one link one score; a quorum behind each score; winner and loser agree; no pair is exported twice | reads in `Egress`; the rest in `Scoring` |
| Code evaluation (`worker/executor.py:1203-1445`, `codegen/deps.py`, `codegen/structural.py`, `eval/composite.py`) | the artifact and scores of a row | seven calls of sandbox and index, rate to score, composite, export | calls that fail half-way, dimensions that do not apply, rounding | what is recorded was earned; the better row is not rejected | `CodeEval` |
| Residency and fine-tuning (`providers/resident.py`, `worker/queue.py`, `worker/executor.py:1446-1541`) | what Ollama has loaded, the suspend flag | pin, unload, swap, reconcile, train | a thread beside the worker; a flag checked once | nothing is pinned while a model trains; residency comes back | `Residency` |
| OAuth provider (`oauth_provider.py`, `routes/oauth.py`), API keys (`auth.py`), rate limiting (`rate_limit.py`), client administration | codes, token pairs, connectors, clients; a Redis counter per minute | issue, redeem, rotate, resolve, withdraw; INCR, EXPIRE | check-then-set on every single-use thing, admission by several queries, two calls for one counter | an approval is one grant; who is withdrawn is out; at most N admissions per window | `Access` |
| Prompt library (`prompt_loader.py`, `routes/prompts.py`, `scripts/seed.py`) | prompts and versions | save, archive, seed, resolve | content and version read by two queries; partial UPDATEs of overlapping saves | a job records the version it used | `Library` |
| Media pipeline and speech (`worker/executor.py`, `providers/comfyui.py`, `providers/acestep.py`, `providers/ffmpeg_mux.py`, `tts/`) | files, style and voice aliases, rules, what the daemons hold | submit, dispatch, stage, poll, fetch, free, mux, speak | chained inputs, failing daemons, prompts nobody waits for, files cut short, an alias or a rule edited meanwhile | an URL names a whole file; a job runs as submitted; audio has its memory | `Media` |
| Text providers, settings and prices, UI, CLI, observability, deployment | none that the properties read | — | — | — | not modelled (section 7) |

## 2. The modules and their order

Most important first. Nothing is shared between the modules but what the table says; a
component that two of them touch is cut at a commit or at a call.

| | Module | Instance for TLC | Theorems |
|---|---|---|---|
| 1 | `JobLifecycle`: the row of a job between API, RQ, worker and DELETE | `MCJobLifecycle` | `JobLifecycle_proofs` |
| 2 | `JobBoard`: what a client may rely on; `JobLifecycle` implements it | as `ImplementsBoard` in the same runs | in `JobLifecycle_proofs` |
| 3 | `Routing`: the pure engine, an operator library | through `Egress` | through `Egress_proofs` |
| 4 | `Egress` (extends `Routing`): which content reaches which model | `MCEgress` | `Egress_proofs` |
| 5 | `Scoring`: judges, JSONB scores, pairwise verdicts, links, exported pairs | `MCScoring` | `Scoring_proofs` |
| 6 | `Access`: OAuth, API keys, rate limit | `MCAccess` | `Access_proofs` |
| 7 | `Residency`: Ollama's memory, the reconcile thread, training | `MCResidency` | `Machine_proofs` |
| 8 | `Shadows`: the `job_shadows` row, its cap and its queue | `MCShadows` | `Shadows_proofs` |
| 9 | `Media`: aliases, chained media, daemons, files | `MCMedia` | `Machine_proofs` |
| 10 | `CodeEval`: measuring generated code, the composite | `MCCodeEval` | `CodeEval_proofs` |
| 11 | `Library`: prompts, versions, the trace of a job | `MCLibrary` | `Library_proofs` |

Every module keeps recursion out (functions and folds instead), declares its parameters
as CONSTANTS with a named assumption, has one action per operation and writes each
invariant as a conjunction of named parts, so that it can be proved about. `Residency`
gives its initial predicate, next-state relation and the like names of their own
(`ResidencyInit` ...), so that it can be extended beside `Media`: both are about the
worker's machine, and `Machine_proofs` holds the theorems of both.

Every safety and action property of the passing runs has a theorem (section 5); what only
TLC shows is liveness. The types of `Scoring` have a theorem and no run. The read-only endpoints (section 7) have no property to state.

## 3. The modules

### JobLifecycle

One action is what a handler does between two awaits: a SELECT, a commit, a Redis call, a
provider call. `pc[j]` is the handler that submitted job `j`, `pc[Worker]` the worker,
`dpc[d]` a DELETE request. An inline request and the worker run the same executor actions
(`Begin` ... `FanOut`), applied to a process `x`, whose job is `JobOf(x)`.

| State | Code |
|---|---|
| `status`, `stored` | `jobs.status`, `jobs.response` |
| `usage` | `client_app_usage.job_count` of the day, one client; 0 is also "no row yet" |
| `rq` | the RQ record: none, queued, started, finished, failed |
| `outcome`, `seen` | the result and the counter that an executor holds uncommitted in its session |
| `djob`, `dread` | the row a DELETE read, and the status it read |
| `budget` | how many faults of each kind are still to come (`Budget` bounds them) |
| `starts`, `pulled`, `fanned` | history only: how often a job was started, whether a DELETE took it from the queue, whether its shadows were planned |
| `struck` | history only: the jobs whose handler, worker or DELETE died or was cut off by a fault that no handler in the code sees (`Strike`) |

| Actions | Code |
|---|---|
| `Submit`, `Enqueue`, `EnqueueFails`, `MarkEnqueueFailed`, `MarkUnresolved` | POST handlers and MCP `create_job` / `rerun`; only the HTTP ones catch an enqueue error |
| `Dequeue`, `ReadRow`, `Route`, `NetRead`, `NetWrite`, `RQEnds` | `run_job`, `_run_async`, `_dispatch_job`, `_decide_or_fail`, `_mark_job_failed_safe` |
| `Begin`, `BeginRaises`, `CallReturns`, `CallFails`, `CallRaises`, `ReadUsage`, `Commit`, `CommitConflicts`, `After`, `FanOut` | `execute_job`, `execute_media_job`, `execute_tts`, `_bump_usage`, `enqueue_shadows_for_parent` |
| `DeleteRead`, `DeleteCheck`, `DeletePull`, `DeleteRedisError`, `DeleteWrite` | `cancel_job`, `_rq_job_is_active`, `_remove_from_rq` |
| `WorkerCrash`, `ApiCrash`, `Timeout`, `Exception`, `HandlerDbError`, `DeleteDbError` | faults; a `Timeout` is RQ's SIGALRM while the event loop waits: the coroutine is cancelled with `CancelledError`, which no `except Exception` sees |
| `Abandon`, `Expire`, `Replay` | RQ's own maintenance and an operator's requeue (external) |

Abstracted: which provider and model (a call returns, fails or raises), the contents of a
response (stored or not), the date of the usage row (one day), code, judge, build and
training executors (same skeleton as a text or a media job).

### JobBoard

The abstract job: `status`, whether its execution was tried, whether it has a result, and
the bill of the day. `Accept`, `Answer`, `Refuse`, `Start`, `Deliver`, `GiveUp`, `Cancel`
are everything a client can see. The refinement maps `tried` to `starts[j] > 0`, `results`
to `stored`, `bill` to `usage`, `free` to the speech jobs, and `open` to the jobs whose
handler is between the commit of the row and the answer of the queue.

Its promises: a job is started at most once; the result comes in one step with the final
status and with the bill; the bill never exceeds the results; once the submission is
answered a completed job does not fail. Its disclaimers are disjuncts a reader should note:
`Start` is enabled on a cancelled job, `Refuse` and `Cancel` may cover a result that is
there, and `Deliver` may lose an update of the bill. Each of them is a behaviour of the code
(section 6), and the specification without it is not implemented.

### Routing

`Decide` is `routing.engine.decide`: the effective level is the stricter of the request
and the rule's floor; an explicit model is taken or refused; the rule's fallback replaces
a preferred model that is not allowed. `model = NoModel` stands for
`SensitivityViolation`. A model is its name; its provider is given by three constant sets.
`FallbackTarget` is the static failure handler with its registered providers.

### Egress

One text task type, one client. An administrator edits the rule, the opt-in and the
credentials (at most `MaxEdits` times) while handlers act on what they read once.
`Submit` is everything a POST or `create_job` decides in the request; `Dispatch` is the
worker's second decision, from the row and the current policy; `ReadTargets` is a judge
that reads its targets and goes RUNNING; the `Call...` actions are the calls. `sent`
records whose content reached which model. A judge that compares is a job that reads
two; a panel is any non-empty set of models that pass the gate.

Abstracted: text, cost, sampling (any part of the allowed shadows is planned), the time a
call takes. Speech, media, code evaluation and training go to local services and make no
call here.

### Scoring

A job or shadow is a row with a document, `meta[r]`, of scores and preferences. Whoever
adds to it reads the row, appends in memory and writes the document back whole, in two
steps of the model; `copy[p]` is the document that process `p` has read.

| State | Code |
|---|---|
| `row`, `meta` | `status` and the JSONB `metadata` of jobs and shadows; "fanning" is a completed parent whose fan-out secondaries still run |
| `hash`, `used` | `eval_token_hash`, `eval_token_used`; a link is named for the request that minted it |
| `pc`, `op`, `on`, `copy`, `sawUsed`, `link` | what a request does, its row, and what it read there |
| `ask`, `ballots`, `swaps`, `todo`, `chosen`, `applied` | the request of a judge job, its answers, the sides it has yet to write, its own verdict |
| `redeemed`, `written` | history only |

| Actions | Code |
|---|---|
| `FinishRow`, `FailRow`, `FinishFanout` | the row's own executor writes back the document it loaded (`execute_job`, `execute_shadow`, `run_fanout_secondaries`), or the safety net fails the row |
| `ReadToScore`, `WriteScore` | `apply_score` on behalf of the JSON API, the MCP tool and the review page |
| `ReadToMint`, `WriteLink` | `create_eval_link`, `mint_eval_token` |
| `ReadToRedeem`, `RefuseLink`, `WriteRedemption` | `submit_eval`, `redeem_eval_token` |
| `StartJudge`, `RefuseJudge`, `CallJuror`, `CallSwapped`, `TallyScores`, `TallySwaps` | the pointwise, panel and pairwise judges up to their verdict |
| `ReadTarget`, `WriteTarget`, `FinishJudge` | `apply_score` and `apply_pairwise_preference` by a judge, one commit per side, then `_finish_judge` |
| `InterruptJudge` | an exception (FAILED by the safety net), or a crash or timeout, at any await |

`ExportedPairs` is what `_preferences_from_pairwise` would return from the present rows.

A commit writes only changed columns. So a redemption whose row was read before a new link
was minted leaves the new hash alone and marks it used, and minting on a row that was read
unused does not write `eval_token_used` at all. Both are in the actions as they are. A
score that is committed may be lost to a whole-document write of an older copy; nothing
in the repository claims otherwise, and no property here says that it survives.

Abstracted: the number in a score outside a panel, named dimensions, notes, reviewers,
the expiry of a link (one of the refusals), and the time an executor loads its row: an
unfinished row of the model has been loaded with an empty document.

### Shadows

One day of `job_shadows`. An eval row is planned when its parent has ended, inserted with
its siblings in one commit, enqueued alone and run by the worker; a fan-out row is inserted
by the request and run there, beside the others.

| Actions | Code |
|---|---|
| `ParentEnds`, `Plan`, `Insert`, `Enqueue`, `PlanFails` | `should_fan_out_shadows`, `enqueue_shadows_for_parent`, `plan_shadows`, the cap query `_today_cost` |
| `StartFanout` | `run_fanout_secondaries` up to its commit |
| `Dequeue`, `ReadRow`, `SwapFails`, `RQEnds` | `run_shadow`, `_run_shadow_async` |
| `Begin`, `Finish` | `execute_shadow`: RUNNING, then the answer, an artifact that is malformed, or `ProviderError` |
| `Raise`, `WorkerCrash`, `ApiCrash`, `Abandon`, `Replay` | what nothing here catches, and RQ's own maintenance (external) |

`starts` and `open` are history: `open[p][m]` is what of model `m` had no cost yet when the
planner of `p` summed the costs. Sampling is any subset of the targets that are not blocked.

### Residency

`loaded` is what Ollama holds, `suspended` the `threading.Event`, `wpc`/`wtodo` the worker and
`rpc`/`rtodo` the reconcile thread, which shares only the flag and Ollama with it. One action
is one call of Ollama, of the sidecar, or one look at the flag.

| Actions | Code |
|---|---|
| `PinOne`, `Booted`, `Tick`, `ListLoaded`, `RepinOne` | `pin_resident_models`, `main` of `worker/queue.py`, `reconcile_resident_models` |
| `StartSwap`, `EndSwap` | `_swap_ollama_if_needed` |
| `Suspend`, `UnloadOne`, `PostTraining`, `EndTraining`, `LoseTraining`, `Resume` | `execute_dpo_fine_tune_job` with `suspend_residency`, its `try` and its `finally` |
| `InlineCall`, `Evict`, `KeepAliveEnds`, `SidecarEnds` | the API process and the daemons (external) |
| `Timeout`, `Crash` | RQ's SIGALRM at an await, the death of the process |

A timeout may strike once per job (`alarmed`). Where it strikes decides: before the `try`
nothing resumes; in the training the `finally` runs; inside the `finally` the rest of it is
lost. `excused` and `overlap` are history for the exact statement of what is not in memory.

### Access

A request is a state machine of the queries it makes; each sees what is committed by then.
`ask[r]` is what it presents, `grant[r]` what it has drawn (a code or a token pair), `spent` the
codes that are used and the pairs that are revoked.

| Actions | Code |
|---|---|
| `ReadClient`, `IssueCode`, `ReadGrant`, `Mint` | `get_active_client`, `authenticate_client`, `issue_authorization_code`, `redeem_authorization_code`, `refresh_token_grant` |
| `ReadToken`, `ReadConnector`, `ReadApp` | `resolve_access_token` and its caller in the MCP server |
| `ReadKey`, `ReadClock`, `Incr`, `SetTtl`, `CreateJob` | `current_client`, `check_rate_limit` (INCR, then EXPIRE on the first hit), the handler |
| `Withdraw`, `Reinstate`, `Rotate`, `SetLimit`, `Age`, `Tick`, `Expire` | PATCH of connectors and clients, expiry of codes and tokens, the clock, Redis |
| `Fail` | any await raises, or the process dies |

`Loads` is the traffic of a behaviour (which kinds of request, how many, which edits): one run
covers several small worlds, and the properties are about each of them.

### Library

One task type. `rows` are the prompts by scope (a client's override or the shared default),
`versions` the log of all saves. `ReadPrompt`, `Save` and `Archive` are `upsert_prompt` and
`archive_prompt`, `SeedRead` and `SeedWrite` the import of files, `LookUp` and `ReadVersion`
the two queries of `resolve_prompt`. The ORM writes only the columns whose value differs
from the one it read (`Updated`); the log gets what was asked for.

### Media

Every job is taken by the worker once; cancellation, replay and metering are
`JobLifecycle`'s. `aliases` are the rows of one style or voice name in every scope, `rules` the
`media_kind`, `preferred_model` and `is_archived` of the tasks that have a media rule;
`PutAlias`, `ArchiveAlias`, `PutRule`, `ArchiveRule` are their endpoints. `SubmitNamed` (POST /image with
a style, POST /tts) resolves a name, the client's alias first and then, for a voice, an installed
file of that name, and stamps it on the row; `Submit` is any other submission.

`Take` reads the rule again and dispatches by what it says now (`DispatchedKind`,
`DispatchedLook`): if it was archived or became a text rule in the meantime, the job goes down the
text path (`TextPath`). `Inputs` resolves the sources of a job of any kind. `Source` says for
each role (image, video, audio) whether a job takes another job's output (`Upstream`), a URL to be
downloaded, or nothing; a template of `Animated` needs an image, a mux a video and a track.
Then `Stage`, `Poll`, `Fetch`, `FreeModels`, `Write` for ComfyUI, `EnsureInitialized`, `Chat`
and `Write` for ACE-Step, `Mux`, `CleanUp` for ffmpeg, `Synthesize` for Piper; `Commit` or `Fail`
ends the row. `WorkerStops` leaves the row as it is and a file cut short; `AceRestart` loses
the models of ACE-Step behind the back of the provider's flag.

`ComfyRuns` is the daemon, which also finishes prompts nobody waits for any more: the worker may
have stopped, the reply to POST /prompt may have been lost (`Stage` fails with the prompt
running), an error of GET /history or the deadline may have ended the job (`Poll` fails in any
state of the prompt). `comfy` is the prompt of each job, "freed" once POST /free was answered;
`wan`, `ace`, `known` are what the daemons hold and what the provider believes. Whether an output
is a video is a property of the template (`Films`), as the code goes by the suffix of the file
and not by the `media_kind`. `free_after_video` has its default, on. `Loads` says which of the
jobs are made at all, with how many failures and edits.

### CodeEval

A crate is a record of what the sandbox and the index would find out about it. `Start`
decides the calls of an evaluation and their order (`Calls`: the dependencies, the compile
gate, and `Behind` it the suites, the mutants and the structural check), then one action per call:
`CheckDeps`, `Compile`, `RunSuite`, `Baseline`, `Mutate`, `Structural`, each with the variant in
which the call times out; `ServiceFails` is `BuildServiceError`, `Apply` the score in its own
transaction, `Finish` the verdict. `ReqSatisfiable` is the regular expression's idea of a
requirement, `CargoTakes` Cargo's. `Average`, `Composite` and `Pairs` are the composite and the
export, in integers: hundredths for an average, ten-thousandths for a composite, halves
rounded to even as Python does.

## 4. The runs

| Run | Instance | What it shows |
|---|---|---|
| `job_worker` | 2 queued jobs (text, speech), 1 DELETE, a crash, a timeout, an exception, a database error and a replay, once each: 2.4 M states | `TypeOK`, `AtMostOneStart`, `UsageMatchesResults`, `PulledNeverStarts`, `LiveCancelReadPending`, the refinement `ImplementsBoard` |
| `job_calm` | 2 queued jobs, 1 DELETE, a lost reply, a replay, exceptions of executors, fairness: 0.26 M states | `NobodyIsStranded` and the liveness property `PendingSettles` |
| `job_requests` | 2 jobs that are enqueued over HTTP or MCP or run inline, 1 DELETE, an API crash, a Redis error, a lost reply, a database error, an RQ timeout: 2.9 M states | `LeftForCause`, `ImplementsBoard` |
| `egress` | 2 jobs, 7 requests, 3 rules, 4 models, 1 edit: 2.1 M states | `TypeOK`, `ConfidentialStaysLocal`, `InternalNeedsOptIn` |
| `scoring` | 1 job, 1 shadow, 2 requests, 1 judge of any mode, 3 jurors, scores 1 to 3, 1 interruption: 1.0 M states | `OneScorePerLink`, `RedeemedIsSpent`, `QuorumBehindScore`, `OutlierIsBounded`, `VerdictsAreWhole`, `PairsAreVerdicts` |
| `access` | 4 OAuth requests of 2 connectors; or 3 and an edit; or 3 posts with limits 0, 1, 2 and none, 2 edits, 2 minutes: 1.6 M states | `ApprovalIsOne`, `WithdrawnStaysOut`, `WindowHolds`, `RefusedForCause` |
| `residency` | 2 resident models and another, 2 timeouts and one of every other fault, fairness: 0.33 M states | `ResidencyTypeOK`, `SuspensionIsOwned`, `TrainingHasRoom`, the liveness property `ResidentsComeBack` |
| `residency_repin` | the same, one eviction and no other fault | `NotRepinned`, a statement of the repository, violated (section 6) |
| `shadows` | 2 parents, 3 eval targets of a paid and a free model, a cap of 1 call, 1 fan-out row, 1 fault, 1 replay, fairness: 0.40 M states | `TypeOK`, `RunsOnce`, `OvershootWasOpen`, the liveness property `ShadowsSettle` |
| `library` | 3 edits of 3 scopes, a seeder with 2 files, 1 job of either client: 0.59 M states | `TypeOK`, `TraceIsExact` |
| `media` | a still, a larger one made of it, the video of that, a track and a mux, 1 edit, 2 faults; or 2 images, one of them styled, and a spoken text of another client, 2 edits, 1 fault: 2.5 M states | `TypeOK`, `UrlNamesFile`, `RanAsSubmitted`, `RoomForAudio` |
| `code_eval` | a job and a shadow, 6 crates, 2 evaluations of 3 kinds, a judge, 1 timeout or interruption: 0.73 M states | `ScoresAreEarned`, `FlaggedForCause`, `BetterIsNotRejected` |

Why the bounds are enough. Two jobs are what it takes for the worker to hold one while
another is queued, and for two executors to interleave; a DELETE races each of them. Each
fault may strike at every point, so one of each covers every single fault and every
combination of different ones; a second replay finds a settled row, as the first does. In
`Egress` a handler reads the policy twice at most (in the request and in the worker) and
one edit falls before, between or after them; two jobs are a judge and its target, and the
three rules have the cloud on either side of a floor. In `Scoring` a lost or revived
document takes a reader that is overtaken by one writer, so two requests, a judge and the
row's executor give every such overtaking; three jurors are the smallest jury with an
outlier, and with one of them failed it is the even one; three scores are low, middle and
high, which is all a median distinguishes.

In `Access` two requests race for one grant, a third draws it and a fourth refreshes what
came out, which is one link of the chain of an approval (the theorem covers all of them);
two minutes are a minute and the next, in which a late request or an old counter may
appear. In `Residency` two resident models are a list with a first and a last, and a second
timeout strikes the job after the first. In `Shadows` two planners may read the same sum
with a cap of one. In `Library` the third edit is what changes the row between the read
and the write of one of two others. `Media` has two loads: a job of each
kind with a chain through three of them (image to image to video to mux) in it, with any two
failures, one of which may leave a prompt that nobody waits for and another strike a later
job; and a styled job beside a plain one and another client's, where two edits are a shared
alias and what follows it (the client's own over it, its archival, an edit of the rule), before,
between or after submission and dispatch. In `CodeEval` the crates differ from a good one in
compilation, tests, mutants, dependencies and lints, so that each dimension is the only
one that tells two of them apart. Safety properties that are also proved (section 5) do
not depend on these bounds at all.

`CHECK_DEADLOCK FALSE`: clients need not submit anything more, and when every job has
settled and every record has expired, the system rests. In `Residency` it never does, but
the cfg allows for an Ollama that is left alone.

Properties that hold only when a fault is left out, or with an exception that is part of
the statement:

- `UsageMatchesResults` needs one executor at a time, which is what the single worker
  gives: two inline requests of one client that commit after both have read lose an update,
  since `_bump_usage` adds in Python to what it read. Hence the loose `Deliver` of `JobBoard`.
- `NobodyIsStranded` and `PendingSettles` need that no process dies and no RQ timeout
  strikes: nothing in the code reconciles the rows afterwards. `LeftForCause` is what holds
  under every fault: a row that nobody will write any more was struck by one of them, or is
  that of an inline request or of an MCP call that answered with an error. The last two are
  the places where the code has no handler (`routes/jobs.py:293-337` beyond the errors it
  names, `mcp_server.py:419`); HTTP enqueues and the worker's safety net leave none.
- `ShadowsSettle` is conditional on `faults = MaxFaults`, that is, until a fault strikes;
  `ResidentsComeBack` on `struck`, a timeout inside the unloading or the pinning.
- `ApprovalIsOne`, `OvershootWasOpen`, `TraceIsExact`, `TrainingHasRoom`, `RoomForAudio` and
  `WindowHolds` count or name, in a history variable, the overlap that the code lets happen
  and say that nothing else is to blame.
- `BetterIsNotRejected` is about rows that were measured once each, and needs a gap between
  the composites that the weights justify (`WeightsFit`), 2.0 for the seeded ones. Below it a
  crate without mutants to kill (a dimension that does not apply) can beat a better one
  which has some.

Fairness. `JobLifecycle`: a handler that was started goes on (uvicorn schedules every
coroutine), the worker polls its queues for ever (`Worker.work` in `worker/queue.py`), RQ
moves records of dead workers to the failed registry at each maintenance. All of it is
weak fairness of one process's next step, and none of a client, of a fault, of a replay or
of a record's expiry. A model call returns, fails or raises: each provider has a timeout
of its own, and RQ's stands behind it. `Shadows`: the same of the worker, of each planner
and of each fan-out coroutine. `Residency`: the worker goes on with what it has begun
(`GoOn` has no new training and no swap in it), the thread ticks for ever, and the sidecar
caps its run.

## 5. The proofs

The eight proof modules are about every set of jobs, requests, rules, models, links, crates
and finite juries, and any number of faults and edits. The assumptions are the named ones of
the modules, each as weak as the code justifies: the worker is no job and `NoJob` is none
(`ActorsAssumption`); only text jobs run inline (`RequestsAssumption`); a budget is a function
to naturals; local models are disjoint from cloud ones and the defaults exist
(`ModelsAssumption`); what a client or an administrator may send has its type, and resident
models are local (`EgressAssumption`); the rows, requests, judges and links of `Scoring` are
kept apart and the first link is no request's; the judge requests have their type, the jury
is finite and there is a score (`ScoringAssumption`); the files to seed from are finitely
many (`LibraryAssumption`), and so are parents, targets and fan-outs of a day
(`ShadowsAssumption`); the suites are finitely many and not named like a built-in dimension
or call (`CodeEvalAssumption`; the code lets a suite take such a name, section 6); and
`AccessAssumption`, `ResidencyAssumption`, `MediaAssumption`, `LoadsAssumption`, which, like the others, give the
constants their types and keep markers such as `NoRow` apart from what they mark. Four
theorems have a hypothesis of their own, named with them below: `UsageIsExact`,
`QueuedUsageIsExact`, `NobodyStranded` and `BetterStaysChosen`.

`JobLifecycle`: `TypeCorrect`, `NoSecondStart`, `PulledStaysDown`, `LiveCancelIsARace`.
`AtMostOneStart` is not inductive: it must be known that whoever is about to start a job
is the first. The only guard in the code is the worker's status check, and what follows it
relies on four facts that `IInv` makes explicit. `InlineOrQueued`: a handler that runs its
job never enqueues it. `RecordsAreTaken`: only the enqueue call brings a record to life,
and the worker holds a job only after taking its record, so no other holder exists.
`StartedOnce`: a row that is PENDING, or held by somebody before RUNNING, was never
started, and no status leads back to PENDING. `PulledIsGone`: a record a DELETE removed
from the queue is not replayed, since a replay needs a failed record.
`CancelIsJustified` records for each DELETE what it read, and that a DELETE that goes on
after reading RUNNING on a live job can do so only when another removed its record,
having read PENDING. One lemma per part preserves it over `Next`, one step per action.

`JobLifecycle`, usage: `UsageIsExact` says that the counter equals the number of metered
results in every behaviour in which no two executors are about to bill at once
(`[]OneBillsAtATime`). Its invariant is `CountIsFresh`: what an executor has read of the
counter is still what it holds. `QueuedUsageIsExact` discharges the hypothesis where no
request runs its job inline, for any faults: the single worker bills alone.

`JobLifecycle`, rows left behind: `OnlyLeftForCause`, for any number of faults of every kind.
`HeldInv` has four parts. `RunningHeld` and `PendingHeld` say who will write a row that is not
final, or why nobody will; they are preserved because of `LetsGo`: the worker takes up no
RUNNING row, and neither it nor an inline request moves on from a row that is not final.
`PendingHeld` says a little more than the property, that the MCP tool leaves a row behind only
if Redis never got the record (`Unreached`: a Redis error was taken from the budget), and
`Spending` that only a fatal fault strikes. With these two `NobodyStranded` is a corollary, under
`CalmAssumption`: jobs go through the queue, over HTTP, or over MCP where no enqueue fails; no
process dies, no RQ timeout strikes and no database error befalls a handler. Exceptions of
executors, Redis errors, lost replies and replays remain. Each excluded fault has a
counterexample.

`Egress`: `TypeCorrect`, `ConfidentialIsLocal`, `InternalIsOptedIn`. The properties speak
of calls; the invariant carries "passes the gate at the level of the stored row" from the
decision (`DecisionHolds`) to the jury (`JuryHolds`), the fan-out (`FanHolds`), the planned
shadows (`ShadowsHold`) and the call (`SentHolds`). Three lemmas carry the weight:
`DecideSound` (what the engine returns passes the gate at a level no looser than asked),
`GateMonotone` (what passes at a level passes at every looser one, and for a client that
has opted in) and `LevelsAreOrdered` (a judge reads what is no more sensitive than what it
resolved to). `OptInKnown` says that an opt-in anybody still acts on was once given, which
is all that withdrawing one leaves.

`Scoring`, links: `TypeCorrect`, `SpentForGood`, `OneScoreOnly`. Neither property is
inductive, because a row is written back whole from a copy that may be stale. `LinkInv`
says what the copies are good for. `LinksAreMinted`: a link is in use only after the
request that drew it has ended, so it is never drawn again. `OneJobPerLink`: no hash is on
two jobs, and whoever is about to redeem a link is at its only job. `RedeemedIsSpent` is
then preserved, since the columns that a writer leaves alone are not written.
`ScoresAreRedeemed`: a document, stored or read, holds the score of a link only if the
link was redeemed. `CopyIsFresh`: hence the copy of whoever is about to redeem has no
score of that link, and `DocsAreSingle`, whose consequence is `OneScorePerLink`, survives
the write of any copy.

`Scoring`, verdicts: `NoLossAlone`, `AppliedMeansWritten`, `NoDegradedScore`. Here
`VerdictsInOrder` says for each judge what it has committed: nothing, the winner's record
or the whole verdict, which of them where it stands, and which rows are left to write. A
judge's part depends on no other process (`RequestsAreSame`, `OthersAreSame`), so one
lemma about the judge's own step (`OwnStepInOrder`) is enough.

`Scoring`, exported pairs: `PairsExported`. Everybody who scores a row carries its preferences
along and writes them back, so `PrefsAreBacked` speaks of the stored documents and of the
copies: each win names a verdict that its judge has committed to that row. A verdict does
not change once it is committed (`RecordsStay`), and it has one winner and one loser.

`Scoring`, the median: `MedianIsRobust`, for a jury of any size. `Ranked` is a choice, so
`RankedIs` first shows that there is something to choose: the least score that as many jurors
reach. At least two jurors are up to the median and two from it on, so that any one of them
has another on either side (`Another`); rounding stays between the two middle scores
(`RoundedBetween`).

`JobBoard`: `BoardIsImplemented`, the simulation (in `JobLifecycle_proofs`). Its invariant is that of `JobLifecycle` and two
more parts. `FirstResult`: whoever is about to write a result holds a job that has none, and
the safety net is never about to fail a completed one. `Counted`: the counter, and what an
executor has read of it, are at most the number of metered results. `CommitDelivers` is the heart: the
commit of an executor is `Deliver`. Every other action is named in `BoardStep` with the abstract
action or the `Answer` it maps to.

`Access`: `OneApproval`, `NoneSlipsIn`, `LimitPerMinute`, `NoneRefusedEarly`, over one
type-like invariant `Grants` (where a request stands tells what it asks for; every grant goes
back to a code). `ApprovalIsOne` is inductive once `RacedAreCodes` says that what is no code
was not raced for. For `WithdrawnStaysOut`, `Presented` says that what a request brings was
real when it arrived, and `BarredAreOut` that the one thing that was bad then is still ahead
of it: it holds on, because whatever is withdrawn, spent or aged stays so (`Tightened`) and
what a request asks for does not change (`AskStays`), unless something is reinstated, which
empties `barred`. For the limiter, `CountersCover` relates a counter to the requests it has
counted, and `LimitsFit` is a condition of Hall's kind: of the requests that pass on time, no
more than m have read a limit of m or less. It is what survives an edit of the limit between
two requests, and `WindowHolds` follows from the largest limit read.

`Residency`: `TypeCorrect`, `FlagIsOwned`, `TrainingFindsRoom`. `Flag` adds that a process that
boots has a clear flag. `Room` says for each stage of the unloading what is out of memory
already, and that a tick that may still load something overlaps.

`Shadows`: `TypeCorrect`, `RowsRunOnce`. `Once` holds that a row that is not begun has not
started, that a process finds its row PENDING when it begins and RUNNING at its call, and
that a parent's rows are absent until its planner inserts them; `RowsDiffer` keeps two
processes off one row, `InsertsNew` makes the insert harmless to the others.

`Shadows`, the cap: `OvershootIsOpen`. `TodayCost` is a fold over the rows of the day;
`SumsAreEqual` shows by induction that it is the number of paid rows (`CostIsCount`). The
invariant `Covered` is about every set of rows that are paid, open or drawn: one of them (the
last to be drawn) found room for the others but for those that were open. It has to be about
every set, since a row that ends unpaid takes itself out.

`Media`: `TypeCorrect`, `UrlsStayGood`, `RunsWhatWasAsked`, `AudioHasRoom`, for any jobs, any sources
of them, any rules and any edits. `Working` ties the row to the worker, says that only speech
is dispatched as speech, and that what is about to be committed is on the disk; `Stamped` ties
what ran to what was stamped; `Attended` says that a video model in memory, or a prompt that
will yet load it, has a run that is still attended or one that went wrong, and that a job that
was not begun has no prompt; the single worker does the rest.

`Library`: `TypeCorrect`, `TraceHolds`. `IsLast` says where the last save of a scope is, without
searching for it; `LatestIsLast` that the search finds it; `LastAfterAppend` and `LastAfterImport`
what a save and an import of any finite set of files do to it. `LogIsCurrent` ties each row
to the last entry of its scope as long as no two saves of it overlapped, `JobsHoldRows` what
a job has read to the row it is about to ask the version of.

`CodeEval`: `EarnedScores`, `FlagsHaveCause`. `Sound` says that what an evaluation has measured is
true of the crate or blurred by a call that failed, `Whole` that with the calls to come it is
all that was asked for: in front of the gate the list is the one of `Calls`, behind a gate
that was passed every suite is measured or listed, behind one that was not only the
structural check is. Each has one lemma per call (`DepsMeasured`, `GateMeasured`, ...), which is
about a request, a crate and two lists and not about a state; `CallHolds` applies them, and
`Steady` says what a step leaves alone. `NearestIs` and `ScoreOfSuite` are the rounding: 5 takes
seven eighths of the tests. `OffenderIs` compares the regular expression with Cargo.

`CodeEval`, the export: `BetterStaysChosen`, under `WeightsFit`. The property is false for some
weights, because a better crate may be judged by dimensions that do not apply to the worse one:
the mutation score, where the worse crate has no mutants (or its own tests fail), and all that
lies behind the gate, where the worse one does not compile. `WeightsFit` bounds what these can
cost by the gap of the export: a dimension is 4 points from another at most, so 40000 times
the weight that may come in must be less than the gap times the weight it comes in to. The
weights of `config/composite.yaml` and the default gap of 2.0 (`eval/datasets.py:234`) meet it, and
TLC evaluates it with them (`SeededWeightsFit`); the first bound is tight, a gap of 1.0 has a
counterexample. The proof has three layers. The invariant's part `Exact` says that an
evaluation to which nothing happened has measured neither more nor less than what the crate
is. On top of it, `NoLower`: a better crate scores no lower in any dimension that both have,
which rests on the rounding being monotone (`NearestMonotone`, `RateMonotone`; a product of fractions
is compared without dividing). At last the weighted averages: `WeightTotal` and the composite are sums of a
function over a finite set; `SumsCompare` and `TakeOut` take single dimensions out of them,
`NotFarBehind` bounds the difference of two averages that differ by the dimensions above, and
`RoundedGap` carries the bound through the two roundings of the composite.

Induction over data. The library's induction theorems take an operator as parameter, which
the provers cannot instantiate. Where a proof needs induction over a finite set, it takes
a minimal element of a well-founded order instead (`WFMin`, which has no such parameter): in
`SumsAreEqual` a smallest subset for which the sums differ, in `LeastNumber` the smallest
number of a set. `SubsetInduction` states it once for the subsets of a finite set, with a
set in the place of the predicate.

Only model-checked:

- liveness (`PendingSettles`, `ShadowsSettle`, `ResidentsComeBack`): fairness and ENABLED are
  out of the prover's reach;
- the counterexample to `NotRepinned`, of the run that expects a violation.

## 6. Disagreements between the code and what is written about it

`residency_repin` has a run. `providers/resident.py:27` says that the reconcile loop "must NOT
re-pin during that window". It looks at the flag once and then lists and loads with awaits
in between; `suspend_residency` does not wait for a tick that is under way, so the trace ends
with a resident model loaded while the sidecar trains. `TrainingHasRoom` says how far it goes:
that one tick, and nothing else.

The following were met with counterexamples of TLC while the modules were written; they are
part of the models and of the statements of the properties, and have no run of their own.

- A job answered as cancelled is started afterwards, when the DELETE commits between the
  worker's status check and its RUNNING commit (`routes/jobs.py:679`).
- A job that its own request runs inline has no RQ record, is taken for an orphan and
  cancelled while it runs (`routes/jobs.py:663`).
- An RQ timeout before the RUNNING commit leaves the row PENDING for good
  (`worker/runner.py:202`).
- When Redis takes a job and loses the reply, the handler's error branch writes FAILED over
  a job that the worker may have completed (`routes/jobs.py:274`).
- Two inline jobs of a client lose an update of the usage (`worker/executor.py:1695`).
- After a rule's floor was raised the worker keeps the primary local and sends the same
  prompt to a cloud shadow (`eval/shadow_runner.py:98`).
- The worker takes every cloud provider for available and chooses a model that the request
  had ruled out (`worker/runner.py:114`).
- A judge request with fan-out targets runs in the request as a plain completion
  (`routes/jobs.py:147`).
- A pairwise verdict that a shadow wins is recorded on the shadow's row, and the export of
  preference pairs looks at jobs only (`eval/datasets.py:274`).
- Two redemptions of one code, or two refreshes of one token, that overlap both get a pair
  (`oauth_provider.py:164`, `:207`).
- A prompt saved while a job resolves it, or two saves that overlap, leave a job with a
  version that is not what it ran with (`prompt_loader.py:56`, `routes/prompts.py:197`).
- A failed or interrupted video run leaves its model in memory (`providers/comfyui.py:138`); one
  that fails while its prompt runs, by its deadline or an error of /history
  (`comfyui.py:264-275`), has it loaded after the job is over. A restart of ACE-Step is not noticed (`providers/acestep.py:127`), and a failing mux leaves its
  downloads on the volume.
- The dependency check flags a requirement of a bare "0", which Cargo accepts, although
  `codegen/deps.py` promises never to flag falsely: it takes it for 0.0.
- The composite averages the dimensions of raters and judges with those of code_eval when
  their names agree, although `eval/composite.py:5-6` calls them excluded by construction; and
  a mutation score that does not apply can rank a worse crate above a better one when
  `min_gap` is small.
- A compile call that times out, or an evaluation without `check` or `build`, is recorded as
  compile=1.

Met while reading: the MCP tool does not handle a failing enqueue, so its row stays PENDING,
which the HTTP handlers avoid (`mcp_server.py:419`; a disjunct of `LeftForCause`); MCP jobs are not rate limited
(`mcp_server.py:540`, against `README.md:88` of the repository); RQ's timeout of a media job and
ComfyUI's own deadline do not fit (`worker/queue.py:30`, `comfyui.py:52`); a ComfyUI prompt that
ends without outputs is polled until the deadline (`comfyui.py:326`); a media rule that
is archived between submission and dispatch sends the job to the text path (`TextPath` of `Media`,
`worker/runner.py:261-268`); a suite named
"compile" overrides the gate's dimension; two spellings of a path in an artifact overwrite
each other; moving a prompt between scopes leaves a moment with neither; the review queue
takes the oldest `limit * 3` completed shadows before it drops the scored ones, so that newer
ones may never show; an inline cloud call that fails falls back to a local model that need
not be resident, in the API process, although `routes/jobs.py` leaves such models to the
worker; the fan-out gathers without `return_exceptions` (`eval/fanout.py:122`); a panelist
without credentials raises `KeyError` (`worker/executor.py:1046`); a judge may read a target that
is not finished (`worker/executor.py:644`).

## 7. Not modelled, and why

The clients of text providers have no state: what a call does to a job (returns, raises
`ProviderError` or another exception, never returns) is in `JobLifecycle`, what Ollama holds
in `Residency`. Settings are read once, and the price table is replaced as a whole by one
assignment. Passwords, hashing and the encryption of stored credentials compare or transform
one value. The UI calls the operations above or renders rows. The parser of code blocks, the
syntax rules of `codegen/structural.py`, prompts' text, workflow templates and audio are
functions of text and files that no property tells apart. List, detail, usage, rollup and
export endpoints read rows and change none; the two exports whose selection matters are
`ExportedPairs` of `Scoring` and `Pairs` of `CodeEval`. Clients, rules and aliases are seeded
once, before the service starts; the prompts, which are seeded beside it, are in `Library`.
The command line, migrations, observability and deployment files have no concurrent
behaviour; that one worker process consumes all three queues is an assumption of
`JobLifecycle`, `Shadows`, `Residency`, `Media` and `CodeEval`, taken from them.
