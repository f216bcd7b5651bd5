# TLDWatch: TLA+ specification of the job backend

TLDWatch is a local transcription service: a FastAPI/asyncio process with one
SQLite database and one folder per job (`src/app`), and a React client
(`src/web`).  A client creates a job or uploads a file; a single queue worker
takes the oldest queued job, runs a speech model on it in a thread, and writes
`transcript.json`; clients watch through a WebSocket and may cancel.  After a
crash the backend rebuilds its rows from the folders.

This directory holds TLA+ modules of that system, the TLC configurations that
check them and proofs checked by TLAPS.

## 1. Inventory

| Component | Code (`src/app/...`) | State | Operations | What makes it correct |
|---|---|---|---|---|
| Stage machine, resume rule | `jobs/resume.py`, `jobs/manifest.py` | `manifest.json` | project a stage on a status, find where a job continues | same answer for every reader; files, not rows, decide |
| Queue worker | `jobs/queue.py` | row status, wake signal | enqueue, claim, wait, cancel, watchdog | one job at a time, none twice, none forgotten |
| Orchestrator | `jobs/orchestrator.py` | `_running` cancel flags, outputs | run one job along its stages | every exit leaves a final row; outputs precede the rows that announce them |
| Cleanup | `jobs/cleanup.py` | row, folder | cancel, fail, mark stale | never under a running job, never a finished one |
| Boot recovery | `jobs/reconcile.py`, `jobs/interrupt.py`, `main.py` | rows, manifests | project manifests on rows, sweep active rows | nothing stays active, nothing finished is lost, nothing done or cancelled revives |
| Job creation, uploads | `jobs/service.py`, `api/routes_jobs.py` | rows, folders, `.tmp_source.*`, `source.*` | create, stream, publish, enqueue | the worker sees a job only with its whole file |
| Idempotency keys | `api/idempotency.py` | `idempotency_keys` | reserve, resolve, compensate, expire | one job per key, no key without a job |
| Progress bus, WebSocket | `jobs/progress.py`, `api/routes_ws.py` | subscriber queues (32, drop oldest), registry (16) | publish, snapshot, relay | a watcher learns the end; slots are given back |
| Model manager, downloads | `models/manager.py`, `api/routes_models.py`, `models/vram.py` | loaded models, budget, download slots | load, unload, download | one live model, budget kept, slots given back |
| STT chunker, adapter | `models/stt/*.py` | none beyond a call | windows, overlap removal, OOM split, cancel check | every second once, in order; the progress ends full |
| Settings | `settings/service.py`, `api/routes_settings.py`, `api/routes_diagnostics.py` | `settings.json` with its `pending` key, the copy in memory | changes at once and at the next boot | what a client was told is in force, now and after a restart |
| Boot, migrations | `main.py`, `storage/db.py`, `migrations/*.sql` | the schema and `schema_version` of each data directory | load, migrate, refuse | repeatable from any point of death |
| Storage primitives | `storage/atomic.py`, `storage/retry.py`, ... | files | atomic write, retry | all or nothing |
| Web client: cards | `web/src/api/ws.ts`, `components/ActiveJobCard.tsx` | socket, card | follow a job | cards leave when their job ends |
| Web client: uploads | `components/DropZone.tsx`, `hooks/useUpload.ts`, `pages/HistoryPage.tsx` | queue, slot, hook, cards | drop, hash, send, report | first in first out, one at a time, none forgotten |
| CLI, backend probes, schemas, list and detail pages | `cli/transcribe.py`, `models/backend.py`, ... | none | - | - |

**How they interact.**  All requests and the worker run on one asyncio loop, so
code interleaves at awaits only; the decoder runs in a thread, which reads the
cancel flag and hands its progress to the loop as scheduled calls.  Components share the `jobs` table, the
job folder, the wake signal and the `_running` registry.  A job's state is thus
in three places - row, folder, memory - that no operation changes together.

**What is hard.**  A cancel against a claim; a status checked before an await and
overwritten after it; a crash between two of the three places, or between two
statements of a migration; a lost wake-up; two requests of one idempotency key;
a boot that trusts a manifest nobody has written yet; whole copies of the
settings written back over each other; effects of a page that see the state as
it was rendered.  `PROJECT.json` lists these hazards line by line.

## 2. Modules

| Module | Models | Role |
|---|---|---|
| `Stages` | `stage_to_status`, `infer_resume_point` and what they read | pure operators, shared |
| `JobLifecycle` | everything that writes a job: creation, worker and orchestrator, cancel, stale checkers, stage route, crash and boot | core specification and properties |
| `JobPromise` | what those who watch a job may rely on | abstract specification |
| `JobLifecycleInv`, `JobRefinement` | - | the inductive invariants `IInv` and `RInv`; the refinement mapping |
| `MCJobLifecycle` | - | instance for TLC; a statement of a comment the code does not keep |
| `Admission` | requests under an `Idempotency-Key`, the tables and files they touch | component |
| `Progress` | bus, WebSocket handler, client card, and the events of one job | component |
| `Models`, `MCModels` | VRAM reservations, downloads, the end of the process | component and its instance |
| `Migrations` | the migration runner on the database of a data directory | component, extended by `Settings` |
| `Settings`, `MCSettings` | the settings file, PATCH and burn test, the boot up to serving | component and its instance |
| `Chunker`, `MCChunker` | the chunker's loop over one recording | component and its instance |
| `UploadQueue` | the upload queue of the history page | component |
| `JobLifecycle_proof`, `JobRefinement_proof`, `Admission_proof`, `Progress_proof`, `Models_proof`, `Settings_proof`, `Chunker_proof`, `UploadQueue_proof` | - | TLAPS proofs, one module per component |

`Admission` looks into the two steps (`InsertRow`, the upload) with which a job
of `JobLifecycle` begins: which job a request is given, and what happens when
requests of one key overlap.  `JobLifecycle` has the requests of a job one after
the other, each of which may upload the file once more (`Retry`), but at any
time: while the job waits, runs or is over.

### JobLifecycle

*State.*  `status` and `error` are the row; `manifest`, `path`, `kinds` the fields
of `manifest.json` that decide anything (`current_stage`, `source_path`, whether
there are `summary_kinds`); `source`, `transcript`, `old` the rest of the folder;
`worker` is the position of `run_worker` and `run_job` with the job and the
manifest in hand; `running`/`flagged` the `_running` registry and its events;
`signal` is `_work_signal`; `req` with the manifest it `held`, `cancel`,
`marking`, `posting` are the positions of request handlers; `phase`, `todo`,
`sweep` those of the boot.  `overwritten`, `givenUp` and `left` are history: the
jobs that met, since the last boot, with one of the three mishaps the code does
not rule out.  A repeated upload wrote an older manifest over a newer one; a
stale mark hit a job that was over, or that the worker goes on with; a cancelled
job's manifest stayed behind.

*Grain.*  One action is the code between two awaits at which another coroutine
can run.  An `UPDATE` and its commit are one action, since SQLite's write lock
spans them.  `update_stage` is three, for the worker (`UpdateRead`,
`UpdateWrite`, `UpdateRow`) and for the stage route (`PostRead`, `PostWrite`,
`PostRow`): a manifest is written back from a copy read before an await, and
three parties do so - the worker, the stage route and an upload request
(`LandSource`, `PatchSource`) -, so each may put an older copy over another's
newer one, and a crash can fall between any two steps.  A write may raise.
`cancel` is SELECT, flip, row, rmtree or flag; `mark_stale` is gate and mark;
`pull_next` is SELECT and claim.

| Action | Code |
|---|---|
| `InsertRow` .. `Enqueue` | `create_job`, `create_upload_job`, `upload_source` of the first and of later requests (`Retry`), `queue.enqueue` |
| `PullSelect`, `PullClaim`, `WakeUp` | `pull_next`, the wait of `run_worker` |
| `RunStart` .. `RunFinally` | `run_job` and its except branches |
| `CancelSelect` .. `CancelFlag` | `queue.cancel`, `cleanup.cancel_job` |
| `StaleGate`, `StaleMark`, `Age` | `mark_stale` from the watchdog and from the route; time |
| `PostRead`, `PostWrite`, `PostRow` | `POST /jobs/{id}/stage` with its `manifest_patch` |
| `Crash`, `BootReconcile`, `Sweep*`, `BootDone` | process death, `lifespan` up to serving |

*Abstractions.*  Chunks are counted as "not the last one" and "the last one"
(`LastBoundary`), since the flag is read at the top of each chunk; progress
writes only freshen the folder's mtime (`WriteProgress`); diarization, which
nothing in this version switches on, is off, and no code makes summaries, but the
stage route's `manifest_patch` may ask for them (`kinds`); the database accepts
every statement.  An `rmtree` with `ignore_errors` removes any part of the folder
(`Rmtree`): a manifest may stay without a source, or a transcript without a
manifest.  A crash in the middle of one leaves the same folders.  A
`manifest_patch` is valid; `summary_kinds: null`, which validates and makes a
manifest that no longer loads, is left out.  `reconcile_all` is one step: nothing
else runs during it, and a crash half way is followed by the same walk.

### Admission

A request generates the job id it would use, so jobs are named by requests.
`reserved` is the `idempotency_keys` table, `row` the status, `folder` the jobs
with a manifest; `tmp` and `final` map a job's two file *names* to *files*
(inodes), whose written halves are in `data`: `open(tmp, "wb")` truncates the
file of that name, `os.replace` moves whatever has the name, and a file handle
keeps writing to the file it opened.  Transactions of `resolve_or_create` are
actions (`Reserve`, `Lookup`, `CheckJob`, `DropKey`, `ReleaseKey`).  Time is
`horizon`: requests up to it are older than the TTL; a request itself is shorter
than the TTL.  A body is two halves.  Worker, cancel and boot appear by their
effect on the row and the folder (`Settle`, `Crash`).

### Progress

*State.*  One job and the cards that watch it.  `run` and `row` are the job as
the worker drives it, `chunk` and `outcome` belong to the transcription thread.
What the thread schedules with `call_soon_threadsafe` waits in `calls`, in order,
and the future's result is the last entry; `writing` holds the `progress.json` writes
under way and `progress` what the file says.  `registry` is `SubscriberRegistry`,
`subs` and `queue` are `EventBus`, `handler` is the position of `job_events` for
each connection with the snapshot it has read, `card` is the client.

| Action | Code |
|---|---|
| `Start` .. `LoadFailed`, `TakeResult`, `Commit`, `PublishEnd` | what `run_job` publishes and commits, and in which order |
| `ChunkDone`, `ThreadEnds`, `OnProgress`, `Persist` | `transcribe_file`, `_on_progress`, `_persist_progress` |
| `ReadRow`, `Register`, `ReadFiles`, `SendSnapshot`, `Relay` | `job_events`, await by await |
| `Connect`, `Unmount`, `Leave` | `useJobEvents`, the card's fade-out, the user |

*Abstractions.*  A percentage is a number of chunks; ETAs and the stage names of
`stage_changed` are left out, and `ingesting` and `preparing` are one event.
Outside `src/`: a message sent to a client that is there arrives in order, and
`send_json` to one that is gone raises.  `queue.get` and the `send_json` after
it are one step.  The throttle lets the first write through and any later one or
not.  Only `JobLifecycle` has the crash: the bus dies with the process, and the
cards' sockets with it.

### Models

*State.*  `reserved` is `live_vram_bytes` with `loaded_meta`; who loaded a model is
kept with it, for the properties only, as is `limit`, the budget of the last load.  `run` is `run_job` with `loaded_by_run`,
`thread` the transcription thread, which outlives a cancelled `run_job`.
`progress` is `_in_flight`, `task` the background downloads and, in a slot of its
own, the fetch of the job, each with the `HF_HUB_DISABLE_XET` it saved; `xet` is that
variable, `files` what each model folder has.

| Action | Code |
|---|---|
| `PostDownload`, `DownloadStart`, `DownloadDone`, `DownloadFailed` | `download_model`, `_run_download` |
| `FetchFile` | a file arriving in the thread of `huggingface_hub` (outside `src/`) |
| `PostLoad`, `PostUnload`, `PatchConcurrent` | the load and unload routes, `PATCH /settings` |
| `RunStart` .. `RunFinally` | `_load_stt_adapter`, the thread, the `finally` of `run_job` |
| `StopWorker`, `UnloadAll`, `Crash`, `Boot` | the end of `lifespan`, process death, the next start |

*Abstractions.*  `load` never suspends, so from the end of `ensure_downloaded`
to the start of the thread `run_job` is one step.  A multi-file repository has a
`config` and the rest, which arrive in any order, and a fetch that ends leaves what
came.  No entry of the registry has a checksum, so that branch is left out, and
so are byte counts.  What a load is checked against is chosen anew at each load
(`Vram`), since a PATCH of `vram_budget_fraction`, a burn test that switches the
backend, other processes and a failing probe may each change it: CUDA and ROCm
count what torch holds and the manager's own reservations, the CPU the resident
memory of the process without them, the other backends and a probe that fails
nothing, and then the code checks nothing.  `Budgets` are the values of fraction
times total, `Others` of what is used beside the reservations.  A fraction of null makes
the comparison raise, which ends a load as a refusal does.

### JobPromise and JobRefinement

`JobPromise` has a view per job - the row's status, with all active statuses
read as `running` -, whether the backend serves, and which jobs are `amiss`.  It
says that one job at a time is processed and is taken from the queue, that what
is done, failed or cancelled stays so while the backend serves, and, in `After`,
the most a boot may make of each job: what is done or cancelled stays so, what
waits goes on waiting, what ran or failed is tried again or ends as its files say.
A job is amiss from a mishap on, until the next boot has gone over it; until then
only the promise to process one job at a time covers it (`Stray`).
`JobRefinement` maps `status`, `phase` and the three mishaps on it; manifests, the
worker, the handlers and the walk of the boot are hidden.  Section 6 says what
the code makes of a job that is amiss.

### Migrations and Settings

*State.*  `db` has, per data directory, what is committed: the objects of the
schema and the recorded versions; `conn` is the runner's connection, with what it
sees, whether a transaction is open, the next statement and the count of
duplicate columns.  `file` is `settings.json` with its `pending` key; `settings` and `pending` are
`_State`, `engine` the directory whose database is open, `phase` the lifespan.  `op` has what
each request has read and is about to write.  `told`, `queued` and `past` are
history: what clients were last told, and which of the things the code is not
proof against have happened.

| Action | Code |
|---|---|
| `PatchBegin`, `Write`, `WriteFails` | `apply_update`: read and compute; the rename and, with no await between, the swap in memory; an error of the write |
| `BurnBegin`, `BurnRead` | `gpu_burn`: the test runs in a thread, the settings are read after it |
| `BootLoad`, `BootReset`, `BootDetect` | `load_settings_from_disk`, `apply_pending`; the first boot |
| `BootConnect`, `Execute`, `Record`, `Commit` | `apply_migrations`: `engine.begin`, a statement, the row, the end of the block |
| `BootRefuse`, `Crash` | a directory that cannot be used, a half-applied file; the process dies |

*Abstractions.*  A field that is changed without a restart has a value, null or
is not sent; `MCSettings` has one field with null as a value and one without.
The backend field stands apart, since the burn test writes it.  Outside `src/`:
the sqlite3 driver opens a transaction at the first `INSERT` only, so statements
before it are committed at once and those after it with the block.  The nine
files of `migrations/` are in `MCSettings`, statement by statement.

### Chunker

`audio` is a recording: a length and its utterances.  `start`, `prevEnd` and
`count` are the loop's variables, `work` the stack of `_transcribe_chunk_oom_safe` -
slices with the offset that is added to what they yield, and the nominal length
that is halved with them as that of the whole window and the number of parts -, `merged` the transcript, `reported` the last
`ChunkProgress`.  `BeginChunk`, `Transcribe`, `OutOfMemory`, `Stitch` are the parts of the loop,
`FastPath` the recordings that need none.

*Abstractions.*  Outside `src/`: the model hears, of each utterance, the part in
the slice it is given, which makes a segment of it.  A second is one sample, and
texts are left out.  `ChunkerAssumption` says that utterances are in order and do not
overlap and that the floor is at least 2 (30 or 60 s in the code), so that no
half of a slice is empty.  The flag may be set at any time; it is read at the top of
the loop and before the fast path's only call.

### UploadQueue

`queue` and `active` are `DropZone`'s state with every update enqueued so far,
`shown` what React has committed and `due` whether its effects are still to run:
an effect and the handlers of that render see `shown`, functional updates the
state.  `uploads` are the hooks ever mounted with their flag `cancelled`; those
unmounted live on until their promise settles.  `cards` is `activeJobIds`.

| Action | Code |
|---|---|
| `Drop`, `Commit`, `EffectPops`, `EffectMounts`, `EffectIdle` | `handleFiles`, a render, the effects of `DropZone` and of the controller it mounts |
| `Hashed`, `AnswerOk`, `AnswerError` | `useUpload`: `idempotencyKey(...).then`, whose promise may be rejected and whose callback may throw; `onload`, `onerror` |
| `Report`, `CardLeaves` | `handleDone` with `handleJobCreated`; `handleTerminal` |
| `Leave`, `Return` | the user goes to another page and comes back: new state, old promises |

A file's key depends on the file alone, so the server answers with the file's
job, which has the file's name here.

## 3. Runs

| Run | Instance | Shows |
|---|---|---|
| `safety` | 2 jobs (one upload, sent any number of times), 1 cancel, the stale route, 1 crash; 867 thousand states | `IInv`; active rows are the worker's (`ActiveIsOwned`); done is on disk and stays (`DoneIsOnDisk`, `FinishedWorkStays`); the sweep spares finished work (`InterruptedIsUnfinished`); uploads wait for their file (`UploadRunsWithSource`); the rows are those of `JobPromise` (`ImplementsPromise`) |
| `drain` | 2 jobs, 1 cancel, 1 crash, `FairSpec` | `FlagStopsRun`, `EveryJobSettles` |
| `stage` | 1 job, 1 cancel, the stage route with two stages and four manifest patches, 2 crashes, `WatchedSpec`; 365 thousand states | `BootLeavesNoneActive`, `OrphansSettle` |
| `retry` | 3 requests (2 uploads), 1 key, expiry, 1 crash, requests of a key one after the other | `OneReservedJobPerKey`, `AnsweredJobExists`, `NoOrphanKey`, `QueuedSourceIsWhole` |
| `progress` | 2 cards, 1 slot, queues of 2, 3 chunks, `FairSpec` | `CapHolds`, `ToldIsSettled`, `BarNeverGoesBack`, `SubscribedLearnsEnd` |
| `models` | 4 registry ids in 3 categories, 2 download tasks, three kinds of probe, budgets of 2 and 3 MB, nothing or 5 bytes in use by others at each load, `FairSpec`; 258 thousand states | `BudgetKept`, `OneTaskPerDownload`, `RunLeavesNothing`, `RouteModelStays`, `DownloadEnds` |
| `boot` | 3 requests, 2 crashes, 3 directories (one unusable), databases of no release or of the first, the 9 migration files, `FairSpec`; 965 thousand states | `DirIsTheBooted`, `ToldIsInForce`, `FileLoads`, `SchemaIsWhole`, `MoveIsInstalled`, `BootServes` |
| `stitch` | windows of 6 with an overlap of 2, a floor of 3, a fast path up to 12; 8 lengths, 1 or 2 utterances anywhere, 3 out-of-memory errors | `TranscriptIsStitched`, `ProgressIsFull` |
| `page` | 2 files, 3 drops a visit, 2 visits, `FairSpec`; 119 thousand states | `DropsAreAccountedFor`, `OneUploadAtATime`, `EveryDropIsReported` |
| `lostcancel`, `race`, `hotswap` | 1 job, 3 requests, 2 requests | expected violations, section 6 |

A type invariant is checked with every component; that of `JobLifecycle` is part
of `IInv`, that of `UploadQueue` of `DropsAreAccountedFor`.

**Bounds.**  Two jobs: the worker holds one, the other waits, is created,
cancelled or swept; no action relates three.  One cancel races with the worker
for the row, the flag or the folder, on each job and against uploads, stale marks
and the crash; with two the run of `safety` has more than three million states,
and a second one meets only what the first left, a row that says cancelled or a
flag that is set.  The proofs have any number.  The watchdog's mark is the one of the route
with a narrower gate, so `safety` has the route, at any threshold, and `stage` the
watchdog.
One crash reaches every pair of (moment of death, boot), and the second one of
`stage` and `boot` falls into the boot that follows; the counter is the only bound on the
state space besides the requests.  Three requests of `Admission` give a winner, a loser, and a
third that meets what they left behind; those of `Settings` a move, a change
after it and one that overlaps with either.  A third directory is there to be
unusable.  A database of the first release has eight files to run, of which
deaths can stop any.  A queue of two overflows with the third
event, of six; two cards contend for one slot, and cards share nothing else.  The
sizes in `MCModels` meet the budget of 3 MB exactly, after rounding, in one order
of loading and exceed it in the other, and the 5 bytes of others, a megabyte and a
quarter, round too; the budget of 2 MB is one that what is loaded already
exceeds; two tasks suffice for a second request of
one id.  The lengths of `MCChunker` are one of the fast path, its limit, and each
remainder by the step of 4 beyond it, so that the last window is whole, short,
and one that lies in the overlap; three errors split a window of 6 down to its
floor and fail there.  Three drops make one file at work, one popped and one queued, and with
two files one of them comes twice; two visits let a promise of the first meet
the second.

**Fairness.**  `FairSpec` of `JobLifecycle` is weak fairness of the worker's own steps and of the
boot: the worker is one asyncio task that never waits on a client, its wait has
a timeout of two seconds, and a call into the model is taken to return.  Client
requests, handlers, cancels and the wake signal have none: `EveryJobSettles`
rests on the poll.  `WatchedSpec` adds the watchdog, which visits every active
row each minute, and the passing of 600 s without a write.  `OrphansSettle` asks
that clients stop posting stages and sending files, and excepts two rows that
nobody ever looks at again: after an `rmtree` a posted stage leaves an active row
with no files, whose age the watchdog cannot tell; and a boot projects a posted
`summarized` with `summary_kinds` on `summarizing`, which neither the watchdog nor
the sweep selects.
In `Progress` the loop's callbacks, `run_job` and the handlers are fair, the
thread's calls return and the browser runs its timers; users, connections and
disk writes are free.  In `Models` the download tasks are, a fetch ending in one
way or the other.  In `Settings` the boot is, which waits for nobody; a process that
ends is started again.  In `UploadQueue` the browser renders, runs effects and
settles promises, and a request ends in some way; users are free.

**Deadlock** is checked for `JobLifecycle` (the poll never stops) and `Models`.  In `Admission`
and `Settings` requests and crashes are finite, in `Progress` the job and in `Chunker` the
recording ends, and the page of `UploadQueue` may have nothing to do, so a run may stop.

**Mutants.**  Beside the definitions they alter are operators named as mutants
(`PullClaimUnconditional`, `NothingToRun`, ...), each a plausible slip: a dropped
`WHERE`, a forgotten status, a cleanup left out.  Put in the place of the
original, each breaks the property `PROJECT.json` pairs it with.

## 4. Proofs

Every invariant and action property of a passing run is proved, for every value
of the constants that satisfies the assumptions of its module.

| Theorem | Statement | Assumes |
|---|---|---|
| **`JobLifecycle_proof`** | any jobs, repeated uploads, cancels, crashes, either stale route | `JobsAssumption`, `PatchesAssumption` |
| `TypeCorrect` | `Spec => []TypeOK` | |
| `InvCorrect` | `Spec => []IInv` | `StageRoute = {}` |
| `ActiveIsOwnedCorrect`, `DoneIsOnDiskCorrect`, `InterruptedIsUnfinishedCorrect`, `UploadRunsWithSourceCorrect` | `Spec => []` of the property | `StageRoute = {}` |
| `BootLeavesNoneActiveCorrect`, `FinishedWorkStaysCorrect` | `Spec =>` the action property | `StageRoute = {}` |
| **`JobRefinement_proof`** | | |
| `ImplementsPromiseCorrect` | `Spec => Promise!Spec`, the refinement | `StageRoute = {}` |
| **`Admission_proof`** | any requests, uploads, keys, crashes | `AdmissionAssumption` |
| `AdmissionTypeCorrect` | `Spec => []TypeOK` | |
| `AdmissionInvCorrect` | `Spec => []AInv` | `Overlap = FALSE` |
| `OneReservedJobPerKeyCorrect`, `AnsweredJobExistsCorrect`, `NoOrphanKeyCorrect`, `QueuedSourceIsWholeCorrect` | `Spec => []` of the property | `Overlap = FALSE` |
| **`Progress_proof`** | any watchers, cap, size of the queues, number of chunks (each at least 1) | `ProgressAssumption` |
| `ProgressTypeCorrect` | `Spec => []TypeOK`, so that no queue outgrows its size | |
| `CapHoldsCorrect`, `ToldIsSettledCorrect` | `Spec => []` of the property | |
| `BarNeverGoesBackCorrect` | `Spec =>` the action property | |
| **`Models_proof`** | any registry, sizes, tasks, any probe and budget at each load; finitely many categories | `ModelsAssumption` |
| `ModelsTypeCorrect`, `OneTaskPerDownloadCorrect`, `RunLeavesNothingCorrect`, `BudgetKeptCorrect` | `Spec => []` of the property | |
| `RouteModelStaysCorrect` | `Spec =>` the action property | |
| **`Settings_proof`** | any directories, fields, patches, requests, crashes, migration files | `SettingsAssumption`, `MigrationsAssumption` |
| `SettingsTypeCorrect`, `DirIsTheBootedCorrect`, `ToldIsInForceCorrect`, `FileLoadsCorrect`, `SchemaIsWholeCorrect` | `Spec => []` of the property | |
| `MoveIsInstalledCorrect` | `Spec =>` the action property | |
| **`Chunker_proof`** | any window, overlap, floor, limit of the fast path, recordings, out-of-memory errors | `ChunkerAssumption` |
| `ChunkerInvCorrect`, `ChunkerTypeCorrect` | `Spec => []IInv`, `Spec => []TypeOK` | |
| `TranscriptIsStitchedCorrect`, `ProgressIsFullCorrect` | `Spec => []` of the property, which says of the transcript that it lacks only what is `CutOff` | |
| **`UploadQueue_proof`** | any files, drops, visits | `UploadQueueAssumption` |
| `UploadQueueInvCorrect` | `Spec => []QInv` | |
| `DropsAreAccountedForCorrect`, `OneUploadAtATimeCorrect` | `Spec => []` of the property | |

*Why `StageRoute = {}`.*  With `POST /jobs/{id}/stage` an administrator writes any
stage over any job, and `ActiveIsOwned` and `DoneIsOnDisk` are false; what
still holds then is what the `stage` run checks.

*Why `Overlap = FALSE`.*  When requests of one key run at the same time, a loser can take the
winner's key for an orphan and two uploads can share a temporary file: the
properties are false, and the run `race` and section 6 say so.  What is proved is what a
client gets that retries only after the request before has ended, in whatever
way; requests of other keys, or of none, come at any time.

*Why an invariant (`JobLifecycle`).*  None of the properties is inductive.  That a cancel's
`rmtree` cannot hit a finished job needs `CancelIsExclusive` (past its flip the
row is settled and the worker is not in the job), which needs `RunIsOwned` (in
`run_job` the row is active, or was failed by a stale checker, and source and
transcript are there from the point on at which they were seen) and
`RanIsSettled` (a manifest that says the job ran has both files, and is never
queued again).  A request that is about to write a manifest back never holds a
stage the folder has not reached (`HeldIsOlder`), so it can take a stage back but
not claim one.  That a boot ends with no active row needs `SweepIsComplete`; that
requests, worker and checkers do not outlive a crash is `QuietBoot`, that no
manifest says what only a client could have posted `NothingPosted`.  `RowFirst`
ties a request's position to its row and says which rows a transcript without
manifest, the rest of an `rmtree`, can belong to.  `IInv` is the conjunction of
these with the properties themselves.  `UploadInv` adds, for
`UploadRunsWithSource`, that a request past its publication has its file unless
the row has left the queue for good.

*Argument.*  Lemmas say what each helper does to status, error and folder
(`SetStatusIs`, `MarkFailedIs`, `WriteManifestIs`, `RmtreeIs`, ...) and what the resume
rule returns for a manifest without optional stages (`ResumePointIs`,
`StartPcIs`).  `TypeStep` and `InvStep` then go through the actions, one step
each and below it one per conjunct that the action disturbs; the theorems
combine them with PTL.  The other modules are laid out alike.

*The refinement.*  Most actions change one row, in a way that `JobPromise` has an
action for, or none.  `RInv` says what a row can be, unless its job is amiss, when
the worker (`RunHasItsRow`) or a cancel (`CancelHasItsRow`) moves it, and that a
cancelled job has no manifest for a boot to go on from unless somebody is on the
way to remove it (`CancelledIsGone`); a step that makes a job amiss is `GoAmiss`, and
what others then do to it `Stray`.  The initial states map to initial states and
each step to a step of `JobPromise` or a stutter.

*In `Admission`*, `KeyInv` ties a request's position to the table and to its row:
a request in flight is the last of its key (`KeyIsSerial`), a job it joined is that of
an ended request of the same key (`JobIsKnown`), a row appears and goes with the request
of that job, and who streams or was answered has one (`RowIsOwn`), a request that made a
job under a key within the TTL holds the key (`KeyIsHeld`), and if the holder has no
row, no later request of the key ended well (`HolderHasRow`).  `FileInv` is about files, not names: a body under way
is written to a file of its own, the temporary name means that file or nothing,
and the final name a whole one.  A boot queues an upload that never landed, so
it speaks of the time before the first crash.

*In `Progress`*, `CapInv` adds that the slots are finitely many, so that taking
and giving one back changes their number by one.  `EndInv` strengthens
`ToldIsSettled` to the events under way: an end that waits in a queue, as one
that was told, is the row's, and `run_job` is over; between commit and publish
the row already says the outcome.  It needs `CallsInv`: the future's result is
the last call of the thread and comes while `run_job` waits, so nothing moves
`run_job` once it is over.  `BarInv` puts what a card shows, what waits in its queue and
what the thread has yet to call in one order, which dropping the oldest event
of a full queue keeps, and the snapshot and the writes of `progress.json` behind
the calls; until its snapshot a card shows 0 and has no subscription.  Lemmas say what `publish`, a handler's move and a
card's answer to an event do (`PublishIs`, `GoToIs`, `TellIs`, ...).

*In `Models`*, `TasksAreOwn` counts the tasks at work on an id: one if it is in flight, none
otherwise.  `RunsAreOwn` says that a reservation of a run is the one of the run there is.
`BudgetKept` is inductive, but for a lemma on the sum of the reservations when
one of them changes: a load that was checked against it leaves them below the budget and
the megabyte of the rounding, and unloading lowers them.  `SumFunction` is a fold over a finite set; that it satisfies the equation of a sum is
proved from a least set for which it would not, by the size of the set.

*In `Settings`*, `SInv` extends each property to the copies that requests hold
between their read and their write: `OpInv` says that none of them can put
another directory into the active part, `LoadInv` that what they hold validates if
what was sent does, `QueueInv` and `ToldInv` that a copy which is not stale has the move and the
values of memory.  A write makes the others stale, hence the `overlap` of
`past`, and the clauses speak of the file as well, from which the next boot takes
them.  `SchemaInv` follows the runner through a file: up to the first `INSERT` what it
sees is what is committed, and it has the objects of all statements it has been
through, so the row it writes is true whether the block ends or not.  That the
next file is one of those not applied (`NextFileIs`) is the least-number
principle, from the well-foundedness of `<` on the naturals.

*In `Chunker`*, the stack tiles the rest of the chunk with adjacent slices, none shorter than
its nominal length, so that the halves of one above the floor are not empty
(`Stack`, `StackSplit`); `FoundInv` says that what the chunk has yielded is exactly what is
to be heard up to the position of the stack, and `MergedInv` that the transcript is in
order, has nothing that is not spoken and lacks, up to the seam, only what is `CutOff`.
What is heard in two adjacent slices, each shifted by its offset, is what is heard in
both (`BothHeard`); a segment that the deduplication drops began before the last
window's end, so what it had beyond it is cut off (`StitchedIs`).  The chunks begin a step
apart, so the count is below `ceil(total / step)` as long as there is audio left
(`Ceiling`, `TotalIs`).  `Keep` is the loop's filter as a recursive function; that it keeps
order and members is proved from a least index at which it would not.

*In `UploadQueue`*, `RenderHolds` says what an effect may rely on although its render is
old: handlers only append to the queue, so if the render saw a free slot and a file, the
slot is still free and the file still the first.  `HookIsActive` ties the mounted hook to the
active file, and `GoneIsCancelled` makes every hook of an earlier file or visit one that sends
nothing when its promise settles.

*Only model-checked:* liveness, that is `FlagStopsRun`, `EveryJobSettles`, `OrphansSettle`,
`SubscribedLearnsEnd`, `DownloadEnds`, `BootServes` and `EveryDropIsReported`, since properties under fairness and
`ENABLED` are out of the prover's reach.  So are theorems of the library that
take an operator as a parameter, such as induction; where a proof is by induction it
takes a least counterexample.  No module declares a `RECURSIVE` operator.

## 5. Plan

The components with state of their own are modelled, and their safety is
proved.  What may follow, in order of weight:

1. An abstract specification of `Admission` - a map from keys to jobs - and of the stream
   of `Progress` - a cell that only moves forward -, with refinements proved from
   `AInv` and from `EndInv` and `BarInv`.
2. What of `OneJobPerKey` holds with `Overlap = TRUE`, as a theorem beside the run `race`.
3. What of `IInv` a client that posts stages leaves true, as theorems beside the run
   `stage`.

## 6. Where code and comments part

Each of these is the one property of a run that TLC finds violated.

- `lostcancel`: a cancel between the claim and the registration of the flag
  finds no flag and is dropped.
- `race`: a request that loses the reservation of a key before the winner has
  inserted its row takes the key for an orphan, deletes it and makes another job.
- `hotswap`: a move of the data directory queues a snapshot of all settings; what
  is changed after it is in force at once, and undone when the next boot installs
  the snapshot.

Others visible in the models without a run of their own.

*Jobs.*  While a job is transcribed its manifest has no stage, so
`reconcile_all` makes the row `queued` before the sweep looks for active rows:
the job does run again, although `interrupt.py` says jobs are not resumed and a
`starting` one is failed.  So does any failed job at the next boot, since its manifest has no
stage, or `failed`, which also projects on `queued`.  A crash, or a manifest that cannot be removed, after a
cancel's commit leaves a manifest from which the next boot makes the row `queued`
(`left`).  `mark_stale` checks the status and overwrites it in different
transactions, so a job that finishes in between ends `failed`/`stalled`, as does one the
worker goes on with and later records as done (`givenUp`).  An upload repeated under its key reads
the manifest, suspends in the write and puts the copy back over the stage that the worker
recorded meanwhile: the row says `done`, the manifest less, and the next boot runs
the job again (`overwritten`).  Two rows that a posted stage leaves active are never settled
(`OrphansSettle` in section 3).  A boot requeues an
upload that never landed (hence `crashes = 0` in `UploadRunsWithSource` and
`QueuedSourceIsWhole`); a flag
set during the last chunk is not read again (`FlagStopsRun` speaks of earlier
ones); the row says `starting` until the transcript is written.

*Admission.*  Two uploads of one key resolve to one job and share
`.tmp_source.<ext>`; one can publish what the other has just truncated (hence
requests of a key one after the other in `retry`).  A file whose job
failed cannot be submitted again within the TTL, as its key resolves to the
failed job; one whose job was cancelled resolves to a job without a folder,
which is answered with an error.

*Progress.*  A handler reads the row, sends the snapshot and then subscribes; an end
published in between reaches nobody, and the card acts on no snapshot.  It
looks at its client only when it has something to send, and a snapshot that
cannot be sent raises before the `try`: in either case the slot stays taken.

*Models.*  On the CPU, and where there is no probe or it fails, the budget check does
not count the manager's reservations, so they may exceed any budget (`BudgetKept` speaks
of loads that were checked with them).  An adapter that fails to load leaves its reservation behind, and
every later job is refused until somebody calls the unload route; a snapshot that
broke off after `config.json` passes for whole, so its download says `done` and
every job on it fails; two overlapping fetches leave `HF_HUB_DISABLE_XET` set for
good; with `concurrent_models`, or after an unload during the run, the `finally` of
`run_job` unloads a model that a route has loaded since; at teardown the model is
unloaded while the thread still decodes, as nobody sets the cancel flag.

*Settings.*  Two writes that overlap lose the change of the first (`overlap`); the burn test
writes no pending key and so drops a queued move (`burn after move`); a PATCH
back to the current directory does not undo a queued one; null for a field that
has none is accepted and written, the answer fails to validate, and the next
boot takes the file for a missing one and starts from the defaults (`null`).  A
directory that cannot be used is accepted, and every later boot refuses to serve.
`MustRefuse` cannot happen with the files of the repository, none of which adds
two columns.

*Chunker.*  The rest of an utterance that a window's end cuts starts inside the
overlap in the next window and is dropped with it (`CutOff`).

*Upload queue.*  A failed upload keeps the slot, and nothing is sent until the
page is left.  So does one that is never sent, since the promise of its key is rejected or
its name has a character that no header can have: nobody catches that, and the row says
"uploading" without an error (`stuck`).  A file dropped again after its job was cancelled is such a failure.

## 7. Not modelled

Backend probes, schemas, presets, the CLI, and the list and detail pages of the web client:
no state of their own.  Of the storage primitives only their contract is used (an
atomic write happens as a whole or not at all); `retry_windows` repeats a rename
and adds no outcome.  Inside the adapter are calls of faster-whisper, which
`Chunker` takes for a function of the slice.  Folders without a row, and rows
whose folder has no manifest, `reconcile_all` logs and leaves as they are.  That
`mark_failed` itself fails, with a locked database, is left out: the database
accepts every statement.
