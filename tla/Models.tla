-------------------------------- MODULE Models --------------------------------
(***************************************************************************)
(* The model manager (app/models/manager.py, app/models/vram.py): which    *)
(* models have VRAM reserved, by a job (app/jobs/orchestrator.py) or by    *)
(* the routes (app/api/routes_models.py); the downloads that fill the      *)
(* model folders; the end of the process (app/main.py).                    *)
(*                                                                         *)
(* The manager only accounts: what a job decodes with is the adapter it    *)
(* built, in the transcription thread.  Sizes are in bytes, MB of them a   *)
(* megabyte.  What a load is checked against is chosen anew at every load: *)
(* the backend (first boot, POST /diagnostics/gpu-burn), what its probe    *)
(* finds, and vram_budget_fraction (PATCH /settings) may each have changed *)
(* since the last one.                                                     *)
(***************************************************************************)
EXTENDS Naturals, FiniteSets, Functions

CONSTANTS
  Ids,          \* registry ids
  Categories,
  CategoryOf,   \* [Ids -> Categories]
  SizeOf,       \* [Ids -> Nat], in VRAM: with the overhead of the category
  Snapshots,    \* ids whose repository has several files (spec.file is None)
  SizeIsKnown,  \* single-file ids whose expected_size_bytes is exact
  JobId,        \* what the quality preset takes for transcription
  NoId,
  MB,
  Budgets,      \* bound: what vram_budget_fraction of a total can be, in MB
  Others,       \* bound: what the probe can find beside the reservations
  Wanted,       \* bound: the ids that users download
  Tasks         \* bound: slots for background download tasks

JobSlot == "job"

ASSUME ModelsAssumption ==
  /\ CategoryOf \in [Ids -> Categories]
  /\ SizeOf \in [Ids -> Nat]
  /\ Snapshots \subseteq Ids /\ SizeIsKnown \subseteq Ids \ Snapshots
  /\ JobId \in Snapshots /\ NoId \notin Ids /\ Wanted \subseteq Ids
  /\ IsFiniteSet(Categories) /\ JobSlot \notin Tasks
  /\ MB \in Nat \ {0} /\ Budgets \subseteq Nat /\ Others \subseteq Nat

VARIABLES
  phase,        \* the lifespan: serving, tearing down, over
  concurrent,   \* settings.concurrent_models
  reserved,     \* live_vram_bytes and loaded_meta, with who loaded the model
  limit,        \* history: the budget of the last load, if its probe counts
                \* the reservations
  run,          \* where run_job stands, and its loaded_by_run
  thread,       \* is the transcription thread alive
  progress,     \* _in_flight: the state of each id's download
  task,         \* the background tasks, and the fetch of the job
  files,        \* the files each id's folder has
  xet           \* is HF_HUB_DISABLE_XET set

vars == <<phase, concurrent, reserved, limit, run, thread, progress, task, files, xet>>

Slots   == Tasks \cup {JobSlot}
Stt     == CategoryOf[JobId]

States   == {"none", "queued", "running", "done", "failed"}
InFlight == {"queued", "running"}

None       == [id |-> NoId, by |-> "nobody"]
Idle       == [pc |-> "idle", loaded |-> FALSE]
NoTask     == [pc |-> "none", id |-> NoId, prev |-> FALSE]
Parts(id)  == IF id \in Snapshots THEN {"config", "weights"} ELSE {"weights"}
Whole(id)  == files[id] = Parts(id)

ReservedType ==
  /\ reserved \in [Categories ->
       [id : Ids, by : {"run", "failed run", "route"}] \cup {None}]
  /\ \A c \in Categories : reserved[c] # None => CategoryOf[reserved[c].id] = c

RunType  == run \in [pc : {"idle", "ensure", "transcribing", "finally"}, loaded : BOOLEAN]
TaskType == task \in [Slots -> [pc : {"none", "created", "fetching"},
                               id : Ids \cup {NoId}, prev : BOOLEAN]]

TypeOK ==
  /\ ReservedType /\ RunType /\ TaskType
  /\ phase \in {"up", "stopping", "down"}
  /\ concurrent \in BOOLEAN
  /\ limit \subseteq Budgets
  /\ thread \in BOOLEAN
  /\ progress \in [Ids -> States]
  /\ files \in [Ids -> SUBSET {"config", "weights"}]
  /\ \A id \in Ids : files[id] \subseteq Parts(id)
  /\ xet \in BOOLEAN

Init ==
  /\ phase = "up" /\ concurrent = FALSE
  /\ reserved = [c \in Categories |-> None] /\ limit = {}
  /\ run = Idle /\ thread = FALSE
  /\ progress = [id \in Ids |-> "none"]
  /\ task = [s \in Slots |-> NoTask]
  /\ files = [id \in Ids |-> {}]
  /\ xet = FALSE

-----------------------------------------------------------------------------
(* The manager's load and unload; neither waits.                           *)

Live == {c \in Categories : reserved[c] # None}

\* sum(live_vram_bytes.values())
Pool == SumFunction([c \in Live |-> SizeOf[reserved[c].id]])

Refused == Live # {} /\ ~concurrent

(***************************************************************************)
(* What probe_vram reports.  CUDA and ROCm: what torch holds and the       *)
(* manager's reservations ("pools").  The CPU: the resident memory of the  *)
(* process, not the reservations ("process").  The backends without a      *)
(* probe, a failed import, any error: zeros ("nothing").                   *)
(***************************************************************************)
Vram == [probe : {"pools", "process", "nothing"}, other : Others, budget : Budgets]

UsedBytes(v) == v.other + IF v.probe = "pools" THEN Pool ELSE 0

\* Mutant of Over: the manager's reservations never count.
OverTorchOnly(id, v) ==
  v.probe # "nothing" /\ (v.other \div MB) * MB + SizeOf[id] > v.budget * MB

\* used_mb is a whole number of megabytes; a total of zero is no limit.
Over(id, v) ==
  v.probe # "nothing" /\ (UsedBytes(v) \div MB) * MB + SizeOf[id] > v.budget * MB

\* Mutant of Reserve: every model counts as the job's.
ReserveAsStt(id, by) ==
  reserved' = [reserved EXCEPT ![Stt] = [id |-> id, by |-> by]]

Reserve(id, by) ==
  reserved' = [reserved EXCEPT ![CategoryOf[id]] = [id |-> id, by |-> by]]

Unload(c) == reserved' = [reserved EXCEPT ![c] = None]

\* A load that is admitted.
Load(id, by) ==
  /\ ~Refused
  /\ \E v \in Vram :
       /\ ~Over(id, v)
       /\ limit' = IF v.probe = "pools" THEN {v.budget} ELSE {}
  /\ Reserve(id, by)

\* One that may raise.
LoadRaises(id) == Refused \/ \E v \in Vram : Over(id, v)

-----------------------------------------------------------------------------
(* ensure_downloaded, by the task or the job of a slot.                    *)

\* It is taken to be there and nothing is fetched.
Cached(id) ==
  IF id \in Snapshots THEN "config" \in files[id]
  ELSE Whole(id) /\ id \in SizeIsKnown

\* The environment is saved and set, the fetch goes to a thread.
Fetch(s, id) ==
  /\ task' = [task EXCEPT ![s] = [pc |-> "fetching", id |-> id, prev |-> xet]]
  /\ xet' = TRUE

\* The finally of the fetch.
Leave(s) ==
  /\ task' = [task EXCEPT ![s] = NoTask]
  /\ xet' = task[s].prev

Fetching(s) == task[s].pc = "fetching"

\* A file of the repository gets its final name.
FetchFile(s) ==
  /\ Fetching(s)
  /\ \E part \in Parts(task[s].id) \ files[task[s].id] :
       files' = [files EXCEPT ![task[s].id] = @ \cup {part}]
  /\ UNCHANGED <<phase, concurrent, reserved, limit, run, thread, progress, task, xet>>

-----------------------------------------------------------------------------
(* The routes.                                                             *)

\* Mutant of PostDownload: a download that has not begun is not in flight.
PostDownloadAgain(id) ==
  /\ phase = "up" /\ progress[id] # "running"
  /\ \E t \in Tasks :
       /\ task[t] = NoTask
       /\ task' = [task EXCEPT ![t] = [pc |-> "created", id |-> id, prev |-> FALSE]]
  /\ progress' = [progress EXCEPT ![id] = "queued"]
  /\ UNCHANGED <<phase, concurrent, reserved, limit, run, thread, files, xet>>

\* download_model: 409 for a download in flight, else a task of its own.
PostDownload(id) ==
  /\ phase = "up" /\ progress[id] \notin InFlight
  /\ \E t \in Tasks :
       /\ task[t] = NoTask
       /\ task' = [task EXCEPT ![t] = [pc |-> "created", id |-> id, prev |-> FALSE]]
  /\ progress' = [progress EXCEPT ![id] = "queued"]
  /\ UNCHANGED <<phase, concurrent, reserved, limit, run, thread, files, xet>>

\* _run_download, up to where it waits for the fetch.
DownloadStart(t) ==
  LET id == task[t].id IN
  /\ task[t].pc = "created"
  /\ IF Cached(id)
     THEN /\ progress' = [progress EXCEPT ![id] = "done"]
          /\ task' = [task EXCEPT ![t] = NoTask]
          /\ UNCHANGED xet
     ELSE /\ progress' = [progress EXCEPT ![id] = "running"]
          /\ Fetch(t, id)
  /\ UNCHANGED <<phase, concurrent, reserved, limit, run, thread, files>>

\* The fetch has every file.
DownloadDone(t) ==
  /\ Fetching(t) /\ Whole(task[t].id)
  /\ progress' = [progress EXCEPT ![task[t].id] = "done"]
  /\ Leave(t)
  /\ UNCHANGED <<phase, concurrent, reserved, limit, run, thread, files>>

\* Mutant of DownloadFailed: an error the handler does not expect.
DownloadFailedUnseen(t) ==
  /\ Fetching(t)
  /\ Leave(t)
  /\ UNCHANGED <<phase, concurrent, reserved, limit, run, thread, progress, files>>

\* Gated, not found, no network: what has come stays.
DownloadFailed(t) ==
  /\ Fetching(t)
  /\ progress' = [progress EXCEPT ![task[t].id] = "failed"]
  /\ Leave(t)
  /\ UNCHANGED <<phase, concurrent, reserved, limit, run, thread, files>>

\* load_model; a refusal changes nothing.
PostLoad(id) ==
  /\ phase = "up"
  /\ Load(id, "route")
  /\ UNCHANGED <<phase, concurrent, run, thread, progress, task, files, xet>>

\* unload_model
PostUnload(c) ==
  /\ phase = "up" /\ c \in Live
  /\ Unload(c)
  /\ UNCHANGED <<phase, concurrent, limit, run, thread, progress, task, files, xet>>

\* PATCH /settings: the next load sees it.
PatchConcurrent ==
  /\ phase = "up"
  /\ concurrent' = ~concurrent
  /\ UNCHANGED <<phase, reserved, limit, run, thread, progress, task, files, xet>>

-----------------------------------------------------------------------------
(* run_job, as far as it uses the manager.                                 *)

(***************************************************************************)
(* _load_stt_adapter once the model is there: load, build the adapter and  *)
(* start the thread.  adapter.load() may raise, and raises on a folder     *)
(* that is not whole; the manager has counted the model by then.           *)
(***************************************************************************)
LoadAdapter ==
  \/ /\ LoadRaises(JobId)
     /\ run' = [pc |-> "finally", loaded |-> FALSE]
     /\ UNCHANGED <<reserved, limit, thread>>
  \/ /\ Whole(JobId)
     /\ Load(JobId, "run")
     /\ run' = [pc |-> "transcribing", loaded |-> TRUE]
     /\ thread' = TRUE
  \/ /\ Load(JobId, "failed run")
     /\ run' = [pc |-> "finally", loaded |-> FALSE]
     /\ UNCHANGED thread

RunStart ==
  /\ phase = "up" /\ run.pc = "idle"
  /\ IF Cached(JobId)
     THEN LoadAdapter /\ UNCHANGED <<task, xet>>
     ELSE /\ run' = [pc |-> "ensure", loaded |-> FALSE]
          /\ Fetch(JobSlot, JobId)
          /\ UNCHANGED <<reserved, limit, thread>>
  /\ UNCHANGED <<phase, concurrent, progress, files>>

RunFetched ==
  /\ run.pc = "ensure" /\ Whole(JobId)
  /\ Leave(JobSlot)
  /\ LoadAdapter
  /\ UNCHANGED <<phase, concurrent, progress, files>>

RunFetchFailed ==
  /\ run.pc = "ensure"
  /\ Leave(JobSlot)
  /\ run' = [pc |-> "finally", loaded |-> FALSE]
  /\ UNCHANGED <<phase, concurrent, reserved, limit, thread, progress, files>>

\* The thread returns, raises or sees the cancel flag.
ThreadEnds ==
  /\ thread
  /\ thread' = FALSE
  /\ run' = IF run.pc = "transcribing" THEN [run EXCEPT !.pc = "finally"] ELSE run
  /\ UNCHANGED <<phase, concurrent, reserved, limit, progress, task, files, xet>>

\* Mutant of RunFinally: the model is unloaded whoever loaded it.
RunFinallyAlways ==
  /\ run.pc = "finally"
  /\ run' = Idle
  /\ Unload(Stt)
  /\ UNCHANGED <<phase, concurrent, limit, thread, progress, task, files, xet>>

\* Mutant of RunFinally: the model stays for the next job.
RunFinallyKeeps ==
  /\ run.pc = "finally"
  /\ run' = Idle
  /\ UNCHANGED <<phase, concurrent, reserved, limit, thread, progress, task, files, xet>>

\* The statements that record the outcome are behind; the finally block.
RunFinally ==
  /\ run.pc = "finally"
  /\ run' = Idle
  /\ IF run.loaded THEN Unload(Stt) ELSE UNCHANGED reserved
  /\ UNCHANGED <<phase, concurrent, limit, thread, progress, task, files, xet>>

-----------------------------------------------------------------------------
(* The end of the process.                                                 *)

(***************************************************************************)
(* The worker is cancelled: run_job is thrown out of whatever it waits     *)
(* for.  Its finally unloads the model, unless the flag of an earlier      *)
(* cancel is set: then the wait for the future, which the cancellation has *)
(* cancelled, throws it out of the finally as well.  The thread goes on.   *)
(***************************************************************************)
StopWorker ==
  /\ phase = "up"
  /\ phase' = "stopping"
  /\ run' = Idle
  /\ IF run.pc = "ensure" THEN Leave(JobSlot) ELSE UNCHANGED <<task, xet>>
  /\ \/ run.loaded /\ Unload(Stt)
     \/ ~run.loaded /\ UNCHANGED reserved
     \/ run.pc = "transcribing" /\ UNCHANGED reserved
  /\ UNCHANGED <<concurrent, limit, thread, progress, files>>

\* What ends with the process.
Forget ==
  /\ phase' = "down"
  /\ reserved' = [c \in Categories |-> None] /\ limit' = {}
  /\ run' = Idle
  /\ progress' = [id \in Ids |-> "none"]
  /\ task' = [s \in Slots |-> NoTask]
  /\ xet' = FALSE

\* unload_all; the process is over when its threads are.
UnloadAll ==
  /\ phase = "stopping"
  /\ Forget
  /\ UNCHANGED <<concurrent, thread, files>>

Crash ==
  /\ phase # "down"
  /\ Forget /\ thread' = FALSE
  /\ UNCHANGED <<concurrent, files>>

\* A new process: only the files and the settings are left.
Boot ==
  /\ phase = "down" /\ ~thread
  /\ phase' = "up"
  /\ UNCHANGED <<concurrent, reserved, limit, run, thread, progress, task, files, xet>>

-----------------------------------------------------------------------------

DownloadStep(t) == DownloadStart(t) \/ DownloadDone(t) \/ DownloadFailed(t)

Next ==
  \/ \E id \in Wanted : PostDownload(id)
  \/ \E t \in Tasks : DownloadStep(t)
  \/ \E s \in Slots : FetchFile(s)
  \/ \E id \in Ids : PostLoad(id)
  \/ \E c \in Categories : PostUnload(c)
  \/ PatchConcurrent
  \/ RunStart \/ RunFetched \/ RunFetchFailed \/ ThreadEnds \/ RunFinally
  \/ StopWorker \/ UnloadAll \/ Crash \/ Boot

Spec == Init /\ [][Next]_vars

\* The loop runs its tasks, and a call into the network returns.
FairSpec == Spec /\ \A t \in Tasks : WF_vars(DownloadStep(t))

-----------------------------------------------------------------------------

(***************************************************************************)
(* The budget (SC-4), where the probe counts the reservations: whatever    *)
(* jobs and routes load and unload, and however often concurrent_models,   *)
(* the backend and the budget change, what is reserved exceeds the budget  *)
(* of the last load by less than the megabyte that used_mb rounds off, and *)
(* the rounding never adds up.  (On the CPU, and after a failed probe, the *)
(* reservations are not limited; a lowered budget meets the next load.)    *)
(***************************************************************************)
BudgetKept == \A budget \in limit : Pool < (budget + 1) * MB

(***************************************************************************)
(* Two requests never have two tasks at work on one id (409, WR-01), and a *)
(* download that says it is in flight has one.                             *)
(***************************************************************************)
OneTaskPerDownload ==
  \A id \in Ids :
    Cardinality({t \in Tasks : task[t].id = id}) =
      IF progress[id] \in InFlight THEN 1 ELSE 0

(***************************************************************************)
(* A run takes its reservation with it, on every way out that passed the   *)
(* adapter's load.  (A run whose adapter fails to load leaves it behind,   *)
(* and with it every later job is refused until somebody unloads it.)      *)
(***************************************************************************)
RunLeavesNothing ==
  phase = "up" /\ run.pc = "idle" => \A c \in Categories : reserved[c].by # "run"

(***************************************************************************)
(* A run that was refused because a route's model is loaded leaves that    *)
(* model alone: a route's model goes only by a route, by a load that       *)
(* replaces it, at the end of the process, or with a run that had a        *)
(* reservation of its own until a route took it away.                      *)
(***************************************************************************)
RouteModelStays ==
  [][\A c \in Categories :
       reserved[c].by = "route" /\ reserved'[c] = None
       => \/ \E d \in Categories : PostUnload(d)
          \/ phase' # phase \/ run.loaded]_vars

(***************************************************************************)
(* A download that was asked for ends, and says so (WR-01: else it could   *)
(* never be asked for again).                                              *)
(***************************************************************************)
DownloadEnds ==
  \A id \in Ids : progress[id] \in InFlight ~> progress[id] \notin InFlight

=============================================================================
