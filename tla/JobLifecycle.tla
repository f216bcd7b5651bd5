---------------------------- MODULE JobLifecycle ----------------------------
(***************************************************************************)
(* The life of a job across everything that writes it: the requests that   *)
(* create it, the single queue worker with the orchestrator it drives,    *)
(* cancel requests, the stale watchdog and the stale-check route, a crash  *)
(* of the backend and the boot that follows (app/jobs, app/main.py).       *)
(*                                                                         *)
(* A job's state is in three places that no step changes together: its row *)
(* in SQLite, its folder, and the worker's memory.  One action is one      *)
(* stretch of code between two awaits of the asyncio loop at which another *)
(* coroutine may run; an UPDATE and its commit are one action because      *)
(* SQLite holds the write lock from one to the other.                      *)
(*                                                                         *)
(* Jobs are numbered by created_at, so the oldest job is the least one.    *)
(***************************************************************************)
EXTENDS Stages

CONSTANTS
  Jobs,        \* job ids that may be created, ordered by created_at
  Uploads,     \* those created by POST /jobs/upload; the rest by POST /jobs
  Cancels,     \* cancel requests, each issued at most once
  Stalls,      \* whether 600 s may pass without a write to a job's folder
  StaleRoute,  \* whether POST /jobs/{id}/stale-check is called
  StageRoute,  \* the stages that POST /jobs/{id}/stage is called with
  Patches,     \* the manifest_patch fields it is called with
  MaxCrashes   \* bound on the number of crashes

ASSUME JobsAssumption ==
  /\ Jobs \subseteq Nat \ {0}
  /\ Uploads \subseteq Jobs
  /\ Stalls \in BOOLEAN /\ StaleRoute \in BOOLEAN
  /\ StageRoute \subseteq StageName
  /\ MaxCrashes \in Nat

NoJob == 0

(***************************************************************************)
(* What a manifest's source_path may name: nothing, the job's source.<ext>,*)
(* a file elsewhere, or no file.                                           *)
(***************************************************************************)
PathName == {"unset", "own", "outside", "nowhere"}

(***************************************************************************)
(* A manifest as a coroutine holds it in memory: current_stage ("absent"   *)
(* for none), source_path, and whether summary_kinds is non-empty.         *)
(***************************************************************************)
Copy   == [stage : ManifestStage \cup {"absent"}, path : PathName, kinds : BOOLEAN]
NoCopy == [stage |-> "absent", path |-> "unset", kinds |-> FALSE]

\* ManifestPatch, those of its fields that decide anything; "keep" is unset.
Patch == [path : PathName \cup {"keep"}, kinds : {"keep", "some", "none"}]

ASSUME PatchesAssumption == Patches \subseteq Patch

VARIABLES
  status,      \* the jobs table: status, or "absent" / "deleted" without a row
  error,       \* the jobs table: error
  manifest,    \* the folder: manifest.current_stage, or "absent" without a file
  path,        \* the folder: manifest.source_path
  kinds,       \* the folder: jobs whose manifest has summary_kinds
  source,      \* the folder: jobs with a non-empty source.<ext>
  transcript,  \* the folder: jobs with a valid transcript.json
  old,         \* the folder: jobs with no stage file written for 600 s
  req,         \* where the request that creates or re-uploads the job stands
  held,        \* the manifest it has read and not yet written back
  worker,      \* the queue worker: pc, job, and the manifest it has read
  running,     \* orchestrator._running: jobs with a registered cancel flag
  flagged,     \* those whose cancel flag is set
  signal,      \* queue._work_signal
  cancel,      \* where each cancel request stands
  marking,     \* the job each stale checker is about to mark
  posting,     \* where a POST /jobs/{id}/stage stands
  phase,       \* of the process: "up", or a step of the boot
  todo,        \* ids the boot sweep has yet to handle
  sweep,       \* the boot sweep's position inside one id
  crashes,     \* crashes so far
  overwritten, \* since the last boot: jobs on whose manifest an older copy was put
  givenUp,     \* since the last boot: jobs marked stale while run, or when over
  left         \* since the last boot: cancelled jobs whose manifest stays behind

db      == <<status, error>>
folder  == <<manifest, path, kinds, source, transcript, old>>
request == <<req, held>>
flags   == <<running, flagged>>
aside   == <<marking, posting>>
boot    == <<phase, todo, sweep, crashes>>
mishaps == <<overwritten, givenUp, left>>
vars    == <<db, folder, request, worker, flags, signal, cancel, aside, boot, mishaps>>

Checkers == {"watchdog", "route"}

ReqPc    == {"idle", "row", "stream", "patch", "patched", "end"}
CancelPc == {"idle", "flip", "row", "rmtree", "flag", "end"}

\* Program points of run_worker outside run_job, and inside it.
IdlePc  == {"poll", "wait"}
RunPc   == {"claimed", "loading", "transcribing", "decoding",
            "read transcribed", "write transcribed", "row transcribed",
            "read done", "write done", "row done", "failing", "cancelling"}
WorkerPc == IdlePc \cup RunPc \cup {"picked", "rmtree", "finally"}

RowStatus == JobStatus \cup {"absent", "deleted"}
RowError  == {"none", "run failed", "stalled", "interrupted"}

DbType ==
  /\ status \in [Jobs -> RowStatus]
  /\ error \in [Jobs -> RowError]

FolderType ==
  /\ manifest \in [Jobs -> ManifestStage \cup {"absent"}]
  /\ path \in [Jobs -> PathName]
  /\ kinds \subseteq Jobs
  /\ source \subseteq Jobs
  /\ transcript \subseteq Jobs
  /\ old \subseteq Jobs

WorkerType ==
  /\ worker \in [pc : WorkerPc, job : Jobs \cup {NoJob}, copy : Copy]
  /\ worker.job = NoJob <=> worker.pc \in IdlePc

CancelType ==
  /\ cancel \in [Cancels -> [pc : CancelPc, job : Jobs \cup {NoJob}]]
  /\ \A c \in Cancels : cancel[c].job = NoJob => cancel[c].pc \in {"idle", "end"}

AsideType ==
  /\ marking \in [Checkers -> Jobs \cup {NoJob}]
  /\ posting \in [pc : {"idle", "write", "row"}, job : Jobs \cup {NoJob}, copy : Copy]
  /\ posting.job = NoJob <=> posting.pc = "idle"

BootType ==
  /\ phase \in {"up", "reconcile", "sweep"}
  /\ todo \subseteq Jobs
  /\ sweep \in [pc : {"next", "manifest", "row"}, job : Jobs \cup {NoJob}]
  /\ sweep.job = NoJob <=> sweep.pc = "next"
  /\ crashes \in Nat

TypeOK ==
  /\ DbType /\ FolderType /\ WorkerType /\ CancelType /\ AsideType /\ BootType
  /\ req \in [Jobs -> ReqPc] /\ held \in [Jobs -> Copy]
  /\ running \subseteq Jobs /\ flagged \subseteq Jobs
  /\ signal \in BOOLEAN
  /\ overwritten \subseteq Jobs /\ givenUp \subseteq Jobs /\ left \subseteq Jobs

IdleWorker == [pc |-> "poll", job |-> NoJob, copy |-> NoCopy]
NoCancel   == [c \in Cancels |-> [pc |-> "idle", job |-> NoJob]]
NoMarking  == [k \in Checkers |-> NoJob]
NoPosting  == [pc |-> "idle", job |-> NoJob, copy |-> NoCopy]
NoSweep    == [pc |-> "next", job |-> NoJob]

Init ==
  /\ status = [j \in Jobs |-> "absent"]
  /\ error = [j \in Jobs |-> "none"]
  /\ manifest = [j \in Jobs |-> "absent"]
  /\ path = [j \in Jobs |-> "unset"] /\ kinds = {} /\ source = {} /\ transcript = {} /\ old = {}
  /\ req = [j \in Jobs |-> "idle"] /\ held = [j \in Jobs |-> NoCopy]
  /\ worker = IdleWorker
  /\ running = {} /\ flagged = {}
  /\ signal = FALSE
  /\ cancel = NoCancel
  /\ marking = NoMarking /\ posting = NoPosting
  /\ phase = "up" /\ todo = {} /\ sweep = NoSweep
  /\ crashes = 0
  /\ overwritten = {} /\ givenUp = {} /\ left = {}

-----------------------------------------------------------------------------
(* Rows and folders.                                                       *)

HasRow(j) == status[j] \notin {"absent", "deleted"}

\* UPDATE jobs SET status = s WHERE id = j, committed.
SetStatus(j, s) ==
  status' = [status EXCEPT ![j] = IF HasRow(j) THEN s ELSE @]

\* mark_failed.
MarkFailed(j, why) ==
  /\ SetStatus(j, "failed")
  /\ error' = [error EXCEPT ![j] = IF HasRow(j) THEN why ELSE @]

CopyOf(j) == [stage |-> manifest[j], path |-> path[j], kinds |-> j \in kinds]

\* What Stages needs to know of a manifest of the job.
AsRead(j, m) ==
  [stage       |-> m.stage,
   path        |-> CASE m.path = "unset"                      -> "unset"
                     [] m.path = "own" /\ j \in source        -> "present"
                     [] m.path = "outside"                    -> "present"
                     [] OTHER                                 -> "missing",
   diarization |-> FALSE,
   summaries   |-> m.kinds]

ManifestOf(j) == AsRead(j, CopyOf(j))

FilesOf(j) == {f \in StageFile : \/ f = "source" /\ j \in source
                                 \/ f = "transcript" /\ j \in transcript}

ResumePoint(j) == InferResumePoint(ManifestOf(j), FilesOf(j))

\* last_stage_mtime finds a file to look at.
HasFiles(j) == manifest[j] # "absent" \/ j \in source \/ j \in transcript

\* write_manifest: makes the folder if it is gone; the file is fresh.
WriteManifest(j, m) ==
  /\ manifest' = [manifest EXCEPT ![j] = m.stage]
  /\ path' = [path EXCEPT ![j] = m.path]
  /\ kinds' = IF m.kinds THEN kinds \cup {j} ELSE kinds \ {j}
  /\ old' = old \ {j}
  /\ UNCHANGED <<source, transcript>>

\* write_manifest of what is on disk, with a new stage.
WriteStage(j, s) == WriteManifest(j, [CopyOf(j) EXCEPT !.stage = s])

(***************************************************************************)
(* shutil.rmtree(ignore_errors=True), after the row says cancelled: what   *)
(* is locked stays behind, every other file goes.                          *)
(***************************************************************************)
Rmtree(j) ==
  /\ \/ /\ manifest' = [manifest EXCEPT ![j] = "absent"]
        /\ path' = [path EXCEPT ![j] = "unset"]
        /\ kinds' = kinds \ {j}
        /\ UNCHANGED left
     \/ /\ manifest[j] # "absent"
        /\ left' = left \cup {j}
        /\ UNCHANGED <<manifest, path, kinds>>
  /\ source' \in {source, source \ {j}}
  /\ transcript' \in {transcript, transcript \ {j}}
  /\ old' = old \ {j}
  /\ UNCHANGED <<overwritten, givenUp>>

-----------------------------------------------------------------------------
(* The requests that create a job, and those that upload its file again.   *)

\* The status of the INSERT: an upload is hidden from the worker at first.
QueuedAtOnce(j) == "queued"
InitialStatus(j) == IF j \in Uploads THEN "uploading" ELSE "queued"

\* create_job / create_upload_job: INSERT, commit.  created_at grows.
InsertRow(j) ==
  /\ phase = "up" /\ req[j] = "idle" /\ status[j] = "absent"
  /\ \A k \in Jobs : k < j => status[k] # "absent"
  /\ status' = [status EXCEPT ![j] = InitialStatus(j)]
  /\ req' = [req EXCEPT ![j] = "row"]
  /\ UNCHANGED <<error, folder, held, worker, flags, signal, cancel, aside, boot, mishaps>>

\* ensure_job_dir and write_manifest(empty_manifest).  A cancel that came
\* first has removed what was there by then: nothing.
CreateFolder(j) ==
  /\ req[j] = "row"
  /\ WriteStage(j, "none")
  /\ req' = [req EXCEPT ![j] = IF j \in Uploads THEN "stream" ELSE "end"]
  /\ left' = IF status[j] = "cancelled" THEN left \cup {j} ELSE left
  /\ UNCHANGED <<db, held, worker, flags, signal, cancel, aside, boot,
                 overwritten, givenUp>>

\* The folder step failed: the compensating DELETE.
CompensateInsert(j) ==
  /\ req[j] = "row"
  /\ status' = [status EXCEPT ![j] = "deleted"]
  /\ req' = [req EXCEPT ![j] = "end"]
  /\ UNCHANGED <<error, folder, held, worker, flags, signal, cancel, aside, boot, mishaps>>

(***************************************************************************)
(* A later upload with the Idempotency-Key of the job, answered with the   *)
(* row there is: it sends the file again, whatever has become of the job.  *)
(* Requests of one key come one after the other here; where they overlap,  *)
(* and which job a key is given, is in Admission.                          *)
(***************************************************************************)
Retry(j) ==
  /\ phase = "up" /\ j \in Uploads
  /\ req[j] = "end" /\ HasRow(j)
  /\ req' = [req EXCEPT ![j] = "stream"]
  /\ UNCHANGED <<db, folder, held, worker, flags, signal, cancel, aside, boot, mishaps>>

(***************************************************************************)
(* upload_source: the body is on disk, os.replace published it, and        *)
(* read_manifest, which does not suspend, has read what the request will   *)
(* write back; it raises if there is no manifest.                          *)
(***************************************************************************)
LandSource(j) ==
  /\ req[j] = "stream"
  /\ source' = source \cup {j}
  /\ old' = old \ {j}
  /\ IF manifest[j] = "absent"
     THEN req' = [req EXCEPT ![j] = "end"] /\ UNCHANGED held
     ELSE /\ req' = [req EXCEPT ![j] = "patch"]
          /\ held' = [held EXCEPT ![j] = CopyOf(j)]
  /\ UNCHANGED <<db, manifest, path, kinds, transcript, worker, flags, signal,
                 cancel, aside, boot, mishaps>>

\* upload_source: the folder is gone, the client disconnects, or the disk
\* refuses the file or the manifest.
AbortUpload(j) ==
  /\ req[j] \in {"stream", "patch"}
  /\ req' = [req EXCEPT ![j] = "end"]
  /\ held' = [held EXCEPT ![j] = NoCopy]
  /\ UNCHANGED <<db, folder, worker, flags, signal, cancel, aside, boot, mishaps>>

\* upload_source, write_manifest: the copy with source_path set, whatever the
\* manifest says by now.
PatchSource(j) ==
  /\ req[j] = "patch"
  /\ WriteManifest(j, [held[j] EXCEPT !.path = "own"])
  /\ req' = [req EXCEPT ![j] = "patched"]
  /\ held' = [held EXCEPT ![j] = NoCopy]
  /\ overwritten' = IF manifest[j] # held[j].stage THEN overwritten \cup {j} ELSE overwritten
  /\ UNCHANGED <<db, worker, flags, signal, cancel, aside, boot, givenUp, left>>

\* enqueue: only a row that has not started becomes (or stays) queued.
Enqueue(j) ==
  /\ req[j] = "patched"
  /\ status' = [status EXCEPT ![j] = IF @ \in {"uploading", "queued"} THEN "queued" ELSE @]
  /\ signal' = TRUE
  /\ req' = [req EXCEPT ![j] = "end"]
  /\ UNCHANGED <<error, folder, held, worker, flags, cancel, aside, boot, mishaps>>

RequestStep(j) ==
  \/ CreateFolder(j) \/ CompensateInsert(j) \/ Retry(j) \/ LandSource(j)
  \/ AbortUpload(j) \/ PatchSource(j) \/ Enqueue(j)

-----------------------------------------------------------------------------
(* The queue worker: pull_next and the wait of run_worker.                 *)

WorkerAt(pc) == phase = "up" /\ worker.pc = pc

GoTo(pc) == worker' = [worker EXCEPT !.pc = pc]

\* pull_next, SELECT: the oldest queued row, if any.
PullSelect(j) ==
  /\ WorkerAt("poll")
  /\ status[j] = "queued"
  /\ \A k \in Jobs : status[k] = "queued" => j <= k
  /\ worker' = [pc |-> "picked", job |-> j, copy |-> NoCopy]
  /\ UNCHANGED <<db, folder, request, flags, signal, cancel, aside, boot, mishaps>>

PullNothing ==
  /\ WorkerAt("poll")
  /\ \A j \in Jobs : status[j] # "queued"
  /\ GoTo("wait")
  /\ UNCHANGED <<db, folder, request, flags, signal, cancel, aside, boot, mishaps>>

\* Mutant of PullClaim: the claim without its WHERE status = 'queued'.
PullClaimUnconditional ==
  /\ WorkerAt("picked")
  /\ SetStatus(worker.job, "starting") /\ GoTo("claimed")
  /\ UNCHANGED <<error, folder, request, flags, signal, cancel, aside, boot, mishaps>>

\* pull_next, UPDATE ... WHERE status = 'queued': a lost race waits again.
PullClaim ==
  /\ WorkerAt("picked")
  /\ IF status[worker.job] = "queued"
     THEN SetStatus(worker.job, "starting") /\ GoTo("claimed")
     ELSE worker' = [IdleWorker EXCEPT !.pc = "wait"] /\ UNCHANGED status
  /\ UNCHANGED <<error, folder, request, flags, signal, cancel, aside, boot, mishaps>>

\* wait_for(_work_signal.wait(), 2.0): woken by the signal or by the timeout;
\* the signal is cleared either way.
WakeUp(bySignal) ==
  /\ WorkerAt("wait")
  /\ bySignal => signal
  /\ GoTo("poll")
  /\ signal' = FALSE
  /\ UNCHANGED <<db, folder, request, flags, cancel, aside, boot, mishaps>>

WakeOnSignal  == WakeUp(TRUE)
WakeOnTimeout == WakeUp(FALSE)

-----------------------------------------------------------------------------
(* run_job.                                                                *)

(***************************************************************************)
(* Where run_job goes from its resume point.  Its reading of the manifest, *)
(* the resume walk and the stage checks run without an await, so           *)
(*   - an incomplete "ingested" fails: the source check that follows looks *)
(*     at the very file the walk found missing, and update_stage("ingested")*)
(*     is not reached;                                                     *)
(*   - for "done", the cancel flag registered a moment ago is still clear; *)
(*   - for a stage that no code runs yet nothing is done: the row stays.   *)
(* A missing manifest raises FileNotFoundError.                            *)
(***************************************************************************)
StartPc(j) ==
  IF manifest[j] = "absent" THEN "failing"
  ELSE CASE ResumePoint(j) = "ingested"    -> "failing"
         [] ResumePoint(j) = "transcribed" -> "loading"
         [] ResumePoint(j) = "done"        -> "read done"
         [] OTHER                          -> "finally"

\* Registers a fresh cancel flag, reads the manifest, then walks.
RunStart ==
  LET j == worker.job IN
  /\ WorkerAt("claimed")
  /\ running' = running \cup {j}
  /\ flagged' = flagged \ {j}
  /\ worker' = [worker EXCEPT !.pc = StartPc(j),
                              !.copy = IF StartPc(j) = "loading" THEN CopyOf(j) ELSE NoCopy]
  /\ UNCHANGED <<db, folder, request, signal, cancel, aside, boot, mishaps>>

\* _load_stt_adapter returned; a source_path that was unset when the run began
\* is a ValueError, and transcribe_file cannot open one that names no file.
LoadAdapter ==
  /\ WorkerAt("loading")
  /\ worker' = [worker EXCEPT
       !.pc = IF AsRead(worker.job, worker.copy).path = "present"
              THEN "transcribing" ELSE "failing",
       !.copy = NoCopy]
  /\ UNCHANGED <<db, folder, request, flags, signal, cancel, aside, boot, mishaps>>

\* A chunk ended: the throttled progress.json write is the heartbeat.
WriteProgress ==
  /\ WorkerAt("transcribing")
  /\ worker.job \in old
  /\ old' = old \ {worker.job}
  /\ UNCHANGED <<db, manifest, path, kinds, source, transcript, request, worker, flags,
                 signal, cancel, aside, boot, mishaps>>

\* Mutant of LastBoundary: the chunker does not look at the flag.
LastBoundaryUnchecked ==
  /\ WorkerAt("transcribing")
  /\ GoTo("decoding")
  /\ UNCHANGED <<db, folder, request, flags, signal, cancel, aside, boot, mishaps>>

\* transcribe_file at the top of its last chunk: JobCancelled, or the call
\* after which the flag is not looked at again.
LastBoundary ==
  /\ WorkerAt("transcribing")
  /\ GoTo(IF worker.job \in flagged THEN "cancelling" ELSE "decoding")
  /\ UNCHANGED <<db, folder, request, flags, signal, cancel, aside, boot, mishaps>>

\* The transcript is back from the thread and written to transcript.json.
WriteTranscript ==
  /\ WorkerAt("decoding")
  /\ transcript' = transcript \cup {worker.job}
  /\ old' = old \ {worker.job}
  /\ GoTo("read transcribed")
  /\ UNCHANGED <<db, manifest, path, kinds, source, request, flags, signal, cancel, aside, boot, mishaps>>

\* The load, a chunk or the write of the transcript raised.
RunError ==
  /\ phase = "up" /\ worker.pc \in {"loading", "transcribing", "decoding"}
  /\ worker' = [worker EXCEPT !.pc = "failing", !.copy = NoCopy]
  /\ UNCHANGED <<db, folder, request, flags, signal, cancel, aside, boot, mishaps>>

\* update_stage, read_manifest: it raises if there is no manifest.
UpdateRead(at, next) ==
  LET j == worker.job IN
  /\ WorkerAt(at)
  /\ worker' = IF manifest[j] = "absent" THEN [worker EXCEPT !.pc = "failing"]
               ELSE [worker EXCEPT !.pc = next, !.copy = CopyOf(j)]
  /\ UNCHANGED <<db, folder, request, flags, signal, cancel, aside, boot, mishaps>>

\* update_stage, write_manifest of that copy with the new stage; it may raise.
UpdateWrite(at, stage, next) ==
  /\ WorkerAt(at)
  /\ \/ /\ WriteManifest(worker.job, [worker.copy EXCEPT !.stage = stage])
        /\ worker' = [worker EXCEPT !.pc = next, !.copy = NoCopy]
     \/ /\ worker' = [worker EXCEPT !.pc = "failing", !.copy = NoCopy]
        /\ UNCHANGED folder
  /\ UNCHANGED <<db, request, flags, signal, cancel, aside, boot, mishaps>>

\* update_stage, its database half, whatever the row says by now.
UpdateRow(at, projected, next) ==
  /\ WorkerAt(at)
  /\ SetStatus(worker.job, projected)
  /\ GoTo(next)
  /\ UNCHANGED <<error, folder, request, flags, signal, cancel, aside, boot, mishaps>>

\* The two stage updates of run_job.
RecordTranscribed ==
  \/ UpdateRead("read transcribed", "write transcribed")
  \/ UpdateWrite("write transcribed", "transcribed", "row transcribed")
  \/ UpdateRow("row transcribed", "transcribing", "read done")

RecordDone ==
  \/ UpdateRead("read done", "write done")
  \/ UpdateWrite("write done", "done", "row done")
  \/ UpdateRow("row done", "done", "finally")

\* Mutant of RunFailed: the failure is only logged.
RunFailedUnmarked ==
  /\ WorkerAt("failing")
  /\ GoTo("finally")
  /\ UNCHANGED <<db, folder, request, flags, signal, cancel, aside, boot, mishaps>>

\* except Exception: mark_failed.
RunFailed ==
  /\ WorkerAt("failing")
  /\ MarkFailed(worker.job, "run failed")
  /\ GoTo("finally")
  /\ UNCHANGED <<folder, request, flags, signal, cancel, aside, boot, mishaps>>

\* except JobCancelled: cancel_job, row first; without a row no rmtree.
RunCancelled ==
  /\ WorkerAt("cancelling")
  /\ SetStatus(worker.job, "cancelled")
  /\ GoTo(IF HasRow(worker.job) THEN "rmtree" ELSE "finally")
  /\ UNCHANGED <<error, folder, request, flags, signal, cancel, aside, boot, mishaps>>

RunRmtree ==
  /\ WorkerAt("rmtree")
  /\ Rmtree(worker.job)
  /\ GoTo("finally")
  /\ UNCHANGED <<db, request, flags, signal, cancel, aside, boot>>

\* finally: unload, _running.pop; the worker loops.
RunFinally ==
  /\ WorkerAt("finally")
  /\ running' = running \ {worker.job}
  /\ flagged' = flagged \ {worker.job}
  /\ worker' = IdleWorker
  /\ UNCHANGED <<db, folder, request, signal, cancel, aside, boot, mishaps>>

-----------------------------------------------------------------------------
(* queue.cancel and the cancel_job it calls.                               *)

CancelAt(c, pc) == phase = "up" /\ cancel[c].pc = pc

CancelGoTo(c, pc) == cancel' = [cancel EXCEPT ![c].pc = pc]

\* The first SELECT: a terminal row is a no-op.
CancelSelect(c, j) ==
  /\ CancelAt(c, "idle") /\ HasRow(j)
  /\ cancel' = [cancel EXCEPT ![c] =
       [pc  |-> IF status[j] \in Terminal THEN "end"
                ELSE IF status[j] = "queued" THEN "flip" ELSE "flag",
        job |-> j]]
  /\ UNCHANGED <<db, folder, request, worker, flags, signal, aside, boot, mishaps>>

\* Mutant of CancelFlip: no check whether the worker claimed the row.
CancelFlipUnconditional(c) ==
  /\ CancelAt(c, "flip")
  /\ SetStatus(cancel[c].job, "cancelled") /\ CancelGoTo(c, "row")
  /\ UNCHANGED <<error, folder, request, worker, flags, signal, aside, boot, mishaps>>

\* UPDATE ... WHERE status = 'queued': a row the worker claimed is left to it.
CancelFlip(c) ==
  LET j == cancel[c].job IN
  /\ CancelAt(c, "flip")
  /\ IF status[j] = "queued"
     THEN SetStatus(j, "cancelled") /\ CancelGoTo(c, "row")
     ELSE CancelGoTo(c, "flag") /\ UNCHANGED status
  /\ UNCHANGED <<error, folder, request, worker, flags, signal, aside, boot, mishaps>>

\* cancel_job's own, unconditional UPDATE; without a row no rmtree.
CancelRow(c) ==
  LET j == cancel[c].job IN
  /\ CancelAt(c, "row")
  /\ SetStatus(j, "cancelled")
  /\ CancelGoTo(c, IF HasRow(j) THEN "rmtree" ELSE "end")
  /\ UNCHANGED <<error, folder, request, worker, flags, signal, aside, boot, mishaps>>

CancelRmtree(c) ==
  /\ CancelAt(c, "rmtree")
  /\ Rmtree(cancel[c].job)
  /\ CancelGoTo(c, "end")
  /\ signal' = TRUE
  /\ UNCHANGED <<db, request, worker, flags, aside, boot>>

\* The active path: set the flag of a registered run, otherwise only look.
CancelFlag(c) ==
  /\ CancelAt(c, "flag")
  /\ flagged' = flagged \cup ({cancel[c].job} \cap running)
  /\ CancelGoTo(c, "end")
  /\ UNCHANGED <<db, folder, request, worker, running, signal, aside, boot, mishaps>>

CancelStep(c) ==
  CancelFlip(c) \/ CancelRow(c) \/ CancelRmtree(c) \/ CancelFlag(c)

-----------------------------------------------------------------------------
(* Staleness: run_watchdog and POST /jobs/{id}/stale-check.                *)

(***************************************************************************)
(* 600 s pass without a write to a stage file.  Only a model load, a chunk *)
(* or the lack of a run lasts that long: the worker's other steps are      *)
(* shorter.                                                                *)
(***************************************************************************)
Age(j) ==
  /\ phase = "up" /\ Stalls /\ j \notin old
  /\ HasFiles(j) /\ status[j] \notin Terminal
  /\ worker.job = j => worker.pc \in {"loading", "transcribing", "decoding"}
  /\ old' = old \cup {j}
  /\ UNCHANGED <<db, manifest, path, kinds, source, transcript, request, worker, flags,
                 signal, cancel, aside, boot, mishaps>>

\* The rows the watchdog selects; the mutant of this and of Swept misses some.
AllButIngesting == {"starting", "transcribing"}
Watched == {"starting", "ingesting", "transcribing"}

\* mark_stale's gate (the SELECT, then the mtime).  The watchdog asks about
\* active rows and 600 s, the route about any row and the caller's threshold.
StaleGate(k, j) ==
  /\ phase = "up" /\ marking[k] = NoJob
  /\ HasFiles(j)
  /\ \/ k = "watchdog" /\ status[j] \in Watched /\ j \in old
     \/ k = "route" /\ StaleRoute /\ HasRow(j) /\ status[j] \notin Terminal
  /\ marking' = [marking EXCEPT ![k] = j]
  /\ UNCHANGED <<db, folder, request, worker, flags, signal, cancel, posting, boot, mishaps>>

\* The mark comes too late, or takes the row from a run that goes on.
TooLate(j) ==
  \/ status[j] \in {"done", "cancelled"}
  \/ worker.job = j /\ worker.pc \in RunPc

\* mark_stale's mark_failed, whatever the row says by now.
StaleMark(k) ==
  /\ phase = "up" /\ marking[k] # NoJob
  /\ MarkFailed(marking[k], "stalled")
  /\ marking' = [marking EXCEPT ![k] = NoJob]
  /\ givenUp' = IF TooLate(marking[k]) THEN givenUp \cup {marking[k]} ELSE givenUp
  /\ UNCHANGED <<folder, request, worker, flags, signal, cancel, posting, boot,
                 overwritten, left>>

-----------------------------------------------------------------------------
(* POST /jobs/{id}/stage: update_stage on behalf of a client, without      *)
(* regard to what the worker is doing.                                     *)

\* The stage, then the fields of manifest_patch that are set.
Patched(m, s, p) ==
  [stage |-> s,
   path  |-> IF p.path = "keep" THEN m.path ELSE p.path,
   kinds |-> IF p.kinds = "keep" THEN m.kinds ELSE p.kinds = "some"]

\* read_manifest: what is written back is a copy of the manifest read here.
PostRead(j, s, p) ==
  /\ phase = "up" /\ posting.pc = "idle"
  /\ manifest[j] # "absent"
  /\ posting' = [pc |-> "write", job |-> j, copy |-> Patched(CopyOf(j), s, p)]
  /\ UNCHANGED <<db, folder, request, worker, flags, signal, cancel, marking, boot, mishaps>>

\* write_manifest of the patched copy; it may raise.
PostWrite ==
  /\ phase = "up" /\ posting.pc = "write"
  /\ \/ WriteManifest(posting.job, posting.copy) /\ posting' = [posting EXCEPT !.pc = "row"]
     \/ posting' = NoPosting /\ UNCHANGED folder
  /\ UNCHANGED <<db, request, worker, flags, signal, cancel, marking, boot, mishaps>>

\* The row gets the projection of the copy.
PostRow ==
  /\ phase = "up" /\ posting.pc = "row"
  /\ SetStatus(posting.job, StageToStatus(AsRead(posting.job, posting.copy)))
  /\ posting' = NoPosting
  /\ UNCHANGED <<error, folder, request, worker, flags, signal, cancel, marking, boot, mishaps>>

PostStep ==
  \/ \E j \in Jobs, s \in StageRoute, p \in Patches : PostRead(j, s, p)
  \/ PostWrite \/ PostRow

-----------------------------------------------------------------------------
(* Crash and boot: what is in memory is gone, requests are not resumed.    *)

\* The row says cancelled, the rmtree is still to come.
AboutToGo(j) ==
  \/ worker.job = j /\ worker.pc = "rmtree"
  \/ \E c \in Cancels : cancel[c].job = j /\ cancel[c].pc \in {"row", "rmtree"}

Crash ==
  /\ phase # "reconcile" /\ crashes < MaxCrashes
  /\ crashes' = crashes + 1
  /\ phase' = "reconcile" /\ todo' = {} /\ sweep' = NoSweep
  /\ req' = [j \in Jobs |-> IF req[j] = "idle" THEN "idle" ELSE "end"]
  /\ held' = [j \in Jobs |-> NoCopy]
  /\ worker' = IdleWorker
  /\ running' = {} /\ flagged' = {}
  /\ signal' = FALSE
  /\ cancel' = [c \in Cancels |-> IF cancel[c].pc = "idle" THEN cancel[c]
                                  ELSE [cancel[c] EXCEPT !.pc = "end"]]
  /\ marking' = NoMarking /\ posting' = NoPosting
  /\ left' = left \cup {j \in Jobs : AboutToGo(j)}
  /\ UNCHANGED <<db, folder, overwritten, givenUp>>

\* The rows the boot sweep selects; its mutant is the filter without 'starting'.
SweptBeforeStarting == {"ingesting", "transcribing"}
Swept == {"starting", "ingesting", "transcribing"}

\* The stages the sweep takes for finished work; its mutant forgets the case
\* where only the derived "done" is missing.
NothingToRun(j) == ResumePoint(j) = "nothing"
FileComplete(j) == ResumePoint(j) \in {"nothing", "done"}

(***************************************************************************)
(* reconcile_all, one row after the other, then the SELECT of the sweep.   *)
(* Nothing else runs, and a crash half way is repaired by the next run, so *)
(* one step stands for the walk.                                           *)
(***************************************************************************)
BootReconcile ==
  LET projected == [j \in Jobs |->
        IF HasRow(j) /\ manifest[j] # "absent"
        THEN StageToStatus(ManifestOf(j)) ELSE status[j]]
  IN
  /\ phase = "reconcile"
  /\ status' = projected
  /\ phase' = "sweep"
  /\ todo' = {j \in Jobs : projected[j] \in Swept}
  /\ overwritten' = {} /\ givenUp' = {} /\ left' = {}
  /\ UNCHANGED <<error, folder, request, worker, flags, signal, cancel, aside,
                 sweep, crashes>>

\* mark_interrupted_failed: one id.  Complete work goes on to "done"; other
\* work fails, in the row and (if there is a manifest) then in the manifest.
SweepJob(j) ==
  /\ phase = "sweep" /\ sweep.pc = "next" /\ j \in todo
  /\ IF manifest[j] # "absent" /\ FileComplete(j)
     THEN /\ WriteStage(j, "done")
          /\ sweep' = [pc |-> "row", job |-> j]
          /\ UNCHANGED <<db, todo>>
     ELSE /\ MarkFailed(j, "interrupted")
          /\ IF manifest[j] = "absent"
             THEN todo' = todo \ {j} /\ UNCHANGED sweep
             ELSE sweep' = [pc |-> "manifest", job |-> j] /\ UNCHANGED todo
          /\ UNCHANGED folder
  /\ UNCHANGED <<request, worker, flags, signal, cancel, aside, phase, crashes, mishaps>>

SweepManifest ==
  /\ phase = "sweep" /\ sweep.pc = "manifest"
  /\ WriteStage(sweep.job, "failed")
  /\ todo' = todo \ {sweep.job} /\ sweep' = NoSweep
  /\ UNCHANGED <<db, request, worker, flags, signal, cancel, aside, phase, crashes, mishaps>>

SweepRow ==
  /\ phase = "sweep" /\ sweep.pc = "row"
  /\ SetStatus(sweep.job, "done")
  /\ todo' = todo \ {sweep.job} /\ sweep' = NoSweep
  /\ UNCHANGED <<error, folder, request, worker, flags, signal, cancel, aside,
                 phase, crashes, mishaps>>

\* The lifespan starts the worker and the watchdog and serves requests.
BootDone ==
  /\ phase = "sweep" /\ sweep.pc = "next" /\ todo = {}
  /\ phase' = "up"
  /\ UNCHANGED <<db, folder, request, worker, flags, signal, cancel, aside, todo,
                 sweep, crashes, mishaps>>

BootStep == BootReconcile \/ (\E j \in Jobs : SweepJob(j)) \/ SweepManifest
              \/ SweepRow \/ BootDone

-----------------------------------------------------------------------------

PullNext == (\E j \in Jobs : PullSelect(j)) \/ PullNothing

PullStep == PullNext \/ PullClaim \/ WakeOnSignal \/ WakeOnTimeout

RunStep == RunStart \/ LoadAdapter \/ LastBoundary \/ WriteTranscript \/ RunError
             \/ RecordTranscribed \/ RecordDone \/ RunFailed \/ RunCancelled
             \/ RunRmtree \/ RunFinally

Next ==
  \/ \E j \in Jobs : InsertRow(j) \/ RequestStep(j) \/ Age(j)
  \/ PullStep \/ RunStep \/ WriteProgress
  \/ \E c \in Cancels : CancelStep(c) \/ \E j \in Jobs : CancelSelect(c, j)
  \/ \E k \in Checkers : StaleMark(k) \/ \E j \in Jobs : StaleGate(k, j)
  \/ PostStep \/ Crash \/ BootStep

Spec == Init /\ [][Next]_vars

(***************************************************************************)
(* The event loop keeps scheduling the worker task and the boot, a wait    *)
(* with a timeout ends, and the inference engine's calls return.  Nothing  *)
(* is assumed of clients, of request handlers or of the wake signal, which *)
(* may always come too late.                                               *)
(***************************************************************************)
FairSpec ==
  /\ Spec
  /\ WF_vars(PullNext) /\ WF_vars(PullClaim) /\ WF_vars(WakeOnTimeout)
  /\ WF_vars(RunStep)
  /\ WF_vars(BootStep)

(***************************************************************************)
(* The watchdog as well: every 60 s it looks at every active row, and 600 s*)
(* without a write do pass.                                                *)
(***************************************************************************)
WatchedSpec ==
  /\ FairSpec
  /\ \A j \in Jobs : WF_vars(Age(j)) /\ WF_vars(StaleGate("watchdog", j))
  /\ WF_vars(StaleMark("watchdog"))

-----------------------------------------------------------------------------
(* What the lifecycle promises.                                            *)

(***************************************************************************)
(* No orphan, strictly serial: while the backend is up, a row that says    *)
(* the job is being processed is the row of the one job the worker holds,  *)
(* at a point of run_job from which a final status is still written (D-10 *)
(* in queue.py, CR-01 and CR-03).  A row left active by an exit path of    *)
(* run_job, by a boot or by a late write would never be looked at again.   *)
(***************************************************************************)
ActiveIsOwned ==
  phase = "up" =>
    \A j \in Jobs : status[j] \in Active => worker.job = j /\ worker.pc \in RunPc

(***************************************************************************)
(* Files as truth: a row that says done has the transcript and its source  *)
(* on disk, in every state a crash can expose, and a manifest that says so *)
(* (Fix 4, the write order of update_stage, no rmtree under a run: T-04-06,*)
(* WR-01), unless an upload request of the key has written an older copy   *)
(* of the manifest back since the last boot.                               *)
(***************************************************************************)
DoneIsOnDisk ==
  \A j \in Jobs : status[j] = "done" =>
    /\ j \in transcript /\ j \in source
    /\ manifest[j] = "done" \/ j \in overwritten

(***************************************************************************)
(* The boot sweep never throws finished work away (CR-02): a job failed as *)
(* interrupted is one whose source or transcript is not there.             *)
(***************************************************************************)
InterruptedIsUnfinished ==
  \A j \in Jobs : status[j] = "failed" /\ error[j] = "interrupted" =>
    j \notin source \/ j \notin transcript

(***************************************************************************)
(* A boot leaves no row active: nothing would work on it (CR-01, D-03).    *)
(***************************************************************************)
BootLeavesNoneActive ==
  [][phase = "sweep" /\ phase' = "up" =>
       \A j \in Jobs : status'[j] \notin Active]_vars

(***************************************************************************)
(* Once a manifest says done no step reruns the job, fails it on disk or   *)
(* deletes its transcript, whoever takes it and across any crash.  Only an *)
(* upload request that read the manifest before can undo that word, by     *)
(* writing its copy back.                                                  *)
(***************************************************************************)
FinishedWorkStays ==
  [][\A j \in Jobs : manifest[j] = "done" =>
       /\ manifest'[j] = "done" \/ j \in overwritten'
       /\ j \in transcript']_vars

(***************************************************************************)
(* The worker never gets an upload whose file has not landed (D-11): until *)
(* the backend restarts, a row of an upload that is queued or being        *)
(* processed has its source, in spite of cancels, retries and stale marks. *)
(***************************************************************************)
UploadRunsWithSource ==
  crashes = 0 => \A j \in Uploads : status[j] \in Active \cup {"queued"} => j \in source

(***************************************************************************)
(* Cooperative cancel (D-06): a run whose flag is set before its last      *)
(* chunk begins ends cancelled, or failed if something else went wrong,    *)
(* unless the backend dies first.                                          *)
(***************************************************************************)
FlagStopsRun ==
  \A j \in Jobs :
    (worker.job = j /\ worker.pc \in {"loading", "transcribing"} /\ j \in flagged)
      ~> status[j] \in {"cancelled", "failed"} \/ phase # "up"

(***************************************************************************)
(* The queue drains: a job that is queued or being processed reaches a     *)
(* final status, whatever other jobs do and although create_job does not   *)
(* wake the worker (Fix 1, "one failed job must not stall the queue").     *)
(***************************************************************************)
EveryJobSettles ==
  \A j \in Jobs :
    status[j] \in Active \cup {"queued"} ~> status[j] \in Terminal \cup {"deleted"}

(***************************************************************************)
(* The watchdog catches what nobody works on (D-11): once clients stop     *)
(* posting stages and sending the file again, a row left active reaches a  *)
(* final status, or is gone.  Two ways are excepted, on which the code     *)
(* leaves the row as it is for good: a boot that finds a posted            *)
(* "summarized" with summary_kinds in the manifest makes the row           *)
(* "summarizing", which neither the watchdog nor the sweep selects; and a  *)
(* posted stage whose row is written after a cancel removed the folder     *)
(* leaves nothing that could be stale.                                     *)
(***************************************************************************)
OrphansSettle ==
  \A j \in Jobs :
    <>[](posting.pc = "idle" /\ req[j] \in {"idle", "end"}) =>
      (status[j] \in Active ~>
         status[j] \in Terminal \cup {"deleted", "summarizing"} \/ ~HasFiles(j))

=============================================================================
