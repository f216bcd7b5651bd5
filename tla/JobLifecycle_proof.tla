------------------------- MODULE JobLifecycle_proof -------------------------
(***************************************************************************)
(* What TLAPS proves of JobLifecycle, for any sets of jobs, uploads and    *)
(* cancel requests and any number of crashes: its type invariant, the      *)
(* inductive invariant IInv of JobLifecycleInv, and with it the safety     *)
(* properties the runs check on small instances.  Apart from the types     *)
(* this is for a backend whose admin route POST /jobs/{id}/stage is not    *)
(* used.                                                                   *)
(***************************************************************************)
EXTENDS JobLifecycleInv, TLAPS

(***************************************************************************)
(* infer_resume_point on a folder whose manifest no client has patched:    *)
(* diarization and summaries do not apply, so it is decided by source,     *)
(* transcript and stage.                                                   *)
(***************************************************************************)
LEMMA ResumePointIs ==
  ASSUME NEW j \in Jobs, Unposted(CopyOf(j))
  PROVE  ResumePoint(j) = IF j \notin source THEN "ingested"
                          ELSE IF j \notin transcript THEN "transcribed"
                          ELSE IF manifest[j] # "done" THEN "done" ELSE "nothing"
<1> DEFINE m == ManifestOf(j)
           files == FilesOf(j)
           open == {i \in DOMAIN StageOrder :
                      /\ IsStageApplicable(StageOrder[i], m)
                      /\ ~IsStageComplete(StageOrder[i], m, files)}
<1>1. DOMAIN StageOrder = 1..5
  BY DEF StageOrder
<1>2. /\ StageOrder[1] = "ingested" /\ StageOrder[2] = "transcribed"
      /\ StageOrder[3] = "diarized" /\ StageOrder[4] = "summarized"
      /\ StageOrder[5] = "done"
  BY DEF StageOrder
<1>3. /\ m.stage = manifest[j] /\ m.diarization = FALSE /\ m.summaries = FALSE
      /\ m.path = "present" => j \in source
      /\ "source" \in files <=> j \in source
      /\ "transcript" \in files <=> j \in transcript
  BY DEF ManifestOf, AsRead, CopyOf, Unposted, FilesOf, StageFile
<1>4. /\ 1 \in open <=> j \notin source
      /\ 2 \in open <=> j \notin transcript
      /\ 3 \notin open /\ 4 \notin open
      /\ 5 \in open <=> manifest[j] # "done" \/ j \notin source \/ j \notin transcript
  <2>1. ~IsStageApplicable("diarized", m) /\ ~IsStageApplicable("summarized", m)
    BY <1>3 DEF IsStageApplicable
  <2>2. /\ IsStageApplicable("ingested", m) /\ IsStageApplicable("transcribed", m)
        /\ IsStageApplicable("done", m)
    BY DEF IsStageApplicable
  <2>3. /\ OutputExists("ingested", m, files) <=> j \in source
        /\ OutputExists("transcribed", m, files) <=> j \in transcript
    BY <1>3 DEF OutputExists
  <2>4. /\ IsStageComplete("ingested", m, files) <=> j \in source
        /\ IsStageComplete("transcribed", m, files) <=> j \in transcript
    BY <2>3 DEF IsStageComplete
  <2>5. IsStageComplete("done", m, files) <=>
          manifest[j] = "done" /\ j \in source /\ j \in transcript
    BY <1>3, <2>1, <2>2, <2>3 DEF IsStageComplete, StageName
  <2> QED BY <1>1, <1>2, <2>1, <2>2, <2>4, <2>5
<1>5. ResumePoint(j) = IF open = {} THEN "nothing"
                       ELSE StageOrder[CHOOSE i \in open : \A k \in open : i <= k]
  BY DEF ResumePoint, InferResumePoint
<1>6. open \subseteq 1..5
  BY <1>1
<1> HIDE DEF open, m, files
<1>7. ASSUME NEW n \in open, \A k \in open : n <= k
      PROVE  ResumePoint(j) = StageOrder[n]
  <2>1. \A i \in open : (\A k \in open : i <= k) => i = n
    BY <1>6, <1>7
  <2> QED BY <1>5, <1>7, <2>1
<1>8. CASE j \notin source
  <2>1. 1 \in open /\ \A k \in open : 1 <= k
    BY <1>4, <1>6, <1>8
  <2> QED BY <1>2, <1>7, <1>8, <2>1
<1>9. CASE j \in source /\ j \notin transcript
  <2>1. 2 \in open /\ \A k \in open : 2 <= k
    BY <1>4, <1>6, <1>9
  <2> QED BY <1>2, <1>7, <1>9, <2>1
<1>10. CASE j \in source /\ j \in transcript /\ manifest[j] # "done"
  <2>1. 5 \in open /\ \A k \in open : 5 <= k
    BY <1>4, <1>6, <1>10
  <2> QED BY <1>2, <1>7, <1>10, <2>1
<1>11. CASE j \in source /\ j \in transcript /\ manifest[j] = "done"
  <2>1. open = {}
    BY <1>4, <1>6, <1>11
  <2> QED BY <1>5, <1>11, <2>1
<1> QED BY <1>8, <1>9, <1>10, <1>11

(***************************************************************************)
(* Where run_job goes first, in the same terms.                            *)
(***************************************************************************)
LEMMA StartPcIs ==
  ASSUME NEW j \in Jobs, Unposted(CopyOf(j))
  PROVE  StartPc(j) = IF manifest[j] = "absent" \/ j \notin source THEN "failing"
                      ELSE IF j \notin transcript THEN "loading"
                      ELSE IF manifest[j] # "done" THEN "read done" ELSE "finally"
BY ResumePointIs DEF StartPc

(***************************************************************************)
(* The projection of a stage is always a status, and it is done only for   *)
(* the stage done: reconcile_all cannot finish a job.                      *)
(***************************************************************************)
LEMMA StageToStatusIs ==
  ASSUME NEW m
  PROVE  /\ StageToStatus(m) \in JobStatus
         /\ StageToStatus(m) = "done" <=> m.stage = "done"
BY DEF StageToStatus, JobStatus, Active, Terminal

(***************************************************************************)
(* Unless a client posts stages a manifest is projected to one of three.   *)
(***************************************************************************)
LEMMA StageToStatusHere ==
  ASSUME NEW j \in Jobs, Unposted(CopyOf(j)), manifest[j] # "absent"
  PROVE  StageToStatus(ManifestOf(j)) =
           IF manifest[j] = "none" THEN "queued"
           ELSE IF manifest[j] = "transcribed" THEN "transcribing" ELSE "done"
BY DEF StageToStatus, ManifestOf, AsRead, CopyOf, Unposted, Ran

(***************************************************************************)
(* Wherever run_job goes first, also from a posted stage, is one of these. *)
(***************************************************************************)
LEMMA StartPcType ==
  ASSUME NEW j \in Jobs
  PROVE  StartPc(j) \in {"failing", "loading", "read done", "finally"}
<1>1. CASE manifest[j] = "absent"
  BY <1>1 DEF StartPc
<1>2. CASE manifest[j] # "absent"
  BY <1>2 DEF StartPc
<1> QED BY <1>1, <1>2

(***************************************************************************)
(* 0 is not the id of a job, so a field that holds a job tells whether it  *)
(* does.                                                                   *)
(***************************************************************************)
LEMMA NoJobIsNone ==
  NoJob \notin Jobs
BY JobsAssumption DEF NoJob

\* The names the actions write belong to the sets TypeOK draws them from.
LEMMA RowNames ==
  /\ {"absent", "deleted", "uploading", "queued", "starting", "transcribing",
      "done", "failed", "cancelled"} \subseteq RowStatus
  /\ JobStatus \subseteq RowStatus
BY DEF RowStatus, JobStatus, Active, Terminal

\* The same of mark_failed's reasons.
LEMMA ErrorNames ==
  {"run failed", "stalled", "interrupted"} \subseteq RowError
BY DEF RowError

\* The same of the stages that are written.
LEMMA StageNames ==
  {"none", "transcribed", "done", "failed"} \cup StageName \subseteq ManifestStage
BY DEF ManifestStage, StageName

\* The same of the points of a request.
LEMMA ReqNames ==
  {"idle", "row", "stream", "patch", "patched", "end"} \subseteq ReqPc
BY DEF ReqPc

\* The same of the points of the worker.
LEMMA PcNames ==
  /\ RunPc \cup {"picked", "rmtree", "finally"} \subseteq WorkerPc \ IdlePc
  /\ IdlePc \subseteq WorkerPc
  /\ {"claimed", "loading", "transcribing", "decoding", "read transcribed",
      "write transcribed", "row transcribed", "read done", "write done", "row done",
      "failing", "cancelling"} \subseteq RunPc
BY DEF RunPc, IdlePc, WorkerPc

\* The same of the points of a cancel.
LEMMA CancelNames ==
  {"idle", "flip", "row", "rmtree", "flag", "end"} \subseteq CancelPc
BY DEF CancelPc

(***************************************************************************)
(* What the building blocks of the actions do, and that they keep the      *)
(* types: an UPDATE of the status changes that one row, if there is one.   *)
(***************************************************************************)
LEMMA SetStatusIs ==
  ASSUME DbType, NEW j \in Jobs, NEW s \in RowStatus, SetStatus(j, s)
  PROVE  /\ status' \in [Jobs -> RowStatus]
         /\ \A k \in Jobs : status'[k] = IF k = j /\ HasRow(j) THEN s ELSE status[k]
BY DEF SetStatus, DbType

(***************************************************************************)
(* mark_failed changes status and error of that one row, if there is one.  *)
(***************************************************************************)
LEMMA MarkFailedIs ==
  ASSUME DbType, NEW j \in Jobs, NEW why \in RowError, MarkFailed(j, why)
  PROVE  /\ DbType'
         /\ \A k \in Jobs :
              /\ status'[k] = IF k = j /\ HasRow(j) THEN "failed" ELSE status[k]
              /\ error'[k] = IF k = j /\ HasRow(j) THEN why ELSE error[k]
<1>1. /\ status' \in [Jobs -> RowStatus]
      /\ \A k \in Jobs : status'[k] = IF k = j /\ HasRow(j) THEN "failed" ELSE status[k]
  BY SetStatusIs, RowNames DEF MarkFailed
<1>2. /\ error' \in [Jobs -> RowError]
      /\ \A k \in Jobs : error'[k] = IF k = j /\ HasRow(j) THEN why ELSE error[k]
  BY DEF MarkFailed, DbType
<1> QED BY <1>1, <1>2 DEF DbType

(***************************************************************************)
(* What read_manifest returns is a copy, also with another stage in it.    *)
(***************************************************************************)
LEMMA CopyIs ==
  /\ NoCopy \in Copy
  /\ FolderType => \A j \in Jobs : CopyOf(j) \in Copy
  /\ \A m \in Copy, s \in ManifestStage : [m EXCEPT !.stage = s] \in Copy
  /\ \A m \in Copy : [m EXCEPT !.path = "own"] \in Copy
<1>1. NoCopy \in Copy
  BY DEF NoCopy, Copy, PathName
<1>2. ASSUME FolderType, NEW j \in Jobs PROVE CopyOf(j) \in Copy
  BY <1>2 DEF FolderType, CopyOf, Copy
<1>3. ASSUME NEW m \in Copy, NEW s \in ManifestStage
      PROVE  [m EXCEPT !.stage = s] \in Copy
  BY <1>3 DEF Copy
<1>4. ASSUME NEW m \in Copy PROVE [m EXCEPT !.path = "own"] \in Copy
  BY <1>4 DEF Copy, PathName
<1> QED BY <1>1, <1>2, <1>3, <1>4

(***************************************************************************)
(* A write_manifest changes the manifest of that one job, and no file.     *)
(***************************************************************************)
LEMMA WriteManifestIs ==
  ASSUME FolderType, NEW j \in Jobs, NEW m \in Copy, WriteManifest(j, m)
  PROVE  /\ FolderType'
         /\ \A k \in Jobs : manifest'[k] = IF k = j THEN m.stage ELSE manifest[k]
         /\ CopyOf(j)' = m
         /\ \A k \in Jobs \ {j} : CopyOf(k)' = CopyOf(k)
         /\ source' = source /\ transcript' = transcript
<1>1. /\ manifest' = [manifest EXCEPT ![j] = m.stage]
      /\ path' = [path EXCEPT ![j] = m.path]
      /\ kinds' = IF m.kinds THEN kinds \cup {j} ELSE kinds \ {j}
      /\ old' = old \ {j} /\ source' = source /\ transcript' = transcript
  BY DEF WriteManifest
<1>2. /\ m.stage \in ManifestStage \cup {"absent"} /\ m.path \in PathName
      /\ m.kinds \in BOOLEAN
      /\ m = [stage |-> m.stage, path |-> m.path, kinds |-> m.kinds]
  BY DEF Copy
<1>3. FolderType'
  BY <1>1, <1>2 DEF FolderType
<1>4. \A k \in Jobs : /\ manifest'[k] = IF k = j THEN m.stage ELSE manifest[k]
                      /\ path'[k] = IF k = j THEN m.path ELSE path[k]
                      /\ k \in kinds' <=> IF k = j THEN m.kinds ELSE k \in kinds
  BY <1>1, <1>2 DEF FolderType
<1>5. CopyOf(j)' = m
  <2>1. (j \in kinds') = m.kinds
    BY <1>2, <1>4
  <2> QED BY <1>2, <1>4, <2>1 DEF CopyOf
<1>6. \A k \in Jobs \ {j} : CopyOf(k)' = CopyOf(k)
  BY <1>4 DEF CopyOf
<1> QED BY <1>1, <1>3, <1>4, <1>5, <1>6

(***************************************************************************)
(* A new stage is all a write_stage changes of that manifest.              *)
(***************************************************************************)
LEMMA WriteStageIs ==
  ASSUME FolderType, NEW j \in Jobs, NEW s \in ManifestStage, WriteStage(j, s)
  PROVE  /\ FolderType'
         /\ \A k \in Jobs : manifest'[k] = IF k = j THEN s ELSE manifest[k]
         /\ CopyOf(j)' = [CopyOf(j) EXCEPT !.stage = s]
         /\ \A k \in Jobs \ {j} : CopyOf(k)' = CopyOf(k)
         /\ source' = source /\ transcript' = transcript
<1>1. CopyOf(j) \in Copy /\ [CopyOf(j) EXCEPT !.stage = s] \in Copy
  BY CopyIs
<1>2. [CopyOf(j) EXCEPT !.stage = s].stage = s
  BY <1>1 DEF Copy
<1> QED BY <1>1, <1>2, WriteManifestIs DEF WriteStage

(***************************************************************************)
(* An rmtree touches one folder, of which it leaves any part behind.       *)
(***************************************************************************)
LEMMA RmtreeIs ==
  ASSUME FolderType, NEW j \in Jobs, Rmtree(j)
  PROVE  /\ FolderType'
         /\ \A k \in Jobs \ {j} :
              /\ manifest'[k] = manifest[k] /\ CopyOf(k)' = CopyOf(k)
              /\ k \in source' <=> k \in source
              /\ k \in transcript' <=> k \in transcript
         /\ \/ manifest'[j] = "absent" /\ CopyOf(j)' = NoCopy /\ left' = left
            \/ /\ manifest'[j] = manifest[j] /\ manifest[j] # "absent"
               /\ CopyOf(j)' = CopyOf(j) /\ left' = left \cup {j}
         /\ source' \subseteq source /\ transcript' \subseteq transcript
         /\ overwritten' = overwritten /\ givenUp' = givenUp
<1>1. /\ source' \in {source, source \ {j}} /\ transcript' \in {transcript, transcript \ {j}}
      /\ old' = old \ {j} /\ UNCHANGED <<overwritten, givenUp>>
  BY DEF Rmtree
<1>2. CASE /\ manifest' = [manifest EXCEPT ![j] = "absent"]
           /\ path' = [path EXCEPT ![j] = "unset"]
           /\ kinds' = kinds \ {j}
           /\ UNCHANGED left
  <2>1. FolderType'
    BY <1>1, <1>2 DEF FolderType, PathName
  <2>2. CopyOf(j)' = NoCopy
    <3>1. manifest'[j] = "absent" /\ path'[j] = "unset" /\ (j \in kinds') = FALSE
      BY <1>2 DEF FolderType
    <3> QED BY <3>1 DEF CopyOf, NoCopy
  <2>3. \A k \in Jobs \ {j} : manifest'[k] = manifest[k] /\ CopyOf(k)' = CopyOf(k)
    BY <1>2 DEF FolderType, CopyOf
  <2>4. manifest'[j] = "absent"
    BY <1>2 DEF FolderType
  <2> QED BY <1>1, <1>2, <2>1, <2>2, <2>3, <2>4
<1>3. CASE /\ manifest[j] # "absent" /\ left' = left \cup {j}
           /\ UNCHANGED <<manifest, path, kinds>>
  <2>1. FolderType'
    BY <1>1, <1>3 DEF FolderType
  <2>2. \A k \in Jobs : CopyOf(k)' = CopyOf(k)
    BY <1>3 DEF CopyOf
  <2> QED BY <1>1, <1>3, <2>1, <2>2
<1> QED BY <1>2, <1>3 DEF Rmtree

(***************************************************************************)
(* The worker moves on with the same job.                                  *)
(***************************************************************************)
LEMMA GoToIs ==
  ASSUME WorkerType, worker.pc \notin IdlePc, NEW pc \in WorkerPc \ IdlePc, GoTo(pc)
  PROVE  /\ WorkerType' /\ worker.job \in Jobs
         /\ worker'.pc = pc /\ worker'.job = worker.job /\ worker'.copy = worker.copy
BY NoJobIsNone DEF GoTo, WorkerType

(***************************************************************************)
(* The same, where it takes or drops a copy of the manifest.               *)
(***************************************************************************)
LEMMA MoveIs ==
  ASSUME WorkerType, worker.pc \notin IdlePc, NEW pc \in WorkerPc \ IdlePc, NEW m \in Copy,
         worker' = [worker EXCEPT !.pc = pc, !.copy = m]
  PROVE  /\ WorkerType' /\ worker.job \in Jobs
         /\ worker'.pc = pc /\ worker'.job = worker.job /\ worker'.copy = m
BY NoJobIsNone DEF WorkerType

(***************************************************************************)
(* A cancel moves on with the same job, and no other cancel moves.         *)
(***************************************************************************)
LEMMA CancelGoToIs ==
  ASSUME CancelType, NEW c \in Cancels, NEW pc \in CancelPc, CancelGoTo(c, pc),
         cancel[c].pc \notin {"idle", "end"}
  PROVE  /\ CancelType' /\ cancel[c].job \in Jobs
         /\ cancel'[c].pc = pc /\ cancel'[c].job = cancel[c].job
         /\ \A d \in Cancels \ {c} : cancel'[d] = cancel[d]
BY NoJobIsNone DEF CancelGoTo, CancelType

(***************************************************************************)
(* TypeOK is inductive by itself: one step per action, and under it one    *)
(* per part of TypeOK that the action touches.                             *)
(***************************************************************************)
LEMMA TypeStep ==
  TypeOK /\ [Next]_vars => TypeOK'
<1> SUFFICES ASSUME TypeOK, [Next]_vars PROVE TypeOK'
  OBVIOUS
<1> USE NoJobIsNone DEF TypeOK
<1>0. /\ UNCHANGED db => DbType'
      /\ UNCHANGED folder => FolderType'
      /\ UNCHANGED worker => WorkerType'
      /\ UNCHANGED cancel => CancelType'
      /\ UNCHANGED <<marking, posting>> => AsideType'
      /\ UNCHANGED aside => AsideType'
      /\ UNCHANGED <<phase, todo, sweep, crashes>> => BootType'
      /\ UNCHANGED boot => BootType'
      /\ UNCHANGED flags => UNCHANGED <<running, flagged>>
      /\ UNCHANGED request => UNCHANGED <<req, held>>
      /\ UNCHANGED mishaps => UNCHANGED <<overwritten, givenUp, left>>
  BY DEF DbType, FolderType, WorkerType, CancelType, AsideType, BootType, db,
     folder, request, aside, boot, flags, mishaps
<1>1. ASSUME NEW j \in Jobs, InsertRow(j) PROVE TypeOK'
  BY <1>0, <1>1, RowNames, ReqNames DEF InsertRow, InitialStatus, DbType
<1>2. ASSUME NEW j \in Jobs, CreateFolder(j) PROVE TypeOK'
  BY <1>0, <1>2, StageNames, ReqNames, WriteStageIs DEF CreateFolder
<1>3. ASSUME NEW j \in Jobs, CompensateInsert(j) PROVE TypeOK'
  BY <1>0, <1>3, RowNames, ReqNames DEF CompensateInsert, DbType
<1>4. ASSUME NEW j \in Jobs, Retry(j) PROVE TypeOK'
  BY <1>0, <1>4, ReqNames DEF Retry
<1>5. ASSUME NEW j \in Jobs, LandSource(j) PROVE TypeOK'
  <2>1. FolderType'
    BY <1>5 DEF LandSource, FolderType
  <2>2. req' \in [Jobs -> ReqPc] /\ held' \in [Jobs -> Copy]
    BY <1>5, CopyIs, ReqNames DEF LandSource
  <2> QED BY <1>0, <1>5, <2>1, <2>2 DEF LandSource
<1>6. ASSUME NEW j \in Jobs, AbortUpload(j) PROVE TypeOK'
  BY <1>0, <1>6, ReqNames, CopyIs DEF AbortUpload
<1>7. ASSUME NEW j \in Jobs, PatchSource(j) PROVE TypeOK'
  <2>1. [held[j] EXCEPT !.path = "own"] \in Copy
    BY CopyIs
  <2>2. FolderType'
    BY <1>7, <2>1, WriteManifestIs DEF PatchSource
  <2>3. req' \in [Jobs -> ReqPc] /\ held' \in [Jobs -> Copy] /\ overwritten' \subseteq Jobs
    BY <1>7, CopyIs, ReqNames DEF PatchSource
  <2> QED BY <1>0, <1>7, <2>2, <2>3 DEF PatchSource
<1>8. ASSUME NEW j \in Jobs, Enqueue(j) PROVE TypeOK'
  BY <1>0, <1>8, RowNames, ReqNames DEF Enqueue, DbType
<1>9. ASSUME NEW j \in Jobs, Age(j) PROVE TypeOK'
  BY <1>0, <1>9 DEF Age, FolderType
<1>10. ASSUME NEW j \in Jobs, PullSelect(j) PROVE TypeOK'
  BY <1>0, <1>10, PcNames, CopyIs DEF PullSelect, WorkerType, IdlePc
<1>11. ASSUME PullNothing PROVE TypeOK'
  BY <1>0, <1>11, PcNames DEF PullNothing, WorkerAt, GoTo, WorkerType, IdlePc
<1>12. ASSUME PullClaim PROVE TypeOK'
  <2>1. CASE status[worker.job] = "queued"
    BY <1>0, <1>12, <2>1, RowNames, PcNames, SetStatusIs, GoToIs DEF PullClaim,
       WorkerAt, IdlePc, DbType
  <2>2. CASE status[worker.job] # "queued"
    <3>1. worker' = [pc |-> "wait", job |-> NoJob, copy |-> NoCopy]
      BY <1>12, <2>2 DEF PullClaim, IdleWorker
    <3>2. WorkerType'
      BY <3>1, PcNames, CopyIs DEF WorkerType, IdlePc
    <3> QED BY <1>0, <1>12, <2>2, <3>2 DEF PullClaim, DbType
  <2> QED BY <2>1, <2>2
<1>13. ASSUME NEW b \in BOOLEAN, WakeUp(b) PROVE TypeOK'
  BY <1>0, <1>13, PcNames DEF WakeUp, WorkerAt, GoTo, WorkerType, IdlePc
<1>14. ASSUME RunStart PROVE TypeOK'
  <2>1. worker.job \in Jobs /\ worker.pc \notin IdlePc
    BY <1>14 DEF RunStart, WorkerAt, WorkerType, IdlePc
  <2>2. StartPc(worker.job) \in WorkerPc \ IdlePc
    BY <2>1, StartPcType, PcNames
  <2>3. (IF StartPc(worker.job) = "loading" THEN CopyOf(worker.job) ELSE NoCopy) \in Copy
    BY <2>1, CopyIs
  <2>4. WorkerType'
    BY <1>14, <2>1, <2>2, <2>3, MoveIs DEF RunStart
  <2> QED BY <1>0, <1>14, <2>1, <2>4 DEF RunStart
<1>15. ASSUME LoadAdapter PROVE TypeOK'
  <2>1. worker.pc \notin IdlePc
    BY <1>15 DEF LoadAdapter, WorkerAt, IdlePc
  <2>2. (IF AsRead(worker.job, worker.copy).path = "present" THEN "transcribing" ELSE "failing")
           \in WorkerPc \ IdlePc
    BY PcNames
  <2>3. WorkerType'
    BY <1>15, <2>1, <2>2, CopyIs, MoveIs DEF LoadAdapter
  <2> QED BY <1>0, <1>15, <2>3 DEF LoadAdapter
<1>16. ASSUME WriteProgress PROVE TypeOK'
  BY <1>0, <1>16 DEF WriteProgress, WorkerAt, FolderType
<1>17. ASSUME LastBoundary PROVE TypeOK'
  BY <1>0, <1>17, PcNames, GoToIs DEF LastBoundary, WorkerAt, IdlePc
<1>18. ASSUME WriteTranscript PROVE TypeOK'
  BY <1>0, <1>18, PcNames, GoToIs DEF WriteTranscript, FolderType, WorkerAt,
     IdlePc
<1>19. ASSUME RunError PROVE TypeOK'
  <2>1. WorkerType'
    BY <1>19, PcNames, CopyIs, MoveIs DEF RunError, IdlePc
  <2> QED BY <1>0, <1>19, <2>1 DEF RunError
<1>20. ASSUME NEW at, NEW next \in WorkerPc \ IdlePc, at \notin IdlePc, UpdateRead(at, next)
       PROVE  TypeOK'
  <2>1. worker.pc \notin IdlePc /\ worker.job \in Jobs
    BY <1>20 DEF UpdateRead, WorkerAt, WorkerType
  <2>2. WorkerType'
    <3>1. CASE manifest[worker.job] = "absent"
      <4>1. GoTo("failing")
        BY <1>20, <3>1 DEF UpdateRead, GoTo
      <4> QED BY <2>1, <4>1, PcNames, GoToIs
    <3>2. CASE manifest[worker.job] # "absent"
      <4>1. worker' = [worker EXCEPT !.pc = next, !.copy = CopyOf(worker.job)]
        BY <1>20, <3>2 DEF UpdateRead
      <4> QED BY <1>20, <2>1, <4>1, CopyIs, MoveIs
    <3> QED BY <3>1, <3>2
  <2> QED BY <1>0, <1>20, <2>2 DEF UpdateRead
<1>21. ASSUME NEW at, NEW s \in ManifestStage, NEW next \in WorkerPc \ IdlePc,
              at \notin IdlePc, UpdateWrite(at, s, next)
       PROVE  TypeOK'
  <2>1. worker.pc \notin IdlePc /\ worker.job \in Jobs /\ worker.copy \in Copy
    BY <1>21 DEF UpdateWrite, WorkerAt, WorkerType
  <2>2. WorkerType'
    BY <1>21, <2>1, PcNames, CopyIs, MoveIs DEF UpdateWrite
  <2>3. FolderType'
    <3>1. [worker.copy EXCEPT !.stage = s] \in Copy
      BY <2>1, CopyIs
    <3> QED BY <1>0, <1>21, <2>1, <3>1, WriteManifestIs DEF UpdateWrite
  <2> QED BY <1>0, <1>21, <2>2, <2>3 DEF UpdateWrite
<1>22. ASSUME NEW at, NEW s \in RowStatus, NEW next \in WorkerPc \ IdlePc, at \notin IdlePc,
              UpdateRow(at, s, next)
       PROVE  TypeOK'
  BY <1>0, <1>22, SetStatusIs, GoToIs DEF UpdateRow, WorkerAt, DbType
<1>23. ASSUME RunFailed PROVE TypeOK'
  BY <1>0, <1>23, PcNames, ErrorNames, GoToIs, MarkFailedIs DEF RunFailed,
     WorkerAt, IdlePc
<1>24. ASSUME RunCancelled PROVE TypeOK'
  BY <1>0, <1>24, PcNames, RowNames, GoToIs, SetStatusIs DEF RunCancelled,
     DbType, WorkerAt, IdlePc
<1>25. ASSUME RunRmtree PROVE TypeOK'
  BY <1>0, <1>25, PcNames, GoToIs, RmtreeIs DEF RunRmtree, WorkerAt, IdlePc
<1>26. ASSUME RunFinally PROVE TypeOK'
  BY <1>0, <1>26, PcNames, CopyIs DEF RunFinally, IdleWorker, WorkerType, WorkerAt,
     IdlePc
<1>27. ASSUME NEW c \in Cancels, NEW j \in Jobs, CancelSelect(c, j) PROVE TypeOK'
  BY <1>0, <1>27, CancelNames DEF CancelSelect, CancelAt, CancelType
<1>28. ASSUME NEW c \in Cancels, CancelFlip(c) PROVE TypeOK'
  BY <1>0, <1>28, CancelNames, RowNames, CancelGoToIs, SetStatusIs DEF
     CancelFlip, CancelAt, DbType
<1>29. ASSUME NEW c \in Cancels, CancelRow(c) PROVE TypeOK'
  BY <1>0, <1>29, CancelNames, RowNames, CancelGoToIs, SetStatusIs DEF
     CancelRow, CancelAt, DbType
<1>30. ASSUME NEW c \in Cancels, CancelRmtree(c) PROVE TypeOK'
  BY <1>0, <1>30, CancelNames, CancelGoToIs, RmtreeIs DEF CancelRmtree, CancelAt
<1>31. ASSUME NEW c \in Cancels, CancelFlag(c) PROVE TypeOK'
  BY <1>0, <1>31, CancelNames, CancelGoToIs DEF CancelFlag, CancelAt
<1>32. ASSUME NEW k \in Checkers, NEW j \in Jobs, StaleGate(k, j) PROVE TypeOK'
  BY <1>0, <1>32 DEF StaleGate, AsideType
<1>33. ASSUME NEW k \in Checkers, StaleMark(k) PROVE TypeOK'
  <2>1. marking[k] \in Jobs
    BY <1>33 DEF StaleMark, AsideType
  <2>2. DbType'
    BY <1>33, <2>1, ErrorNames, MarkFailedIs DEF StaleMark
  <2>3. AsideType' /\ givenUp' \subseteq Jobs
    BY <1>33, <2>1 DEF StaleMark, AsideType
  <2> QED BY <1>0, <1>33, <2>2, <2>3 DEF StaleMark
<1>34. ASSUME NEW j \in Jobs, NEW s \in StageRoute, NEW p \in Patches, PostRead(j, s, p)
       PROVE  TypeOK'
  <2>1. Patched(CopyOf(j), s, p) \in Copy
    <3>1. /\ s \in ManifestStage
          /\ p.path \in PathName \cup {"keep"}
      BY JobsAssumption, PatchesAssumption, StageNames DEF Patch
    <3>2. CopyOf(j).path \in PathName /\ CopyOf(j).kinds \in BOOLEAN
      BY DEF CopyOf, FolderType
    <3> QED BY <3>1, <3>2 DEF Patched, Copy
  <2>2. AsideType'
    BY <1>34, <2>1 DEF PostRead, AsideType
  <2> QED BY <1>0, <1>34, <2>2 DEF PostRead
<1>35. ASSUME PostWrite PROVE TypeOK'
  <2>1. posting.job \in Jobs /\ posting.copy \in Copy
    BY <1>35 DEF PostWrite, AsideType
  <2>2. FolderType'
    BY <1>0, <1>35, <2>1, WriteManifestIs DEF PostWrite
  <2>3. AsideType'
    BY <1>35, CopyIs DEF PostWrite, NoPosting, AsideType
  <2> QED BY <1>0, <1>35, <2>2, <2>3 DEF PostWrite
<1>36. ASSUME PostRow PROVE TypeOK'
  <2>1. posting.job \in Jobs
    BY <1>36 DEF PostRow, AsideType
  <2>2. AsideType'
    BY <1>36, CopyIs DEF PostRow, NoPosting, AsideType
  <2>3. DbType'
    BY <1>36, <2>1, RowNames, StageToStatusIs, SetStatusIs DEF PostRow, DbType
  <2> QED BY <1>0, <1>36, <2>2, <2>3 DEF PostRow
<1>37. ASSUME Crash PROVE TypeOK'
  <2>1. WorkerType' /\ AsideType' /\ BootType'
    <3>1. WorkerType'
      BY <1>37, PcNames, CopyIs DEF Crash, IdleWorker, WorkerType, IdlePc
    <3>2. AsideType'
      BY <1>37, CopyIs DEF Crash, NoMarking, NoPosting, AsideType
    <3>3. BootType'
      BY <1>37 DEF Crash, NoSweep, BootType
    <3> QED BY <3>1, <3>2, <3>3
  <2>2. CancelType'
    BY <1>37, CancelNames DEF Crash, CancelType
  <2>3. req' \in [Jobs -> ReqPc] /\ held' \in [Jobs -> Copy] /\ left' \subseteq Jobs
    BY <1>37, ReqNames, CopyIs DEF Crash
  <2> QED BY <1>0, <1>37, <2>1, <2>2, <2>3 DEF Crash
<1>38. ASSUME BootReconcile PROVE TypeOK'
  BY <1>0, <1>38, RowNames, StageToStatusIs DEF BootReconcile, DbType, BootType
<1>39. ASSUME NEW j \in Jobs, SweepJob(j) PROVE TypeOK'
  <2>1. CASE manifest[j] # "absent" /\ FileComplete(j)
    BY <1>0, <1>39, <2>1, StageNames, WriteStageIs DEF SweepJob, BootType
  <2>2. CASE ~(manifest[j] # "absent" /\ FileComplete(j))
    <3>1. DbType'
      BY <1>39, <2>2, ErrorNames, MarkFailedIs DEF SweepJob
    <3>2. BootType'
      BY <1>39, <2>2 DEF SweepJob, BootType
    <3> QED BY <1>0, <1>39, <2>2, <3>1, <3>2 DEF SweepJob
  <2> QED BY <2>1, <2>2
<1>40. ASSUME SweepManifest PROVE TypeOK'
  BY <1>0, <1>40, StageNames, WriteStageIs DEF SweepManifest, NoSweep, BootType
<1>41. ASSUME SweepRow PROVE TypeOK'
  BY <1>0, <1>41, RowNames, SetStatusIs DEF SweepRow, NoSweep, BootType, DbType
<1>42. ASSUME BootDone PROVE TypeOK'
  BY <1>0, <1>42 DEF BootDone, BootType
<1>43. CASE UNCHANGED vars
  BY <1>0, <1>43 DEF vars
<1>44. ASSUME RecordTranscribed \/ RecordDone PROVE TypeOK'
  <2>1. /\ {"write transcribed", "row transcribed", "read done", "write done", "row done",
            "finally"} \subseteq WorkerPc \ IdlePc
        /\ {"read transcribed", "write transcribed", "row transcribed", "read done",
            "write done", "row done"} \cap IdlePc = {}
    BY PcNames DEF IdlePc
  <2> QED BY <1>20, <1>21, <1>22, <1>44, <2>1, StageNames, RowNames DEF RecordTranscribed,
           RecordDone
<1> QED
  BY <1>1, <1>2, <1>3, <1>4, <1>5, <1>6, <1>7, <1>8, <1>9, <1>10, <1>11,
     <1>12, <1>13, <1>14, <1>15, <1>16, <1>17, <1>18, <1>19, <1>23, <1>24,
     <1>25, <1>26, <1>27, <1>28, <1>29, <1>30, <1>31, <1>32, <1>33, <1>34,
     <1>35, <1>36, <1>37, <1>38, <1>39, <1>40, <1>41, <1>42, <1>43, <1>44
  DEF Next, RequestStep, PullStep, PullNext, WakeOnSignal, WakeOnTimeout, RunStep,
      CancelStep, PostStep, BootStep

(***************************************************************************)
(* The initial state has the types.                                        *)
(***************************************************************************)
LEMMA TypeInit ==
  Init => TypeOK
<1> SUFFICES ASSUME Init PROVE TypeOK
  OBVIOUS
<1>1. DbType /\ FolderType /\ req \in [Jobs -> ReqPc] /\ held \in [Jobs -> Copy]
  BY RowNames, StageNames, ReqNames, CopyIs DEF Init, DbType, FolderType, RowError, PathName
<1>2. WorkerType
  BY PcNames, CopyIs DEF Init, IdleWorker, WorkerType, IdlePc
<1>3. CancelType
  BY CancelNames DEF Init, NoCancel, CancelType
<1>4. AsideType /\ BootType
  BY CopyIs DEF Init, NoMarking, NoPosting, NoSweep, AsideType, BootType
<1> QED BY <1>1, <1>2, <1>3, <1>4 DEF Init, TypeOK

(***************************************************************************)
(* Every variable keeps its type, whatever routes and crashes do.          *)
(***************************************************************************)
THEOREM TypeCorrect ==
  Spec => []TypeOK
BY TypeInit, TypeStep, PTL DEF Spec

(***************************************************************************)
(* IInv is inductive. Step f says, for each conjunct, which variables it   *)
(* depends on; the steps that follow take the actions one by one, first    *)
(* saying what the action does to those variables, then proving the        *)
(* conjuncts it disturbs.                                                  *)
(***************************************************************************)
LEMMA InvStep ==
  ASSUME StageRoute = {}
  PROVE  IInv /\ [Next]_vars => IInv'
<1> SUFFICES ASSUME IInv, [Next]_vars PROVE IInv'
  OBVIOUS
<1>0. /\ DbType /\ FolderType /\ WorkerType /\ CancelType /\ AsideType /\ BootType
      /\ req \in [Jobs -> ReqPc] /\ held \in [Jobs -> Copy]
      /\ QuietBoot /\ NothingPosted /\ RowFirst /\ RunIsOwned /\ CancelIsExclusive
      /\ RanIsSettled /\ HeldIsOlder /\ SweepIsComplete /\ ActiveIsOwned /\ DoneIsOnDisk
  BY DEF IInv, TypeOK
<1>t. TypeOK'
  BY TypeStep DEF IInv
<1>u. /\ UNCHANGED db => UNCHANGED <<status, error>>
      /\ UNCHANGED folder => /\ UNCHANGED <<manifest, source, transcript>>
                             /\ \A k \in Jobs : CopyOf(k)' = CopyOf(k)
      /\ UNCHANGED <<manifest, path, kinds>> => \A k \in Jobs : CopyOf(k)' = CopyOf(k)
      /\ UNCHANGED request => UNCHANGED <<req, held>>
      /\ UNCHANGED aside => UNCHANGED <<marking, posting>>
      /\ UNCHANGED boot => UNCHANGED <<phase, todo, sweep, crashes>>
      /\ UNCHANGED mishaps => UNCHANGED <<overwritten, givenUp, left>>
  BY DEF db, folder, CopyOf, request, aside, boot, mishaps
<1>f. /\ UNCHANGED <<posting, phase, worker, marking, req, cancel, sweep>> => QuietBoot'
      /\ /\ \A k \in Jobs : CopyOf(k)' = CopyOf(k)
         /\ held' = held /\ worker'.copy \in {worker.copy, NoCopy}
         => NothingPosted'
      /\ UNCHANGED <<req, status, manifest, transcript, error>> => RowFirst'
      /\ UNCHANGED <<worker, status, error, source, manifest, transcript, overwritten>>
           => RunIsOwned'
      /\ UNCHANGED <<cancel, status, manifest, worker>> => CancelIsExclusive'
      /\ UNCHANGED <<manifest, source, transcript, status, worker>> => RanIsSettled'
      /\ UNCHANGED <<held, manifest, req>> => HeldIsOlder'
      /\ UNCHANGED <<phase, status, worker>> => ActiveIsOwned'
      /\ UNCHANGED <<status, manifest, transcript, source, overwritten>> => DoneIsOnDisk'
      /\ UNCHANGED <<phase, status, todo, sweep, manifest>> => SweepIsComplete'
      /\ phase = "up" /\ UNCHANGED <<phase, sweep>> => SweepIsComplete'
      /\ RowFirst' => InterruptedIsUnfinished'
      /\ phase' # "up" /\ QuietBoot' => RunIsOwned' /\ CancelIsExclusive' /\ ActiveIsOwned'
  <2>1. UNCHANGED <<posting, phase, worker, marking, req, cancel, sweep>> => QuietBoot'
    BY <1>0 DEF QuietBoot
  <2>2. ASSUME \A k \in Jobs : CopyOf(k)' = CopyOf(k), held' = held,
               worker'.copy \in {worker.copy, NoCopy}
        PROVE  NothingPosted'
    <3>1. Unposted(NoCopy)
      BY DEF Unposted, NoCopy
    <3>2. Unposted(worker'.copy)
      BY <1>0, <2>2, <3>1 DEF NothingPosted
    <3> QED BY <1>0, <2>2, <3>2 DEF NothingPosted, Unposted
  <2>3. UNCHANGED <<req, status, manifest, transcript, error>> => RowFirst'
    BY <1>0 DEF RowFirst
  <2>4. UNCHANGED <<worker, status, error, source, manifest, transcript, overwritten>>
          => RunIsOwned'
    BY <1>0 DEF RunIsOwned
  <2>5. UNCHANGED <<cancel, status, manifest, worker>> => CancelIsExclusive'
    BY <1>0 DEF CancelIsExclusive
  <2>6. UNCHANGED <<manifest, source, transcript, status, worker>> => RanIsSettled'
    BY <1>0 DEF RanIsSettled
  <2>7. UNCHANGED <<held, manifest, req>> => HeldIsOlder'
    BY <1>0 DEF HeldIsOlder
  <2>8. /\ UNCHANGED <<phase, status, worker>> => ActiveIsOwned'
        /\ UNCHANGED <<status, manifest, transcript, source, overwritten>> => DoneIsOnDisk'
        /\ RowFirst' => InterruptedIsUnfinished'
    BY <1>0 DEF ActiveIsOwned, DoneIsOnDisk, RowFirst, InterruptedIsUnfinished
  <2>9. /\ UNCHANGED <<phase, status, todo, sweep, manifest>> => SweepIsComplete'
        /\ phase = "up" /\ UNCHANGED <<phase, sweep>> => SweepIsComplete'
    BY <1>0 DEF QuietBoot, NoSweep, SweepIsComplete
  <2>10. ASSUME phase' # "up", QuietBoot'
         PROVE  RunIsOwned' /\ CancelIsExclusive' /\ ActiveIsOwned'
    <3>1. worker' = IdleWorker /\ \A c \in Cancels : cancel'[c].pc \in {"idle", "end"}
      BY <2>10 DEF QuietBoot
    <3>2. worker'.pc = "poll"
      BY <3>1 DEF IdleWorker
    <3>3. RunIsOwned'
      BY <3>2 DEF RunIsOwned, RunPc, SourcePc, TranscriptPc
    <3> QED BY <2>10, <3>1, <3>3 DEF CancelIsExclusive, ActiveIsOwned
  <2> QED BY <2>1, <2>2, <2>3, <2>4, <2>5, <2>6, <2>7, <2>8, <2>9, <2>10
<1>n. /\ Unposted(NoCopy)
      /\ (/\ \A k \in Jobs : Unposted(CopyOf(k)') /\ Unposted(held'[k])
          /\ Unposted(worker'.copy)) => NothingPosted'
  BY DEF NothingPosted, Unposted, NoCopy
<1>j. /\ worker.pc \notin {"poll", "wait"} => worker.job \in Jobs
      /\ \A c \in Cancels : cancel[c].pc \notin {"idle", "end"} => cancel[c].job \in Jobs
      /\ sweep.pc # "next" => sweep.job \in Jobs
      /\ todo \subseteq Jobs
  BY <1>0, NoJobIsNone DEF WorkerType, IdlePc, CancelType, BootType
<1> USE <1>0, <1>j
<1>1. ASSUME NEW j \in Jobs, InsertRow(j)
      PROVE  IInv'
  <2>1. /\ UNCHANGED <<posting, phase, worker, marking, cancel, sweep, manifest,
                       transcript, source, error, todo, held, overwritten>>
        /\ \A k \in Jobs : CopyOf(k)' = CopyOf(k)
        /\ phase = "up" /\ status[j] = "absent" /\ req[j] = "idle"
        /\ \A k \in Jobs : status'[k] = IF k = j THEN InitialStatus(j) ELSE status[k]
        /\ InitialStatus(j) \in {"uploading", "queued"}
        /\ \A k \in Jobs : req'[k] = IF k = j THEN "row" ELSE req[k]
    BY <1>1, <1>u DEF InsertRow, InitialStatus, DbType
  <2>2. QuietBoot'
    BY <2>1 DEF QuietBoot
  <2>3. RowFirst'
    BY <2>1 DEF RowFirst
  <2>4. RunIsOwned'
    BY <2>1 DEF RunIsOwned, RunPc, Active
  <2>5. CancelIsExclusive'
    BY <2>1 DEF CancelIsExclusive
  <2>6. RanIsSettled'
    BY <2>1 DEF RanIsSettled, RowFirst, Ran
  <2>7. HeldIsOlder'
    BY <2>1 DEF HeldIsOlder
  <2>8. ActiveIsOwned'
    BY <2>1 DEF ActiveIsOwned, Active
  <2>9. DoneIsOnDisk'
    BY <2>1 DEF DoneIsOnDisk
  <2> QED BY <1>t, <1>f, <2>1, <2>2, <2>3, <2>4, <2>5, <2>6, <2>7, <2>8, <2>9 DEF IInv
<1>2. ASSUME NEW j \in Jobs, CreateFolder(j)
      PROVE  IInv'
  <2>1. /\ UNCHANGED <<posting, phase, worker, marking, cancel, sweep, status,
                       transcript, source, error, todo, held, overwritten>>
        /\ phase = "up" /\ req[j] = "row" /\ req'[j] \in {"stream", "end"}
        /\ manifest[j] = "absent" /\ \A k \in Jobs \ {j} : req'[k] = req[k]
        /\ \A k \in Jobs : manifest'[k] = IF k = j THEN "none" ELSE manifest[k]
        /\ CopyOf(j)' = [CopyOf(j) EXCEPT !.stage = "none"]
        /\ \A k \in Jobs \ {j} : CopyOf(k)' = CopyOf(k)
    BY <1>2, <1>u, StageNames, WriteStageIs DEF CreateFolder, RowFirst, QuietBoot
  <2>2. QuietBoot'
    BY <2>1 DEF QuietBoot
  <2>3. NothingPosted'
    <3>1. Unposted(CopyOf(j)')
      BY <2>1, CopyIs DEF NothingPosted, Unposted, Copy
    <3> QED BY <1>n, <2>1, <3>1 DEF NothingPosted
  <2>4. RowFirst'
    BY <2>1 DEF RowFirst
  <2>5. RunIsOwned'
    BY <2>1 DEF RunIsOwned, RowFirst, SourcePc
  <2>6. CancelIsExclusive'
    BY <2>1 DEF CancelIsExclusive, Ran
  <2>7. RanIsSettled'
    BY <2>1 DEF RanIsSettled, Ran
  <2>8. HeldIsOlder'
    BY <2>1 DEF HeldIsOlder, NoCopy
  <2>9. DoneIsOnDisk'
    BY <2>1 DEF DoneIsOnDisk
  <2> QED BY <1>t, <1>f, <2>1, <2>2, <2>3, <2>4, <2>5, <2>6, <2>7, <2>8, <2>9 DEF IInv
<1>3. ASSUME NEW j \in Jobs, CompensateInsert(j)
      PROVE  IInv'
  <2>1. /\ UNCHANGED <<posting, phase, worker, marking, cancel, sweep, manifest,
                       transcript, source, error, todo, held, overwritten>>
        /\ \A k \in Jobs : CopyOf(k)' = CopyOf(k)
        /\ phase = "up" /\ req[j] = "row"
        /\ \A k \in Jobs : req'[k] = IF k = j THEN "end" ELSE req[k]
        /\ \A k \in Jobs : status'[k] = IF k = j THEN "deleted" ELSE status[k]
    BY <1>3, <1>u DEF CompensateInsert, DbType, QuietBoot
  <2>2. QuietBoot'
    BY <2>1 DEF QuietBoot
  <2>3. RowFirst'
    BY <2>1 DEF RowFirst
  <2>4. RunIsOwned'
    BY <2>1 DEF RunIsOwned, RunPc
  <2>5. CancelIsExclusive'
    BY <2>1 DEF CancelIsExclusive
  <2>6. RanIsSettled'
    BY <2>1 DEF RanIsSettled, RowFirst, Ran
  <2>7. HeldIsOlder'
    BY <2>1 DEF HeldIsOlder
  <2>8. ActiveIsOwned'
    BY <2>1 DEF ActiveIsOwned, Active
  <2>9. DoneIsOnDisk'
    BY <2>1 DEF DoneIsOnDisk
  <2> QED BY <1>t, <1>f, <2>1, <2>2, <2>3, <2>4, <2>5, <2>6, <2>7, <2>8, <2>9 DEF IInv
<1>4. ASSUME NEW j \in Jobs, Retry(j)
      PROVE  IInv'
  <2>1. /\ UNCHANGED <<posting, phase, worker, marking, cancel, sweep, status, manifest,
                       transcript, source, error, todo, held, overwritten>>
        /\ \A k \in Jobs : CopyOf(k)' = CopyOf(k)
        /\ phase = "up" /\ req[j] = "end"
        /\ \A k \in Jobs : req'[k] = IF k = j THEN "stream" ELSE req[k]
    BY <1>4, <1>u DEF Retry
  <2>2. QuietBoot'
    BY <2>1 DEF QuietBoot
  <2>3. RowFirst'
    BY <2>1 DEF RowFirst
  <2>4. HeldIsOlder'
    BY <2>1 DEF HeldIsOlder
  <2> QED BY <1>t, <1>f, <2>1, <2>2, <2>3, <2>4 DEF IInv
<1>5. ASSUME NEW j \in Jobs, LandSource(j)
      PROVE  IInv'
  <2>1. /\ UNCHANGED <<posting, phase, worker, marking, cancel, sweep, status, manifest,
                       transcript, error, todo, overwritten>>
        /\ \A k \in Jobs : CopyOf(k)' = CopyOf(k)
        /\ phase = "up" /\ req[j] = "stream" /\ source' = source \cup {j}
        /\ \A k \in Jobs \ {j} : req'[k] = req[k] /\ held'[k] = held[k]
        /\ \/ req'[j] = "end" /\ held'[j] = held[j]
           \/ req'[j] = "patch" /\ held'[j] = CopyOf(j) /\ manifest[j] # "absent"
    BY <1>5, <1>u DEF LandSource, QuietBoot
  <2>2. QuietBoot'
    BY <2>1 DEF QuietBoot
  <2>3. NothingPosted'
    BY <2>1, <1>n DEF NothingPosted
  <2>4. RowFirst'
    BY <2>1 DEF RowFirst
  <2>5. RunIsOwned'
    BY <2>1 DEF RunIsOwned
  <2>6. RanIsSettled'
    BY <2>1 DEF RanIsSettled
  <2>7. HeldIsOlder'
    BY <2>1 DEF HeldIsOlder, CopyOf, Ran
  <2>8. DoneIsOnDisk'
    BY <2>1 DEF DoneIsOnDisk
  <2> QED BY <1>t, <1>f, <2>1, <2>2, <2>3, <2>4, <2>5, <2>6, <2>7, <2>8 DEF IInv
<1>6. ASSUME NEW j \in Jobs, AbortUpload(j)
      PROVE  IInv'
  <2>1. /\ UNCHANGED <<posting, phase, worker, marking, cancel, sweep, status, manifest,
                       transcript, source, error, todo, overwritten>>
        /\ \A k \in Jobs : CopyOf(k)' = CopyOf(k)
        /\ phase = "up" /\ req[j] \in {"stream", "patch"}
        /\ \A k \in Jobs : req'[k] = IF k = j THEN "end" ELSE req[k]
        /\ \A k \in Jobs : held'[k] = IF k = j THEN NoCopy ELSE held[k]
    BY <1>6, <1>u DEF AbortUpload, QuietBoot
  <2>2. QuietBoot'
    BY <2>1 DEF QuietBoot
  <2>3. NothingPosted'
    <3>1. ASSUME NEW k \in Jobs PROVE Unposted(CopyOf(k)') /\ Unposted(held'[k])
      <4>1. Unposted(CopyOf(k)) /\ Unposted(held[k]) /\ Unposted(NoCopy)
        BY <1>n DEF NothingPosted
      <4>2. CopyOf(k)' = CopyOf(k) /\ (held'[k] = NoCopy \/ held'[k] = held[k])
        BY <2>1
      <4> QED BY <4>1, <4>2
    <3>2. Unposted(worker'.copy)
      BY <2>1 DEF NothingPosted
    <3> QED BY <1>n, <3>1, <3>2
  <2>4. RowFirst'
    BY <2>1 DEF RowFirst
  <2>5. HeldIsOlder'
    <3>1. NoCopy.stage = "absent"
      BY DEF NoCopy
    <3>2. ASSUME NEW k \in Jobs
          PROVE  /\ held'[k].stage = "done" => manifest'[k] = "done"
                 /\ held'[k].stage = "transcribed" => manifest'[k] \in Ran
                 /\ req'[k] # "patch" => held'[k] = NoCopy
                 /\ req'[k] = "patch" => held'[k].stage # "absent"
      <4>1. CASE k = j
        BY <2>1, <3>1, <4>1
      <4>2. CASE k # j
        BY <2>1, <4>2 DEF HeldIsOlder
      <4> QED BY <4>1, <4>2
    <3> QED BY <3>2 DEF HeldIsOlder
  <2> QED BY <1>t, <1>f, <2>1, <2>2, <2>3, <2>4, <2>5 DEF IInv
<1>7. ASSUME NEW j \in Jobs, PatchSource(j)
      PROVE  IInv'
  <2>1. /\ UNCHANGED <<posting, phase, worker, marking, cancel, sweep, status,
                       transcript, source, error, todo>>
        /\ phase = "up" /\ req[j] = "patch"
        /\ \A k \in Jobs : req'[k] = IF k = j THEN "patched" ELSE req[k]
        /\ \A k \in Jobs : held'[k] = IF k = j THEN NoCopy ELSE held[k]
        /\ overwritten' = IF manifest[j] # held[j].stage THEN overwritten \cup {j} ELSE overwritten
    BY <1>7, <1>u DEF PatchSource, WriteManifest, QuietBoot
  <2>2. /\ \A k \in Jobs : manifest'[k] = IF k = j THEN held[j].stage ELSE manifest[k]
        /\ CopyOf(j)' = [held[j] EXCEPT !.path = "own"]
        /\ \A k \in Jobs \ {j} : CopyOf(k)' = CopyOf(k)
    <3>1. /\ [held[j] EXCEPT !.path = "own"] \in Copy
          /\ [held[j] EXCEPT !.path = "own"].stage = held[j].stage
      BY CopyIs DEF Copy
    <3> QED BY <1>7, <3>1, WriteManifestIs DEF PatchSource
  <2>3. /\ held[j].stage # "absent"
        /\ held[j].stage \in Ran => manifest[j] \in Ran
        /\ held[j].stage = "done" => manifest[j] = "done"
    BY <2>1 DEF HeldIsOlder, Ran
  <2>4. \A k \in Jobs : /\ manifest'[k] = manifest[k] \/ k \in overwritten'
                        /\ k \in overwritten => k \in overwritten'
    BY <2>1, <2>2
  <2>5. QuietBoot'
    BY <2>1, <2>2, <2>3, <2>4 DEF QuietBoot
  <2>6. NothingPosted'
    <3>1. Unposted(CopyOf(j)')
      BY <2>2, CopyIs DEF NothingPosted, Unposted, Copy
    <3> QED BY <1>n, <2>1, <2>2, <3>1 DEF NothingPosted
  <2>7. RowFirst'
    BY <2>1, <2>2, <2>3, <2>4 DEF RowFirst
  <2>8. RunIsOwned'
    BY <2>1, <2>2, <2>3, <2>4 DEF RunIsOwned, SourcePc, RunPc
  <2>9. CancelIsExclusive'
    BY <2>1, <2>2, <2>3, <2>4 DEF CancelIsExclusive
  <2>10. RanIsSettled'
    BY <2>1, <2>2, <2>3, <2>4 DEF RanIsSettled
  <2>11. HeldIsOlder'
    <3>1. held'[j].stage = "absent" /\ req'[j] = "patched" /\ held'[j] = NoCopy
      BY <2>1 DEF NoCopy
    <3>2. \A k \in Jobs \ {j} : req'[k] = req[k] /\ held'[k] = held[k] /\ manifest'[k] = manifest[k]
      BY <2>1, <2>2
    <3> QED BY <3>1, <3>2 DEF HeldIsOlder
  <2>12. DoneIsOnDisk'
    BY <2>1, <2>2, <2>3, <2>4 DEF DoneIsOnDisk
  <2> QED BY <1>t, <1>f, <2>1, <2>2, <2>3, <2>4, <2>5, <2>6, <2>7, <2>8, <2>9, <2>10,
            <2>11, <2>12 DEF IInv
<1>8. ASSUME NEW j \in Jobs, Enqueue(j)
      PROVE  IInv'
  <2>1. /\ UNCHANGED <<posting, phase, worker, marking, cancel, sweep, manifest,
                       transcript, source, error, todo, held, overwritten>>
        /\ \A k \in Jobs : CopyOf(k)' = CopyOf(k)
        /\ phase = "up" /\ req[j] = "patched"
        /\ \A k \in Jobs : req'[k] = IF k = j THEN "end" ELSE req[k]
        /\ \A k \in Jobs :
             status'[k] = IF k = j /\ status[k] \in {"uploading", "queued"}
                          THEN "queued" ELSE status[k]
    BY <1>8, <1>u DEF Enqueue, DbType, QuietBoot
  <2>2. QuietBoot'
    BY <2>1 DEF QuietBoot
  <2>3. RowFirst'
    BY <2>1 DEF RowFirst
  <2>4. RunIsOwned'
    BY <2>1 DEF RunIsOwned, RunPc, Active
  <2>5. CancelIsExclusive'
    BY <2>1 DEF CancelIsExclusive
  <2>6. RanIsSettled'
    BY <2>1 DEF RanIsSettled, Active
  <2>7. HeldIsOlder'
    BY <2>1 DEF HeldIsOlder
  <2>8. ActiveIsOwned'
    BY <2>1 DEF ActiveIsOwned, Active
  <2>9. DoneIsOnDisk'
    BY <2>1 DEF DoneIsOnDisk
  <2> QED BY <1>t, <1>f, <2>1, <2>2, <2>3, <2>4, <2>5, <2>6, <2>7, <2>8, <2>9 DEF IInv
<1>9. ASSUME NEW j \in Jobs, Age(j)
      PROVE  IInv'
  <2>1. /\ UNCHANGED <<posting, phase, worker, marking, req, cancel, sweep, status, manifest,
                       transcript, source, error, todo, held, overwritten>>
        /\ \A k \in Jobs : CopyOf(k)' = CopyOf(k)
    BY <1>9, <1>u DEF Age
  <2> QED BY <1>t, <1>f, <2>1 DEF IInv
<1>10. ASSUME NEW j \in Jobs, PullSelect(j)
       PROVE  IInv'
  <2>1. /\ UNCHANGED <<posting, phase, marking, req, cancel, sweep, status, manifest,
                       transcript, source, error, todo, held, overwritten>>
        /\ \A k \in Jobs : CopyOf(k)' = CopyOf(k)
        /\ phase = "up" /\ worker.pc = "poll" /\ status[j] = "queued"
        /\ worker'.pc = "picked" /\ worker'.job = j /\ worker'.copy = NoCopy
    BY <1>10, <1>u DEF PullSelect, WorkerAt
  <2>2. QuietBoot'
    BY <2>1 DEF QuietBoot
  <2>3. RunIsOwned'
    BY <2>1 DEF RunIsOwned, RunPc, SourcePc, TranscriptPc
  <2>4. CancelIsExclusive'
    BY <2>1 DEF CancelIsExclusive, RunPc
  <2>5. RanIsSettled'
    BY <2>1 DEF RanIsSettled, Active
  <2>6. ActiveIsOwned'
    BY <2>1 DEF ActiveIsOwned, RunPc
  <2> QED BY <1>t, <1>f, <2>1, <2>2, <2>3, <2>4, <2>5, <2>6 DEF IInv
<1>11. ASSUME PullNothing
       PROVE  IInv'
  <2>1. /\ UNCHANGED <<posting, phase, marking, req, cancel, sweep, status, manifest,
                       transcript, source, error, todo, held, overwritten>>
        /\ \A k \in Jobs : CopyOf(k)' = CopyOf(k)
        /\ phase = "up" /\ worker.pc = "poll" /\ worker'.pc = "wait"
        /\ worker.job = NoJob /\ worker'.job = NoJob /\ worker'.copy = worker.copy
    BY <1>11, <1>u DEF PullNothing, WorkerAt, GoTo, WorkerType, IdlePc
  <2>2. QuietBoot'
    BY <2>1 DEF QuietBoot
  <2>3. RunIsOwned'
    BY <2>1 DEF RunIsOwned, RunPc, SourcePc, TranscriptPc
  <2>4. CancelIsExclusive'
    BY <2>1 DEF CancelIsExclusive, RunPc
  <2>5. RanIsSettled'
    BY <2>1 DEF RanIsSettled
  <2>6. ActiveIsOwned'
    BY <2>1 DEF ActiveIsOwned, RunPc
  <2> QED BY <1>t, <1>f, <2>1, <2>2, <2>3, <2>4, <2>5, <2>6 DEF IInv
<1>12. ASSUME PullClaim
       PROVE  IInv'
  <2>1. /\ UNCHANGED <<posting, phase, marking, req, cancel, sweep, manifest,
                       transcript, source, error, todo, held, overwritten>>
        /\ \A k \in Jobs : CopyOf(k)' = CopyOf(k)
        /\ phase = "up" /\ worker.pc = "picked" /\ worker.job \in Jobs
    BY <1>12, <1>u DEF PullClaim, WorkerAt
  <2>2. /\ worker'.copy \in {worker.copy, NoCopy}
        /\ \/ /\ status[worker.job] = "queued"
              /\ worker'.pc = "claimed" /\ worker'.job = worker.job
              /\ \A k \in Jobs : status'[k] = IF k = worker.job THEN "starting" ELSE status[k]
           \/ worker'.pc = "wait" /\ worker'.job = NoJob /\ status' = status
    <3>1. CASE status[worker.job] = "queued"
      <4>1. SetStatus(worker.job, "starting") /\ GoTo("claimed") /\ HasRow(worker.job)
        BY <1>12, <3>1 DEF PullClaim, HasRow
      <4>2. \A k \in Jobs : status'[k] = IF k = worker.job THEN "starting" ELSE status[k]
        BY <2>1, <4>1, RowNames, SetStatusIs
      <4> QED BY <2>1, <3>1, <4>1, <4>2, PcNames, GoToIs
    <3>2. CASE status[worker.job] # "queued"
      BY <1>12, <3>2 DEF PullClaim, IdleWorker
    <3> QED BY <3>1, <3>2
  <2>3. QuietBoot'
    BY <2>1, <2>2 DEF QuietBoot
  <2>4. RowFirst'
    BY <2>1, <2>2 DEF RowFirst
  <2>5. RunIsOwned'
    BY <2>1, <2>2 DEF RunIsOwned, RunPc, SourcePc, TranscriptPc, Active
  <2>6. CancelIsExclusive'
    BY <2>1, <2>2 DEF CancelIsExclusive, RunPc
  <2>7. RanIsSettled'
    BY <2>1, <2>2, NoJobIsNone DEF RanIsSettled, Active
  <2>8. ActiveIsOwned'
    BY <2>1, <2>2 DEF ActiveIsOwned, RunPc
  <2>9. DoneIsOnDisk'
    BY <2>1, <2>2 DEF DoneIsOnDisk
  <2> QED BY <1>t, <1>f, <2>1, <2>2, <2>3, <2>4, <2>5, <2>6, <2>7, <2>8, <2>9 DEF IInv
<1>13. ASSUME NEW b \in BOOLEAN, WakeUp(b)
       PROVE  IInv'
  <2>1. /\ UNCHANGED <<posting, phase, marking, req, cancel, sweep, status, manifest,
                       transcript, source, error, todo, held, overwritten>>
        /\ \A k \in Jobs : CopyOf(k)' = CopyOf(k)
        /\ phase = "up" /\ worker.pc = "wait" /\ worker'.pc = "poll"
        /\ worker.job = NoJob /\ worker'.job = NoJob /\ worker'.copy = worker.copy
    BY <1>13, <1>u DEF WakeUp, WorkerAt, GoTo, WorkerType, IdlePc
  <2>2. QuietBoot'
    BY <2>1 DEF QuietBoot
  <2>3. RunIsOwned'
    BY <2>1 DEF RunIsOwned, RunPc, SourcePc, TranscriptPc
  <2>4. CancelIsExclusive'
    BY <2>1 DEF CancelIsExclusive, RunPc
  <2>5. RanIsSettled'
    BY <2>1 DEF RanIsSettled
  <2>6. ActiveIsOwned'
    BY <2>1 DEF ActiveIsOwned, RunPc
  <2> QED BY <1>t, <1>f, <2>1, <2>2, <2>3, <2>4, <2>5, <2>6 DEF IInv
<1>14. ASSUME RunStart
       PROVE  IInv'
  <2>1. /\ UNCHANGED <<posting, phase, marking, req, cancel, sweep, status, manifest,
                       transcript, source, error, todo, held, overwritten>>
        /\ \A k \in Jobs : CopyOf(k)' = CopyOf(k)
        /\ phase = "up" /\ worker.pc = "claimed" /\ worker.job \in Jobs
    BY <1>14, <1>u DEF RunStart, WorkerAt
  <2>2. /\ worker'.job = worker.job /\ worker'.pc = StartPc(worker.job)
        /\ worker'.copy = IF StartPc(worker.job) = "loading" THEN CopyOf(worker.job) ELSE NoCopy
    <3>1. StartPc(worker.job) \in WorkerPc \ IdlePc
      BY <2>1, StartPcType, PcNames
    <3>2. (IF StartPc(worker.job) = "loading" THEN CopyOf(worker.job) ELSE NoCopy) \in Copy
      BY <2>1, CopyIs
    <3> QED BY <1>14, <2>1, <3>1, <3>2, MoveIs DEF RunStart, IdlePc
  <2>3. /\ manifest[worker.job] \notin Ran
        /\ \/ worker'.pc = "failing"
           \/ /\ worker'.pc \in {"loading", "read done"}
              /\ manifest[worker.job] # "absent" /\ worker.job \in source
              /\ worker'.pc = "read done" => worker.job \in transcript
    <3>1. manifest[worker.job] \notin Ran
      BY <2>1 DEF RanIsSettled
    <3>2. Unposted(CopyOf(worker.job))
      BY <2>1 DEF NothingPosted
    <3>3. manifest[worker.job] # "done"
      BY <3>1 DEF Ran
    <3> QED BY <2>1, <2>2, <3>1, <3>2, <3>3, StartPcIs
  <2>4. NothingPosted'
    BY <2>1, <2>2, <2>3, <1>n DEF NothingPosted
  <2>5. QuietBoot'
    BY <2>1, <2>2, <2>3 DEF QuietBoot
  <2>6. RunIsOwned'
    BY <2>1, <2>2, <2>3 DEF RunIsOwned, RunPc, SourcePc, TranscriptPc
  <2>7. CancelIsExclusive'
    BY <2>1, <2>2, <2>3 DEF CancelIsExclusive, RunPc
  <2>8. RanIsSettled'
    BY <2>1, <2>2, <2>3 DEF RanIsSettled
  <2>9. ActiveIsOwned'
    BY <2>1, <2>2, <2>3 DEF ActiveIsOwned, RunPc
  <2> QED BY <1>t, <1>f, <2>1, <2>2, <2>3, <2>4, <2>5, <2>6, <2>7, <2>8, <2>9 DEF IInv
<1>15. ASSUME LoadAdapter
       PROVE  IInv'
  <2>1. /\ UNCHANGED <<posting, phase, marking, req, cancel, sweep, status, manifest,
                       transcript, source, error, todo, held, overwritten>>
        /\ \A k \in Jobs : CopyOf(k)' = CopyOf(k)
        /\ phase = "up" /\ worker.pc = "loading" /\ worker.job \in Jobs
    BY <1>15, <1>u DEF LoadAdapter, WorkerAt
  <2>2. /\ worker'.job = worker.job /\ worker'.pc \in {"transcribing", "failing"}
        /\ worker'.copy = NoCopy
    <3>1. \E pc \in {"transcribing", "failing"} :
             worker' = [worker EXCEPT !.pc = pc, !.copy = NoCopy]
      BY <1>15 DEF LoadAdapter
    <3> QED BY <2>1, <3>1, PcNames, CopyIs, MoveIs DEF IdlePc
  <2>3. QuietBoot'
    BY <2>1, <2>2 DEF QuietBoot
  <2>4. RunIsOwned'
    BY <2>1, <2>2 DEF RunIsOwned, RunPc, SourcePc, TranscriptPc
  <2>5. CancelIsExclusive'
    BY <2>1, <2>2 DEF CancelIsExclusive, RunPc
  <2>6. RanIsSettled'
    BY <2>1, <2>2 DEF RanIsSettled
  <2>7. ActiveIsOwned'
    BY <2>1, <2>2 DEF ActiveIsOwned, RunPc
  <2> QED BY <1>t, <1>f, <2>1, <2>2, <2>3, <2>4, <2>5, <2>6, <2>7 DEF IInv
<1>16. ASSUME WriteProgress
       PROVE  IInv'
  <2>1. /\ UNCHANGED <<posting, phase, worker, marking, req, cancel, sweep, status, manifest,
                       transcript, source, error, todo, held, overwritten>>
        /\ \A k \in Jobs : CopyOf(k)' = CopyOf(k)
    BY <1>16, <1>u DEF WriteProgress
  <2> QED BY <1>t, <1>f, <2>1 DEF IInv
<1>17. ASSUME LastBoundary
       PROVE  IInv'
  <2>1. /\ UNCHANGED <<posting, phase, marking, req, cancel, sweep, status, manifest,
                       transcript, source, error, todo, held, overwritten>>
        /\ \A k \in Jobs : CopyOf(k)' = CopyOf(k)
        /\ phase = "up" /\ worker.pc = "transcribing" /\ worker.job \in Jobs
        /\ worker'.job = worker.job /\ worker'.pc \in {"decoding", "cancelling"}
        /\ worker'.copy = worker.copy
    BY <1>17, <1>u, PcNames, GoToIs DEF LastBoundary, WorkerAt
  <2>2. QuietBoot'
    BY <2>1 DEF QuietBoot
  <2>3. RunIsOwned'
    BY <2>1 DEF RunIsOwned, RunPc, SourcePc, TranscriptPc
  <2>4. CancelIsExclusive'
    BY <2>1 DEF CancelIsExclusive, RunPc
  <2>5. RanIsSettled'
    BY <2>1 DEF RanIsSettled
  <2>6. ActiveIsOwned'
    BY <2>1 DEF ActiveIsOwned, RunPc
  <2> QED BY <1>t, <1>f, <2>1, <2>2, <2>3, <2>4, <2>5, <2>6 DEF IInv
<1>18. ASSUME WriteTranscript
       PROVE  IInv'
  <2>1. /\ UNCHANGED <<posting, phase, marking, req, cancel, sweep, status,
                       manifest, source, error, todo, held, overwritten>>
        /\ \A k \in Jobs : CopyOf(k)' = CopyOf(k)
        /\ phase = "up" /\ worker.pc = "decoding" /\ worker.job \in Jobs
        /\ worker'.job = worker.job /\ worker'.pc = "read transcribed"
        /\ worker'.copy = worker.copy
        /\ transcript' = transcript \cup {worker.job}
        /\ manifest[worker.job] # "absent"
    BY <1>18, <1>u, PcNames, GoToIs DEF WriteTranscript, WorkerAt, RunIsOwned, SourcePc
  <2>2. QuietBoot'
    BY <2>1 DEF QuietBoot
  <2>3. RowFirst'
    BY <2>1 DEF RowFirst, RunIsOwned, RunPc, Active
  <2>4. RunIsOwned'
    BY <2>1 DEF RunIsOwned, RunPc, SourcePc
  <2>5. CancelIsExclusive'
    BY <2>1 DEF CancelIsExclusive, RunPc
  <2>6. RanIsSettled'
    BY <2>1 DEF RanIsSettled
  <2>7. ActiveIsOwned'
    BY <2>1 DEF ActiveIsOwned, RunPc
  <2>8. DoneIsOnDisk'
    BY <2>1 DEF DoneIsOnDisk
  <2> QED BY <1>t, <1>f, <2>1, <2>2, <2>3, <2>4, <2>5, <2>6, <2>7, <2>8 DEF IInv
<1>19. ASSUME RunError
       PROVE  IInv'
  <2>1. /\ UNCHANGED <<posting, phase, marking, req, cancel, sweep, status, manifest,
                       transcript, source, error, todo, held, overwritten>>
        /\ \A k \in Jobs : CopyOf(k)' = CopyOf(k)
        /\ phase = "up" /\ worker.pc \in SourcePc \ TranscriptPc /\ worker.job \in Jobs
        /\ worker'.job = worker.job /\ worker'.pc = "failing" /\ worker'.copy = NoCopy
    BY <1>19, <1>u, PcNames, CopyIs, MoveIs DEF RunError, SourcePc, TranscriptPc
  <2>2. QuietBoot'
    BY <2>1 DEF QuietBoot
  <2>3. RunIsOwned'
    BY <2>1 DEF RunIsOwned, RunPc, SourcePc, TranscriptPc
  <2>4. CancelIsExclusive'
    BY <2>1 DEF CancelIsExclusive, RunPc, SourcePc
  <2>5. RanIsSettled'
    BY <2>1 DEF RanIsSettled, SourcePc, TranscriptPc
  <2>6. ActiveIsOwned'
    BY <2>1 DEF ActiveIsOwned, RunPc, SourcePc
  <2> QED BY <1>t, <1>f, <2>1, <2>2, <2>3, <2>4, <2>5, <2>6 DEF IInv
<1>20. ASSUME NEW at, NEW next, UpdateRead(at, next),
            <<at, next>> \in {<<"read transcribed", "write transcribed">>,
                             <<"read done", "write done">>}
       PROVE  IInv'
  <2>1. /\ UNCHANGED <<posting, phase, marking, req, cancel, sweep, status, manifest,
                       transcript, source, error, todo, held, overwritten>>
        /\ \A k \in Jobs : CopyOf(k)' = CopyOf(k)
        /\ phase = "up" /\ worker.pc = at /\ worker.job \in Jobs
        /\ manifest[worker.job] # "absent"
    BY <1>20, <1>u DEF UpdateRead, WorkerAt, RunIsOwned, SourcePc
  <2>2. /\ worker'.job = worker.job /\ worker'.pc = next
        /\ worker'.copy = CopyOf(worker.job)
    <3>1. worker' = [worker EXCEPT !.pc = next, !.copy = CopyOf(worker.job)]
      BY <1>20, <2>1 DEF UpdateRead
    <3> QED BY <1>20, <2>1, <3>1, PcNames, CopyIs, MoveIs DEF IdlePc
  <2>3. NothingPosted'
    BY <2>1, <2>2, <1>n, <1>20 DEF NothingPosted
  <2>4. QuietBoot'
    BY <2>1, <2>2, <1>20 DEF QuietBoot
  <2>5. RunIsOwned'
    BY <2>1, <2>2, <1>20 DEF RunIsOwned, RunPc, SourcePc, TranscriptPc
  <2>6. CancelIsExclusive'
    BY <2>1, <2>2, <1>20 DEF CancelIsExclusive, RunPc
  <2>7. RanIsSettled'
    BY <2>1, <2>2, <1>20 DEF RanIsSettled
  <2>8. ActiveIsOwned'
    BY <2>1, <2>2, <1>20 DEF ActiveIsOwned, RunPc
  <2> QED BY <1>t, <1>f, <2>1, <2>2, <2>3, <2>4, <2>5, <2>6, <2>7, <2>8 DEF IInv
<1>21. ASSUME UpdateWrite("write transcribed", "transcribed", "row transcribed")
       PROVE  IInv'
  <2>1. /\ UNCHANGED <<posting, phase, marking, req, cancel, sweep, status, transcript, source,
                       error, todo, held, overwritten>>
        /\ phase = "up" /\ worker.pc = "write transcribed" /\ worker.job \in Jobs
        /\ worker.job \in source /\ worker.job \in transcript
        /\ status[worker.job] \in Active \cup {"failed", "deleted"}
        /\ manifest[worker.job] # "absent" /\ manifest[worker.job] \notin Ran
    BY <1>21, <1>u DEF UpdateWrite, WriteManifest, WorkerAt, RunIsOwned, RunPc, SourcePc,
       TranscriptPc, RanIsSettled
  <2>2. /\ worker'.job = worker.job /\ worker'.copy = NoCopy
        /\ \/ /\ worker'.pc = "row transcribed"
              /\ \A k \in Jobs :
                   /\ manifest'[k] = IF k = worker.job THEN "transcribed" ELSE manifest[k]
                   /\ CopyOf(k)' = IF k = worker.job THEN [worker.copy EXCEPT !.stage = "transcribed"]
                                                     ELSE CopyOf(k)
           \/ /\ worker'.pc = "failing" /\ manifest' = manifest
              /\ \A k \in Jobs : CopyOf(k)' = CopyOf(k)
    <3>1. /\ [worker.copy EXCEPT !.stage = "transcribed"] \in Copy
          /\ [worker.copy EXCEPT !.stage = "transcribed"].stage = "transcribed"
      BY CopyIs, StageNames DEF WorkerType, Copy
    <3>2. ASSUME NEW pc \in {"row transcribed", "failing"},
                 worker' = [worker EXCEPT !.pc = pc, !.copy = NoCopy]
          PROVE  worker'.job = worker.job /\ worker'.copy = NoCopy /\ worker'.pc = pc
      BY <2>1, <3>2, PcNames, CopyIs, MoveIs DEF IdlePc
    <3>3. CASE /\ WriteManifest(worker.job, [worker.copy EXCEPT !.stage = "transcribed"])
               /\ worker' = [worker EXCEPT !.pc = "row transcribed", !.copy = NoCopy]
      <4>1. ASSUME NEW j \in Jobs, NEW m \in Copy, j = worker.job, m.stage = "transcribed",
                   WriteManifest(j, m)
            PROVE  \A k \in Jobs : /\ manifest'[k] = IF k = j THEN "transcribed" ELSE manifest[k]
                                   /\ CopyOf(k)' = IF k = j THEN m ELSE CopyOf(k)
        BY <4>1, WriteManifestIs
      <4> QED BY <2>1, <3>1, <3>2, <3>3, <4>1
    <3>4. CASE UNCHANGED folder /\ worker' = [worker EXCEPT !.pc = "failing", !.copy = NoCopy]
      BY <1>u, <3>2, <3>4
    <3> QED BY <1>21, <3>3, <3>4 DEF UpdateWrite
  <2>3. NothingPosted'
    <3>1. Unposted([worker.copy EXCEPT !.stage = "transcribed"])
      BY DEF NothingPosted, Unposted, WorkerType, Copy, Ran
    <3>2. ASSUME NEW k \in Jobs PROVE Unposted(CopyOf(k)')
      <4>1. Unposted(CopyOf(k))
        BY DEF NothingPosted
      <4>2. CopyOf(k)' = CopyOf(k) \/ CopyOf(k)' = [worker.copy EXCEPT !.stage = "transcribed"]
        BY <2>2
      <4> QED BY <3>1, <4>1, <4>2
    <3> QED BY <1>n, <2>1, <2>2, <3>2 DEF NothingPosted
  <2>4. QuietBoot'
    BY <2>1, <2>2 DEF QuietBoot
  <2>5. RowFirst'
    BY <2>1, <2>2 DEF RowFirst, Active
  <2>6. RunIsOwned'
    BY <2>1, <2>2 DEF RunIsOwned, RunPc, SourcePc, TranscriptPc
  <2>7. CancelIsExclusive'
    BY <2>1, <2>2 DEF CancelIsExclusive, RunPc
  <2>8. RanIsSettled'
    BY <2>1, <2>2 DEF RanIsSettled, Ran
  <2>9. HeldIsOlder'
    <3>1. \A k \in Jobs : manifest[k] \in Ran => manifest'[k] \in Ran
      BY <2>1, <2>2 DEF Ran
    <3>2. \A k \in Jobs : manifest[k] = "done" => manifest'[k] = "done"
      BY <2>1, <2>2 DEF Ran
    <3> QED BY <2>1, <3>1, <3>2 DEF HeldIsOlder
  <2>10. ActiveIsOwned'
    BY <2>1, <2>2 DEF ActiveIsOwned, RunPc
  <2>11. DoneIsOnDisk'
    BY <2>1, <2>2 DEF DoneIsOnDisk, Active
  <2> QED BY <1>t, <1>f, <2>1, <2>2, <2>3, <2>4, <2>5, <2>6, <2>7, <2>8, <2>9, <2>10,
            <2>11 DEF IInv
<1>22. ASSUME UpdateWrite("write done", "done", "row done")
       PROVE  IInv'
  <2>1. /\ UNCHANGED <<posting, phase, marking, req, cancel, sweep, status, transcript, source,
                       error, todo, held, overwritten>>
        /\ phase = "up" /\ worker.pc = "write done" /\ worker.job \in Jobs
        /\ worker.job \in source /\ worker.job \in transcript
        /\ status[worker.job] \in Active \cup {"failed", "deleted"}
        /\ manifest[worker.job] # "absent" /\ manifest[worker.job] # "done"
    BY <1>22, <1>u DEF UpdateWrite, WriteManifest, WorkerAt, RunIsOwned, RunPc, SourcePc,
       TranscriptPc, RanIsSettled, Ran
  <2>2. /\ worker'.job = worker.job /\ worker'.copy = NoCopy
        /\ \/ /\ worker'.pc = "row done"
              /\ \A k \in Jobs :
                   /\ manifest'[k] = IF k = worker.job THEN "done" ELSE manifest[k]
                   /\ CopyOf(k)' = IF k = worker.job THEN [worker.copy EXCEPT !.stage = "done"]
                                                     ELSE CopyOf(k)
           \/ /\ worker'.pc = "failing" /\ manifest' = manifest
              /\ \A k \in Jobs : CopyOf(k)' = CopyOf(k)
    <3>1. /\ [worker.copy EXCEPT !.stage = "done"] \in Copy
          /\ [worker.copy EXCEPT !.stage = "done"].stage = "done"
      BY CopyIs, StageNames DEF WorkerType, Copy
    <3>2. ASSUME NEW pc \in {"row done", "failing"},
                 worker' = [worker EXCEPT !.pc = pc, !.copy = NoCopy]
          PROVE  worker'.job = worker.job /\ worker'.copy = NoCopy /\ worker'.pc = pc
      BY <2>1, <3>2, PcNames, CopyIs, MoveIs DEF IdlePc
    <3>3. CASE /\ WriteManifest(worker.job, [worker.copy EXCEPT !.stage = "done"])
               /\ worker' = [worker EXCEPT !.pc = "row done", !.copy = NoCopy]
      <4>1. ASSUME NEW j \in Jobs, NEW m \in Copy, j = worker.job, m.stage = "done",
                   WriteManifest(j, m)
            PROVE  \A k \in Jobs : /\ manifest'[k] = IF k = j THEN "done" ELSE manifest[k]
                                   /\ CopyOf(k)' = IF k = j THEN m ELSE CopyOf(k)
        BY <4>1, WriteManifestIs
      <4> QED BY <2>1, <3>1, <3>2, <3>3, <4>1
    <3>4. CASE UNCHANGED folder /\ worker' = [worker EXCEPT !.pc = "failing", !.copy = NoCopy]
      BY <1>u, <3>2, <3>4
    <3> QED BY <1>22, <3>3, <3>4 DEF UpdateWrite
  <2>3. NothingPosted'
    <3>1. Unposted([worker.copy EXCEPT !.stage = "done"])
      BY DEF NothingPosted, Unposted, WorkerType, Copy, Ran
    <3>2. ASSUME NEW k \in Jobs PROVE Unposted(CopyOf(k)')
      <4>1. Unposted(CopyOf(k))
        BY DEF NothingPosted
      <4>2. CopyOf(k)' = CopyOf(k) \/ CopyOf(k)' = [worker.copy EXCEPT !.stage = "done"]
        BY <2>2
      <4> QED BY <3>1, <4>1, <4>2
    <3> QED BY <1>n, <2>1, <2>2, <3>2 DEF NothingPosted
  <2>4. QuietBoot'
    BY <2>1, <2>2 DEF QuietBoot
  <2>5. RowFirst'
    BY <2>1, <2>2 DEF RowFirst, Active
  <2>6. RunIsOwned'
    BY <2>1, <2>2 DEF RunIsOwned, RunPc, SourcePc, TranscriptPc
  <2>7. CancelIsExclusive'
    BY <2>1, <2>2 DEF CancelIsExclusive, RunPc
  <2>8. RanIsSettled'
    BY <2>1, <2>2 DEF RanIsSettled, Ran
  <2>9. HeldIsOlder'
    <3>1. \A k \in Jobs : manifest[k] \in Ran => manifest'[k] \in Ran
      BY <2>1, <2>2 DEF Ran
    <3>2. \A k \in Jobs : manifest[k] = "done" => manifest'[k] = "done"
      BY <2>1, <2>2 DEF Ran
    <3> QED BY <2>1, <3>1, <3>2 DEF HeldIsOlder
  <2>10. ActiveIsOwned'
    BY <2>1, <2>2 DEF ActiveIsOwned, RunPc
  <2>11. DoneIsOnDisk'
    BY <2>1, <2>2 DEF DoneIsOnDisk, Active
  <2> QED BY <1>t, <1>f, <2>1, <2>2, <2>3, <2>4, <2>5, <2>6, <2>7, <2>8, <2>9, <2>10,
            <2>11 DEF IInv
<1>23. ASSUME UpdateRow("row transcribed", "transcribing", "read done")
       PROVE  IInv'
  <2>1. /\ UNCHANGED <<posting, phase, marking, req, cancel, sweep, manifest, transcript, source,
                       error, todo, held, overwritten>>
        /\ \A k \in Jobs : CopyOf(k)' = CopyOf(k)
        /\ phase = "up" /\ worker.pc = "row transcribed" /\ worker.job \in Jobs
        /\ worker'.job = worker.job /\ worker'.pc = "read done" /\ worker'.copy = worker.copy
        /\ worker.job \in source /\ worker.job \in transcript
        /\ status[worker.job] \in Active \cup {"failed", "deleted"}
        /\ manifest[worker.job] # "absent"
    BY <1>23, <1>u, PcNames, GoToIs DEF UpdateRow, WorkerAt, RunIsOwned, RunPc, SourcePc,
       TranscriptPc
  <2>2. \A k \in Jobs :
          status'[k] = IF k = worker.job /\ HasRow(k) THEN "transcribing" ELSE status[k]
    <3>1. SetStatus(worker.job, "transcribing") /\ "transcribing" \in RowStatus
      BY <1>23, RowNames DEF UpdateRow
    <3> QED BY <2>1, <3>1, SetStatusIs
  <2>3. QuietBoot'
    BY <2>1, <2>2 DEF QuietBoot
  <2>4. RowFirst'
    BY <2>1, <2>2 DEF RowFirst, HasRow, Active
  <2>5. RunIsOwned'
    BY <2>1, <2>2 DEF RunIsOwned, RunPc, SourcePc, TranscriptPc, Active
  <2>6. CancelIsExclusive'
    BY <2>1, <2>2 DEF CancelIsExclusive, RunPc
  <2>7. RanIsSettled'
    BY <2>1, <2>2 DEF RanIsSettled, Active
  <2>8. ActiveIsOwned'
    BY <2>1, <2>2 DEF ActiveIsOwned, HasRow, Active, RunPc
  <2>9. DoneIsOnDisk'
    BY <2>1, <2>2 DEF DoneIsOnDisk, RunIsOwned, Active
  <2> QED BY <1>t, <1>f, <2>1, <2>2, <2>3, <2>4, <2>5, <2>6, <2>7, <2>8, <2>9 DEF IInv
<1>24. ASSUME UpdateRow("row done", "done", "finally")
       PROVE  IInv'
  <2>1. /\ UNCHANGED <<posting, phase, marking, req, cancel, sweep, manifest, transcript, source,
                       error, todo, held, overwritten>>
        /\ \A k \in Jobs : CopyOf(k)' = CopyOf(k)
        /\ phase = "up" /\ worker.pc = "row done" /\ worker.job \in Jobs
        /\ worker'.job = worker.job /\ worker'.pc = "finally" /\ worker'.copy = worker.copy
        /\ worker.job \in source /\ worker.job \in transcript
        /\ status[worker.job] \in Active \cup {"failed", "deleted"}
        /\ manifest[worker.job] # "absent"
    BY <1>24, <1>u, PcNames, GoToIs DEF UpdateRow, WorkerAt, RunIsOwned, RunPc, SourcePc,
       TranscriptPc
  <2>2. \A k \in Jobs :
          status'[k] = IF k = worker.job /\ HasRow(k) THEN "done" ELSE status[k]
    <3>1. SetStatus(worker.job, "done") /\ "done" \in RowStatus
      BY <1>24, RowNames DEF UpdateRow
    <3> QED BY <2>1, <3>1, SetStatusIs
  <2>3. QuietBoot'
    BY <2>1, <2>2 DEF QuietBoot
  <2>4. RowFirst'
    BY <2>1, <2>2 DEF RowFirst, HasRow, Active
  <2>5. RunIsOwned'
    BY <2>1, <2>2 DEF RunIsOwned, RunPc, SourcePc, TranscriptPc, Active
  <2>6. CancelIsExclusive'
    BY <2>1, <2>2 DEF CancelIsExclusive, RunPc
  <2>7. RanIsSettled'
    BY <2>1, <2>2 DEF RanIsSettled, Active
  <2>8. ActiveIsOwned'
    BY <2>1, <2>2 DEF ActiveIsOwned, HasRow, Active, RunPc
  <2>9. DoneIsOnDisk'
    BY <2>1, <2>2 DEF DoneIsOnDisk, RunIsOwned, Active
  <2> QED BY <1>t, <1>f, <2>1, <2>2, <2>3, <2>4, <2>5, <2>6, <2>7, <2>8, <2>9 DEF IInv
<1>25. ASSUME RunFailed
       PROVE  IInv'
  <2>1. /\ UNCHANGED <<posting, phase, marking, req, cancel, sweep, manifest,
                       transcript, source, todo, held, overwritten>>
        /\ \A k \in Jobs : CopyOf(k)' = CopyOf(k)
        /\ phase = "up" /\ worker.pc = "failing" /\ worker.job \in Jobs
        /\ worker'.job = worker.job /\ worker'.pc = "finally" /\ worker'.copy = worker.copy
    BY <1>25, <1>u, PcNames, GoToIs DEF RunFailed, WorkerAt
  <2>2. \A k \in Jobs :
          /\ status'[k] = IF k = worker.job /\ HasRow(k) THEN "failed" ELSE status[k]
          /\ error'[k] = IF k = worker.job /\ HasRow(k) THEN "run failed" ELSE error[k]
    BY <1>25, <2>1, ErrorNames, MarkFailedIs DEF RunFailed
  <2>3. QuietBoot'
    BY <2>1, <2>2 DEF QuietBoot
  <2>4. RowFirst'
    BY <2>1, <2>2 DEF RowFirst, HasRow
  <2>5. RunIsOwned'
    BY <2>1, <2>2 DEF RunIsOwned, RunPc, SourcePc, TranscriptPc
  <2>6. CancelIsExclusive'
    BY <2>1, <2>2 DEF CancelIsExclusive, RunPc
  <2>7. RanIsSettled'
    BY <2>1, <2>2 DEF RanIsSettled
  <2>8. ActiveIsOwned'
    BY <2>1, <2>2 DEF ActiveIsOwned, HasRow, Active
  <2>9. DoneIsOnDisk'
    BY <2>1, <2>2 DEF DoneIsOnDisk
  <2> QED BY <1>t, <1>f, <2>1, <2>2, <2>3, <2>4, <2>5, <2>6, <2>7, <2>8, <2>9 DEF IInv
<1>26. ASSUME RunCancelled
       PROVE  IInv'
  <2>1. /\ UNCHANGED <<posting, phase, marking, req, cancel, sweep, manifest,
                       transcript, source, error, todo, held, overwritten>>
        /\ \A k \in Jobs : CopyOf(k)' = CopyOf(k)
        /\ phase = "up" /\ worker.pc = "cancelling" /\ worker.job \in Jobs
        /\ worker'.job = worker.job /\ worker'.copy = worker.copy
        /\ worker'.pc = IF HasRow(worker.job) THEN "rmtree" ELSE "finally"
    BY <1>26, <1>u, PcNames, GoToIs DEF RunCancelled, WorkerAt
  <2>2. \A k \in Jobs :
          status'[k] = IF k = worker.job /\ HasRow(k) THEN "cancelled" ELSE status[k]
    BY <1>26, <2>1, RowNames, SetStatusIs DEF RunCancelled
  <2>3. QuietBoot'
    BY <2>1, <2>2 DEF QuietBoot
  <2>4. RowFirst'
    BY <2>1, <2>2 DEF RowFirst, HasRow
  <2>5. RunIsOwned'
    BY <2>1, <2>2 DEF RunIsOwned, RunPc, SourcePc, TranscriptPc
  <2>6. CancelIsExclusive'
    BY <2>1, <2>2 DEF CancelIsExclusive, RunPc
  <2>7. RanIsSettled'
    BY <2>1, <2>2 DEF RanIsSettled
  <2>8. ActiveIsOwned'
    BY <2>1, <2>2 DEF ActiveIsOwned, HasRow, Active
  <2>9. DoneIsOnDisk'
    BY <2>1, <2>2 DEF DoneIsOnDisk
  <2> QED BY <1>t, <1>f, <2>1, <2>2, <2>3, <2>4, <2>5, <2>6, <2>7, <2>8, <2>9 DEF IInv
<1>27. ASSUME RunRmtree
       PROVE  IInv'
  <2>1. /\ UNCHANGED <<posting, phase, marking, req, cancel, sweep, status, error, todo, held>>
        /\ phase = "up" /\ worker.pc = "rmtree" /\ worker.job \in Jobs
        /\ worker'.job = worker.job /\ worker'.pc = "finally" /\ worker'.copy = worker.copy
    BY <1>27, <1>u, PcNames, GoToIs DEF RunRmtree, WorkerAt
  <2>2. /\ \A k \in Jobs \ {worker.job} :
             /\ manifest'[k] = manifest[k] /\ CopyOf(k)' = CopyOf(k)
             /\ k \in source' <=> k \in source
             /\ k \in transcript' <=> k \in transcript
        /\ \/ manifest'[worker.job] = "absent" /\ CopyOf(worker.job)' = NoCopy
           \/ manifest'[worker.job] = manifest[worker.job] /\ CopyOf(worker.job)' = CopyOf(worker.job)
        /\ source' \subseteq source /\ transcript' \subseteq transcript
        /\ overwritten' = overwritten
    BY <1>27, <2>1, RmtreeIs DEF RunRmtree
  <2>3. /\ status[worker.job] \in {"cancelled", "failed", "deleted"}
        /\ manifest[worker.job] \notin Ran
    BY <2>1 DEF RunIsOwned, RanIsSettled
  <2>4. NothingPosted'
    <3>1. \A k \in Jobs : CopyOf(k)' \in {NoCopy, CopyOf(k)}
      BY <2>1, <2>2
    <3> QED BY <1>n, <2>1, <3>1 DEF NothingPosted
  <2>5. QuietBoot'
    BY <2>1, <2>2, <2>3 DEF QuietBoot
  <2>6. RowFirst'
    BY <2>1, <2>2, <2>3 DEF RowFirst
  <2>7. RunIsOwned'
    BY <2>1, <2>2, <2>3 DEF RunIsOwned, RunPc, SourcePc, TranscriptPc
  <2>8. CancelIsExclusive'
    BY <2>1, <2>2, <2>3 DEF CancelIsExclusive, RunPc, Ran
  <2>9. RanIsSettled'
    BY <2>1, <2>2, <2>3 DEF RanIsSettled, Ran
  <2>10. HeldIsOlder'
    BY <2>1, <2>2, <2>3 DEF HeldIsOlder, Ran
  <2>11. ActiveIsOwned'
    BY <2>1, <2>2, <2>3 DEF ActiveIsOwned, RunPc
  <2>12. DoneIsOnDisk'
    BY <2>1, <2>2, <2>3 DEF DoneIsOnDisk
  <2> QED BY <1>t, <1>f, <2>1, <2>2, <2>3, <2>4, <2>5, <2>6, <2>7, <2>8, <2>9, <2>10,
            <2>11, <2>12 DEF IInv
<1>28. ASSUME RunFinally
       PROVE  IInv'
  <2>1. /\ UNCHANGED <<posting, phase, marking, req, cancel, sweep, status, manifest,
                       transcript, source, error, todo, held, overwritten>>
        /\ \A k \in Jobs : CopyOf(k)' = CopyOf(k)
        /\ phase = "up" /\ worker.pc = "finally" /\ worker.job \in Jobs
        /\ worker'.pc = "poll" /\ worker'.job = NoJob /\ worker'.copy = NoCopy
    BY <1>28, <1>u DEF RunFinally, WorkerAt, IdleWorker
  <2>2. QuietBoot'
    BY <2>1 DEF QuietBoot
  <2>3. RunIsOwned'
    BY <2>1 DEF RunIsOwned, RunPc, SourcePc, TranscriptPc
  <2>4. CancelIsExclusive'
    BY <2>1 DEF CancelIsExclusive, RunPc
  <2>5. RanIsSettled'
    BY <2>1, NoJobIsNone DEF RanIsSettled
  <2>6. ActiveIsOwned'
    BY <2>1 DEF ActiveIsOwned, RunPc
  <2> QED BY <1>t, <1>f, <2>1, <2>2, <2>3, <2>4, <2>5, <2>6 DEF IInv
<1>29. ASSUME NEW c \in Cancels, NEW j \in Jobs, CancelSelect(c, j)
       PROVE  IInv'
  <2>1. /\ UNCHANGED <<posting, phase, worker, marking, req, sweep, status, manifest,
                       transcript, source, error, todo, held, overwritten>>
        /\ \A k \in Jobs : CopyOf(k)' = CopyOf(k)
        /\ phase = "up" /\ cancel'[c].pc \in {"end", "flip", "flag"}
        /\ \A d \in Cancels : cancel'[d].pc \in {"row", "rmtree"} =>
             cancel[d].pc \in {"row", "rmtree"} /\ cancel'[d].job = cancel[d].job
    BY <1>29, <1>u DEF CancelSelect, CancelAt, CancelType
  <2>2. QuietBoot'
    BY <2>1 DEF QuietBoot
  <2>3. CancelIsExclusive'
    BY <2>1 DEF CancelIsExclusive
  <2> QED BY <1>t, <1>f, <2>1, <2>2, <2>3 DEF IInv
<1>30. ASSUME NEW c \in Cancels, CancelFlip(c)
       PROVE  IInv'
  <2>1. /\ UNCHANGED <<posting, phase, worker, marking, req, sweep, manifest,
                       transcript, source, error, todo, held, overwritten>>
        /\ \A k \in Jobs : CopyOf(k)' = CopyOf(k)
        /\ phase = "up" /\ cancel[c].job \in Jobs
        /\ cancel'[c].job = cancel[c].job /\ \A d \in Cancels \ {c} : cancel'[d] = cancel[d]
        /\ \/ /\ status[cancel[c].job] = "queued" /\ cancel'[c].pc = "row"
              /\ \A k \in Jobs :
                   status'[k] = IF k = cancel[c].job THEN "cancelled" ELSE status[k]
           \/ /\ status[cancel[c].job] # "queued"
              /\ cancel'[c].pc = "flag" /\ status' = status
    BY <1>30, <1>u, CancelNames, RowNames, CancelGoToIs, SetStatusIs DEF CancelFlip,
       CancelAt, HasRow
  <2>2. QuietBoot'
    BY <2>1 DEF QuietBoot
  <2>3. RowFirst'
    BY <2>1 DEF RowFirst
  <2>4. RunIsOwned'
    BY <2>1 DEF RunIsOwned, RunPc, Active
  <2>5. CancelIsExclusive'
    <3>1. CASE cancel'[c].pc = "flag" /\ status' = status
      BY <2>1, <3>1 DEF CancelIsExclusive
    <3>2. CASE status[cancel[c].job] = "queued"
      <4>1. /\ manifest[cancel[c].job] \notin Ran
            /\ worker.job = cancel[c].job => worker.pc \notin RunPc
        BY <2>1, <3>2 DEF RanIsSettled, RunIsOwned, Active
      <4>2. \A d \in Cancels : cancel'[d].job = cancel[d].job
        BY <2>1
      <4>3. status'[cancel[c].job] = "cancelled"
        BY <2>1, <3>2
      <4>4. ASSUME NEW d \in Cancels \ {c}, cancel[d].pc \in {"row", "rmtree"}
            PROVE  status'[cancel[d].job] \in {"cancelled", "failed", "deleted"}
        BY <2>1, <4>4 DEF CancelIsExclusive
      <4> QED BY <2>1, <4>1, <4>2, <4>3, <4>4 DEF CancelIsExclusive
    <3> QED BY <2>1, <3>1, <3>2
  <2>6. RanIsSettled'
    BY <2>1 DEF RanIsSettled, Active
  <2>7. ActiveIsOwned'
    BY <2>1 DEF ActiveIsOwned, Active
  <2>8. DoneIsOnDisk'
    BY <2>1 DEF DoneIsOnDisk
  <2> QED BY <1>t, <1>f, <2>1, <2>2, <2>3, <2>4, <2>5, <2>6, <2>7, <2>8 DEF IInv
<1>31. ASSUME NEW c \in Cancels, CancelRow(c)
       PROVE  IInv'
  <2>1. /\ UNCHANGED <<posting, phase, worker, marking, req, sweep, manifest,
                       transcript, source, error, todo, held, overwritten>>
        /\ \A k \in Jobs : CopyOf(k)' = CopyOf(k)
        /\ phase = "up" /\ cancel[c].job \in Jobs /\ cancel[c].pc = "row"
        /\ cancel'[c].job = cancel[c].job /\ \A d \in Cancels \ {c} : cancel'[d] = cancel[d]
        /\ cancel'[c].pc \in {"rmtree", "end"}
        /\ \A k \in Jobs :
             status'[k] = IF k = cancel[c].job /\ HasRow(k) THEN "cancelled" ELSE status[k]
        /\ \A d \in Cancels : cancel'[d].pc \in {"row", "rmtree"} =>
             cancel[d].pc \in {"row", "rmtree"} /\ cancel'[d].job = cancel[d].job
    BY <1>31, <1>u, CancelNames, RowNames, CancelGoToIs, SetStatusIs DEF CancelRow, CancelAt
  <2>2. QuietBoot'
    BY <2>1 DEF QuietBoot
  <2>3. RowFirst'
    BY <2>1 DEF RowFirst, HasRow
  <2>4. RunIsOwned'
    BY <2>1 DEF RunIsOwned, RunPc, CancelIsExclusive
  <2>5. CancelIsExclusive'
    <3> SUFFICES ASSUME NEW d \in Cancels, cancel'[d].pc \in {"row", "rmtree"}
                 PROVE  /\ status'[cancel[d].job] \in {"cancelled", "failed", "deleted"}
                        /\ manifest[cancel[d].job] \notin Ran
                        /\ worker.job = cancel[d].job => worker.pc \notin RunPc
      BY <2>1 DEF CancelIsExclusive
    <3>1. cancel[d].pc \in {"row", "rmtree"} /\ cancel[d].job \in Jobs
      BY <2>1
    <3> QED BY <2>1, <3>1 DEF CancelIsExclusive
  <2>6. RanIsSettled'
    BY <2>1 DEF RanIsSettled, CancelIsExclusive
  <2>7. ActiveIsOwned'
    BY <2>1 DEF ActiveIsOwned, Active
  <2>8. DoneIsOnDisk'
    BY <2>1 DEF DoneIsOnDisk
  <2> QED BY <1>t, <1>f, <2>1, <2>2, <2>3, <2>4, <2>5, <2>6, <2>7, <2>8 DEF IInv
<1>32. ASSUME NEW c \in Cancels, CancelRmtree(c)
       PROVE  IInv'
  <2>1. /\ UNCHANGED <<posting, phase, worker, marking, req, sweep, status, error, todo, held>>
        /\ phase = "up" /\ cancel[c].job \in Jobs /\ cancel[c].pc = "rmtree"
        /\ cancel'[c].job = cancel[c].job /\ \A d \in Cancels \ {c} : cancel'[d] = cancel[d]
        /\ cancel'[c].pc = "end"
        /\ \A d \in Cancels : cancel'[d].pc \in {"row", "rmtree"} =>
             cancel[d].pc \in {"row", "rmtree"} /\ cancel'[d].job = cancel[d].job
    BY <1>32, <1>u, CancelNames, CancelGoToIs DEF CancelRmtree, CancelAt
  <2>2. /\ \A k \in Jobs \ {cancel[c].job} :
             /\ manifest'[k] = manifest[k] /\ CopyOf(k)' = CopyOf(k)
             /\ k \in source' <=> k \in source
             /\ k \in transcript' <=> k \in transcript
        /\ \/ manifest'[cancel[c].job] = "absent" /\ CopyOf(cancel[c].job)' = NoCopy
           \/ manifest'[cancel[c].job] = manifest[cancel[c].job] /\ CopyOf(cancel[c].job)' = CopyOf(cancel[c].job)
        /\ source' \subseteq source /\ transcript' \subseteq transcript
        /\ overwritten' = overwritten
    BY <1>32, <2>1, RmtreeIs DEF CancelRmtree
  <2>3. /\ status[cancel[c].job] \in {"cancelled", "failed", "deleted"}
        /\ manifest[cancel[c].job] \notin Ran
        /\ worker.job = cancel[c].job => worker.pc \notin RunPc
    BY <2>1 DEF CancelIsExclusive
  <2>4. NothingPosted'
    <3>1. \A k \in Jobs : CopyOf(k)' \in {NoCopy, CopyOf(k)}
      BY <2>1, <2>2
    <3> QED BY <1>n, <2>1, <3>1 DEF NothingPosted
  <2>5. QuietBoot'
    BY <2>1, <2>2, <2>3 DEF QuietBoot
  <2>6. RowFirst'
    BY <2>1, <2>2, <2>3 DEF RowFirst
  <2>7. RunIsOwned'
    BY <2>1, <2>2, <2>3 DEF RunIsOwned, RunPc, SourcePc, TranscriptPc
  <2>8. CancelIsExclusive'
    BY <2>1, <2>2, <2>3 DEF CancelIsExclusive, Ran
  <2>9. RanIsSettled'
    BY <2>1, <2>2, <2>3 DEF RanIsSettled, Ran
  <2>10. HeldIsOlder'
    BY <2>1, <2>2, <2>3 DEF HeldIsOlder, Ran
  <2>11. DoneIsOnDisk'
    BY <2>1, <2>2, <2>3 DEF DoneIsOnDisk
  <2> QED BY <1>t, <1>f, <2>1, <2>2, <2>3, <2>4, <2>5, <2>6, <2>7, <2>8, <2>9, <2>10,
            <2>11 DEF IInv
<1>33. ASSUME NEW c \in Cancels, CancelFlag(c)
       PROVE  IInv'
  <2>1. /\ UNCHANGED <<posting, phase, worker, marking, req, sweep, status, manifest,
                       transcript, source, error, todo, held, overwritten>>
        /\ \A k \in Jobs : CopyOf(k)' = CopyOf(k)
        /\ phase = "up"
        /\ cancel'[c].pc = "end" /\ \A d \in Cancels \ {c} : cancel'[d] = cancel[d]
    BY <1>33, <1>u, CancelNames, CancelGoToIs DEF CancelFlag, CancelAt
  <2>2. QuietBoot'
    BY <2>1 DEF QuietBoot
  <2>3. CancelIsExclusive'
    BY <2>1 DEF CancelIsExclusive
  <2> QED BY <1>t, <1>f, <2>1, <2>2, <2>3 DEF IInv
<1>34. ASSUME NEW k \in Checkers, NEW j \in Jobs, StaleGate(k, j)
       PROVE  IInv'
  <2>1. /\ UNCHANGED <<posting, phase, worker, req, cancel, sweep, status, manifest,
                       transcript, source, error, todo, held, overwritten>>
        /\ \A i \in Jobs : CopyOf(i)' = CopyOf(i)
        /\ phase = "up"
    BY <1>34, <1>u DEF StaleGate
  <2>2. QuietBoot'
    BY <2>1 DEF QuietBoot
  <2> QED BY <1>t, <1>f, <2>1, <2>2 DEF IInv
<1>35. ASSUME NEW k \in Checkers, StaleMark(k)
       PROVE  IInv'
  <2>1. /\ UNCHANGED <<posting, phase, worker, req, cancel, sweep, manifest,
                       transcript, source, todo, held, overwritten>>
        /\ \A i \in Jobs : CopyOf(i)' = CopyOf(i)
        /\ phase = "up" /\ marking[k] \in Jobs
    BY <1>35, <1>u DEF StaleMark, AsideType
  <2>2. \A i \in Jobs :
          /\ status'[i] = IF i = marking[k] /\ HasRow(i) THEN "failed" ELSE status[i]
          /\ error'[i] = IF i = marking[k] /\ HasRow(i) THEN "stalled" ELSE error[i]
    <3>1. MarkFailed(marking[k], "stalled") /\ "stalled" \in RowError
      BY <1>35, ErrorNames DEF StaleMark
    <3> QED BY <2>1, <3>1, MarkFailedIs
  <2>3. QuietBoot'
    BY <2>1, <2>2 DEF QuietBoot
  <2>4. RowFirst'
    BY <2>1, <2>2 DEF RowFirst, HasRow
  <2>5. RunIsOwned'
    BY <2>1, <2>2 DEF RunIsOwned, RunPc
  <2>6. CancelIsExclusive'
    BY <2>1, <2>2 DEF CancelIsExclusive
  <2>7. RanIsSettled'
    BY <2>1, <2>2 DEF RanIsSettled
  <2>8. ActiveIsOwned'
    BY <2>1, <2>2 DEF ActiveIsOwned, Active
  <2>9. DoneIsOnDisk'
    BY <2>1, <2>2 DEF DoneIsOnDisk
  <2> QED BY <1>t, <1>f, <2>1, <2>2, <2>3, <2>4, <2>5, <2>6, <2>7, <2>8, <2>9 DEF IInv
<1>36. ASSUME Crash
       PROVE  IInv'
  <2>1. /\ UNCHANGED <<status, manifest, transcript, source, error, overwritten>>
        /\ \A k \in Jobs : CopyOf(k)' = CopyOf(k)
        /\ phase' = "reconcile" /\ worker' = IdleWorker /\ marking' = NoMarking
        /\ posting' = NoPosting /\ sweep' = NoSweep /\ todo' = {}
        /\ \A k \in Jobs : req'[k] = IF req[k] = "idle" THEN "idle" ELSE "end"
        /\ \A k \in Jobs : held'[k] = NoCopy
        /\ \A c \in Cancels : cancel'[c].pc \in {"idle", "end"}
    BY <1>36, <1>u DEF Crash
  <2>2. QuietBoot'
    BY <2>1 DEF QuietBoot, NoSweep
  <2>3. NothingPosted'
    BY <2>1 DEF NothingPosted, Unposted, NoCopy, IdleWorker
  <2>4. RowFirst'
    BY <2>1 DEF RowFirst
  <2>5. RanIsSettled'
    BY <2>1, NoJobIsNone DEF RanIsSettled, IdleWorker
  <2>6. HeldIsOlder'
    BY <2>1 DEF HeldIsOlder, NoCopy
  <2>7. SweepIsComplete'
    BY <2>1 DEF SweepIsComplete, NoSweep
  <2> QED BY <1>t, <1>f, <2>1, <2>2, <2>3, <2>4, <2>5, <2>6, <2>7 DEF IInv
<1>37. ASSUME BootReconcile
       PROVE  IInv'
  <2>1. /\ UNCHANGED <<posting, worker, marking, req, cancel, sweep, manifest,
                       transcript, source, error, held>>
        /\ \A k \in Jobs : CopyOf(k)' = CopyOf(k)
        /\ phase = "reconcile" /\ phase' = "sweep" /\ sweep = NoSweep
        /\ \A k \in Jobs : status'[k] = IF HasRow(k) /\ manifest[k] # "absent"
                                       THEN StageToStatus(ManifestOf(k)) ELSE status[k]
        /\ todo' = {k \in Jobs : status'[k] \in Swept}
    BY <1>37, <1>u DEF BootReconcile, QuietBoot
  <2>2. \A k \in Jobs :
          status'[k] = IF HasRow(k) /\ manifest[k] # "absent"
                       THEN IF manifest[k] = "none" THEN "queued"
                            ELSE IF manifest[k] = "transcribed" THEN "transcribing" ELSE "done"
                       ELSE status[k]
    BY <2>1, StageToStatusHere DEF NothingPosted
  <2>3. \A k \in Jobs : manifest[k] \in {"absent", "none", "transcribed", "done"}
    BY DEF NothingPosted, Unposted, CopyOf, Ran
  <2>4. QuietBoot'
    BY <2>1, <2>2, <2>3 DEF QuietBoot, NoSweep
  <2>5. RowFirst'
    BY <2>1, <2>2, <2>3 DEF RowFirst, HasRow
  <2>6. RanIsSettled'
    BY <2>1, <2>2, <2>3, NoJobIsNone DEF RanIsSettled, IdleWorker, QuietBoot, HasRow,
       Active, Ran
  <2>7. SweepIsComplete'
    BY <2>1, <2>2, <2>3 DEF SweepIsComplete, Active, Swept, NoSweep, HasRow
  <2>8. DoneIsOnDisk'
    BY <2>1, <2>2, <2>3 DEF DoneIsOnDisk, RanIsSettled, RowFirst, Ran, HasRow
  <2> QED BY <1>t, <1>f, <2>1, <2>2, <2>3, <2>4, <2>5, <2>6, <2>7, <2>8 DEF IInv
<1>38. ASSUME NEW j \in Jobs, SweepJob(j)
       PROVE  IInv'
  <2>1. /\ phase = "sweep" /\ sweep.pc = "next" /\ j \in todo
        /\ UNCHANGED <<posting, phase, worker, marking, req, cancel, held, overwritten>>
    BY <1>38, <1>u DEF SweepJob
  <2>2. /\ status[j] \in Active /\ worker = IdleWorker
        /\ req[j] = "end" /\ \A k \in Jobs : held[k] = NoCopy
        /\ manifest[j] # "none"
    BY <2>1 DEF QuietBoot, SweepIsComplete, HeldIsOlder, RowFirst, Active
  <2>3. /\ manifest[j] = "absent" \/ manifest[j] \in Ran
        /\ manifest[j] = "absent" => j \notin transcript
        /\ manifest[j] \in Ran => j \in source /\ j \in transcript /\ FileComplete(j)
    <3>1. manifest[j] = "absent" \/ manifest[j] \in Ran
      BY <2>2 DEF NothingPosted, Unposted, CopyOf
    <3>2. manifest[j] = "absent" => j \notin transcript
      BY <2>2 DEF RowFirst, Active
    <3>3. manifest[j] \in Ran => j \in source /\ j \in transcript /\ FileComplete(j)
      BY ResumePointIs DEF RanIsSettled, FileComplete, NothingPosted
    <3> QED BY <3>1, <3>2, <3>3
  <2>4. /\ source' = source /\ transcript' = transcript
        /\ \/ /\ manifest[j] \in Ran
              /\ \A k \in Jobs : manifest'[k] = IF k = j THEN "done" ELSE manifest[k]
              /\ CopyOf(j)' = [CopyOf(j) EXCEPT !.stage = "done"]
              /\ \A k \in Jobs \ {j} : CopyOf(k)' = CopyOf(k)
              /\ sweep'.pc = "row" /\ sweep'.job = j /\ todo' = todo
              /\ UNCHANGED <<status, error>>
           \/ /\ manifest[j] = "absent"
              /\ \A k \in Jobs :
                   /\ status'[k] = IF k = j THEN "failed" ELSE status[k]
                   /\ error'[k] = IF k = j THEN "interrupted" ELSE error[k]
              /\ UNCHANGED manifest /\ \A k \in Jobs : CopyOf(k)' = CopyOf(k)
              /\ todo' = todo \ {j} /\ sweep' = sweep
    <3>1. CASE manifest[j] \in Ran
      <4>1. WriteStage(j, "done") /\ sweep' = [pc |-> "row", job |-> j] /\ UNCHANGED <<db, todo>>
        BY <1>38, <2>3, <3>1 DEF SweepJob, Ran
      <4> QED BY <1>u, <3>1, <4>1, StageNames, WriteStageIs
    <3>2. CASE manifest[j] = "absent"
      <4>1. /\ MarkFailed(j, "interrupted") /\ todo' = todo \ {j} /\ sweep' = sweep
            /\ UNCHANGED folder
        BY <1>38, <3>2 DEF SweepJob
      <4>2. HasRow(j)
        BY <2>2 DEF HasRow, Active
      <4> QED BY <1>u, <3>2, <4>1, <4>2, ErrorNames, MarkFailedIs
    <3> QED BY <2>3, <3>1, <3>2
  <2>5. QuietBoot'
    BY <2>1, <2>2, <2>3, <2>4 DEF QuietBoot, NoSweep
  <2>6. NothingPosted'
    <3>1. Unposted([CopyOf(j) EXCEPT !.stage = "done"])
      BY CopyIs DEF NothingPosted, Unposted, Copy, Ran
    <3>2. \A k \in Jobs : \/ CopyOf(k)' = CopyOf(k)
                         \/ CopyOf(k)' = [CopyOf(j) EXCEPT !.stage = "done"]
      BY <2>4
    <3>3. ASSUME NEW k \in Jobs PROVE Unposted(CopyOf(k)')
      <4>1. Unposted(CopyOf(k))
        BY DEF NothingPosted
      <4> QED BY <3>1, <3>2, <4>1
    <3> QED BY <1>n, <2>1, <3>3 DEF NothingPosted
  <2>7. RowFirst'
    BY <2>1, <2>2, <2>3, <2>4 DEF RowFirst, Ran, Active
  <2>8. RanIsSettled'
    BY <2>1, <2>2, <2>3, <2>4, NoJobIsNone DEF RanIsSettled, IdleWorker, Active, Ran
  <2>9. HeldIsOlder'
    BY <2>1, <2>2, <2>3, <2>4 DEF HeldIsOlder, NoCopy
  <2>10. SweepIsComplete'
    BY <2>1, <2>2, <2>3, <2>4 DEF SweepIsComplete, Active
  <2>11. DoneIsOnDisk'
    BY <2>1, <2>2, <2>3, <2>4 DEF DoneIsOnDisk, Active
  <2> QED BY <1>t, <1>f, <2>1, <2>2, <2>3, <2>4, <2>5, <2>6, <2>7, <2>8, <2>9, <2>10,
            <2>11 DEF IInv
<1>39. ASSUME SweepManifest
       PROVE  IInv'
  <2>1. FALSE
    BY <1>39 DEF SweepManifest, QuietBoot
  <2> QED BY <1>t, <1>f, <2>1 DEF IInv
<1>40. ASSUME SweepRow
       PROVE  IInv'
  <2>1. /\ UNCHANGED <<posting, phase, worker, marking, req, cancel, manifest,
                       transcript, source, error, held, overwritten>>
        /\ \A k \in Jobs : CopyOf(k)' = CopyOf(k)
        /\ phase = "sweep" /\ sweep.pc = "row" /\ sweep.job \in Jobs
        /\ \A k \in Jobs :
             status'[k] = IF k = sweep.job /\ HasRow(k) THEN "done" ELSE status[k]
        /\ todo' = todo \ {sweep.job} /\ sweep' = NoSweep
    BY <1>40, <1>u, RowNames, SetStatusIs DEF SweepRow
  <2>2. manifest[sweep.job] = "done" /\ status[sweep.job] \in Active
    BY <2>1 DEF SweepIsComplete
  <2>3. QuietBoot'
    BY <2>1, <2>2 DEF QuietBoot, NoSweep
  <2>4. RowFirst'
    BY <2>1, <2>2 DEF RowFirst, HasRow
  <2>5. RanIsSettled'
    BY <2>1, <2>2 DEF RanIsSettled, Active
  <2>6. SweepIsComplete'
    BY <2>1, <2>2 DEF SweepIsComplete, HasRow, Active, NoSweep
  <2>7. DoneIsOnDisk'
    BY <2>1, <2>2 DEF DoneIsOnDisk, RanIsSettled, Ran
  <2> QED BY <1>t, <1>f, <2>1, <2>2, <2>3, <2>4, <2>5, <2>6, <2>7 DEF IInv
<1>41. ASSUME BootDone
       PROVE  IInv'
  <2>1. /\ UNCHANGED <<posting, worker, marking, req, cancel, sweep, status,
                       manifest, transcript, source, error, todo, held, overwritten>>
        /\ \A k \in Jobs : CopyOf(k)' = CopyOf(k)
        /\ phase = "sweep" /\ phase' = "up" /\ sweep.pc = "next" /\ todo = {}
    BY <1>41, <1>u DEF BootDone
  <2>2. sweep = NoSweep
    BY <2>1 DEF BootType, NoSweep
  <2>3. QuietBoot'
    BY <2>1, <2>2 DEF QuietBoot
  <2>4. SweepIsComplete'
    BY <2>1, <2>2 DEF SweepIsComplete, NoSweep
  <2>5. ActiveIsOwned'
    BY <2>1, <2>2 DEF ActiveIsOwned, SweepIsComplete
  <2> QED BY <1>t, <1>f, <2>1, <2>2, <2>3, <2>4, <2>5 DEF IInv
<1>42. CASE UNCHANGED vars
  BY <1>42, <1>t, <1>f, <1>u DEF IInv, vars
<1> QED
  BY <1>1, <1>2, <1>3, <1>4, <1>5, <1>6, <1>7, <1>8, <1>9, <1>10, <1>11, <1>12, <1>13,
     <1>14, <1>15, <1>16, <1>17, <1>18, <1>19, <1>20, <1>21, <1>22, <1>23, <1>24, <1>25,
     <1>26, <1>27, <1>28, <1>29, <1>30, <1>31, <1>32, <1>33, <1>34, <1>35, <1>36, <1>37,
     <1>38, <1>39, <1>40, <1>41, <1>42 DEF Next, RequestStep, PullStep, PullNext,
     WakeOnSignal, WakeOnTimeout, RunStep, RecordTranscribed, RecordDone, CancelStep,
     PostStep, PostWrite, PostRow, QuietBoot, NoPosting, BootStep

(***************************************************************************)
(* The initial state satisfies IInv: there is no job yet.                  *)
(***************************************************************************)
LEMMA InvInit ==
  Init => IInv
<1> SUFFICES ASSUME Init PROVE IInv
  OBVIOUS
<1>1. TypeOK
  BY TypeInit
<1>2. QuietBoot /\ RowFirst
  BY DEF Init, QuietBoot, RowFirst, IdleWorker, NoMarking, NoSweep
<1>3. RunIsOwned /\ CancelIsExclusive
  BY DEF Init, RunIsOwned, CancelIsExclusive, IdleWorker, NoCancel, RunPc,
     SourcePc, TranscriptPc
<1>4. RanIsSettled /\ HeldIsOlder /\ SweepIsComplete
  BY DEF Init, RanIsSettled, HeldIsOlder, SweepIsComplete, NoSweep, NoCopy, Ran
<1>5. ActiveIsOwned /\ DoneIsOnDisk /\ InterruptedIsUnfinished
  BY DEF Init, ActiveIsOwned, DoneIsOnDisk, InterruptedIsUnfinished, Active
<1>6. NothingPosted
  BY DEF Init, NothingPosted, Unposted, CopyOf, NoCopy, IdleWorker
<1> QED BY <1>1, <1>2, <1>3, <1>4, <1>5, <1>6 DEF IInv

(***************************************************************************)
(* The invariant holds in every behaviour of a backend whose stage route   *)
(* is not used, for any jobs, uploads, cancels and number of crashes.      *)
(***************************************************************************)
THEOREM InvCorrect ==
  ASSUME StageRoute = {}
  PROVE  Spec => []IInv
<1>1. IInv /\ [Next]_vars => IInv'
  BY InvStep
<1> QED BY <1>1, InvInit, PTL DEF Spec

(***************************************************************************)
(* No orphan: an active row is always the row of the job the worker runs.  *)
(***************************************************************************)
THEOREM ActiveIsOwnedCorrect ==
  ASSUME StageRoute = {}
  PROVE  Spec => []ActiveIsOwned
<1>1. IInv => ActiveIsOwned
  BY DEF IInv
<1>2. Spec => []IInv
  BY InvCorrect
<1> QED BY <1>1, <1>2, PTL

(***************************************************************************)
(* Files as truth: a row says done only over the files and, unless an      *)
(* upload request has overwritten it, the manifest that say so.            *)
(***************************************************************************)
THEOREM DoneIsOnDiskCorrect ==
  ASSUME StageRoute = {}
  PROVE  Spec => []DoneIsOnDisk
<1>1. IInv => DoneIsOnDisk
  BY DEF IInv
<1>2. Spec => []IInv
  BY InvCorrect
<1> QED BY <1>1, <1>2, PTL

(***************************************************************************)
(* The boot sweep fails no job whose work is complete on disk.             *)
(***************************************************************************)
THEOREM InterruptedIsUnfinishedCorrect ==
  ASSUME StageRoute = {}
  PROVE  Spec => []InterruptedIsUnfinished
<1>1. IInv => InterruptedIsUnfinished
  BY DEF IInv
<1>2. Spec => []IInv
  BY InvCorrect
<1> QED BY <1>1, <1>2, PTL

(***************************************************************************)
(* The sweep leaves no row active behind when the backend comes up.        *)
(***************************************************************************)
THEOREM BootLeavesNoneActiveCorrect ==
  ASSUME StageRoute = {}
  PROVE  Spec => BootLeavesNoneActive
<1> DEFINE P == phase = "sweep" /\ phase' = "up" =>
                  \A j \in Jobs : status'[j] \notin Active
<1>1. IInv /\ [Next]_vars => [P]_vars
  <2> SUFFICES ASSUME IInv, [Next]_vars, phase = "sweep", phase' = "up",
                      NEW j \in Jobs, status'[j] \in Active
               PROVE  FALSE
    OBVIOUS
  <2>1. CASE BootDone
    <3>1. status' = status /\ todo = {}
      BY <2>1 DEF BootDone, db
    <3> QED BY <3>1 DEF IInv, SweepIsComplete
  <2>2. CASE \E i \in Jobs : InsertRow(i) \/ RequestStep(i) \/ Age(i)
    <3>0. \A i \in Jobs : req[i] \in {"idle", "end"}
      BY DEF IInv, QuietBoot
    <3> QED BY <2>2, <3>0 DEF InsertRow, RequestStep, Age, CreateFolder, CompensateInsert,
         Retry, LandSource, AbortUpload, PatchSource, Enqueue, boot
  <2>3. CASE PullStep \/ WriteProgress
    BY <2>3 DEF PullStep, PullNext, WakeOnSignal, WakeOnTimeout, WakeUp,
       PullSelect, PullNothing, PullClaim, WriteProgress, WorkerAt
  <2>4. CASE RunStep
    BY <2>4 DEF RunStep, RunStart, LoadAdapter, LastBoundary, WriteTranscript,
       RunError, RecordTranscribed, RecordDone, UpdateRead, UpdateWrite, UpdateRow,
       RunFailed, RunCancelled, RunRmtree, RunFinally, WorkerAt
  <2>5. CASE \E c \in Cancels : CancelStep(c) \/ \E i \in Jobs : CancelSelect(c, i)
    BY <2>5 DEF CancelStep, CancelSelect, CancelFlip, CancelRow, CancelRmtree,
       CancelFlag, CancelAt
  <2>6. CASE \/ \E k \in Checkers : StaleMark(k) \/ \E i \in Jobs : StaleGate(k, i)
             \/ PostStep
    BY <2>6 DEF StaleMark, StaleGate, PostStep, PostRead, PostWrite, PostRow
  <2>7. CASE Crash
    BY <2>7 DEF Crash
  <2>8. CASE \/ BootReconcile \/ SweepManifest \/ SweepRow
             \/ \E i \in Jobs : SweepJob(i)
    BY <2>8 DEF BootReconcile, SweepManifest, SweepRow, SweepJob
  <2>9. CASE UNCHANGED vars
    BY <2>9 DEF vars, boot
  <2> QED BY <2>1, <2>2, <2>3, <2>4, <2>5, <2>6, <2>7, <2>8, <2>9 DEF Next,
         BootStep
<1>2. Spec => []IInv
  BY InvCorrect
<1> QED BY <1>1, <1>2, PTL DEF Spec, BootLeavesNoneActive

(***************************************************************************)
(* Finished work stays: whoever writes a manifest or removes a folder has  *)
(* a job that is not done, but for the upload request that read it before. *)
(***************************************************************************)
THEOREM FinishedWorkStaysCorrect ==
  ASSUME StageRoute = {}
  PROVE  Spec => FinishedWorkStays
<1>1. IInv /\ [Next]_vars =>
        [\A j \in Jobs : manifest[j] = "done" =>
           /\ manifest'[j] = "done" \/ j \in overwritten'
           /\ j \in transcript']_vars
  <2> DEFINE Q(j) == manifest'[j] = "done" \/ j \in overwritten'
  <2> SUFFICES ASSUME IInv, Next, NEW j \in Jobs, manifest[j] = "done"
               PROVE  Q(j) /\ j \in transcript'
    OBVIOUS
  <2>0. /\ DbType /\ FolderType /\ WorkerType /\ CancelType /\ BootType
        /\ held \in [Jobs -> Copy] /\ j \in transcript
        /\ QuietBoot /\ RowFirst /\ RunIsOwned /\ CancelIsExclusive /\ RanIsSettled
        /\ SweepIsComplete
    BY DEF IInv, TypeOK, RanIsSettled, Ran
  <2>i. IInv'
    BY InvStep
  <2>f. manifest'[j] = "done" => Q(j) /\ j \in transcript'
    BY <2>i DEF IInv, RanIsSettled, Ran
  <2>r. ASSUME NEW k \in Jobs, manifest[k] \notin Ran, Rmtree(k) PROVE manifest'[j] = "done"
    BY <2>0, <2>r, RmtreeIs DEF Ran
  <2>w. ASSUME NEW k \in Jobs \ {j}, NEW s \in ManifestStage, WriteStage(k, s)
        PROVE  manifest'[j] = "done"
    BY <2>0, <2>w, WriteStageIs
  <2> USE <2>0
  <2>1. ASSUME NEW k \in Jobs, CreateFolder(k) PROVE manifest'[j] = "done"
    BY <2>1, <2>w, StageNames DEF CreateFolder, RowFirst
  <2>2. ASSUME NEW k \in Jobs, PatchSource(k) PROVE Q(j) /\ j \in transcript'
    <3>1. [held[k] EXCEPT !.path = "own"] \in Copy
             /\ [held[k] EXCEPT !.path = "own"].stage = held[k].stage
      BY CopyIs DEF Copy
    <3>2. \A i \in Jobs : manifest'[i] = IF i = k THEN held[k].stage ELSE manifest[i]
      BY <2>2, <3>1, WriteManifestIs DEF PatchSource
    <3>3. transcript' = transcript
      BY <2>2 DEF PatchSource, WriteManifest
    <3> QED BY <2>2, <3>2, <3>3 DEF PatchSource
  <2>3. ASSUME UpdateWrite("write transcribed", "transcribed", "row transcribed")
                 \/ UpdateWrite("write done", "done", "row done")
        PROVE  manifest'[j] = "done"
    <3>1. worker.pc \in {"write transcribed", "write done"}
      BY <2>3 DEF UpdateWrite, WorkerAt
    <3>2. worker.job \in Jobs \ {j} /\ worker.copy \in Copy
      BY <3>1 DEF WorkerType, IdlePc, RanIsSettled, Ran
    <3>3. \A s \in ManifestStage : [worker.copy EXCEPT !.stage = s] \in Copy
      BY <3>2, CopyIs
    <3>4. ASSUME NEW s \in ManifestStage,
                 WriteManifest(worker.job, [worker.copy EXCEPT !.stage = s])
          PROVE  manifest'[j] = "done"
      BY <3>2, <3>3, <3>4, WriteManifestIs
    <3> QED BY <2>3, <3>4, StageNames DEF UpdateWrite, folder
  <2>4. ASSUME RunRmtree PROVE manifest'[j] = "done"
    <3>1. worker.job \in Jobs /\ manifest[worker.job] \notin Ran
      BY <2>4 DEF RunRmtree, WorkerAt, WorkerType, IdlePc, RanIsSettled
    <3> QED BY <2>4, <2>r, <3>1 DEF RunRmtree
  <2>5. ASSUME NEW c \in Cancels, CancelRmtree(c) PROVE manifest'[j] = "done"
    <3>1. cancel[c].pc = "rmtree"
      BY <2>5 DEF CancelRmtree, CancelAt
    <3>2. cancel[c].job \in Jobs /\ manifest[cancel[c].job] \notin Ran
      BY <3>1, NoJobIsNone DEF CancelType, CancelIsExclusive
    <3> QED BY <2>5, <2>r, <3>2 DEF CancelRmtree
  <2>6. ASSUME NEW k \in Jobs, SweepJob(k) PROVE manifest'[j] = "done"
    <3>1. CASE manifest[k] # "absent" /\ FileComplete(k)
      BY <2>6, <3>1, StageNames, WriteStageIs DEF SweepJob
    <3>2. CASE ~(manifest[k] # "absent" /\ FileComplete(k))
      BY <2>6, <3>2 DEF SweepJob, folder
    <3> QED BY <3>1, <3>2
  <2>7. ASSUME PostStep \/ SweepManifest PROVE FALSE
    BY <2>7 DEF PostStep, PostWrite, PostRow, SweepManifest, QuietBoot, NoPosting
  <2>8. CASE UNCHANGED manifest
    BY <2>8, <2>f
  <2>9. ASSUME NEW k \in Jobs, \/ InsertRow(k) \/ CompensateInsert(k) \/ Retry(k)
                               \/ LandSource(k) \/ AbortUpload(k) \/ Enqueue(k) \/ Age(k)
        PROVE  UNCHANGED manifest
    BY <2>9 DEF InsertRow, CompensateInsert, Retry, LandSource, AbortUpload, Enqueue, Age,
       folder
  <2>10. ASSUME PullStep \/ WriteProgress \/ RunStart \/ LoadAdapter \/ LastBoundary
                  \/ WriteTranscript \/ RunError
         PROVE  UNCHANGED manifest
    BY <2>10 DEF PullStep, PullNext, PullSelect, PullNothing, PullClaim, WakeOnSignal,
       WakeOnTimeout, WakeUp, WriteProgress, RunStart, LoadAdapter, LastBoundary,
       WriteTranscript, RunError, folder
  <2>11. ASSUME \/ UpdateRead("read transcribed", "write transcribed")
                \/ UpdateRead("read done", "write done")
                \/ UpdateRow("row transcribed", "transcribing", "read done")
                \/ UpdateRow("row done", "done", "finally")
                \/ RunFailed \/ RunCancelled \/ RunFinally
         PROVE  UNCHANGED manifest
    BY <2>11 DEF UpdateRead, UpdateRow, RunFailed, RunCancelled, RunFinally, folder
  <2>12. ASSUME NEW c \in Cancels, NEW k \in Jobs,
                CancelSelect(c, k) \/ CancelFlip(c) \/ CancelRow(c) \/ CancelFlag(c)
         PROVE  UNCHANGED manifest
    BY <2>12 DEF CancelSelect, CancelFlip, CancelRow, CancelFlag, folder
  <2>13. ASSUME NEW c \in Checkers, NEW k \in Jobs, StaleMark(c) \/ StaleGate(c, k)
         PROVE  UNCHANGED manifest
    BY <2>13 DEF StaleMark, StaleGate, folder
  <2>14. ASSUME Crash \/ BootReconcile \/ SweepRow \/ BootDone
         PROVE  UNCHANGED manifest
    BY <2>14 DEF Crash, BootReconcile, SweepRow, BootDone, folder
  <2> QED BY <2>1, <2>2, <2>3, <2>4, <2>5, <2>6, <2>7, <2>8, <2>9, <2>10, <2>11, <2>12,
     <2>13, <2>14, <2>f DEF Next, RequestStep, RunStep, RecordTranscribed, RecordDone,
     CancelStep, BootStep
<1>2. Spec => []IInv
  BY InvCorrect
<1> QED BY <1>1, <1>2, PTL DEF Spec, FinishedWorkStays

(***************************************************************************)
(* UploadInv is inductive beside IInv.  The file goes only with a row that *)
(* is cancelled, failed or deleted (CancelIsExclusive, RunIsOwned), and    *)
(* such a row comes back to life only through update_stage, by a worker    *)
(* that still has the file.                                                *)
(***************************************************************************)
LEMMA UploadStep ==
  ASSUME StageRoute = {}
  PROVE  IInv /\ UploadInv /\ [Next]_vars => UploadInv'
<1> DEFINE Ended == {"cancelled", "failed", "deleted"}
           Has(j) == /\ status[j] \in Active \cup {"queued"} => j \in source
                     /\ req[j] \in {"patch", "patched"} =>
                          j \in source \/ status[j] \in Ended
<1>c. ASSUME IInv, UNCHANGED vars, UploadInv PROVE UploadInv'
  BY <1>c DEF vars, db, folder, request, boot, UploadInv
<1>1. ASSUME IInv, UploadInv, Next, crashes' = 0
      PROVE  crashes = 0 /\ ~Crash /\ phase' = "up"
  <2>1. crashes \in Nat
    BY <1>1 DEF IInv, TypeOK, BootType
  <2>2. ~Crash
    BY <1>1, <2>1 DEF Crash
  <2>3. UNCHANGED crashes /\ (phase = "up" => phase' = "up")
    BY <1>1, <2>2 DEF Next, RequestStep, PullStep, PullNext, RunStep, CancelStep, PostStep,
       BootStep, RecordTranscribed, RecordDone, InsertRow, CreateFolder, CompensateInsert,
       Retry, LandSource, AbortUpload, PatchSource, Enqueue, Age, PullSelect, PullNothing,
       PullClaim, WakeOnSignal, WakeOnTimeout, WakeUp, RunStart, LoadAdapter, LastBoundary,
       WriteTranscript, RunError, UpdateRead, UpdateWrite, UpdateRow, RunFailed, RunCancelled,
       RunRmtree, RunFinally, WriteProgress, CancelFlip, CancelRow, CancelRmtree,
       CancelFlag, CancelSelect, StaleMark, StaleGate, PostRead, PostWrite, PostRow,
       BootReconcile, SweepJob, SweepManifest, SweepRow, BootDone, boot
  <2> QED BY <1>1, <2>2, <2>3 DEF UploadInv
<1>2. ASSUME IInv, UploadInv, Next, crashes = 0, ~Crash, NEW j \in Uploads
      PROVE  Has(j)'
  <2>0. /\ DbType /\ FolderType /\ WorkerType /\ CancelType /\ AsideType
        /\ req \in [Jobs -> ReqPc] /\ QuietBoot /\ RunIsOwned /\ CancelIsExclusive
    BY <1>2 DEF IInv, TypeOK
  <2>1. phase = "up" /\ Has(j) /\ j \in Jobs
    BY <1>2, JobsAssumption DEF UploadInv
  <2>2. \A k \in Ended \cup {"absent", "uploading", "done"} : k \notin Active \cup {"queued"}
    BY DEF Active
  <2>j. /\ worker.pc \notin IdlePc => worker.job \in Jobs
        /\ \A c \in Cancels : cancel[c].pc \notin {"idle", "end"} => cancel[c].job \in Jobs
        /\ \A k \in Checkers : marking[k] # NoJob => marking[k] \in Jobs
    BY <2>0, NoJobIsNone DEF WorkerType, CancelType, AsideType
  <2>e. ASSUME NEW k \in Jobs, NEW s \in Ended \cap RowStatus, SetStatus(k, s),
               UNCHANGED <<source, req>>
        PROVE  Has(j)'
    BY <2>0, <2>1, <2>2, <2>e, SetStatusIs
  <2>r. ASSUME NEW k \in Jobs, Rmtree(k), status[k] \in Ended,
               UNCHANGED <<status, req>>
        PROVE  Has(j)'
    BY <2>0, <2>1, <2>2, <2>r, RmtreeIs
  <2>u. ASSUME UNCHANGED <<status, source, req>>
        PROVE  Has(j)'
    BY <2>1, <2>u
  <2>v. /\ UNCHANGED db => UNCHANGED status
        /\ UNCHANGED folder => UNCHANGED source
        /\ UNCHANGED request => UNCHANGED req
    BY DEF db, folder, request
  <2>m. ASSUME NEW k, NEW m, WriteManifest(k, m) PROVE UNCHANGED source
    BY <2>m DEF WriteManifest
  <2> HIDE DEF Has
  <2>3. ASSUME NEW k \in Jobs, InsertRow(k) PROVE Has(j)'
    BY <2>0, <2>1, <2>2, <2>3, <2>v DEF InsertRow, InitialStatus, DbType, Has
  <2>4. ASSUME NEW k \in Jobs, CreateFolder(k) PROVE Has(j)'
    BY <2>0, <2>1, <2>4, <2>m, <2>v DEF CreateFolder, WriteStage, Has
  <2>5. ASSUME NEW k \in Jobs, CompensateInsert(k) PROVE Has(j)'
    BY <2>0, <2>1, <2>2, <2>5, <2>v DEF CompensateInsert, DbType, Has
  <2>6. ASSUME NEW k \in Jobs,
               LandSource(k) \/ AbortUpload(k) \/ PatchSource(k) \/ Retry(k)
        PROVE  Has(j)'
    <3>1. CASE LandSource(k)
      BY <2>0, <2>1, <2>v, <3>1 DEF LandSource, Has
    <3>2. CASE AbortUpload(k)
      BY <2>0, <2>1, <2>v, <3>2 DEF AbortUpload, Has
    <3>3. CASE PatchSource(k)
      <4>1. UNCHANGED <<source, status>> /\ req[k] = "patch" /\ req' = [req EXCEPT ![k] = "patched"]
        BY <2>m, <2>v, <3>3 DEF PatchSource
      <4> QED BY <2>0, <2>1, <4>1 DEF Has
    <3>4. CASE Retry(k)
      BY <2>0, <2>1, <2>v, <3>4 DEF Retry, Has
    <3> QED BY <2>6, <3>1, <3>2, <3>3, <3>4
  <2>7. ASSUME NEW k \in Jobs, Enqueue(k) PROVE Has(j)'
    BY <2>0, <2>1, <2>2, <2>7, <2>v DEF Enqueue, DbType, Has
  <2>8. ASSUME PullClaim PROVE Has(j)'
    <3>1. CASE status[worker.job] = "queued"
      <4>1. worker.job \in Jobs
        BY <2>8, <2>j DEF PullClaim, WorkerAt, IdlePc
      <4>2. \A k \in Jobs : status'[k] = IF k = worker.job /\ HasRow(worker.job)
                                         THEN "starting" ELSE status[k]
        BY <2>0, <2>8, <3>1, <4>1, RowNames, SetStatusIs DEF PullClaim
      <4> QED BY <2>1, <2>8, <2>v, <3>1, <4>2 DEF PullClaim, Has
    <3>2. CASE status[worker.job] # "queued"
      BY <2>8, <2>u, <2>v, <3>2 DEF PullClaim
    <3> QED BY <3>1, <3>2
  <2>9. ASSUME NEW s \in RowStatus, NEW pc,
               \/ UpdateRow("row transcribed", s, pc) \/ UpdateRow("row done", s, pc)
        PROVE  Has(j)'
    <3>1. worker.job \in Jobs /\ worker.job \in source
      BY <2>0, <2>9, <2>j DEF UpdateRow, WorkerAt, IdlePc, RunIsOwned, SourcePc
    <3>2. \A k \in Jobs : status'[k] = IF k = worker.job /\ HasRow(worker.job)
                                       THEN s ELSE status[k]
      BY <2>0, <2>9, <3>1, SetStatusIs DEF UpdateRow
    <3> QED BY <2>1, <2>9, <2>v, <3>1, <3>2 DEF UpdateRow, Has
  <2>10. ASSUME RunFailed \/ RunCancelled PROVE Has(j)'
    <3>1. worker.job \in Jobs
      BY <2>10, <2>j DEF RunFailed, RunCancelled, WorkerAt, IdlePc
    <3> QED BY <2>10, <2>e, <2>v, <3>1, RowNames DEF RunFailed, RunCancelled, MarkFailed
  <2>11. ASSUME RunRmtree PROVE Has(j)'
    <3>1. worker.job \in Jobs /\ status[worker.job] \in Ended
      BY <2>0, <2>11, <2>j DEF RunRmtree, WorkerAt, IdlePc, RunIsOwned
    <3> QED BY <2>11, <2>r, <2>v, <3>1 DEF RunRmtree
  <2>12. ASSUME NEW c \in Cancels, CancelFlip(c) \/ CancelRow(c) PROVE Has(j)'
    <3>1. cancel[c].job \in Jobs
      BY <2>12, <2>j DEF CancelFlip, CancelRow, CancelAt
    <3> QED BY <2>12, <2>e, <2>u, <2>v, <3>1, RowNames DEF CancelFlip, CancelRow
  <2>13. ASSUME NEW c \in Cancels, CancelRmtree(c) PROVE Has(j)'
    <3>1. cancel[c].job \in Jobs /\ status[cancel[c].job] \in Ended
      BY <2>0, <2>13, <2>j DEF CancelRmtree, CancelAt, CancelIsExclusive
    <3> QED BY <2>13, <2>r, <2>v, <3>1 DEF CancelRmtree
  <2>14. ASSUME NEW k \in Checkers, StaleMark(k) PROVE Has(j)'
    <3>1. marking[k] \in Jobs
      BY <2>14, <2>j DEF StaleMark
    <3> QED BY <2>14, <2>e, <2>v, <3>1, RowNames DEF StaleMark, MarkFailed
  <2>15. ASSUME PostStep \/ BootStep PROVE FALSE
    BY <1>2, <2>0, <2>1, <2>15 DEF PostStep, PostWrite, PostRow, QuietBoot, NoPosting, BootStep,
       BootReconcile, SweepJob, SweepManifest, SweepRow, BootDone
  <2>16. ASSUME NEW k \in Jobs, PullSelect(k) \/ Age(k) PROVE Has(j)'
    BY <2>16, <2>u, <2>v DEF PullSelect, Age
  <2>17. ASSUME \/ PullNothing \/ WakeOnSignal \/ WakeOnTimeout \/ RunStart \/ LoadAdapter
                \/ WriteProgress \/ LastBoundary \/ WriteTranscript \/ RunError \/ RunFinally
         PROVE  Has(j)'
    BY <2>17, <2>u, <2>v DEF PullNothing, WakeOnSignal, WakeOnTimeout, WakeUp, RunStart,
       LoadAdapter, WriteProgress, LastBoundary, WriteTranscript, RunError, RunFinally
  <2>18. ASSUME NEW at, NEW s, NEW pc, UpdateRead(at, pc) \/ UpdateWrite(at, s, pc)
         PROVE  Has(j)'
    BY <2>18, <2>m, <2>u, <2>v DEF UpdateRead, UpdateWrite
  <2>19. ASSUME NEW c \in Cancels, NEW k \in Jobs, CancelSelect(c, k) \/ CancelFlag(c)
         PROVE  Has(j)'
    BY <2>19, <2>u, <2>v DEF CancelSelect, CancelFlag
  <2>20. ASSUME NEW k \in Checkers, NEW i \in Jobs, StaleGate(k, i)
         PROVE  Has(j)'
    BY <2>20, <2>u, <2>v DEF StaleGate
  <2>21. CASE RecordTranscribed \/ RecordDone
    BY <2>9, <2>18, <2>21, RowNames DEF RecordTranscribed, RecordDone
  <2> QED BY <1>2, <2>1, <2>3, <2>4, <2>5, <2>6, <2>7, <2>8, <2>10, <2>11, <2>12, <2>13, <2>14,
       <2>15, <2>16, <2>17, <2>19, <2>20, <2>21 DEF Next, RequestStep, PullStep, PullNext,
       RunStep, CancelStep
<1> QED BY <1>c, <1>1, <1>2 DEF UploadInv

(***************************************************************************)
(* UploadRunsWithSource holds for any uploads, cancels, retries and stale  *)
(* marks: the worker is never given an upload whose file has not landed.   *)
(***************************************************************************)
THEOREM UploadRunsWithSourceCorrect ==
  ASSUME StageRoute = {}
  PROVE  Spec => []UploadRunsWithSource
<1>1. Init => UploadInv
  BY JobsAssumption DEF Init, UploadInv, Active
<1>2. IInv /\ UploadInv /\ [Next]_vars => UploadInv'
  BY UploadStep
<1>3. UploadInv => UploadRunsWithSource
  BY DEF UploadInv, UploadRunsWithSource
<1>4. Spec => []IInv
  BY InvCorrect
<1> QED BY <1>1, <1>2, <1>3, <1>4, PTL DEF Spec

=============================================================================
