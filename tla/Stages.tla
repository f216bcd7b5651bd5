------------------------------- MODULE Stages -------------------------------
(***************************************************************************)
(* The pure functions every other module shares: how a manifest's          *)
(* current_stage is projected onto a row status (app/jobs/manifest.py) and *)
(* where the resume walker says a job has to continue                      *)
(* (app/jobs/resume.py).                                                   *)
(*                                                                         *)
(* A manifest is abstracted to the four fields those functions read, a job *)
(* folder to the set of stage outputs in it that exist, are non-empty and  *)
(* parse.                                                                  *)
(***************************************************************************)
EXTENDS Naturals

\* STAGE_ORDER: the walk order of the resume rule.
StageOrder == <<"ingested", "transcribed", "diarized", "summarized", "done">>

StageName == {"ingested", "transcribed", "diarized", "summarized", "done"}

(***************************************************************************)
(* Values of manifest.current_stage: "none" is None, and "failed" is what  *)
(* the boot sweep writes there although it is not a StageName.             *)
(***************************************************************************)
ManifestStage == StageName \cup {"none", "failed"}

\* source_path: unset, naming a non-empty file, or naming nothing usable.
SourcePath == {"unset", "present", "missing"}

Manifest == [stage : ManifestStage, path : SourcePath,
             diarization : BOOLEAN, summaries : BOOLEAN]

\* The stage outputs of a folder; "source" is source.<ext>.
StageFile == {"source", "transcript", "diarization", "summaries"}

Active    == {"starting", "ingesting", "transcribing"}
Terminal  == {"done", "failed", "cancelled"}
JobStatus == Active \cup Terminal
                    \cup {"queued", "uploading", "diarizing", "summarizing"}

\* Mutant of StageToStatus: the stage name itself goes into the status column.
StageAsStatus(m) == m.stage

(***************************************************************************)
(* stage_to_status: an unknown stage, "failed" among them, is "queued".    *)
(***************************************************************************)
StageToStatus(m) ==
  CASE m.stage = "ingested"    -> "ingesting"
    [] m.stage = "transcribed" -> "transcribing"
    [] m.stage = "diarized"    -> IF m.diarization THEN "diarizing" ELSE "transcribing"
    [] m.stage = "summarized"  -> IF m.summaries THEN "summarizing" ELSE "transcribing"
    [] m.stage = "done"        -> "done"
    [] OTHER                   -> "queued"

IsStageApplicable(s, m) ==
  /\ s = "diarized"   => m.diarization
  /\ s = "summarized" => m.summaries

\* The file-existence rule of the stages that have an output file.
OutputExists(s, m, files) ==
  CASE s = "ingested"    -> m.path = "present" \/ "source" \in files
    [] s = "transcribed" -> "transcript" \in files
    [] s = "diarized"    -> "diarization" \in files
    [] s = "summarized"  -> m.summaries /\ "summaries" \in files
    [] OTHER             -> FALSE

(***************************************************************************)
(* "done" has no file of its own: it is derived from the manifest and from *)
(* every applicable stage before it.                                       *)
(***************************************************************************)
IsStageComplete(s, m, files) ==
  IF s = "done"
  THEN /\ m.stage = "done"
       /\ \A p \in StageName \ {"done"} :
            IsStageApplicable(p, m) => OutputExists(p, m, files)
  ELSE OutputExists(s, m, files)

\* infer_resume_point: the first applicable stage that is not complete.
InferResumePoint(m, files) ==
  LET open == {i \in DOMAIN StageOrder :
                 /\ IsStageApplicable(StageOrder[i], m)
                 /\ ~IsStageComplete(StageOrder[i], m, files)}
  IN  IF open = {} THEN "nothing"
      ELSE StageOrder[CHOOSE i \in open : \A k \in open : i <= k]

=============================================================================
