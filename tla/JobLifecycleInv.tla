--------------------------- MODULE JobLifecycleInv ---------------------------
(***************************************************************************)
(* The inductive invariant behind the safety properties of JobLifecycle,   *)
(* for a backend whose admin route POST /jobs/{id}/stage is not used       *)
(* (StageRoute = {}): with it a client can write any stage to any job.     *)
(***************************************************************************)
EXTENDS JobLifecycle

\* Points of run_job at which the source has been seen on disk, and those at
\* which the transcript has been.
SourcePc     == {"loading", "transcribing", "decoding", "read transcribed",
                 "write transcribed", "row transcribed",
                 "read done", "write done", "row done"}
TranscriptPc == {"read transcribed", "write transcribed", "row transcribed",
                 "read done", "write done", "row done"}

\* The stages that say a run has left its transcript on disk.
Ran == {"transcribed", "done"}

\* Only in a running backend are there requests, a run or a stale checker.
QuietBoot ==
  /\ posting = NoPosting
  /\ phase # "up" =>
       /\ worker = IdleWorker
       /\ marking = NoMarking
       /\ \A j \in Jobs : req[j] \in {"idle", "end"}
       /\ \A c \in Cancels : cancel[c].pc \in {"idle", "end"}
  /\ phase # "sweep" => sweep = NoSweep
  /\ sweep.pc # "manifest"

\* What a manifest, or a copy of one, says when no client posts stages.
Unposted(m) ==
  /\ m.stage \in {"absent", "none"} \cup Ran
  /\ m.path \in {"unset", "own"}
  /\ ~m.kinds

NothingPosted ==
  /\ \A j \in Jobs : Unposted(CopyOf(j)) /\ Unposted(held[j])
  /\ Unposted(worker.copy)

\* A job without a row has not been requested yet; a row comes before a folder;
\* of a folder without manifest a transcript is left by an rmtree only; and what
\* the boot sweep fails has no transcript, and gets none while it says so.
RowFirst ==
  \A j \in Jobs :
    /\ req[j] = "idle" <=> status[j] = "absent"
    /\ req[j] \in {"idle", "row"} => manifest[j] = "absent" /\ j \notin transcript
    /\ manifest[j] = "absent" /\ j \in transcript =>
         status[j] \in {"cancelled", "failed", "deleted"}
    /\ error[j] = "interrupted" => req[j] # "idle" /\ req[j] # "row"
    /\ status[j] = "failed" /\ error[j] = "interrupted" => j \notin transcript

\* What the worker knows of the job it runs.
RunIsOwned ==
  /\ worker.pc \in RunPc =>
       /\ status[worker.job] \in Active \cup {"failed", "deleted"}
       /\ status[worker.job] = "failed" => error[worker.job] # "interrupted"
  /\ worker.pc \in SourcePc => worker.job \in source /\ manifest[worker.job] # "absent"
  /\ worker.pc \in TranscriptPc => worker.job \in transcript
  /\ worker.pc = "row done" => manifest[worker.job] = "done" \/ worker.job \in overwritten
  /\ worker.pc = "rmtree" => status[worker.job] \in {"cancelled", "failed", "deleted"}

\* A cancel on its way to the rmtree has the job to itself.
CancelIsExclusive ==
  \A c \in Cancels : cancel[c].pc \in {"row", "rmtree"} =>
    /\ status[cancel[c].job] \in {"cancelled", "failed", "deleted"}
    /\ manifest[cancel[c].job] \notin Ran
    /\ worker.job = cancel[c].job => worker.pc \notin RunPc

\* A manifest that says the job ran has its files, and nobody is about to run
\* it again or to take it for waiting or cancelled.
RanIsSettled ==
  \A j \in Jobs : manifest[j] \in Ran =>
    /\ j \in source /\ j \in transcript
    /\ status[j] \in Active \cup {"done", "failed", "deleted"}
    /\ worker.job = j =>
         worker.pc \in {"row transcribed", "read done", "write done", "row done",
                        "failing", "finally"}
    /\ worker.job = j /\ manifest[j] = "done" => worker.pc \in {"row done", "finally"}

\* The copy a request holds was not ahead of the manifest it will overwrite.
HeldIsOlder ==
  \A j \in Jobs :
    /\ held[j].stage = "done" => manifest[j] = "done"
    /\ held[j].stage = "transcribed" => manifest[j] \in Ran
    /\ req[j] # "patch" => held[j] = NoCopy
    /\ req[j] = "patch" => held[j].stage # "absent"

\* The boot sweep has the active rows still before it, and finds either no
\* manifest or a transcript.
SweepIsComplete ==
  /\ phase = "sweep" =>
       \A j \in Jobs : /\ status[j] \in Active <=> j \in todo
                       /\ j \in todo => manifest[j] # "none"
  /\ sweep.pc = "row" => manifest[sweep.job] = "done" /\ sweep.job \in todo

IInv ==
  /\ TypeOK
  /\ QuietBoot
  /\ NothingPosted
  /\ RowFirst
  /\ RunIsOwned
  /\ CancelIsExclusive
  /\ RanIsSettled
  /\ HeldIsOlder
  /\ SweepIsComplete
  /\ ActiveIsOwned
  /\ DoneIsOnDisk
  /\ InterruptedIsUnfinished

\* Until the first crash an upload that the worker may get, or that is about
\* to be enqueued, has its file, unless its row has been taken out of the queue
\* for good: only the rmtree of a cancelled job removes a file.
UploadInv ==
  crashes = 0 =>
    /\ phase = "up"
    /\ \A j \in Uploads :
         /\ status[j] \in Active \cup {"queued"} => j \in source
         /\ req[j] \in {"patch", "patched"} =>
              j \in source \/ status[j] \in {"cancelled", "failed", "deleted"}

=============================================================================
