----------------------------- MODULE JobRefinement -----------------------------
(***************************************************************************)
(* JobLifecycle implements JobPromise, as long as the admin route          *)
(* POST /jobs/{id}/stage is not used.  Of the row, the folder, the worker  *)
(* and the requests a client sees the row only.                            *)
(***************************************************************************)
EXTENDS JobLifecycleInv

View(j) == IF status[j] \in Active THEN "running" ELSE status[j]

\* The mishaps of JobPromise, by their causes: an upload request wrote back a
\* manifest older than the one on disk; the stale check marked a job that was
\* over, or that the worker goes on with; a cancelled job's manifest stayed
\* behind, locked or because the backend died or the folder came later.
Amiss == overwritten \cup givenUp \cup left

Promise == INSTANCE JobPromise WITH
             view  <- [j \in Jobs |-> View(j)],
             up    <- (phase = "up"),
             amiss <- Amiss

(***************************************************************************)
(* The backend keeps JobPromise: one job is processed at a time, taken     *)
(* from the queue; what is done, failed or cancelled stays so while the    *)
(* backend is up; no boot undoes what is done, puts a cancelled job back   *)
(* into the queue, or turns what waits into a run or a result              *)
(* (app/jobs/queue.py, orchestrator.py, interrupt.py, reconcile.py); all   *)
(* this but for the jobs in Amiss, until the next boot.                    *)
(***************************************************************************)
ImplementsPromise == Promise!Spec

(***************************************************************************)
(* What the refinement needs on top of IInv: a cancelled job has no        *)
(* manifest left that a boot could put it back into the queue for, unless  *)
(* somebody is on the way to remove it.                                    *)
(***************************************************************************)
CancelledIsGone ==
  \A j \in Jobs : status[j] = "cancelled" /\ j \notin Amiss =>
    manifest[j] = "absent" \/ AboutToGo(j)

\* A run that was not given up still has its row.
RunHasItsRow ==
  worker.pc \in RunPc /\ worker.job \notin Amiss =>
    status[worker.job] \in Active \cup {"deleted"}

\* A cancel that is on its way has its row, unless the stale check took it.
CancelHasItsRow ==
  \A c \in Cancels : cancel[c].pc \in {"row", "rmtree"} /\ cancel[c].job \notin Amiss =>
    status[cancel[c].job] \in {"cancelled", "deleted"}

\* The reconcile of a boot has gone over every mishap.
SweepIsClean == phase = "sweep" => Amiss = {}

\* Unless a client posts stages no row gets a status the worker does not write.
StatusIsKnown == \A j \in Jobs : status[j] \notin {"diarizing", "summarizing"}

RInv == /\ CancelledIsGone /\ RunHasItsRow /\ CancelHasItsRow
        /\ SweepIsClean /\ StatusIsKnown

=============================================================================
