--------------------------- MODULE MCJobLifecycle ---------------------------
(***************************************************************************)
(* Instances of JobLifecycle for TLC, and a statement that a comment of    *)
(* app/jobs makes about the lifecycle and that its code does not keep: the *)
(* one property of a run that is expected to fail.                         *)
(***************************************************************************)
EXTENDS JobRefinement

\* POST /jobs/{id}/stage without a patch, with summary kinds, with a source
\* elsewhere, and with both.
StagePatches == [path : {"keep", "outside"}, kinds : {"keep", "some"}]

-----------------------------------------------------------------------------

(***************************************************************************)
(* A cancel that lost the race with the claim reaches the run: it takes    *)
(* the active path "so the orchestrator's chunker raises JobCancelled at   *)
(* the next chunk boundary" (WR-01 in queue.cancel).                       *)
(***************************************************************************)
CancelReachesRun ==
  [][\A c \in Cancels :
       LET j == cancel[c].job IN
       /\ cancel[c].pc = "flag" /\ cancel'[c].pc = "end"
       /\ worker.job = j /\ worker.pc \in {"claimed", "loading", "transcribing"}
       /\ phase' = "up"
       => j \in flagged']_vars

=============================================================================
