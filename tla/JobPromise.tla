------------------------------ MODULE JobPromise ------------------------------
(***************************************************************************)
(* What the backend promises to those who watch a job, whatever process,   *)
(* file or lock stands behind it: each job goes through the stages below,  *)
(* one at a time is processed, a final status is final, and a restart may  *)
(* not do more to a job than Recover says.  JobRefinement shows that       *)
(* JobLifecycle keeps this.                                                *)
(*                                                                         *)
(* The promise does not hold for a job that has met with one of three      *)
(* mishaps the code does not rule out; JobRefinement names them by their   *)
(* causes.  Such a job is "amiss", until the next boot has gone over it,   *)
(* and then only the promise to process one job at a time covers it.       *)
(***************************************************************************)
EXTENDS Naturals

CONSTANT Jobs

VARIABLES
  view,  \* what GET /jobs says of each job; the active statuses are one
  up,    \* whether the backend serves
  amiss  \* the jobs that have met with a mishap since the last boot

Waiting == {"uploading", "queued"}
Rows    == Waiting \cup {"running", "done", "failed", "cancelled"}
Views   == Rows \cup {"absent", "deleted"}

Init == view = [j \in Jobs |-> "absent"] /\ up = TRUE /\ amiss = {}

NobodyRuns == \A j \in Jobs : view[j] # "running"

\* While the backend serves, one job changes at a time.
Become(j, from, to) ==
  /\ up /\ view[j] \in from
  /\ view' = [view EXCEPT ![j] = to]
  /\ UNCHANGED <<up, amiss>>

Accept(j)  == Become(j, {"absent"}, "uploading") \/ Become(j, {"absent"}, "queued")
Publish(j) == Become(j, {"uploading"}, "queued")

\* A job is taken from the queue when no other is being processed.
Start(j)  == NobodyRuns /\ Become(j, {"queued"}, "running")
Finish(j) == Become(j, {"running"}, "done")

\* A run fails, or the stale check gives up a job that waits.
Fail(j)   == Become(j, Waiting \cup {"running"}, "failed")

Cancel(j) == Become(j, {"queued", "running"}, "cancelled")

\* The request that created the job gives it up.
Drop(j)   == Become(j, Rows \ {"done"}, "deleted")

\* A mishap; it may show at once.
GoAmiss(j) ==
  /\ up /\ amiss' = amiss \cup {j}
  /\ view' = view \/ view' = [view EXCEPT ![j] = "failed"]
  /\ UNCHANGED up

\* What a job that is amiss may become, if it has a row.
Stray(j) ==
  /\ j \in amiss
  /\ \/ NobodyRuns /\ Become(j, Rows, "running")
     \/ \E v \in Rows \ {"running"} : Become(j, Rows, v)

\* What is on its way when the backend dies may stay half done.
Crash == up /\ up' = FALSE /\ amiss \subseteq amiss' /\ UNCHANGED view

(***************************************************************************)
(* What a step of the boot may make of a job: one that waited, waits; one  *)
(* that is done or was cancelled stays so; one that ran or had failed is   *)
(* tried again, or ends as its files say, but not cancelled.               *)
(***************************************************************************)
After(v) ==
  CASE v \in {"absent", "deleted", "done", "cancelled"} -> {v}
    [] v \in Waiting                                    -> {v, "queued"}
    [] v \in {"running", "failed"} -> {"queued", "running", "failed", "done"}

Recover ==
  /\ ~up
  /\ view' \in [Jobs -> Views]
  /\ \A j \in Jobs \ amiss : view'[j] \in After(view[j])
  /\ amiss' = {}
  /\ UNCHANGED up

\* No job is taken for running when the backend comes back.
Serve == ~up /\ NobodyRuns /\ up' = TRUE /\ UNCHANGED <<view, amiss>>

Next ==
  \/ \E j \in Jobs : \/ Accept(j) \/ Publish(j) \/ Start(j) \/ Finish(j)
                     \/ Fail(j) \/ Cancel(j) \/ Drop(j)
                     \/ GoAmiss(j) \/ Stray(j)
  \/ Crash \/ Recover \/ Serve

Spec == Init /\ [][Next]_<<view, up, amiss>>

=============================================================================
