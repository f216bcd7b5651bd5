------------------------- MODULE JobRefinement_proof -------------------------
(***************************************************************************)
(* TLAPS shows that JobLifecycle implements JobPromise for any sets of     *)
(* jobs, uploads and cancel requests and any number of crashes, when the   *)
(* admin route POST /jobs/{id}/stage is not used.                          *)
(***************************************************************************)
EXTENDS JobRefinement, JobLifecycle_proof

\* A step of the promise, or none.
Step == [Promise!Next]_<<[j \in Jobs |-> View(j)], phase = "up", Amiss>>

(***************************************************************************)
(* What changes no row, meets with no mishap and does not start or stop    *)
(* the backend is no step of the promise.                                  *)
(***************************************************************************)
LEMMA Stutters ==
  ASSUME UNCHANGED status, (phase = "up") <=> (phase' = "up"), UNCHANGED Amiss
  PROVE  Step
BY DEF Step, View

(***************************************************************************)
(* A step that changes one row of a backend that serves changes the view   *)
(* of that job only.                                                       *)
(***************************************************************************)
LEMMA OneChanges ==
  ASSUME phase = "up", phase' = "up", UNCHANGED Amiss,
         NEW j \in Jobs, NEW from, NEW s, View(j) \in from,
         \A k \in Jobs : status'[k] = IF k = j THEN s ELSE status[k]
  PROVE  Promise!Become(j, from, IF s \in Active THEN "running" ELSE s)
<1>1. \A k \in Jobs : View(k)' = IF k = j THEN IF s \in Active THEN "running" ELSE s
                                 ELSE View(k)
  BY DEF View
<1> QED BY <1>1 DEF Promise!Become

(***************************************************************************)
(* A mishap of a job, whose row it may fail.                               *)
(***************************************************************************)
LEMMA Mishap ==
  ASSUME phase = "up", phase' = "up", NEW j \in Jobs, Amiss' = Amiss \cup {j},
         \/ UNCHANGED status
         \/ \A k \in Jobs : status'[k] = IF k = j /\ HasRow(j) THEN "failed" ELSE status[k]
  PROVE  Step
<1>1. CASE \A k \in Jobs : View(k)' = View(k)
  <2>1. Promise!GoAmiss(j)
    BY <1>1 DEF Promise!GoAmiss
  <2> QED BY <2>1 DEF Step, Promise!Next
<1>2. CASE \A k \in Jobs : View(k)' = IF k = j THEN "failed" ELSE View(k)
  <2>1. Promise!GoAmiss(j)
    BY <1>2 DEF Promise!GoAmiss
  <2> QED BY <2>1 DEF Step, Promise!Next
<1>3. UNCHANGED status => \A k \in Jobs : View(k)' = View(k)
  BY DEF View
<1>4. ASSUME \A k \in Jobs : status'[k] = IF k = j /\ HasRow(j) THEN "failed" ELSE status[k]
      PROVE  \/ \A k \in Jobs : View(k)' = View(k)
             \/ \A k \in Jobs : View(k)' = IF k = j THEN "failed" ELSE View(k)
  BY <1>4 DEF View, Active
<1> QED BY <1>1, <1>2, <1>3, <1>4

(***************************************************************************)
(* An UPDATE to a final status finds a row or does nothing; a row that     *)
(* already says what is written does not change either.                    *)
(***************************************************************************)
LEMMA RowSettles ==
  ASSUME phase = "up", phase' = "up", UNCHANGED Amiss, DbType, NEW j \in Jobs,
         NEW s \in {"done", "failed", "cancelled"},
         \A k \in Jobs : status'[k] = IF k = j /\ HasRow(j) THEN s ELSE status[k],
         HasRow(j) => View(j) \in Promise!Rows,
         HasRow(j) /\ status[j] # s /\ j \notin Amiss =>
           View(j) \in CASE s = "done"      -> {"running"}
                         [] s = "failed"    -> Promise!Waiting \cup {"running"}
                         [] s = "cancelled" -> {"queued", "running"}
  PROVE  Step
<1>1. CASE HasRow(j) /\ status[j] # s
  <2>1. s \notin Active
    BY DEF Active
  <2>2. CASE s = "done" /\ j \notin Amiss
    BY <1>1, <2>1, <2>2, OneChanges DEF Step, Promise!Next, Promise!Finish
  <2>3. CASE s = "failed" /\ j \notin Amiss
    BY <1>1, <2>1, <2>3, OneChanges DEF Step, Promise!Next, Promise!Fail
  <2>4. CASE s = "cancelled" /\ j \notin Amiss
    BY <1>1, <2>1, <2>4, OneChanges DEF Step, Promise!Next, Promise!Cancel
  <2>5. CASE j \in Amiss
    <3>1. s \in Promise!Rows \ {"running"}
      BY DEF Promise!Rows
    <3>2. Promise!Become(j, Promise!Rows, s)
      BY <1>1, <2>1, OneChanges
    <3>3. Promise!Stray(j)
      BY <2>5, <3>1, <3>2 DEF Promise!Stray
    <3> QED BY <3>3 DEF Step, Promise!Next
  <2> QED BY <2>2, <2>3, <2>4, <2>5
<1>2. CASE ~(HasRow(j) /\ status[j] # s)
  <2>1. \A k \in Jobs : status'[k] = status[k]
    BY <1>2
  <2> QED BY <2>1 DEF Step, View
<1> QED BY <1>1, <1>2

(***************************************************************************)
(* The view of a row, for the statuses that occur when nobody posts.       *)
(***************************************************************************)
LEMMA ViewIs ==
  ASSUME DbType, StatusIsKnown, NEW j \in Jobs
  PROVE  /\ View(j) \in Promise!Views
         /\ HasRow(j) => View(j) \in Promise!Rows
         /\ View(j) = "running" <=> status[j] \in Active
         /\ status[j] \notin Active => View(j) = status[j]
BY DEF View, DbType, StatusIsKnown, RowStatus, JobStatus, Active, Terminal, HasRow,
       Promise!Views, Promise!Rows, Promise!Waiting

(***************************************************************************)
(* A step of the boot that is one of Recover's: each job becomes something *)
(* Recover allows.                                                         *)
(***************************************************************************)
LEMMA Recovers ==
  ASSUME phase # "up", phase' # "up", Amiss' = {},
         \A j \in Jobs : View(j)' \in Promise!Views,
         \A j \in Jobs \ Amiss : View(j)' \in Promise!After(View(j))
  PROVE  Step
<1>1. Promise!Recover
  BY DEF Promise!Recover
<1> QED BY <1>1 DEF Step, Promise!Next

\* A view may stay what it is.
LEMMA AfterKeeps ==
  ASSUME NEW v \in Promise!Views
  PROVE  v \in Promise!After(v)
BY DEF Promise!After, Promise!Views, Promise!Rows, Promise!Waiting

(***************************************************************************)
(* The first view of every job is that it is absent.                       *)
(***************************************************************************)
LEMMA PromiseInit ==
  Init => Promise!Init /\ RInv
BY DEF Init, Promise!Init, RInv, CancelledIsGone, RunHasItsRow, CancelHasItsRow,
       SweepIsClean, StatusIsKnown, View, Amiss, Active, IdleWorker, NoCancel, RunPc

(***************************************************************************)
(* Every step of the lifecycle keeps RInv and is a step of the promise, or *)
(* none.  Steps s, w and c are for the actions that touch no row, no       *)
(* manifest and no mishap; the actions that do follow one by one.          *)
(***************************************************************************)
LEMMA RefinementStep ==
  ASSUME StageRoute = {}, IInv, RInv, [Next]_vars
  PROVE  RInv' /\ Step
<1>0. /\ DbType /\ FolderType /\ WorkerType /\ CancelType /\ AsideType /\ BootType
      /\ req \in [Jobs -> ReqPc] /\ held \in [Jobs -> Copy]
      /\ QuietBoot /\ NothingPosted /\ RowFirst /\ RunIsOwned /\ CancelIsExclusive
      /\ RanIsSettled /\ HeldIsOlder /\ SweepIsComplete /\ ActiveIsOwned /\ DoneIsOnDisk
      /\ CancelledIsGone /\ RunHasItsRow /\ CancelHasItsRow /\ SweepIsClean /\ StatusIsKnown
  BY DEF IInv, TypeOK, RInv
<1>j. /\ worker.pc \notin {"poll", "wait"} => worker.job \in Jobs
      /\ \A c \in Cancels : cancel[c].pc \notin {"idle", "end"} => cancel[c].job \in Jobs
      /\ sweep.pc # "next" => sweep.job \in Jobs
      /\ todo \subseteq Jobs
  BY <1>0, NoJobIsNone DEF WorkerType, IdlePc, CancelType, BootType
<1> USE <1>0, <1>j
<1>v. \A j \in Jobs :
        /\ View(j) \in Promise!Views
        /\ HasRow(j) => View(j) \in Promise!Rows
        /\ View(j) = "running" <=> status[j] \in Active
        /\ status[j] \notin Active => View(j) = status[j]
  BY ViewIs
<1>u. /\ UNCHANGED db => UNCHANGED status
      /\ UNCHANGED folder => UNCHANGED <<manifest, transcript, source>>
      /\ UNCHANGED mishaps => UNCHANGED <<overwritten, givenUp, left>>
      /\ UNCHANGED boot => UNCHANGED <<phase, todo, sweep>>
      /\ UNCHANGED <<overwritten, givenUp, left>> => UNCHANGED Amiss
  BY DEF db, folder, mishaps, boot, Amiss
<1>g. ASSUME UNCHANGED cancel, UNCHANGED worker \/ worker.pc # "rmtree",
             NEW j \in Jobs, AboutToGo(j)
      PROVE  AboutToGo(j)'
  BY <1>g DEF AboutToGo
<1>h. ASSUME UNCHANGED worker, NEW c \in Cancels, cancel[c].pc \notin {"row", "rmtree"},
             \A d \in Cancels \ {c} : cancel'[d] = cancel[d],
             NEW j \in Jobs, AboutToGo(j)
      PROVE  AboutToGo(j)'
  BY <1>h DEF AboutToGo
<1>s. ASSUME UNCHANGED <<phase, status, manifest, worker, cancel, Amiss>>
      PROVE  RInv' /\ Step
  <2>1. CancelledIsGone'
    BY <1>s, <1>g DEF CancelledIsGone
  <2>2. RunHasItsRow' /\ CancelHasItsRow' /\ SweepIsClean' /\ StatusIsKnown'
    BY <1>s DEF RunHasItsRow, CancelHasItsRow, SweepIsClean, StatusIsKnown
  <2> QED BY <1>s, <2>1, <2>2, Stutters DEF RInv
<1>w. ASSUME UNCHANGED <<phase, status, manifest, cancel, Amiss>>, worker.pc # "rmtree",
             worker'.pc \in RunPc => worker.pc \in RunPc /\ worker'.job = worker.job
      PROVE  RInv' /\ Step
  <2>1. CancelledIsGone'
    BY <1>w DEF CancelledIsGone, AboutToGo
  <2>2. RunHasItsRow' /\ CancelHasItsRow' /\ SweepIsClean' /\ StatusIsKnown'
    BY <1>w DEF RunHasItsRow, CancelHasItsRow, SweepIsClean, StatusIsKnown
  <2> QED BY <1>w, <2>1, <2>2, Stutters DEF RInv
<1>c. ASSUME UNCHANGED <<phase, status, manifest, worker, Amiss>>, NEW c \in Cancels,
             cancel[c].pc \notin {"row", "rmtree"}, cancel'[c].pc \notin {"row", "rmtree"},
             \A d \in Cancels \ {c} : cancel'[d] = cancel[d]
      PROVE  RInv' /\ Step
  <2>1. CancelledIsGone'
    BY <1>c, <1>h DEF CancelledIsGone
  <2>2. RunHasItsRow' /\ CancelHasItsRow' /\ SweepIsClean' /\ StatusIsKnown'
    BY <1>c DEF RunHasItsRow, CancelHasItsRow, SweepIsClean, StatusIsKnown
  <2> QED BY <1>c, <2>1, <2>2, Stutters DEF RInv
<1>d. ASSUME NEW j \in Jobs, UNCHANGED <<phase, manifest, worker, cancel, Amiss>>,
             NEW s \in RowStatus \ {"cancelled", "diarizing", "summarizing"},
             \A k \in Jobs : status'[k] = IF k = j THEN s ELSE status[k],
             worker.job = j => worker.pc \notin RunPc \/ s \in Active \cup {"deleted"},
             s = "deleted" \/ \A c \in Cancels :
                cancel[c].job = j => cancel[c].pc \notin {"row", "rmtree"}
      PROVE  RInv'
  <2>1. CancelledIsGone'
    BY <1>d, <1>g DEF CancelledIsGone
  <2>2. RunHasItsRow'
    BY <1>d DEF RunHasItsRow, RunPc
  <2>3. CancelHasItsRow'
    BY <1>d DEF CancelHasItsRow
  <2>4. SweepIsClean' /\ StatusIsKnown'
    BY <1>d DEF SweepIsClean, StatusIsKnown
  <2> QED BY <2>1, <2>2, <2>3, <2>4 DEF RInv
<1>r. ASSUME NEW j \in Jobs, Rmtree(j), UNCHANGED <<phase, status>>, phase = "up"
      PROVE  /\ \A k \in Jobs \ {j} : manifest'[k] = manifest[k]
             /\ manifest'[j] = "absent" \/ j \in Amiss'
             /\ Amiss' \in {Amiss, Amiss \cup {j}}
             /\ UNCHANGED worker \/ worker'.pc \notin RunPc => RunHasItsRow'
             /\ UNCHANGED cancel => CancelHasItsRow'
             /\ SweepIsClean' /\ StatusIsKnown' /\ Step
  <2>1. /\ \A k \in Jobs \ {j} : manifest'[k] = manifest[k]
        /\ manifest'[j] = "absent" \/ j \in left'
        /\ left' \in {left, left \cup {j}}
        /\ overwritten' = overwritten /\ givenUp' = givenUp
    BY <1>r, RmtreeIs
  <2>2. Amiss' \in {Amiss, Amiss \cup {j}} /\ left' \subseteq Amiss'
    BY <2>1 DEF Amiss
  <2>3. /\ UNCHANGED worker \/ worker'.pc \notin RunPc => RunHasItsRow'
        /\ UNCHANGED cancel => CancelHasItsRow'
        /\ SweepIsClean' /\ StatusIsKnown'
    BY <1>r, <2>2 DEF RunHasItsRow, CancelHasItsRow, SweepIsClean, StatusIsKnown
  <2>4. Step
    BY <1>r, <2>2, Stutters, Mishap
  <2> QED BY <2>1, <2>2, <2>3, <2>4
<1>e. ASSUME UNCHANGED <<phase, manifest, cancel, Amiss>>,
             worker.pc \in RunPc, worker.job \in Jobs, worker'.job = worker.job,
             NEW s \in {"done", "failed", "cancelled"},
             worker'.pc = IF s = "cancelled" /\ HasRow(worker.job) THEN "rmtree" ELSE "finally",
             \A k \in Jobs : status'[k] = IF k = worker.job /\ HasRow(worker.job)
                                          THEN s ELSE status[k]
      PROVE  RInv' /\ Step
  <2>1. /\ phase = "up" /\ phase' = "up" /\ worker.pc # "rmtree"
        /\ status[worker.job] \in Active \cup {"failed", "deleted"}
    <3>1. phase = "up"
      <4>1. IdleWorker.pc \notin RunPc
        BY DEF IdleWorker, RunPc
      <4> QED BY <1>e, <4>1 DEF QuietBoot
    <3>2. worker.pc # "rmtree"
      BY <1>e DEF RunPc
    <3> QED BY <1>e, <3>1, <3>2 DEF RunIsOwned
  <2>2. CancelledIsGone'
    BY <1>e, <2>1 DEF CancelledIsGone, AboutToGo, HasRow, Active
  <2>3. RunHasItsRow' /\ CancelHasItsRow' /\ SweepIsClean' /\ StatusIsKnown'
    BY <1>e DEF RunHasItsRow, CancelHasItsRow, CancelIsExclusive, SweepIsClean,
       StatusIsKnown, RunPc
  <2>4. HasRow(worker.job) /\ worker.job \notin Amiss => View(worker.job) = "running"
    BY <1>e, <1>v DEF RunHasItsRow, HasRow
  <2>5. Step
    <3> DEFINE j == worker.job
    <3>1. /\ j \in Jobs /\ (HasRow(j) => View(j) \in Promise!Rows)
          /\ HasRow(j) /\ j \notin Amiss => View(j) = "running"
          /\ \A k \in Jobs : status'[k] = IF k = j /\ HasRow(j) THEN s ELSE status[k]
      BY <1>e, <1>v, <2>4
    <3> HIDE DEF j
    <3>2. HasRow(j) /\ status[j] # s /\ j \notin Amiss =>
            View(j) \in CASE s = "done"      -> {"running"}
                          [] s = "failed"    -> Promise!Waiting \cup {"running"}
                          [] s = "cancelled" -> {"queued", "running"}
      BY <3>1
    <3> QED BY <1>e, <2>1, <3>1, <3>2, RowSettles
  <2> QED BY <2>2, <2>3, <2>5 DEF RInv
<1>1. ASSUME NEW j \in Jobs, InsertRow(j) PROVE RInv' /\ Step
  <2>1. /\ UNCHANGED <<phase, worker, cancel, manifest, Amiss>>
        /\ phase = "up" /\ status[j] = "absent"
        /\ \A k \in Jobs : status'[k] = IF k = j THEN InitialStatus(j) ELSE status[k]
        /\ InitialStatus(j) \in {"uploading", "queued"}
    BY <1>1, <1>u DEF InsertRow, InitialStatus, DbType
  <2>2. RInv'
    BY <1>d, <2>1, RowNames DEF RunIsOwned, CancelIsExclusive, Active
  <2>3. Promise!Become(j, {"absent"}, InitialStatus(j))
    BY <1>v, <2>1, OneChanges DEF Active
  <2>4. Promise!Accept(j)
    BY <2>1, <2>3 DEF Promise!Accept
  <2> QED BY <2>2, <2>4 DEF Step, Promise!Next
<1>2. ASSUME NEW j \in Jobs, CreateFolder(j) PROVE RInv' /\ Step
  <2>1. /\ UNCHANGED <<phase, worker, cancel, status>> /\ phase = "up"
        /\ \A k \in Jobs : manifest'[k] = IF k = j THEN "none" ELSE manifest[k]
        /\ Amiss' = IF status[j] = "cancelled" THEN Amiss \cup {j} ELSE Amiss
    BY <1>2, <1>u, StageNames, WriteStageIs DEF CreateFolder, QuietBoot, Amiss
  <2>2. CancelledIsGone'
    BY <2>1, <1>g DEF CancelledIsGone
  <2>3. RunHasItsRow' /\ CancelHasItsRow' /\ SweepIsClean' /\ StatusIsKnown'
    BY <2>1 DEF RunHasItsRow, CancelHasItsRow, SweepIsClean, StatusIsKnown
  <2>4. Step
    BY <2>1, Stutters, Mishap
  <2> QED BY <2>2, <2>3, <2>4 DEF RInv
<1>3. ASSUME NEW j \in Jobs, CompensateInsert(j) PROVE RInv' /\ Step
  <2>1. /\ UNCHANGED <<phase, worker, cancel, manifest, Amiss>>
        /\ phase = "up" /\ status[j] # "absent" /\ j \notin transcript
        /\ \A k \in Jobs : status'[k] = IF k = j THEN "deleted" ELSE status[k]
    BY <1>3, <1>u DEF CompensateInsert, DbType, QuietBoot, RowFirst
  <2>2. RInv'
    BY <1>d, <2>1, RowNames
  <2>3. status[j] # "done"
    BY <2>1 DEF DoneIsOnDisk
  <2>4. CASE status[j] = "deleted"
    <3>1. status' = status
      BY <2>1, <2>4, <1>3 DEF CompensateInsert, DbType
    <3> QED BY <2>1, <2>2, <3>1, Stutters
  <2>5. CASE status[j] # "deleted"
    <3>1. View(j) \in Promise!Rows \ {"done"}
      BY <1>v, <2>1, <2>3, <2>5 DEF HasRow
    <3>2. Promise!Drop(j)
      BY <2>1, <3>1, OneChanges DEF Active, Promise!Drop
    <3> QED BY <2>2, <3>2 DEF Step, Promise!Next
  <2> QED BY <2>4, <2>5
<1>4. ASSUME NEW j \in Jobs,
             Retry(j) \/ LandSource(j) \/ AbortUpload(j) \/ Age(j)
      PROVE  RInv' /\ Step
  BY <1>4, <1>s, <1>u DEF Retry, LandSource, AbortUpload, Age
<1>5. ASSUME NEW j \in Jobs, PatchSource(j) PROVE RInv' /\ Step
  <2>1. /\ UNCHANGED <<phase, worker, cancel, status>> /\ phase = "up"
        /\ held[j].stage # "absent"
        /\ \A k \in Jobs : manifest'[k] = IF k = j THEN held[j].stage ELSE manifest[k]
        /\ Amiss' = IF manifest[j] # held[j].stage THEN Amiss \cup {j} ELSE Amiss
    <3>1. /\ [held[j] EXCEPT !.path = "own"] \in Copy
          /\ [held[j] EXCEPT !.path = "own"].stage = held[j].stage
      BY CopyIs DEF Copy
    <3>2. req[j] = "patch" /\ UNCHANGED <<phase, worker, cancel, status>>
      BY <1>5, <1>u DEF PatchSource
    <3>3. \A k \in Jobs : manifest'[k] = IF k = j THEN held[j].stage ELSE manifest[k]
      BY <1>5, <3>1, WriteManifestIs DEF PatchSource
    <3>4. Amiss' = IF manifest[j] # held[j].stage THEN Amiss \cup {j} ELSE Amiss
      BY <1>5 DEF PatchSource, Amiss
    <3> QED BY <3>2, <3>3, <3>4 DEF QuietBoot, HeldIsOlder
  <2>2. CancelledIsGone'
    BY <2>1, <1>g DEF CancelledIsGone
  <2>3. RunHasItsRow' /\ CancelHasItsRow' /\ SweepIsClean' /\ StatusIsKnown'
    BY <2>1 DEF RunHasItsRow, CancelHasItsRow, SweepIsClean, StatusIsKnown
  <2>4. Step
    BY <2>1, Stutters, Mishap
  <2> QED BY <2>2, <2>3, <2>4 DEF RInv
<1>6. ASSUME NEW j \in Jobs, Enqueue(j) PROVE RInv' /\ Step
  <2>1. /\ UNCHANGED <<phase, worker, cancel, manifest, Amiss>> /\ phase = "up"
        /\ \A k \in Jobs :
             status'[k] = IF k = j /\ status[k] \in {"uploading", "queued"}
                          THEN "queued" ELSE status[k]
    BY <1>6, <1>u DEF Enqueue, DbType, QuietBoot
  <2>2. CASE status[j] = "uploading"
    <3>1. \A k \in Jobs : status'[k] = IF k = j THEN "queued" ELSE status[k]
      BY <2>1, <2>2
    <3>2. RInv'
      BY <1>d, <2>1, <2>2, <3>1, RowNames DEF RunIsOwned, CancelIsExclusive, Active
    <3>3. View(j) \in {"uploading"}
      BY <1>v, <2>2 DEF Active
    <3>4. Promise!Publish(j)
      BY <2>1, <3>1, <3>3, OneChanges DEF Active, Promise!Publish
    <3> QED BY <3>2, <3>4 DEF Step, Promise!Next
  <2>3. CASE status[j] # "uploading"
    <3>1. status' = status
      BY <1>6, <2>3 DEF Enqueue, DbType
    <3> QED BY <2>1, <3>1, <1>s
  <2> QED BY <2>2, <2>3
<1>7. ASSUME PullNext PROVE RInv' /\ Step
  <2>1. /\ UNCHANGED <<phase, status, manifest, cancel, Amiss>>
        /\ worker.pc = "poll" /\ worker'.pc \in {"picked", "wait"}
    BY <1>7, <1>u DEF PullNext, PullSelect, PullNothing, GoTo, WorkerAt, WorkerType
  <2> QED BY <2>1, <1>w DEF RunPc
<1>8. ASSUME PullClaim PROVE RInv' /\ Step
  <2>1. /\ UNCHANGED <<phase, cancel, manifest, Amiss>>
        /\ phase = "up" /\ worker.pc = "picked" /\ worker.job \in Jobs
    BY <1>8, <1>u DEF PullClaim, WorkerAt
  <2>2. CASE status[worker.job] = "queued"
    <3>1. SetStatus(worker.job, "starting") /\ GoTo("claimed") /\ HasRow(worker.job)
      BY <1>8, <2>2 DEF PullClaim, HasRow
    <3>2. \A k \in Jobs : status'[k] = IF k = worker.job THEN "starting" ELSE status[k]
      BY <2>1, <3>1, RowNames, SetStatusIs
    <3>3. worker'.job = worker.job
      BY <2>1, <3>1, PcNames, GoToIs
    <3>4. CancelledIsGone'
      BY <2>1, <2>2, <3>2 DEF CancelledIsGone, AboutToGo
    <3>5. RunHasItsRow' /\ CancelHasItsRow' /\ SweepIsClean' /\ StatusIsKnown'
      BY <2>1, <2>2, <3>2, <3>3 DEF RunHasItsRow, CancelHasItsRow, CancelIsExclusive,
         SweepIsClean, StatusIsKnown, Active
    <3>6. Promise!NobodyRuns /\ View(worker.job) \in {"queued"}
      BY <1>v, <2>1, <2>2 DEF ActiveIsOwned, RunPc, Promise!NobodyRuns, Active
    <3>7. Promise!Become(worker.job, {"queued"}, "running")
      BY <2>1, <3>2, <3>6, OneChanges DEF Active
    <3>8. Promise!Start(worker.job)
      BY <3>6, <3>7 DEF Promise!Start
    <3> QED BY <2>1, <3>4, <3>5, <3>8 DEF RInv, Step, Promise!Next
  <2>3. CASE status[worker.job] # "queued"
    <3>1. worker'.pc = "wait" /\ status' = status
      BY <1>8, <2>3 DEF PullClaim, IdleWorker
    <3> QED BY <2>1, <3>1, <1>w DEF RunPc
  <2> QED BY <2>2, <2>3
<1>9. ASSUME WakeOnSignal \/ WakeOnTimeout PROVE RInv' /\ Step
  <2>1. /\ UNCHANGED <<phase, status, manifest, cancel, Amiss>>
        /\ worker.pc = "wait" /\ worker'.pc = "poll"
    BY <1>9, <1>u DEF WakeOnSignal, WakeOnTimeout, WakeUp, WorkerAt, GoTo, WorkerType
  <2> QED BY <2>1, <1>w DEF RunPc
<1>10. ASSUME RunStart \/ LoadAdapter \/ LastBoundary \/ RunError \/ WriteTranscript
                \/ WriteProgress \/ UpdateRead("read transcribed", "write transcribed")
                \/ UpdateRead("read done", "write done")
       PROVE  RInv' /\ Step
  <2>1. /\ UNCHANGED <<phase, status, manifest, cancel, Amiss>>
        /\ worker.pc \in {"claimed", "loading", "transcribing", "decoding",
                          "read transcribed", "read done"}
        /\ worker'.job = worker.job
    BY <1>10, <1>u DEF RunStart, LoadAdapter, LastBoundary, RunError, WriteTranscript,
       WriteProgress, UpdateRead, WorkerAt, GoTo, WorkerType
  <2> QED BY <2>1, <1>w, PcNames
<1>11. ASSUME \/ UpdateWrite("write transcribed", "transcribed", "row transcribed")
              \/ UpdateWrite("write done", "done", "row done")
       PROVE  RInv' /\ Step
  <2>1. /\ UNCHANGED <<phase, status, cancel, Amiss>>
        /\ worker.pc \in RunPc /\ worker.pc # "rmtree" /\ worker.job \in Jobs
        /\ worker'.job = worker.job
    BY <1>11, <1>u, PcNames DEF UpdateWrite, WorkerAt, WorkerType, RunPc
  <2>2. \A k \in Jobs \ {worker.job} : manifest'[k] = manifest[k]
    <3>1. ASSUME NEW s \in ManifestStage,
                 WriteManifest(worker.job, [worker.copy EXCEPT !.stage = s])
          PROVE  \A k \in Jobs \ {worker.job} : manifest'[k] = manifest[k]
      BY <2>1, <3>1 DEF WriteManifest, FolderType
    <3> QED BY <1>11, <1>u, <3>1, StageNames DEF UpdateWrite
  <2>3. CancelledIsGone'
    <3>1. status[worker.job] # "cancelled"
      BY <2>1 DEF RunIsOwned, Active
    <3> QED BY <2>1, <2>2, <3>1 DEF CancelledIsGone, AboutToGo
  <2>4. RunHasItsRow' /\ CancelHasItsRow' /\ SweepIsClean' /\ StatusIsKnown'
    BY <2>1 DEF RunHasItsRow, CancelHasItsRow, SweepIsClean, StatusIsKnown
  <2> QED BY <2>1, <2>3, <2>4, Stutters DEF RInv
<1>12. ASSUME UpdateRow("row transcribed", "transcribing", "read done")
       PROVE  RInv' /\ Step
  <2>1. /\ UNCHANGED <<phase, manifest, cancel, Amiss>> /\ phase = "up"
        /\ worker.pc = "row transcribed" /\ worker.job \in Jobs
        /\ worker'.pc = "read done" /\ worker'.job = worker.job
        /\ \A k \in Jobs : status'[k] = IF k = worker.job /\ HasRow(worker.job)
                                       THEN "transcribing" ELSE status[k]
    BY <1>12, <1>u, RowNames, PcNames, SetStatusIs DEF UpdateRow, WorkerAt, GoTo, WorkerType
  <2>2. status[worker.job] \in Active \cup {"failed", "deleted"}
    BY <2>1, PcNames DEF RunIsOwned
  <2>3. CancelledIsGone'
    BY <1>g, <2>1 DEF CancelledIsGone
  <2>4. RunHasItsRow' /\ CancelHasItsRow' /\ SweepIsClean' /\ StatusIsKnown'
    BY <2>1, <2>2, PcNames DEF RunHasItsRow, CancelHasItsRow, CancelIsExclusive,
       SweepIsClean, StatusIsKnown, Active, HasRow
  <2>5. CASE status[worker.job] = "failed"
    <3>1. /\ Promise!NobodyRuns /\ View(worker.job) \in Promise!Rows
          /\ worker.job \in Amiss
      BY <1>v, <2>1, <2>5, PcNames DEF ActiveIsOwned, Promise!NobodyRuns, Active, HasRow,
         RunHasItsRow
    <3>2. \A k \in Jobs : status'[k] = IF k = worker.job THEN "transcribing" ELSE status[k]
      BY <2>1, <2>5 DEF HasRow
    <3>3. Promise!Become(worker.job, Promise!Rows, "running")
      <4>1. phase = "up" /\ phase' = "up" /\ worker.job \in Jobs /\ "transcribing" \in Active
        BY <2>1 DEF Active
      <4> QED BY <2>1, <3>1, <3>2, <4>1, OneChanges
    <3>4. Promise!Stray(worker.job)
      BY <3>1, <3>3 DEF Promise!Stray
    <3> QED BY <2>1, <2>3, <2>4, <3>4 DEF RInv, Step, Promise!Next
  <2>6. CASE status[worker.job] # "failed"
    <3>1. \A k \in Jobs : View(k)' = View(k)
      BY <2>1, <2>2, <2>6 DEF View, Active, HasRow
    <3>2. Step
      BY <2>1, <3>1 DEF Step
    <3> QED BY <2>3, <2>4, <3>2 DEF RInv
  <2> QED BY <2>5, <2>6
<1>13. ASSUME UpdateRow("row done", "done", "finally") PROVE RInv' /\ Step
  <2>1. /\ UNCHANGED <<phase, manifest, cancel, Amiss>>
        /\ worker.pc \in RunPc /\ worker.job \in Jobs
        /\ worker'.pc = "finally" /\ worker'.job = worker.job
        /\ \A k \in Jobs : status'[k] = IF k = worker.job /\ HasRow(worker.job)
                                       THEN "done" ELSE status[k]
    BY <1>13, <1>u, RowNames, PcNames, SetStatusIs DEF UpdateRow, WorkerAt, GoTo, WorkerType
  <2> QED BY <1>e, <2>1
<1>14. ASSUME RunFailed PROVE RInv' /\ Step
  <2>1. /\ UNCHANGED <<phase, manifest, cancel, Amiss>>
        /\ worker.pc \in RunPc /\ worker.job \in Jobs
        /\ worker'.pc = "finally" /\ worker'.job = worker.job
        /\ \A k \in Jobs : status'[k] = IF k = worker.job /\ HasRow(worker.job)
                                       THEN "failed" ELSE status[k]
    BY <1>14, <1>u, ErrorNames, PcNames, MarkFailedIs DEF RunFailed, WorkerAt, GoTo,
       WorkerType
  <2> QED BY <1>e, <2>1
<1>15. ASSUME RunCancelled PROVE RInv' /\ Step
  <2>1. /\ UNCHANGED <<phase, manifest, cancel, Amiss>>
        /\ worker.pc \in RunPc /\ worker.job \in Jobs
        /\ worker'.pc = IF HasRow(worker.job) THEN "rmtree" ELSE "finally"
        /\ worker'.job = worker.job
        /\ \A k \in Jobs : status'[k] = IF k = worker.job /\ HasRow(worker.job)
                                       THEN "cancelled" ELSE status[k]
    BY <1>15, <1>u, RowNames, PcNames, SetStatusIs DEF RunCancelled, WorkerAt, GoTo,
       WorkerType
  <2> QED BY <1>e, <2>1
<1>16. ASSUME RunRmtree PROVE RInv' /\ Step
  <2>1. /\ UNCHANGED <<phase, status, cancel>> /\ phase = "up"
        /\ worker.pc = "rmtree" /\ worker'.pc = "finally"
        /\ worker.job \in Jobs /\ Rmtree(worker.job)
    BY <1>16, <1>u DEF RunRmtree, WorkerAt, GoTo, WorkerType
  <2>2. CancelledIsGone'
    BY <1>r, <2>1 DEF CancelledIsGone, AboutToGo
  <2> QED BY <1>r, <2>1, <2>2 DEF RInv, RunPc
<1>17. ASSUME RunFinally PROVE RInv' /\ Step
  <2>1. /\ UNCHANGED <<phase, status, manifest, cancel, Amiss>>
        /\ worker.pc = "finally" /\ worker'.pc = "poll"
    BY <1>17, <1>u DEF RunFinally, WorkerAt, IdleWorker
  <2> QED BY <2>1, <1>w DEF RunPc
<1>18. ASSUME NEW c \in Cancels, NEW j \in Jobs, CancelSelect(c, j) PROVE RInv' /\ Step
  <2>1. /\ UNCHANGED <<phase, status, manifest, worker, Amiss>>
        /\ cancel[c].pc = "idle" /\ cancel'[c].pc \in {"end", "flip", "flag"}
        /\ \A d \in Cancels \ {c} : cancel'[d] = cancel[d]
    BY <1>18, <1>u DEF CancelSelect, CancelAt, CancelType
  <2> QED BY <2>1, <1>c
<1>19. ASSUME NEW c \in Cancels, CancelFlip(c) PROVE RInv' /\ Step
  <2> DEFINE j == cancel[c].job
  <2>1. /\ UNCHANGED <<phase, manifest, worker, Amiss>> /\ phase = "up"
        /\ j \in Jobs /\ cancel[c].pc = "flip"
    BY <1>19, <1>u DEF CancelFlip, CancelAt
  <2>2. CASE status[j] = "queued"
    <3>1. /\ \A k \in Jobs : status'[k] = IF k = j /\ HasRow(j) THEN "cancelled" ELSE status[k]
          /\ CancelGoTo(c, "row")
      BY <1>19, <2>1, <2>2, RowNames, SetStatusIs DEF CancelFlip
    <3>2. /\ cancel'[c].job = j /\ cancel'[c].pc = "row"
          /\ \A d \in Cancels \ {c} : cancel'[d] = cancel[d]
      BY <2>1, <3>1, CancelNames, CancelGoToIs
    <3>3. status'[j] = "cancelled" /\ \A k \in Jobs \ {j} : status'[k] = status[k]
      BY <2>1, <2>2, <3>1 DEF HasRow
    <3>4. RInv'
      <4> HIDE DEF j
      <4>1. CancelledIsGone'
        BY <2>1, <3>2, <3>3 DEF CancelledIsGone, AboutToGo
      <4>2. CancelHasItsRow'
        BY <2>1, <3>2, <3>3 DEF CancelHasItsRow
      <4>3. worker.pc \in RunPc => worker.job # j
        BY <2>2 DEF RunIsOwned, Active
      <4>4. RunHasItsRow' /\ SweepIsClean' /\ StatusIsKnown'
        BY <2>1, <3>3, <4>3 DEF RunHasItsRow, SweepIsClean, StatusIsKnown, RunPc
      <4> QED BY <4>1, <4>2, <4>4 DEF RInv
    <3>5. View(j) \in {"queued"}
      BY <1>v, <2>1, <2>2 DEF Active
    <3>6. Step
      <4>1. HasRow(j) => View(j) \in Promise!Rows
        BY <1>v, <2>1
      <4> HIDE DEF j
      <4> QED BY <2>1, <3>1, <3>5, <4>1, RowSettles
    <3> QED BY <3>4, <3>6
  <2>3. CASE status[j] # "queued"
    <3>1. CancelGoTo(c, "flag") /\ status' = status
      BY <1>19, <2>3 DEF CancelFlip
    <3>2. /\ cancel'[c].pc = "flag"
          /\ \A d \in Cancels \ {c} : cancel'[d] = cancel[d]
      BY <2>1, <3>1, CancelNames, CancelGoToIs
    <3> QED BY <2>1, <3>1, <3>2, <1>c
  <2> QED BY <2>2, <2>3
<1>20. ASSUME NEW c \in Cancels, CancelRow(c) PROVE RInv' /\ Step
  <2> SUFFICES ASSUME NEW j \in Jobs, j = cancel[c].job PROVE RInv' /\ Step
    <3>1. cancel[c].job \in Jobs
      BY <1>20 DEF CancelRow, CancelAt
    <3> QED BY <3>1
  <2>1. /\ UNCHANGED <<phase, manifest, worker, Amiss>> /\ phase = "up"
        /\ cancel[c].pc = "row"
        /\ \A k \in Jobs : status'[k] = IF k = j /\ HasRow(j) THEN "cancelled" ELSE status[k]
    BY <1>20, <1>u, RowNames, SetStatusIs DEF CancelRow, CancelAt
  <2>2. CancelGoTo(c, IF HasRow(j) THEN "rmtree" ELSE "end")
    BY <1>20 DEF CancelRow
  <2>3. /\ cancel'[c].pc = IF HasRow(j) THEN "rmtree" ELSE "end"
        /\ cancel'[c].job = j
        /\ \A d \in Cancels \ {c} : cancel'[d] = cancel[d]
    BY <2>1, <2>2, CancelNames, CancelGoToIs
  <2>4. /\ status[j] \in {"cancelled", "failed", "deleted"}
        /\ j \notin Amiss => status[j] \in {"cancelled", "deleted"}
        /\ worker.job = j => worker.pc \notin RunPc
    BY <2>1 DEF CancelIsExclusive, CancelHasItsRow
  <2>5. HasRow(j) => View(j) \in Promise!Rows
    BY <1>v, <2>1
  <2>6. CancelledIsGone'
    <3>1. ASSUME NEW k \in Jobs, AboutToGo(k), status'[k] = "cancelled"
          PROVE  AboutToGo(k)'
      BY <2>1, <2>3, <3>1 DEF AboutToGo, HasRow
    <3>2. status'[j] = "cancelled" => AboutToGo(j)'
      BY <2>1, <2>3, <2>4 DEF AboutToGo, HasRow
    <3> QED BY <2>1, <3>1, <3>2 DEF CancelledIsGone
  <2>7. CancelHasItsRow'
    BY <2>1, <2>3, <2>4 DEF CancelHasItsRow, HasRow
  <2>8. RunHasItsRow' /\ SweepIsClean' /\ StatusIsKnown'
    BY <2>1, <2>4 DEF RunHasItsRow, SweepIsClean, StatusIsKnown, RunPc
  <2>9. Step
    BY <2>1, <2>4, <2>5, RowSettles DEF HasRow
  <2> QED BY <2>6, <2>7, <2>8, <2>9 DEF RInv
<1>21. ASSUME NEW c \in Cancels, CancelRmtree(c) PROVE RInv' /\ Step
  <2>1. /\ UNCHANGED <<phase, status, worker>> /\ phase = "up"
        /\ cancel[c].job \in Jobs /\ Rmtree(cancel[c].job)
        /\ cancel'[c].pc = "end"
        /\ \A d \in Cancels \ {c} : cancel'[d] = cancel[d]
    BY <1>21, <1>u, CancelNames, CancelGoToIs DEF CancelRmtree, CancelAt
  <2>2. CancelledIsGone'
    BY <1>r, <2>1 DEF CancelledIsGone, AboutToGo
  <2>3. CancelHasItsRow'
    BY <1>r, <2>1 DEF CancelHasItsRow
  <2> QED BY <1>r, <2>1, <2>2, <2>3 DEF RInv
<1>22. ASSUME NEW c \in Cancels, CancelFlag(c) PROVE RInv' /\ Step
  <2>1. /\ UNCHANGED <<phase, status, manifest, worker, Amiss>>
        /\ cancel[c].pc = "flag" /\ cancel'[c].pc = "end"
        /\ \A d \in Cancels \ {c} : cancel'[d] = cancel[d]
    BY <1>22, <1>u, CancelNames, CancelGoToIs DEF CancelFlag, CancelAt
  <2> QED BY <2>1, <1>c
<1>23. ASSUME NEW k \in Checkers, NEW j \in Jobs, StaleGate(k, j) PROVE RInv' /\ Step
  BY <1>23, <1>s, <1>u DEF StaleGate
<1>24. ASSUME NEW k \in Checkers, StaleMark(k) PROVE RInv' /\ Step
  <2> SUFFICES ASSUME NEW j \in Jobs, j = marking[k] PROVE RInv' /\ Step
    BY <1>24 DEF StaleMark, AsideType
  <2>0. /\ UNCHANGED <<phase, manifest, worker, cancel>> /\ phase = "up"
        /\ MarkFailed(j, "stalled") /\ "stalled" \in RowError
        /\ Amiss' = IF TooLate(j) THEN Amiss \cup {j} ELSE Amiss
    BY <1>24, <1>u, ErrorNames DEF StaleMark, AsideType, Amiss
  <2>v. HasRow(j) => View(j) \in Promise!Rows
    BY <1>v
  <2>1. \A i \in Jobs : status'[i] = IF i = j /\ HasRow(j) THEN "failed" ELSE status[i]
    BY <2>0, MarkFailedIs
  <2>2. CancelledIsGone'
    BY <2>0, <2>1, <1>g DEF CancelledIsGone
  <2>3. RunHasItsRow'
    BY <2>0, <2>1 DEF RunHasItsRow, TooLate, HasRow, RunPc
  <2>4. CancelHasItsRow'
    BY <2>0, <2>1 DEF CancelHasItsRow, TooLate, HasRow
  <2>5. SweepIsClean' /\ StatusIsKnown'
    BY <2>0, <2>1 DEF SweepIsClean, StatusIsKnown
  <2>6. ASSUME TooLate(j) PROVE Step
    BY <2>0, <2>1, <2>6, Mishap
  <2>7. ASSUME ~TooLate(j) PROVE Step
    <3>1. HasRow(j) /\ status[j] # "failed" => View(j) \in Promise!Waiting \cup {"running"}
      BY <2>v, <2>7, <1>v, <2>0 DEF TooLate, Promise!Rows, Active
    <3> QED BY <2>0, <2>1, <2>7, <2>v, <3>1, RowSettles
  <2> QED BY <2>2, <2>3, <2>4, <2>5, <2>6, <2>7 DEF RInv
<1>25. ASSUME PostStep PROVE FALSE
  BY <1>25 DEF PostStep, PostWrite, PostRow, QuietBoot, NoPosting
<1>26. ASSUME Crash PROVE RInv' /\ Step
  <2>1. /\ UNCHANGED <<status, manifest, overwritten, givenUp>> /\ phase' = "reconcile"
        /\ worker'.pc = "poll"
        /\ \A c \in Cancels : cancel'[c].pc \notin {"row", "rmtree"}
        /\ left' = left \cup {j \in Jobs : AboutToGo(j)}
    BY <1>26, <1>u DEF Crash, IdleWorker, CancelType
  <2>2. Amiss' = Amiss \cup {j \in Jobs : AboutToGo(j)}
    BY <2>1 DEF Amiss
  <2>3. CancelledIsGone'
    BY <2>1, <2>2 DEF CancelledIsGone, HasRow
  <2>4. RunHasItsRow' /\ CancelHasItsRow' /\ SweepIsClean' /\ StatusIsKnown'
    BY <2>1 DEF RunHasItsRow, CancelHasItsRow, SweepIsClean, StatusIsKnown, RunPc
  <2>5. CASE phase = "up"
    <3>1. \A k \in Jobs : View(k)' = View(k)
      BY <2>1 DEF View
    <3>2. Promise!Crash
      BY <2>1, <2>2, <2>5, <3>1 DEF Promise!Crash
    <3> QED BY <2>3, <2>4, <3>2 DEF RInv, Step, Promise!Next
  <2>6. CASE phase # "up"
    <3>1. \A j \in Jobs : ~AboutToGo(j)
      BY <2>6 DEF QuietBoot, IdleWorker, AboutToGo
    <3>2. Amiss' = Amiss
      BY <2>2, <3>1
    <3> QED BY <2>1, <2>3, <2>4, <2>6, <3>2, Stutters DEF RInv
  <2> QED BY <2>5, <2>6
<1>27. ASSUME BootReconcile PROVE RInv' /\ Step
  <2>1. /\ UNCHANGED <<manifest, worker, cancel>>
        /\ phase = "reconcile" /\ phase' = "sweep" /\ Amiss' = {}
        /\ \A k \in Jobs : status'[k] = IF HasRow(k) /\ manifest[k] # "absent"
                                       THEN StageToStatus(ManifestOf(k)) ELSE status[k]
        /\ worker = IdleWorker /\ \A c \in Cancels : cancel[c].pc \in {"idle", "end"}
    BY <1>27, <1>u DEF BootReconcile, Amiss, QuietBoot
  <2>2. \A k \in Jobs : manifest[k] # "absent" =>
          /\ manifest[k] \in {"none", "transcribed", "done"}
          /\ StageToStatus(ManifestOf(k)) =
               IF manifest[k] = "none" THEN "queued"
               ELSE IF manifest[k] = "transcribed" THEN "transcribing" ELSE "done"
    <3>1. ASSUME NEW k \in Jobs PROVE Unposted(CopyOf(k))
      BY DEF NothingPosted
    <3>2. ASSUME NEW k \in Jobs, manifest[k] # "absent"
          PROVE  manifest[k] \in {"none", "transcribed", "done"}
      BY <3>1, <3>2 DEF Unposted, CopyOf, Ran
    <3> QED BY <3>1, <3>2, StageToStatusHere
  <2>3. CancelledIsGone'
    BY <2>1, <2>2 DEF CancelledIsGone, HasRow
  <2>4. RunHasItsRow' /\ CancelHasItsRow' /\ SweepIsClean'
    BY <2>1 DEF RunHasItsRow, CancelHasItsRow, SweepIsClean, IdleWorker, RunPc
  <2>5. StatusIsKnown'
    BY <2>1, <2>2 DEF StatusIsKnown
  <2>6. ASSUME NEW k \in Jobs
        PROVE  /\ View(k)' \in Promise!Views
               /\ k \notin Amiss => View(k)' \in Promise!After(View(k))
    <3>1. CASE HasRow(k) /\ manifest[k] # "absent"
      <4>1. /\ status'[k] = "queued" <=> manifest[k] = "none"
            /\ status'[k] = "done" <=> manifest[k] = "done"
            /\ status'[k] \in {"queued", "transcribing", "done"}
        BY <2>1, <2>2, <3>1
      <4>2. /\ View(k)' = "queued" <=> manifest[k] = "none"
            /\ View(k)' = "done" <=> manifest[k] = "done"
            /\ View(k)' \in {"queued", "running", "done"}
        BY <4>1 DEF View, Active
      <4>3. CASE status[k] = "done" /\ k \notin Amiss
        <5>1. manifest[k] = "done"
          BY <4>3 DEF DoneIsOnDisk, Amiss
        <5>2. View(k)' = "done" /\ View(k) = "done"
          BY <1>v, <4>2, <4>3, <5>1 DEF Active
        <5> QED BY <5>2 DEF Promise!After, Promise!Views, Promise!Rows
      <4>4. CASE status[k] \in {"uploading", "queued"}
        <5>1. manifest[k] = "none"
          BY <2>2, <3>1, <4>4 DEF RanIsSettled, Active, Ran
        <5>2. View(k)' = "queued" /\ View(k) \in {"uploading", "queued"}
          BY <1>v, <4>2, <4>4, <5>1 DEF Active
        <5> QED BY <5>2 DEF Promise!After, Promise!Views, Promise!Rows, Promise!Waiting
      <4>5. CASE View(k) \in {"running", "failed"}
        BY <4>2, <4>5 DEF Promise!After, Promise!Views, Promise!Rows, Promise!Waiting
      <4>6. status[k] = "cancelled" => k \in Amiss
        BY <2>1, <3>1 DEF CancelledIsGone, AboutToGo, IdleWorker
      <4>7. View(k)' \in Promise!Views
        BY <4>2 DEF Promise!Views, Promise!Rows, Promise!Waiting
      <4>8. View(k) \in {"uploading", "queued", "running", "done", "failed", "cancelled"}
        BY <1>v, <3>1 DEF Promise!Rows, Promise!Waiting
      <4> QED BY <1>v, <4>3, <4>4, <4>5, <4>6, <4>7, <4>8 DEF Active
    <3>2. CASE ~(HasRow(k) /\ manifest[k] # "absent")
      <4>1. View(k)' = View(k)
        BY <2>1, <3>2 DEF View
      <4> QED BY <1>v, <4>1, AfterKeeps
    <3> QED BY <3>1, <3>2
  <2>7. Step
    BY <2>1, <2>6, Recovers
  <2> QED BY <2>3, <2>4, <2>5, <2>7 DEF RInv
<1>b. ASSUME UNCHANGED <<phase, worker, cancel, mishaps>>, phase = "sweep",
             NEW j \in Jobs, status[j] \in Active, NEW s \in {"failed", "done"},
             \A k \in Jobs : status'[k] = IF k = j /\ HasRow(j) THEN s ELSE status[k],
             manifest' = manifest
      PROVE  RInv' /\ Step
  <2>1. /\ worker = IdleWorker /\ \A c \in Cancels : cancel[c].pc \in {"idle", "end"}
        /\ Amiss' = Amiss /\ Amiss = {}
    BY <1>b, <1>u DEF QuietBoot, SweepIsClean
  <2>2. CancelledIsGone'
    BY <1>b, <2>1, <1>g DEF CancelledIsGone
  <2>3. RunHasItsRow' /\ CancelHasItsRow' /\ SweepIsClean' /\ StatusIsKnown'
    BY <1>b, <2>1 DEF RunHasItsRow, CancelHasItsRow, SweepIsClean, StatusIsKnown,
       IdleWorker, RunPc
  <2>4. ASSUME NEW k \in Jobs
        PROVE  View(k)' \in Promise!Views /\ View(k)' \in Promise!After(View(k))
    <3>1. CASE k = j
      <4>1. View(k)' \in {"failed", "done"} /\ View(k) = "running"
        BY <1>b, <1>v, <3>1 DEF View, Active, HasRow
      <4> QED BY <4>1 DEF Promise!After, Promise!Views, Promise!Rows
    <3>2. CASE k # j
      <4>1. View(k)' = View(k)
        BY <1>b, <3>2 DEF View
      <4> QED BY <1>v, <4>1, AfterKeeps
    <3> QED BY <3>1, <3>2
  <2>5. Step
    BY <1>b, <2>1, <2>4, Recovers
  <2> QED BY <2>2, <2>3, <2>5 DEF RInv
<1>28. ASSUME NEW j \in Jobs, SweepJob(j) PROVE RInv' /\ Step
  <2>1. /\ UNCHANGED <<phase, worker, cancel, mishaps>> /\ phase = "sweep"
        /\ status[j] \in Active /\ Amiss' = Amiss
    BY <1>28, <1>u DEF SweepJob, SweepIsComplete
  <2>2. CASE manifest[j] # "absent" /\ FileComplete(j)
    <3>1. /\ UNCHANGED status
          /\ \A k \in Jobs : manifest'[k] = IF k = j THEN "done" ELSE manifest[k]
      BY <1>28, <1>u, <2>2, StageNames, WriteStageIs DEF SweepJob
    <3>2. CancelledIsGone'
      BY <1>g, <2>1, <3>1 DEF CancelledIsGone, Active
    <3>3. RunHasItsRow' /\ CancelHasItsRow' /\ SweepIsClean' /\ StatusIsKnown'
      BY <2>1, <3>1 DEF RunHasItsRow, CancelHasItsRow, SweepIsClean, StatusIsKnown
    <3> QED BY <2>1, <3>1, <3>2, <3>3, Stutters DEF RInv
  <2>3. CASE ~(manifest[j] # "absent" /\ FileComplete(j))
    <3>1. \A k \in Jobs : status'[k] = IF k = j /\ HasRow(j) THEN "failed" ELSE status[k]
      BY <1>28, <2>3, ErrorNames, MarkFailedIs DEF SweepJob
    <3>2. UNCHANGED manifest
      BY <1>28, <1>u, <2>3 DEF SweepJob
    <3> QED BY <1>b, <2>1, <3>1, <3>2
  <2> QED BY <2>2, <2>3
<1>29. ASSUME SweepManifest PROVE FALSE
  BY <1>29 DEF SweepManifest, QuietBoot
<1>30. ASSUME SweepRow PROVE RInv' /\ Step
  <2> DEFINE j == sweep.job
  <2>1. /\ UNCHANGED <<phase, manifest, worker, cancel, mishaps>> /\ phase = "sweep"
        /\ j \in Jobs /\ status[j] \in Active
        /\ \A k \in Jobs : status'[k] = IF k = j /\ HasRow(j) THEN "done" ELSE status[k]
    BY <1>30, <1>u, RowNames, SetStatusIs DEF SweepRow, SweepIsComplete
  <2> HIDE DEF j
  <2> QED BY <1>b, <2>1
<1>31. ASSUME BootDone PROVE RInv' /\ Step
  <2>1. /\ UNCHANGED <<status, manifest, worker, cancel, Amiss>>
        /\ phase = "sweep" /\ phase' = "up" /\ todo = {}
    BY <1>31, <1>u DEF BootDone
  <2>2. CancelledIsGone'
    BY <1>g, <2>1 DEF CancelledIsGone
  <2>3. RunHasItsRow' /\ CancelHasItsRow' /\ SweepIsClean' /\ StatusIsKnown'
    BY <2>1 DEF RunHasItsRow, CancelHasItsRow, SweepIsClean, StatusIsKnown
  <2>4. Promise!NobodyRuns
    BY <1>v, <2>1 DEF Promise!NobodyRuns, SweepIsComplete
  <2>5. \A k \in Jobs : View(k)' = View(k)
    BY <2>1 DEF View
  <2>6. Promise!Serve
    BY <2>1, <2>4, <2>5 DEF Promise!Serve
  <2> QED BY <2>2, <2>3, <2>6 DEF RInv, Step, Promise!Next
<1>32. CASE UNCHANGED vars
  BY <1>32, <1>s, <1>u DEF vars
<1> QED BY <1>1, <1>2, <1>3, <1>4, <1>5, <1>6, <1>7, <1>8, <1>9, <1>10, <1>11, <1>12,
   <1>13, <1>14, <1>15, <1>16, <1>17, <1>18, <1>19, <1>20, <1>21, <1>22, <1>23, <1>24,
   <1>25, <1>26, <1>27, <1>28, <1>29, <1>30, <1>31, <1>32 DEF Next, RequestStep,
   PullStep, RunStep, RecordTranscribed, RecordDone, CancelStep, BootStep

(***************************************************************************)
(* The lifecycle implements the promise: every step is one of the promise  *)
(* or none.                                                                *)
(***************************************************************************)
THEOREM ImplementsPromiseCorrect ==
  ASSUME StageRoute = {}
  PROVE  Spec => ImplementsPromise
<1>1. Init => Promise!Init /\ RInv
  BY PromiseInit
<1>2. IInv /\ RInv /\ [Next]_vars => RInv'
  BY RefinementStep
<1>3. IInv /\ RInv /\ [Next]_vars =>
        [Promise!Next]_<<[j \in Jobs |-> View(j)], phase = "up", Amiss>>
  BY RefinementStep DEF Step
<1>4. Spec => []IInv
  BY InvCorrect
<1>5. Spec => []RInv
  BY <1>1, <1>2, <1>4, PTL DEF Spec
<1> QED BY <1>1, <1>3, <1>4, <1>5, PTL DEF Spec, ImplementsPromise, Promise!Spec

=============================================================================
