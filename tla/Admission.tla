------------------------------ MODULE Admission ------------------------------
(***************************************************************************)
(* How POST /jobs and POST /jobs/upload admit a job under an               *)
(* Idempotency-Key (app/api/idempotency.py, app/api/routes_jobs.py,        *)
(* app/jobs/service.py): the reservation of the key, the row and the       *)
(* folder of the job, the streaming of an upload's body and its            *)
(* publication, with requests that retry or race each other, bodies that   *)
(* break off, steps that fail and reservations that expire.                *)
(*                                                                         *)
(* The job id a request generates is written as the request itself.  One   *)
(* action is one transaction or one stretch of file work between awaits.   *)
(* Requests of one key carry one body: the web client derives the key from *)
(* the file's name, size and modification time.  A body is two halves.     *)
(***************************************************************************)
EXTENDS Naturals, FiniteSets

CONSTANTS
  Requests,    \* requests, numbered in the order in which they arrive
  Uploads,     \* those to POST /jobs/upload; the rest go to POST /jobs
  Keys,        \* idempotency keys; a request may also come without one
  Overlap,     \* whether a key's next request may come before an answer
  MaxCrashes   \* bound on the number of crashes

ASSUME AdmissionAssumption ==
  /\ Requests \subseteq Nat \ {0}
  /\ Uploads \subseteq Requests
  /\ 0 \notin Keys
  /\ Overlap \in BOOLEAN
  /\ MaxCrashes \in Nat

None == 0

VARIABLES
  reserved,    \* idempotency_keys: the job id of each key's row, or None
  horizon,     \* requests up to this one came more than the TTL ago
  row,         \* the jobs table: status of each request's own job
  folder,      \* jobs with a folder and a manifest
  tmp, final,  \* the file named .tmp_source.<ext> and source.<ext> of each
               \* job: the request that created the file (inode), or None
  data,        \* which halves of the body each such file holds
  req,         \* each request: where it stands, its key, whether it reserved
               \* it, the job it is about, the halves it has written
  crashes

tables == <<reserved, horizon, row>>
files  == <<folder, tmp, final, data>>
vars   == <<tables, files, req, crashes>>

Status == {"absent", "deleted", "uploading", "queued", "done", "failed", "cancelled"}
KeyPc    == {"reserve", "lookup", "check", "drop"}
CreatePc == {"insert", "folder", "unkey"}
StreamPc == {"open", "stream", "read", "patch", "enqueue"}
EndPc    == {"answered", "refused", "lost"}

TypeOK ==
  /\ reserved \in [Keys -> Requests \cup {None}]
  /\ horizon \in Nat
  /\ row \in [Requests -> Status]
  /\ folder \subseteq Requests
  /\ tmp \in [Requests -> Requests \cup {None}]
  /\ final \in [Requests -> Requests \cup {None}]
  /\ data \in [Requests -> SUBSET {1, 2}]
  /\ req \in [Requests -> [pc    : {"idle"} \cup KeyPc \cup CreatePc \cup StreamPc \cup EndPc,
                           key   : Keys \cup {None},
                           own   : BOOLEAN,
                           job   : Requests \cup {None},
                           file  : Requests \cup {None},
                           wrote : 0..2]]
  /\ crashes \in Nat

Init ==
  /\ reserved = [k \in Keys |-> None]
  /\ horizon = 0
  /\ row = [r \in Requests |-> "absent"]
  /\ folder = {}
  /\ tmp = [r \in Requests |-> None] /\ final = [r \in Requests |-> None]
  /\ data = [r \in Requests |-> {}]
  /\ req = [r \in Requests |-> [pc |-> "idle", key |-> None, own |-> FALSE,
                                job |-> None, file |-> None, wrote |-> 0]]
  /\ crashes = 0

HasRow(r)   == row[r] \notin {"absent", "deleted"}
InFlight(r) == req[r].pc \notin {"idle"} \cup EndPc
At(r, pc)   == req[r].pc = pc
GoTo(r, pc) == req' = [req EXCEPT ![r].pc = pc]

\* On to create_job under the request's own id.
Create(r) == req' = [req EXCEPT ![r].pc = "insert", ![r].job = r]

-----------------------------------------------------------------------------
(* resolve_or_create.                                                      *)

Arrive(r, k) ==
  /\ At(r, "idle")
  /\ \A q \in Requests : q < r => ~At(q, "idle")
  /\ Overlap \/ k = None \/ \A q \in Requests : req[q].key = k => ~InFlight(q)
  /\ req' = [req EXCEPT ![r] = [pc    |-> IF k = None THEN "insert" ELSE "reserve",
                                key   |-> k,
                                own   |-> FALSE,
                                job   |-> r,
                                file  |-> None,
                                wrote |-> 0]]
  /\ UNCHANGED <<tables, files, crashes>>

\* Mutant of Reserve: INSERT OR REPLACE.
ReserveAnyway(r) ==
  /\ At(r, "reserve")
  /\ reserved' = [reserved EXCEPT ![req[r].key] = r]
  /\ req' = [req EXCEPT ![r].pc = "insert", ![r].own = TRUE]
  /\ UNCHANGED <<horizon, row, files, crashes>>

\* One transaction: an expired row of the key is deleted and the new one
\* inserted; a row that is still valid is a primary key collision.
Reserve(r) ==
  LET k == req[r].key IN
  /\ At(r, "reserve")
  /\ IF reserved[k] <= horizon
     THEN /\ reserved' = [reserved EXCEPT ![k] = r]
          /\ req' = [req EXCEPT ![r].pc = "insert", ![r].own = TRUE]
     ELSE GoTo(r, "lookup") /\ UNCHANGED reserved
  /\ UNCHANGED <<horizon, row, files, crashes>>

\* After the collision: the job id of the row, which may be gone by now.
Lookup(r) ==
  LET holder == reserved[req[r].key] IN
  /\ At(r, "lookup")
  /\ IF holder = None
     THEN Create(r)
     ELSE req' = [req EXCEPT ![r].pc = "check", ![r].job = holder]
  /\ UNCHANGED <<tables, files, crashes>>

\* What follows once the job of a request is known: the body, or the answer.
Resolved(r) == IF r \in Uploads THEN "open" ELSE "answered"

\* Mutant of CheckJob: the key alone is taken for the job.
CheckNothing(r) ==
  /\ At(r, "check")
  /\ GoTo(r, Resolved(r))
  /\ UNCHANGED <<tables, files, crashes>>

\* get_job: the existing job, or a key whose job has no row.
CheckJob(r) ==
  /\ At(r, "check")
  /\ GoTo(r, IF HasRow(req[r].job) THEN Resolved(r) ELSE "drop")
  /\ UNCHANGED <<tables, files, crashes>>

\* DELETE by key, then a job of its own that no key names.
DropKey(r) ==
  /\ At(r, "drop")
  /\ reserved' = [reserved EXCEPT ![req[r].key] = None]
  /\ Create(r)
  /\ UNCHANGED <<horizon, row, files, crashes>>

-----------------------------------------------------------------------------
(* create_job and create_upload_job.                                       *)

InsertRow(r) ==
  /\ At(r, "insert")
  /\ row' = [row EXCEPT ![r] = IF r \in Uploads THEN "uploading" ELSE "queued"]
  /\ GoTo(r, "folder")
  /\ UNCHANGED <<reserved, horizon, files, crashes>>

CreateFolder(r) ==
  /\ At(r, "folder")
  /\ folder' = folder \cup {r}
  /\ GoTo(r, Resolved(r))
  /\ UNCHANGED <<tables, tmp, final, data, crashes>>

\* Mutant of FailedCreate: the reservation is not taken back.
RefuseAtOnce(r) == "refused"

\* A request that made a reservation takes it back.
FailedCreate(r) == IF req[r].own THEN "unkey" ELSE "refused"

\* The folder step failed: the compensating DELETE of the row.
CompensateInsert(r) ==
  /\ At(r, "folder")
  /\ row' = [row EXCEPT ![r] = "deleted"]
  /\ GoTo(r, FailedCreate(r))
  /\ UNCHANGED <<reserved, horizon, files, crashes>>

\* DELETE by key, whoever holds it by now.
ReleaseKey(r) ==
  /\ At(r, "unkey")
  /\ reserved' = [reserved EXCEPT ![req[r].key] = None]
  /\ GoTo(r, "refused")
  /\ UNCHANGED <<horizon, row, files, crashes>>

-----------------------------------------------------------------------------
(* upload_source: the body, on POSIX file semantics.  Two requests about   *)
(* the same job use the same two names.                                    *)

\* open(tmp, "wb"): truncates the file of that name, or creates one; fails in
\* a folder that a cancel has removed.
OpenTmp(r) ==
  LET j == req[r].job
      f == IF tmp[j] = None THEN r ELSE tmp[j]
  IN
  /\ At(r, "open") /\ j \in folder
  /\ tmp' = [tmp EXCEPT ![j] = f]
  /\ data' = [data EXCEPT ![f] = {}]
  /\ req' = [req EXCEPT ![r].pc = "stream", ![r].wrote = 0, ![r].file = f]
  /\ UNCHANGED <<tables, folder, final, crashes>>

\* Mutant of WriteHalf: the end of the body is not noticed.
WriteOn(r) ==
  /\ At(r, "stream")
  /\ data' = [data EXCEPT ![req[r].file] = @ \cup {req[r].wrote + 1}]
  /\ req' = [req EXCEPT ![r].wrote = @ + 1]
  /\ UNCHANGED <<tables, folder, tmp, final, crashes>>

\* A half of the body arrives and is written at the request's own offset.
WriteHalf(r) ==
  /\ At(r, "stream") /\ req[r].wrote < 2
  /\ data' = [data EXCEPT ![req[r].file] = @ \cup {req[r].wrote + 1}]
  /\ req' = [req EXCEPT ![r].wrote = @ + 1]
  /\ UNCHANGED <<tables, folder, tmp, final, crashes>>

\* os.replace(tmp, final) moves whatever file has the name.
Publish(r) ==
  LET j == req[r].job IN
  /\ At(r, "stream") /\ req[r].wrote = 2 /\ tmp[j] # None
  /\ final' = [final EXCEPT ![j] = tmp[j]]
  /\ tmp' = [tmp EXCEPT ![j] = None]
  /\ GoTo(r, "read")
  /\ UNCHANGED <<tables, folder, data, crashes>>

\* Mutant of BreakOff: what has arrived is published.
PublishPart(r) ==
  LET j == req[r].job IN
  /\ At(r, "stream")
  /\ final' = [final EXCEPT ![j] = tmp[j]]
  /\ tmp' = [tmp EXCEPT ![j] = None]
  /\ GoTo(r, "read")
  /\ UNCHANGED <<tables, folder, data, crashes>>

\* The client disconnects, the disk fails, the folder or the temp file is gone:
\* the file of that name is unlinked and the request raises.
BreakOff(r) ==
  /\ req[r].pc \in {"open", "stream"}
  /\ tmp' = [tmp EXCEPT ![req[r].job] = None]
  /\ GoTo(r, "refused")
  /\ UNCHANGED <<tables, folder, final, data, crashes>>

\* read_manifest raises if a cancel has removed the folder.
ReadManifest(r) ==
  /\ At(r, "read")
  /\ GoTo(r, IF req[r].job \in folder THEN "patch" ELSE "refused")
  /\ UNCHANGED <<tables, files, crashes>>

\* write_manifest with the source_path makes the folder if it is gone by now.
PatchManifest(r) ==
  /\ At(r, "patch")
  /\ folder' = folder \cup {req[r].job}
  /\ GoTo(r, "enqueue")
  /\ UNCHANGED <<tables, tmp, final, data, crashes>>

\* enqueue: only a row that has not started becomes (or stays) queued.
Enqueue(r) ==
  /\ At(r, "enqueue")
  /\ row' = [row EXCEPT ![req[r].job] = IF @ \in {"uploading", "queued"} THEN "queued" ELSE @]
  /\ GoTo(r, "answered")
  /\ UNCHANGED <<reserved, horizon, files, crashes>>

-----------------------------------------------------------------------------
(* Around the requests.                                                    *)

\* The worker takes a queued job to its end, or a client cancels it.
Settle(r, s) ==
  /\ row[r] = "queued"
  /\ row' = [row EXCEPT ![r] = s]
  /\ IF s = "cancelled"
     THEN /\ folder' = folder \ {r}
          /\ tmp' = [tmp EXCEPT ![r] = None]
          /\ final' = [final EXCEPT ![r] = None]
     ELSE UNCHANGED <<folder, tmp, final>>
  /\ UNCHANGED <<reserved, horizon, data, req, crashes>>

\* idempotency_ttl_hours after a request; none takes that long.
PassTtl ==
  /\ horizon + 1 \in Requests
  /\ req[horizon + 1].pc \in EndPc
  /\ horizon' = horizon + 1
  /\ UNCHANGED <<reserved, row, files, req, crashes>>

\* run_janitor.
Janitor ==
  /\ \E k \in Keys : reserved[k] \in 1..horizon
  /\ reserved' = [k \in Keys |-> IF reserved[k] <= horizon THEN None ELSE reserved[k]]
  /\ UNCHANGED <<horizon, row, files, req, crashes>>

(***************************************************************************)
(* A crash, and the boot's reconcile_all: a row with a folder whose        *)
(* manifest has no stage becomes queued, whatever it was.  (A failed job   *)
(* with its transcript becomes done, as a queued one may.)                 *)
(***************************************************************************)
Crash ==
  /\ crashes < MaxCrashes
  /\ crashes' = crashes + 1
  /\ req' = [r \in Requests |-> IF InFlight(r) THEN [req[r] EXCEPT !.pc = "lost"] ELSE req[r]]
  /\ row' = [r \in Requests |-> IF r \in folder /\ row[r] \in {"uploading", "failed", "cancelled"}
                                THEN "queued" ELSE row[r]]
  /\ UNCHANGED <<reserved, horizon, files>>

-----------------------------------------------------------------------------

ResolveStep(r) ==
  \/ \E k \in Keys \cup {None} : Arrive(r, k)
  \/ Reserve(r) \/ Lookup(r) \/ CheckJob(r) \/ DropKey(r)

CreateStep(r) ==
  \/ InsertRow(r) \/ CreateFolder(r) \/ CompensateInsert(r) \/ ReleaseKey(r)

UploadStep(r) ==
  \/ OpenTmp(r) \/ WriteHalf(r) \/ Publish(r) \/ BreakOff(r)
  \/ ReadManifest(r) \/ PatchManifest(r) \/ Enqueue(r)

Next ==
  \/ \E r \in Requests : ResolveStep(r) \/ CreateStep(r) \/ UploadStep(r)
  \/ \E r \in Requests, s \in {"done", "failed", "cancelled"} : Settle(r, s)
  \/ PassTtl \/ Janitor \/ Crash

Spec == Init /\ [][Next]_vars

-----------------------------------------------------------------------------
(* What admission promises.                                                *)

(***************************************************************************)
(* A reservation stands for one job: no two rows were made under           *)
(* reservations of one key within the TTL (SC-5, D-07).                    *)
(***************************************************************************)
OneReservedJobPerKey ==
  \A q, r \in Requests :
    /\ q < r /\ horizon < q
    /\ req[q].own /\ req[r].own /\ req[q].key = req[r].key
    => ~HasRow(q) \/ ~HasRow(r)

(***************************************************************************)
(* A client that got an answer holds the id of a job that has a row: the   *)
(* job of a request that failed is never handed to another request.        *)
(***************************************************************************)
AnsweredJobExists ==
  \A r \in Requests : req[r].pc = "answered" => HasRow(req[r].job)

(***************************************************************************)
(* No reservation outlives its job's failed creation: with no request of   *)
(* the key in flight, a reservation without a row was left by a crash that *)
(* no later request of the key has outlived ("so the key is not orphaned", *)
(* resolve_or_create).                                                     *)
(***************************************************************************)
NoOrphanKey ==
  \A k \in Keys :
    LET holder == reserved[k] IN
    /\ holder # None /\ ~HasRow(holder)
    /\ \A r \in Requests : req[r].key = k => ~InFlight(r)
    => \A r \in Requests : req[r].key = k /\ r >= holder => req[r].pc = "lost"

(***************************************************************************)
(* The worker never meets half a file: until the backend restarts, the     *)
(* published source of a queued upload has the whole body ("after the file *)
(* has landed atomically on disk", create_upload_job; T-05-02), however    *)
(* often the upload was broken off and retried.                            *)
(***************************************************************************)
QueuedSourceIsWhole ==
  crashes = 0 => \A j \in Uploads : row[j] = "queued" =>
    final[j] # None /\ data[final[j]] = {1, 2}

-----------------------------------------------------------------------------
(* What comments say of admission, and the code does not keep.             *)

(***************************************************************************)
(* A duplicate collapses to the existing job "instead of spawning a        *)
(* duplicate" (migrations/0008, Fix 7 in idempotency.py), even if the two  *)
(* requests race: a key has one row within the TTL.                        *)
(***************************************************************************)
OneJobPerKey ==
  \A q, r \in Requests :
    /\ q < r /\ horizon < q
    /\ req[q].key = req[r].key /\ req[q].key # None
    => ~HasRow(q) \/ ~HasRow(r)

=============================================================================
