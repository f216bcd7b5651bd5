---------------------------- MODULE Admission_proof ----------------------------
(***************************************************************************)
(* What TLAPS proves of Admission, for any number of requests, keys and    *)
(* crashes: its type invariant and, of requests of a key that come one     *)
(* after the other (Overlap is FALSE), what admission promises.            *)
(***************************************************************************)
EXTENDS Admission, TLAPS

-----------------------------------------------------------------------------
(* The steps of a request.                                                 *)

ReqPc == {"idle"} \cup KeyPc \cup CreatePc \cup StreamPc \cup EndPc

Request == [pc    : ReqPc,
            key   : Keys \cup {None},
            own   : BOOLEAN,
            job   : Requests \cup {None},
            file  : Requests \cup {None},
            wrote : 0..2]

\* What a step of request r leaves to the others, and of its record.
OthersStay(r) == \A q \in Requests \ {r} : req'[q] = req[q]
KeyStays(r)   == req'[r].key = req[r].key
OwnStays(r)   == req'[r].own = req[r].own
JobStays(r)   == req'[r].job = req[r].job
FileStays(r)  == req'[r].file = req[r].file /\ req'[r].wrote = req[r].wrote

\* The points of a request, all different.
LEMMA ReqPcIs ==
  ReqPc = {"idle", "reserve", "lookup", "check", "drop", "insert", "folder", "unkey",
           "open", "stream", "read", "patch", "enqueue", "answered", "refused", "lost"}
BY DEF ReqPc, KeyPc, CreatePc, StreamPc, EndPc

\* No request and no key is numbered 0.
LEMMA NoneIsFree ==
  None \notin Requests /\ None \notin Keys
BY AdmissionAssumption DEF None

\* GoTo writes the point of a request, and nothing else.
LEMMA GoToIs ==
  ASSUME req \in [Requests -> Request], NEW r \in Requests, NEW p \in ReqPc, GoTo(r, p)
  PROVE  /\ req' \in [Requests -> Request]
         /\ req'[r].pc = p
         /\ OthersStay(r) /\ KeyStays(r) /\ OwnStays(r) /\ JobStays(r) /\ FileStays(r)
<1>1. [req[r] EXCEPT !.pc = p] \in Request
  BY DEF Request
<1> QED BY <1>1 DEF GoTo, Request, OthersStay, KeyStays, OwnStays, JobStays, FileStays

\* Create makes the request go on under its own id.
LEMMA CreateIs ==
  ASSUME req \in [Requests -> Request], NEW r \in Requests, Create(r)
  PROVE  /\ req' \in [Requests -> Request]
         /\ req'[r].pc = "insert" /\ req'[r].job = r
         /\ OthersStay(r) /\ KeyStays(r) /\ OwnStays(r) /\ FileStays(r)
<1> DEFINE new == [req[r] EXCEPT !.pc = "insert", !.job = r]
<1>1. /\ new \in Request /\ new.pc = "insert" /\ new.job = r
      /\ new.key = req[r].key /\ new.own = req[r].own
      /\ new.file = req[r].file /\ new.wrote = req[r].wrote
  BY ReqPcIs DEF Request
<1>2. req' = [req EXCEPT ![r] = new]
  BY DEF Create
<1> HIDE DEF new
<1> QED BY <1>1, <1>2 DEF OthersStay, KeyStays, OwnStays, FileStays

\* The type invariant, with the record of a request under its name.
LEMMA TypeIs ==
  TypeOK <=> /\ reserved \in [Keys -> Requests \cup {None}]
             /\ horizon \in Nat
             /\ row \in [Requests -> Status]
             /\ folder \subseteq Requests
             /\ tmp \in [Requests -> Requests \cup {None}]
             /\ final \in [Requests -> Requests \cup {None}]
             /\ data \in [Requests -> SUBSET {1, 2}]
             /\ req \in [Requests -> Request]
             /\ crashes \in Nat
BY DEF TypeOK, Request, ReqPc

\* The record of a request that arrives.
LEMMA ArriveIs ==
  ASSUME TypeOK, NEW r \in Requests, NEW k \in Keys \cup {None}, Arrive(r, k)
  PROVE  /\ req' \in [Requests -> Request] /\ OthersStay(r)
         /\ req'[r].pc = IF k = None THEN "insert" ELSE "reserve"
         /\ req'[r].key = k /\ req'[r].own = FALSE /\ req'[r].job = r
         /\ req'[r].file = None
<1> DEFINE new == [pc |-> IF k = None THEN "insert" ELSE "reserve", key |-> k,
                   own |-> FALSE, job |-> r, file |-> None, wrote |-> 0]
<1>1. new \in Request
  BY ReqPcIs DEF Request
<1>2. req' = [req EXCEPT ![r] = new]
  BY DEF Arrive
<1> QED BY <1>1, <1>2, TypeIs DEF OthersStay

\* A request that inserted the row of its key holds it from now on; one that
\* met another's goes on to look that one up.
LEMMA ReserveIs ==
  ASSUME TypeOK, NEW r \in Requests, Reserve(r), req[r].key \in Keys
  PROVE  /\ req' \in [Requests -> Request]
         /\ OthersStay(r) /\ KeyStays(r) /\ JobStays(r) /\ FileStays(r)
         /\ \/ /\ reserved[req[r].key] <= horizon
               /\ reserved' = [reserved EXCEPT ![req[r].key] = r]
               /\ req'[r].pc = "insert" /\ req'[r].own = TRUE
            \/ /\ ~(reserved[req[r].key] <= horizon)
               /\ UNCHANGED reserved
               /\ req'[r].pc = "lookup" /\ OwnStays(r)
<1>1. CASE reserved[req[r].key] <= horizon
  <2> DEFINE new == [req[r] EXCEPT !.pc = "insert", !.own = TRUE]
  <2>0. req[r] \in Request /\ "insert" \in ReqPc /\ TRUE \in BOOLEAN
    BY ReqPcIs, TypeIs
  <2>1. /\ new \in Request /\ new.pc = "insert" /\ new.own = TRUE
        /\ new.key = req[r].key /\ new.job = req[r].job
        /\ new.file = req[r].file /\ new.wrote = req[r].wrote
    BY <2>0 DEF Request
  <2>2. req' = [req EXCEPT ![r] = new] /\ reserved' = [reserved EXCEPT ![req[r].key] = r]
    BY <1>1 DEF Reserve
  <2> HIDE DEF new
  <2> QED BY <1>1, <2>1, <2>2, TypeIs DEF OthersStay, KeyStays, JobStays, FileStays
<1>2. CASE ~(reserved[req[r].key] <= horizon)
  <2>1. GoTo(r, "lookup") /\ UNCHANGED reserved
    BY <1>2 DEF Reserve
  <2> QED BY <1>2, <2>1, GoToIs, ReqPcIs, TypeIs
<1> QED BY <1>1, <1>2

\* After the lookup a request is about the job it found, or makes its own.
LEMMA LookupIs ==
  ASSUME TypeOK, NEW r \in Requests, Lookup(r), req[r].key \in Keys
  PROVE  /\ req' \in [Requests -> Request]
         /\ OthersStay(r) /\ KeyStays(r) /\ OwnStays(r) /\ FileStays(r)
         /\ \/ /\ reserved[req[r].key] = None
               /\ req'[r].pc = "insert" /\ req'[r].job = r
            \/ /\ reserved[req[r].key] # None
               /\ req'[r].pc = "check" /\ req'[r].job = reserved[req[r].key]
<1>1. CASE reserved[req[r].key] = None
  BY <1>1, CreateIs, TypeIs DEF Lookup
<1>2. CASE reserved[req[r].key] # None
  <2> DEFINE holder == reserved[req[r].key]
             new == [req[r] EXCEPT !.pc = "check", !.job = holder]
  <2>0. holder \in Requests \cup {None} /\ req[r] \in Request /\ "check" \in ReqPc
    BY <1>2, ReqPcIs, TypeIs
  <2> HIDE DEF holder
  <2>1. /\ new \in Request /\ new.pc = "check" /\ new.job = holder
        /\ new.key = req[r].key /\ new.own = req[r].own
        /\ new.file = req[r].file /\ new.wrote = req[r].wrote
    BY <2>0 DEF Request
  <2>2. req' = [req EXCEPT ![r] = new]
    BY <1>2 DEF Lookup, holder
  <2> HIDE DEF new
  <2> USE DEF holder
  <2> QED BY <1>2, <2>1, <2>2, TypeIs DEF OthersStay, KeyStays, OwnStays, FileStays
<1> QED BY <1>1, <1>2

\* A request that opens the temporary file, or writes to it.
LEMMA OpenTmpIs ==
  ASSUME TypeOK, NEW r \in Requests, OpenTmp(r), req[r].job \in Requests
  PROVE  /\ req' \in [Requests -> Request]
         /\ OthersStay(r) /\ KeyStays(r) /\ OwnStays(r) /\ JobStays(r)
         /\ req'[r].pc = "stream" /\ req'[r].wrote = 0
         /\ req'[r].file = IF tmp[req[r].job] = None THEN r ELSE tmp[req[r].job]
<1> DEFINE f == IF tmp[req[r].job] = None THEN r ELSE tmp[req[r].job]
           new == [req[r] EXCEPT !.pc = "stream", !.wrote = 0, !.file = f]
<1>0. /\ f \in Requests \cup {None} /\ req[r] \in Request
      /\ "stream" \in ReqPc /\ 0 \in 0..2
  BY ReqPcIs, TypeIs
<1>2. req' = [req EXCEPT ![r] = new]
  BY DEF OpenTmp
<1> HIDE DEF f
<1>1. /\ new \in Request /\ new.pc = "stream" /\ new.wrote = 0 /\ new.file = f
      /\ new.key = req[r].key /\ new.own = req[r].own /\ new.job = req[r].job
  BY <1>0 DEF Request
<1> HIDE DEF new
<1>3. /\ req' \in [Requests -> Request]
      /\ OthersStay(r) /\ KeyStays(r) /\ OwnStays(r) /\ JobStays(r)
      /\ req'[r].pc = "stream" /\ req'[r].wrote = 0 /\ req'[r].file = f
  BY <1>1, <1>2, TypeIs DEF OthersStay, KeyStays, OwnStays, JobStays
<1> QED BY <1>3 DEF f

LEMMA WriteHalfIs ==
  ASSUME TypeOK, NEW r \in Requests, WriteHalf(r)
  PROVE  /\ req' \in [Requests -> Request]
         /\ OthersStay(r) /\ KeyStays(r) /\ OwnStays(r) /\ JobStays(r)
         /\ req'[r].pc = "stream" /\ req'[r].wrote = req[r].wrote + 1
         /\ req'[r].file = req[r].file
<1> DEFINE new == [req[r] EXCEPT !.wrote = @ + 1]
<1>1. /\ new \in Request /\ new.pc = req[r].pc /\ new.wrote = req[r].wrote + 1
      /\ new.file = req[r].file
      /\ new.key = req[r].key /\ new.own = req[r].own /\ new.job = req[r].job
  BY TypeIs DEF Request, WriteHalf
<1>2. req' = [req EXCEPT ![r] = new]
  BY DEF WriteHalf
<1>3. req[r].pc = "stream"
  BY DEF WriteHalf, At
<1> HIDE DEF new
<1> QED BY <1>1, <1>2, <1>3, TypeIs DEF OthersStay, KeyStays, OwnStays, JobStays

\* A crash loses the requests in flight.
LEMMA CrashIs ==
  ASSUME TypeOK, Crash
  PROVE  /\ req' \in [Requests -> Request]
         /\ \A r \in Requests : /\ KeyStays(r) /\ OwnStays(r) /\ JobStays(r)
                                /\ req'[r].pc = IF InFlight(r) THEN "lost" ELSE req[r].pc
<1>1. ASSUME NEW r \in Requests
      PROVE  /\ [req[r] EXCEPT !.pc = "lost"] \in Request
             /\ [req[r] EXCEPT !.pc = "lost"].pc = "lost"
             /\ [req[r] EXCEPT !.pc = "lost"].key = req[r].key
             /\ [req[r] EXCEPT !.pc = "lost"].own = req[r].own
             /\ [req[r] EXCEPT !.pc = "lost"].job = req[r].job
  BY TypeIs, ReqPcIs DEF Request
<1>2. req' = [r \in Requests |-> IF InFlight(r) THEN [req[r] EXCEPT !.pc = "lost"] ELSE req[r]]
  BY DEF Crash
<1> QED BY <1>1, <1>2, TypeIs DEF KeyStays, OwnStays, JobStays

-----------------------------------------------------------------------------
(* The types.                                                              *)

\* A request that resolves a key has one, and one that has come has a job.
IsResolved ==
  \A r \in Requests : /\ req[r].pc \in KeyPc => req[r].key # None
                      /\ req[r].pc # "idle" => req[r].job # None

TypeInv == TypeOK /\ IsResolved

(***************************************************************************)
(* The types need IsResolved with them: what Lookup and OpenTmp write is   *)
(* read at the key and at the job of the request.                          *)
(***************************************************************************)
LEMMA TypeStep ==
  TypeInv /\ [Next]_vars => TypeInv'
<1> SUFFICES ASSUME TypeInv, [Next]_vars PROVE TypeInv'
  OBVIOUS
<1>0. /\ TypeOK /\ IsResolved
      /\ reserved \in [Keys -> Requests \cup {None}] /\ horizon \in Nat
      /\ row \in [Requests -> Status] /\ folder \subseteq Requests
      /\ tmp \in [Requests -> Requests \cup {None}]
      /\ final \in [Requests -> Requests \cup {None}]
      /\ data \in [Requests -> SUBSET {1, 2}]
      /\ req \in [Requests -> Request] /\ crashes \in Nat
  BY TypeIs DEF TypeInv
<1> DEFINE Tables == reserved' \in [Keys -> Requests \cup {None}] /\ horizon' \in Nat
                       /\ row' \in [Requests -> Status]
           Files  == /\ folder' \subseteq Requests
                     /\ tmp' \in [Requests -> Requests \cup {None}]
                     /\ final' \in [Requests -> Requests \cup {None}]
                     /\ data' \in [Requests -> SUBSET {1, 2}]
           Reqs   == req' \in [Requests -> Request] /\ crashes' \in Nat
<1>t. ASSUME Tables, Files, Reqs PROVE TypeOK'
  BY <1>t DEF TypeOK, Request, ReqPc
<1>s. ASSUME Tables, Files, Reqs, IsResolved' PROVE TypeInv'
  BY <1>s, <1>t DEF TypeInv
<1>a. UNCHANGED tables => Tables
  BY <1>0 DEF tables
<1>b. UNCHANGED files => Files
  BY <1>0 DEF files
<1>r. ASSUME NEW r \in Requests
      PROVE  /\ req[r].pc \in ReqPc /\ req[r].key \in Keys \cup {None}
             /\ req[r].job \in Requests \cup {None} /\ req[r].file \in Requests \cup {None}
             /\ req[r].wrote \in 0..2
             /\ req[r].pc \in KeyPc => req[r].key \in Keys
             /\ req[r].pc # "idle" => req[r].job \in Requests
  <2>1. req[r] \in Request
    BY <1>0
  <2> QED BY <1>0, <2>1 DEF Request, IsResolved
<1>n. {"open", "answered", "insert", "lookup", "check", "drop", "folder", "unkey", "refused",
       "read", "patch", "enqueue", "stream"} \subseteq ReqPc
  BY ReqPcIs
\* A step of request r that moves it on, under the same key and job.
<1>m. ASSUME NEW r \in Requests, req[r].pc # "idle",
             NEW p \in ReqPc \ (KeyPc \ {"lookup", "drop"}), GoTo(r, p),
             p = "lookup" \/ p = "drop" => req[r].pc \in KeyPc
      PROVE  req' \in [Requests -> Request] /\ IsResolved'
  <2>1. /\ req' \in [Requests -> Request] /\ req'[r].pc = p
        /\ OthersStay(r) /\ KeyStays(r) /\ JobStays(r)
    BY <1>0, <1>m, GoToIs
  <2> QED BY <1>0, <1>m, <2>1, Zenon DEF IsResolved, OthersStay, KeyStays, JobStays, KeyPc
<1>1. ASSUME NEW r \in Requests, NEW k \in Keys \cup {None}, Arrive(r, k) PROVE TypeInv'
  <2>0. /\ req' \in [Requests -> Request] /\ \A q \in Requests \ {r} : req'[q] = req[q]
        /\ req'[r].pc = IF k = None THEN "insert" ELSE "reserve"
        /\ req'[r].key = k /\ req'[r].job = r
    BY <1>0, <1>1, ArriveIs DEF OthersStay
  <2>1. req' \in [Requests -> Request] /\ IsResolved'
    BY <1>0, <2>0, NoneIsFree DEF IsResolved, KeyPc
  <2> QED BY <1>0, <1>1, <1>a, <1>b, <1>s, <2>1 DEF Arrive
<1>2. ASSUME NEW r \in Requests, Reserve(r) PROVE TypeInv'
  <2>1. req[r].key \in Keys /\ req[r].job # None /\ req[r].pc = "reserve"
    BY <1>2, <1>r, NoneIsFree DEF Reserve, At, KeyPc
  <2>2. req' \in [Requests -> Request] /\ IsResolved'
    BY <1>0, <1>2, <2>1, ReserveIs, NoneIsFree DEF IsResolved, OthersStay, KeyStays, JobStays,
       KeyPc
  <2>3. reserved' \in [Keys -> Requests \cup {None}]
    BY <1>0, <1>2, <2>1, ReserveIs
  <2> QED BY <1>0, <1>2, <1>b, <1>s, <2>2, <2>3 DEF Reserve
<1>3. ASSUME NEW r \in Requests, Lookup(r) PROVE TypeInv'
  <2>1. req[r].key \in Keys
    BY <1>3, <1>r DEF Lookup, At, KeyPc
  <2>2. req' \in [Requests -> Request] /\ IsResolved'
    BY <1>0, <1>3, <2>1, LookupIs, NoneIsFree DEF IsResolved, OthersStay, KeyStays, KeyPc
  <2> QED BY <1>0, <1>3, <1>a, <1>b, <1>s, <2>2 DEF Lookup
<1>4. ASSUME NEW r \in Requests, CheckJob(r) PROVE TypeInv'
  <2>1. req' \in [Requests -> Request] /\ IsResolved'
    <3>1. PICK p \in {"open", "answered", "drop"} : GoTo(r, p)
      BY <1>4 DEF CheckJob, Resolved
    <3> QED BY <1>4, <1>m, <1>n, <3>1 DEF CheckJob, At, KeyPc
  <2> QED BY <1>0, <1>4, <1>a, <1>b, <1>s, <2>1 DEF CheckJob
<1>5. ASSUME NEW r \in Requests, DropKey(r) PROVE TypeInv'
  <2>1. req' \in [Requests -> Request] /\ IsResolved'
    BY <1>0, <1>5, CreateIs, NoneIsFree DEF DropKey, IsResolved, OthersStay, KeyStays, KeyPc
  <2>2. reserved' \in [Keys -> Requests \cup {None}]
    BY <1>0, <1>5 DEF DropKey
  <2> QED BY <1>0, <1>5, <1>b, <1>s, <2>1, <2>2 DEF DropKey
<1>6. ASSUME NEW r \in Requests, InsertRow(r) PROVE TypeInv'
  <2>1. row' \in [Requests -> Status]
    BY <1>0, <1>6 DEF InsertRow, Status
  <2>2. req' \in [Requests -> Request] /\ IsResolved'
    BY <1>6, <1>m, <1>n DEF InsertRow, At, KeyPc
  <2> QED BY <1>0, <1>6, <1>b, <1>s, <2>1, <2>2 DEF InsertRow
<1>7. ASSUME NEW r \in Requests, CreateFolder(r) PROVE TypeInv'
  <2>1. PICK p \in {"open", "answered"} : GoTo(r, p)
    BY <1>7 DEF CreateFolder, Resolved
  <2>2. req' \in [Requests -> Request] /\ IsResolved'
    BY <1>7, <1>m, <1>n, <2>1 DEF CreateFolder, At, KeyPc
  <2>3. Files
    BY <1>0, <1>7 DEF CreateFolder
  <2> QED BY <1>0, <1>7, <1>a, <1>s, <2>2, <2>3 DEF CreateFolder
<1>8. ASSUME NEW r \in Requests, CompensateInsert(r) PROVE TypeInv'
  <2>1. PICK p \in {"unkey", "refused"} : GoTo(r, p)
    BY <1>8 DEF CompensateInsert, FailedCreate
  <2>2. req' \in [Requests -> Request] /\ IsResolved'
    BY <1>8, <1>m, <1>n, <2>1 DEF CompensateInsert, At, KeyPc
  <2>3. row' \in [Requests -> Status]
    BY <1>0, <1>8 DEF CompensateInsert, Status
  <2> QED BY <1>0, <1>8, <1>b, <1>s, <2>2, <2>3 DEF CompensateInsert
<1>9. ASSUME NEW r \in Requests, ReleaseKey(r) PROVE TypeInv'
  <2>1. req' \in [Requests -> Request] /\ IsResolved'
    BY <1>9, <1>m, <1>n DEF ReleaseKey, At, KeyPc
  <2>2. reserved' \in [Keys -> Requests \cup {None}]
    BY <1>0, <1>9 DEF ReleaseKey
  <2> QED BY <1>0, <1>9, <1>b, <1>s, <2>1, <2>2 DEF ReleaseKey
<1>10. ASSUME NEW r \in Requests, OpenTmp(r) PROVE TypeInv'
  <2>1. req[r].job \in Requests /\ req[r].pc = "open"
    BY <1>10, <1>r DEF OpenTmp, At
  <2>2. req' \in [Requests -> Request] /\ IsResolved'
    BY <1>0, <1>10, <2>1, OpenTmpIs, NoneIsFree DEF IsResolved, OthersStay, KeyStays, JobStays,
       KeyPc
  <2>3. Files
    BY <1>0, <1>10, <2>1 DEF OpenTmp
  <2> QED BY <1>0, <1>10, <1>a, <1>s, <2>2, <2>3 DEF OpenTmp
<1>11. ASSUME NEW r \in Requests, WriteHalf(r) PROVE TypeInv'
  <2>1. req[r].wrote + 1 \in {1, 2} /\ req[r].pc = "stream"
    BY <1>11, <1>r DEF WriteHalf, At
  <2>2. req' \in [Requests -> Request] /\ IsResolved'
    BY <1>0, <1>11, <2>1, WriteHalfIs DEF IsResolved, OthersStay, KeyStays, JobStays, KeyPc
  <2>3. Files
    BY <1>0, <1>11, <2>1 DEF WriteHalf
  <2> QED BY <1>0, <1>11, <1>a, <1>s, <2>2, <2>3 DEF WriteHalf
<1>12. ASSUME NEW r \in Requests, Publish(r) PROVE TypeInv'
  <2>1. req' \in [Requests -> Request] /\ IsResolved'
    BY <1>12, <1>m, <1>n DEF Publish, At, KeyPc
  <2>2. req[r].job \in Requests
    BY <1>12, <1>r DEF Publish, At
  <2>3. Files
    BY <1>0, <1>12, <2>2 DEF Publish
  <2> QED BY <1>0, <1>12, <1>a, <1>s, <2>1, <2>3 DEF Publish
<1>13. ASSUME NEW r \in Requests, BreakOff(r) PROVE TypeInv'
  <2>1. req' \in [Requests -> Request] /\ IsResolved'
    BY <1>13, <1>m, <1>n DEF BreakOff, KeyPc
  <2>2. Files
    BY <1>0, <1>13 DEF BreakOff
  <2> QED BY <1>0, <1>13, <1>a, <1>s, <2>1, <2>2 DEF BreakOff
<1>14. ASSUME NEW r \in Requests, ReadManifest(r) PROVE TypeInv'
  <2>1. PICK p \in {"patch", "refused"} : GoTo(r, p)
    BY <1>14 DEF ReadManifest
  <2>2. req' \in [Requests -> Request] /\ IsResolved'
    BY <1>14, <1>m, <1>n, <2>1 DEF ReadManifest, At, KeyPc
  <2> QED BY <1>0, <1>14, <1>a, <1>b, <1>s, <2>2 DEF ReadManifest
<1>15. ASSUME NEW r \in Requests, PatchManifest(r) PROVE TypeInv'
  <2>1. req' \in [Requests -> Request] /\ IsResolved'
    BY <1>15, <1>m, <1>n DEF PatchManifest, At, KeyPc
  <2>2. Files
    BY <1>0, <1>15, <1>r DEF PatchManifest, At
  <2> QED BY <1>0, <1>15, <1>a, <1>s, <2>1, <2>2 DEF PatchManifest
<1>16. ASSUME NEW r \in Requests, Enqueue(r) PROVE TypeInv'
  <2>1. req' \in [Requests -> Request] /\ IsResolved'
    BY <1>16, <1>m, <1>n DEF Enqueue, At, KeyPc
  <2>2. row' \in [Requests -> Status]
    BY <1>0, <1>16 DEF Enqueue, Status
  <2> QED BY <1>0, <1>16, <1>b, <1>s, <2>1, <2>2 DEF Enqueue
<1>17. ASSUME NEW r \in Requests, NEW s \in {"done", "failed", "cancelled"}, Settle(r, s)
       PROVE  TypeInv'
  <2>1. Tables
    BY <1>0, <1>17 DEF Settle, Status
  <2>2. Files
    BY <1>0, <1>17 DEF Settle
  <2>3. req' = req
    BY <1>17 DEF Settle
  <2> QED BY <1>0, <1>17, <1>s, <2>1, <2>2, <2>3 DEF Settle, IsResolved
<1>18. CASE PassTtl
  BY <1>0, <1>18, <1>b, <1>s DEF PassTtl, IsResolved
<1>19. CASE Janitor
  BY <1>0, <1>19, <1>b, <1>s DEF Janitor, IsResolved
<1>20. CASE Crash
  <2>1. IsResolved'
    BY <1>0, <1>20, CrashIs DEF IsResolved, KeyStays, JobStays, InFlight, KeyPc, EndPc
  <2>2. Tables
    BY <1>0, <1>20 DEF Crash, Status
  <2> QED BY <1>0, <1>20, <1>b, <1>s, <2>1, <2>2, CrashIs DEF Crash
<1>21. CASE UNCHANGED vars
  BY <1>0, <1>21, <1>a, <1>b, <1>s DEF vars, IsResolved
<1> QED
  BY <1>1, <1>2, <1>3, <1>4, <1>5, <1>6, <1>7, <1>8, <1>9, <1>10, <1>11, <1>12, <1>13, <1>14,
     <1>15, <1>16, <1>17, <1>18, <1>19, <1>20, <1>21
  DEF Next, ResolveStep, CreateStep, UploadStep

LEMMA TypeInit ==
  Init => TypeInv
<1>1. ASSUME Init PROVE TypeInv
  <2>1. req \in [Requests -> Request]
    BY <1>1, ReqPcIs DEF Init, Request
  <2> QED BY <1>1, <2>1, TypeIs DEF Init, TypeInv, IsResolved, Status, KeyPc
<1> QED BY <1>1

(***************************************************************************)
(* Every variable keeps its type, whether or not requests of a key race.   *)
(***************************************************************************)
THEOREM AdmissionTypeCorrect ==
  Spec => []TypeOK
<1>1. TypeInv => TypeOK
  BY DEF TypeInv
<1> QED BY <1>1, TypeInit, TypeStep, PTL DEF Spec

-----------------------------------------------------------------------------
(* The invariant.                                                          *)

\* A request that is about the job of another.
Joined(r) == req[r].job \notin {r, None}

\* Requests come in their order, and the TTL has passed for the oldest.
Arrivals ==
  /\ \A q, r \in Requests : q < r /\ At(q, "idle") => At(r, "idle")
  /\ \A r \in Requests : r <= horizon => req[r].pc \in EndPc
  /\ \A r \in Requests : At(r, "idle") =>
       req[r].key = None /\ req[r].job = None /\ ~req[r].own

\* A request in flight is the last one of its key.
KeyIsSerial ==
  \A q, r \in Requests :
    InFlight(q) /\ req[q].key # None /\ req[r].key = req[q].key => r <= q

\* What a request is about.
IsKnown(r) ==
  /\ req[r].pc \in KeyPc => ~req[r].own
  /\ req[r].own => req[r].key # None /\ req[r].job = r
  /\ req[r].pc \in CreatePc \cup {"reserve", "lookup"} => req[r].job = r
  /\ req[r].pc = "unkey" => req[r].own
  /\ req[r].pc = "drop" => ~HasRow(req[r].job)
  /\ Joined(r) => /\ req[req[r].job].pc \in EndPc
                  /\ req[r].key # None /\ req[req[r].job].key = req[r].key

JobIsKnown == \A r \in Requests : IsKnown(r)

\* A row appears and goes with the request of that job.
OwnsRow(r) ==
  /\ req[r].pc \in {"idle", "insert"} \cup KeyPc => row[r] = "absent"
  /\ req[r].pc = "folder" => HasRow(r)
  /\ req[r].pc = "unkey" => ~HasRow(r)
  /\ row[r] = "deleted" => req[r].pc \in {"unkey", "refused", "lost"}
  /\ req[r].pc \in StreamPc \cup {"answered"} => HasRow(req[r].job)

RowIsOwn == \A r \in Requests : OwnsRow(r)

\* Whom a reservation names, and when it stands.
KeyIsHeld ==
  /\ \A k \in Keys : reserved[k] # None => /\ req[reserved[k]].own
                                           /\ req[reserved[k]].key = k
  /\ \A r \in Requests :
       /\ req[r].own /\ (InFlight(r) \/ (horizon < r /\ HasRow(r))) => reserved[req[r].key] = r
       /\ InFlight(r) /\ req[r].key # None /\ req[r].pc \notin {"reserve", "lookup"} =>
            reserved[req[r].key] \in {req[r].job, None}
       /\ req[r].own /\ req[r].pc = "refused" => HasRow(r) \/ reserved[req[r].key] # r

\* Whoever ends well after a request that holds the key found its row.
HolderHasRow ==
  \A k \in Keys : reserved[k] # None /\ ~HasRow(reserved[k]) =>
    \A r \in Requests : req[r].key = k /\ r >= reserved[k] =>
      req[r].pc \notin {"answered", "refused"}

KeyInv == Arrivals /\ KeyIsSerial /\ JobIsKnown /\ RowIsOwn /\ KeyIsHeld /\ HolderHasRow

\* A request writes a file of its own, which has the temporary name or none.
WritesOwn(r) ==
  At(r, "stream") => /\ req[r].file = r /\ data[r] = 1..req[r].wrote
                     /\ tmp[req[r].job] \in {None, r}

\* The temporary name means a body under way, the final one a whole body.
NamesFiles(j) ==
  /\ tmp[j] # None => At(tmp[j], "stream") /\ req[tmp[j]].job = j
  /\ final[j] # None => /\ data[final[j]] = {1, 2}
                        /\ req[final[j]].pc \in {"read", "patch", "enqueue"} \cup EndPc
  /\ j \in Uploads /\ row[j] = "queued" => final[j] # None

\* Past its publication, a request has a source, unless the job has been ended.
HasPublished(r) ==
  req[r].pc \in {"read", "patch", "enqueue"} =>
    final[req[r].job] # None \/ row[req[r].job] \notin {"uploading", "queued"}

\* A boot queues a job whose upload has not published anything, so: until then.
FileInv ==
  crashes = 0 => \A r \in Requests : WritesOwn(r) /\ NamesFiles(r) /\ HasPublished(r)

AInv == TypeInv /\ KeyInv /\ FileInv

-----------------------------------------------------------------------------
(* The keys.                                                               *)

\* A step of request r that concerns neither its key nor its own row.
MovesOn(r) ==
  \/ req'[r].pc = req[r].pc
  \/ InFlight(r) /\ req'[r].pc = "lost"
  \/ At(r, "check") /\ ~HasRow(req[r].job) /\ req'[r].pc = "drop"
  \/ At(r, "check") /\ HasRow(req[r].job) /\ req'[r].pc \in StreamPc \cup {"answered"}
  \/ req[r].pc \in StreamPc \cup {"folder"} /\ req'[r].pc \in StreamPc \cup {"answered"}
  \/ req[r].pc \in StreamPc /\ req'[r].pc = "refused"

\* Rows change their status, but none appears or goes.
RowsStay ==
  \A r \in Requests : /\ row'[r] = "absent" <=> row[r] = "absent"
                      /\ row'[r] = "deleted" <=> row[r] = "deleted"

(***************************************************************************)
(* Steps that leave the keys and the existence of rows alone keep KeyInv,  *)
(* however many requests they move.                                        *)
(***************************************************************************)
LEMMA KeysStay ==
  ASSUME TypeInv, KeyInv, RowsStay, UNCHANGED reserved, horizon' \in Nat, horizon <= horizon',
         \A r \in Requests : r <= horizon' => req'[r].pc \in EndPc,
         \A r \in Requests : KeyStays(r) /\ OwnStays(r) /\ JobStays(r) /\ MovesOn(r)
  PROVE  KeyInv'
<1>0. /\ Requests \subseteq Nat /\ None \notin Requests /\ None \notin Keys /\ horizon \in Nat
      /\ reserved \in [Keys -> Requests \cup {None}]
  BY NoneIsFree, AdmissionAssumption, TypeIs DEF TypeInv
<1>1. ASSUME NEW r \in Requests
      PROVE  /\ req'[r].key = req[r].key /\ req'[r].own = req[r].own /\ req'[r].job = req[r].job
             /\ HasRow(r)' <=> HasRow(r)
             /\ req[r].key \in Keys \cup {None} /\ req[r].job \in Requests \cup {None}
             /\ req[r].pc # "idle" => req[r].job \in Requests
             /\ req[r].pc \in EndPc => req'[r].pc = req[r].pc
             /\ req'[r].pc = "idle" <=> req[r].pc = "idle"
             /\ InFlight(r)' => InFlight(r)
             /\ req[r].pc \in KeyPc => req[r].key # None
             /\ req[r].pc \in ReqPc
  <2>1. req[r] \in Request
    BY TypeIs DEF TypeInv
  <2>2. req[r].pc \in EndPc => req'[r].pc = req[r].pc
    BY DEF MovesOn, InFlight, At, StreamPc, EndPc
  <2>3. /\ req'[r].pc = "idle" <=> req[r].pc = "idle"
        /\ InFlight(r)' => InFlight(r)
    BY DEF MovesOn, InFlight, At, StreamPc, EndPc
  <2> QED BY <2>1, <2>2, <2>3 DEF KeyStays, OwnStays, JobStays, RowsStay, HasRow, Request, TypeInv, IsResolved
<1>2. ASSUME NEW r \in Requests, req[r].pc # "idle"
      PROVE  HasRow(req[r].job)' <=> HasRow(req[r].job)
  BY <1>1, <1>2
<1>3. Arrivals'
  <2>1. \A q, r \in Requests : q < r /\ At(q, "idle")' => At(r, "idle")'
    BY <1>1 DEF KeyInv, Arrivals, At
  <2>2. \A r \in Requests : At(r, "idle")' =>
          req'[r].key = None /\ req'[r].job = None /\ ~req'[r].own
    BY <1>1 DEF KeyInv, Arrivals, At
  <2> QED BY <2>1, <2>2 DEF Arrivals
<1>4. KeyIsSerial'
  BY <1>1 DEF KeyInv, KeyIsSerial
<1>5. JobIsKnown'
  <2> SUFFICES ASSUME NEW r \in Requests
               PROVE  /\ req'[r].pc \in KeyPc => ~req[r].own
                      /\ req[r].own => req[r].key # None /\ req[r].job = r
                      /\ req'[r].pc \in CreatePc \cup {"reserve", "lookup"} => req[r].job = r
                      /\ req'[r].pc = "unkey" => req[r].own
                      /\ req'[r].pc = "drop" => ~HasRow(req[r].job)'
                      /\ Joined(r)' => /\ req'[req[r].job].pc \in EndPc
                                       /\ req[r].key # None
                                       /\ req'[req[r].job].key = req[r].key
    BY <1>1 DEF JobIsKnown, IsKnown
  <2>1. Joined(r)' => /\ req'[req[r].job].pc \in EndPc
                      /\ req[r].key # None
                      /\ req'[req[r].job].key = req[r].key
    BY <1>1 DEF KeyInv, JobIsKnown, IsKnown, Joined
  <2>2. /\ req'[r].pc \in KeyPc => ~req[r].own
        /\ req'[r].pc \in CreatePc \cup {"reserve", "lookup"} => req[r].job = r
        /\ req'[r].pc = "unkey" => req[r].own
        /\ req'[r].pc = "drop" => ~HasRow(req[r].job)'
    BY <1>1, <1>2 DEF MovesOn, KeyInv, JobIsKnown, IsKnown, KeyPc, CreatePc, StreamPc, At
  <2> QED BY <2>1, <2>2 DEF KeyInv, JobIsKnown, IsKnown
<1>6. RowIsOwn'
  <2> SUFFICES ASSUME NEW r \in Requests
               PROVE  /\ req'[r].pc \in {"idle", "insert"} \cup KeyPc => row'[r] = "absent"
                      /\ req'[r].pc = "folder" => HasRow(r)'
                      /\ req'[r].pc = "unkey" => ~HasRow(r)'
                      /\ row'[r] = "deleted" => req'[r].pc \in {"unkey", "refused", "lost"}
                      /\ req'[r].pc \in StreamPc \cup {"answered"} => HasRow(req[r].job)'
    BY DEF RowIsOwn, OwnsRow
  <2> USE <1>1, <1>2 DEF MovesOn, KeyInv, RowIsOwn, OwnsRow, At
  <2>1. req'[r].pc \in {"idle", "insert"} \cup KeyPc => row'[r] = "absent"
    BY DEF RowsStay, KeyPc, StreamPc
  <2>2. /\ req'[r].pc = "folder" => HasRow(r)'
        /\ req'[r].pc = "unkey" => ~HasRow(r)'
    BY DEF StreamPc
  <2>3. row'[r] = "deleted" => req'[r].pc \in {"unkey", "refused", "lost"}
    <3>1. row'[r] = "deleted" => req[r].pc \in {"unkey", "refused", "lost"}
      BY DEF RowsStay
    <3> QED BY <3>1 DEF StreamPc
  <2>4. req'[r].pc \in StreamPc \cup {"answered"} => HasRow(req[r].job)'
    <3>1. req'[r].pc \in StreamPc \cup {"answered"} =>
             \/ req[r].pc \in StreamPc \cup {"answered"}
             \/ req[r].pc = "folder"
             \/ req[r].pc = "check" /\ HasRow(req[r].job)
      BY DEF StreamPc
    <3>2. req[r].pc = "folder" => req[r].job = r
      BY DEF JobIsKnown, IsKnown, CreatePc
    <3> QED BY <3>1, <3>2 DEF StreamPc
  <2> QED BY <2>1, <2>2, <2>3, <2>4
<1>7. KeyIsHeld'
  <2>1. ASSUME NEW k \in Keys, reserved[k] # None
        PROVE  req'[reserved[k]].own /\ req'[reserved[k]].key = k
    <3>1. reserved[k] \in Requests
      BY <1>0, <2>1
    <3> QED BY <1>1, <2>1, <3>1 DEF KeyInv, KeyIsHeld
  <2>2. ASSUME NEW r \in Requests
        PROVE  /\ req'[r].own /\ (InFlight(r)' \/ (horizon' < r /\ HasRow(r)')) =>
                    reserved[req'[r].key] = r
               /\ InFlight(r)' /\ req'[r].key # None /\ req'[r].pc \notin {"reserve", "lookup"} =>
                    reserved[req'[r].key] \in {req'[r].job, None}
               /\ req'[r].own /\ req'[r].pc = "refused" => HasRow(r)' \/ reserved[req'[r].key] # r
    <3>1. req'[r].own /\ (InFlight(r)' \/ (horizon' < r /\ HasRow(r)')) => reserved[req'[r].key] = r
      BY <1>0, <1>1 DEF KeyInv, KeyIsHeld
    <3>2. req'[r].pc \notin {"reserve", "lookup"} /\ InFlight(r)' =>
            req[r].pc \notin {"reserve", "lookup"}
      BY DEF MovesOn, InFlight, EndPc, StreamPc, At
    <3>3. InFlight(r)' /\ req'[r].key # None /\ req'[r].pc \notin {"reserve", "lookup"} =>
            reserved[req'[r].key] \in {req'[r].job, None}
      BY <1>1, <3>2 DEF KeyInv, KeyIsHeld
    <3>4. req'[r].own /\ req'[r].pc = "refused" => HasRow(r)' \/ reserved[req'[r].key] # r
      <4>1. req'[r].pc = "refused" => req[r].pc = "refused" \/ req[r].pc \in StreamPc
        BY DEF MovesOn, StreamPc
      <4>2. req[r].pc \in StreamPc /\ req[r].own => HasRow(r)
        BY DEF KeyInv, RowIsOwn, OwnsRow, JobIsKnown, IsKnown
      <4> QED BY <1>1, <4>1, <4>2 DEF KeyInv, KeyIsHeld
    <3> QED BY <3>1, <3>3, <3>4
  <2> QED BY <2>1, <2>2 DEF KeyIsHeld
<1>8. HolderHasRow'
  <2> SUFFICES ASSUME NEW k \in Keys, reserved[k] # None, ~HasRow(reserved[k]),
                      NEW r \in Requests, req[r].key = k, r >= reserved[k],
                      req'[r].pc \in {"answered", "refused"}
               PROVE  FALSE
    BY <1>0, <1>1 DEF HolderHasRow
  <2>1. req[r].pc \notin {"answered", "refused"}
    BY <1>0 DEF KeyInv, HolderHasRow
  <2>2. \/ req[r].pc \in StreamPc \cup {"folder"}
        \/ req[r].pc = "check" /\ HasRow(req[r].job)
    BY <2>1 DEF MovesOn, At, StreamPc
  <2>3. HasRow(req[r].job)
    <3>1. req[r].pc = "folder" => req[r].job = r
      BY DEF KeyInv, JobIsKnown, IsKnown, CreatePc
    <3> QED BY <2>2, <3>1 DEF KeyInv, RowIsOwn, OwnsRow
  <2>4. reserved[k] \in {req[r].job, None}
    <3>1. InFlight(r) /\ req[r].pc \notin {"reserve", "lookup"}
      BY <2>2 DEF InFlight, EndPc, StreamPc
    <3> QED BY <1>0, <3>1 DEF KeyInv, KeyIsHeld
  <2> QED BY <2>3, <2>4
<1> QED BY <1>3, <1>4, <1>5, <1>6, <1>7, <1>8 DEF KeyInv

\* What the types say of one request.
LEMMA RequestIs ==
  ASSUME TypeInv, NEW r \in Requests
  PROVE  /\ r \in Nat /\ r # None
         /\ req[r].pc \in ReqPc /\ req[r].key \in Keys \cup {None}
         /\ req[r].own \in BOOLEAN /\ req[r].job \in Requests \cup {None}
         /\ req[r].wrote \in 0..2
         /\ req[r].pc # "idle" => req[r].job \in Requests
         /\ req[r].pc \in KeyPc => req[r].key \in Keys
<1>1. req[r] \in Request
  BY TypeIs DEF TypeInv
<1>2. /\ req[r].pc # "idle" => req[r].job # None
      /\ req[r].pc \in KeyPc => req[r].key # None
  BY DEF TypeInv, IsResolved
<1> QED BY <1>1, <1>2, NoneIsFree, AdmissionAssumption DEF Request

\* The same of the tables.
LEMMA TablesAre ==
  ASSUME TypeInv
  PROVE  /\ reserved \in [Keys -> Requests \cup {None}] /\ horizon \in Nat
         /\ row \in [Requests -> Status] /\ req \in [Requests -> Request]
         /\ Requests \subseteq Nat /\ None \notin Requests /\ None \notin Keys
BY TypeIs, NoneIsFree, AdmissionAssumption DEF TypeInv

\* A request in flight is about its own job, or about one of its key that ended.
LEMMA JobIsOwnOrEnded ==
  ASSUME TypeInv, KeyInv, NEW q \in Requests, NEW r \in Requests, InFlight(r), req[q].job = r
  PROVE  q = r
BY NoneIsFree DEF KeyInv, JobIsKnown, IsKnown, Joined, InFlight

\* Two requests of one key are not in flight together.
LEMMA InFlightAlone ==
  ASSUME TypeInv, KeyInv, NEW q \in Requests, NEW r \in Requests,
         InFlight(q), InFlight(r), req[q].key # None, req[r].key = req[q].key
  PROVE  q = r
BY RequestIs DEF KeyInv, KeyIsSerial

(***************************************************************************)
(* A request arrives; where requests of a key come one after the other,    *)
(* the others of its key have ended.                                       *)
(***************************************************************************)
LEMMA KeyArrive ==
  ASSUME TypeInv, KeyInv, Overlap = FALSE, NEW r \in Requests, NEW k \in Keys \cup {None},
         Arrive(r, k)
  PROVE  KeyInv'
<1>0. /\ reserved' = reserved /\ horizon' = horizon /\ row' = row
      /\ At(r, "idle") /\ \A q \in Requests : q < r => ~At(q, "idle")
      /\ k = None \/ \A q \in Requests : req[q].key = k => ~InFlight(q)
  BY DEF Arrive, tables
<1>1. /\ \A q \in Requests \ {r} : req'[q] = req[q]
      /\ req'[r].pc = IF k = None THEN "insert" ELSE "reserve"
      /\ req'[r].key = k /\ req'[r].own = FALSE /\ req'[r].job = r
  BY ArriveIs DEF TypeInv, OthersStay
<1>2. /\ reserved \in [Keys -> Requests \cup {None}] /\ horizon \in Nat
      /\ Requests \subseteq Nat /\ None \notin Requests /\ None \notin Keys
  BY TablesAre
<1>3. /\ ~req[r].own /\ row[r] = "absent" /\ horizon < r
      /\ \A q \in Requests : r < q => At(q, "idle") /\ req[q].key = None
      /\ \A q \in Requests : req[q].job # r
  <2>1. ~req[r].own /\ row[r] = "absent"
    BY <1>0 DEF KeyInv, Arrivals, RowIsOwn, OwnsRow, At
  <2>2. horizon < r
    BY <1>0, <1>2 DEF KeyInv, Arrivals, At, EndPc
  <2>3. \A q \in Requests : r < q => At(q, "idle") /\ req[q].key = None
    BY <1>0 DEF KeyInv, Arrivals
  <2>4. req[r].job = None
    BY <1>0 DEF KeyInv, Arrivals
  <2>5. \A q \in Requests : req[q].job # r
    BY <1>0, <1>2, <2>4 DEF KeyInv, JobIsKnown, IsKnown, Joined, At, EndPc
  <2> QED BY <2>1, <2>2, <2>3, <2>5
<1>4. Arrivals'
  BY <1>0, <1>1, <1>2, <1>3 DEF KeyInv, Arrivals, At
<1>5. KeyIsSerial'
  BY <1>0, <1>1, <1>2, <1>3 DEF KeyInv, KeyIsSerial, InFlight, At
<1>6. JobIsKnown'
  <2> SUFFICES ASSUME NEW q \in Requests
               PROVE  /\ req'[q].pc \in KeyPc => ~req'[q].own
                      /\ req'[q].own => req'[q].key # None /\ req'[q].job = q
                      /\ req'[q].pc \in CreatePc \cup {"reserve", "lookup"} => req'[q].job = q
                      /\ req'[q].pc = "unkey" => req'[q].own
                      /\ req'[q].pc = "drop" => ~HasRow(req[q].job)'
                      /\ Joined(q)' => /\ req'[req'[q].job].pc \in EndPc
                                       /\ req'[q].key # None
                                       /\ req'[req'[q].job].key = req'[q].key
    BY DEF JobIsKnown, IsKnown
  <2>1. CASE q = r
    BY <1>1, <2>1 DEF Joined
  <2>2. CASE q # r
    <3>1. /\ req'[q] = req[q] /\ req[q].job # r
          /\ HasRow(req[q].job)' <=> HasRow(req[q].job)
      BY <1>0, <1>1, <1>3, <2>2 DEF HasRow
    <3>2. Joined(q)' => Joined(q)
      BY <3>1 DEF Joined
    <3>3. Joined(q) => req'[req[q].job] = req[req[q].job]
      BY <1>1, <3>1, RequestIs DEF Joined
    <3> QED BY <3>1, <3>2, <3>3 DEF KeyInv, JobIsKnown, IsKnown
  <2> QED BY <2>1, <2>2
<1>7. RowIsOwn'
  BY <1>0, <1>1, <1>3 DEF KeyInv, RowIsOwn, OwnsRow, HasRow, KeyPc, StreamPc
<1>8. KeyIsHeld'
  <2>1. ASSUME NEW i \in Keys, reserved[i] # None
        PROVE  req'[reserved[i]].own /\ req'[reserved[i]].key = i
    <3>1. reserved[i] \in Requests /\ req[reserved[i]].own
      BY <1>2, <2>1 DEF KeyInv, KeyIsHeld
    <3> QED BY <1>1, <1>3, <2>1, <3>1 DEF KeyInv, KeyIsHeld
  <2> QED BY <1>0, <1>1, <1>2, <1>3, <2>1 DEF KeyInv, KeyIsHeld, InFlight, HasRow
<1>9. HolderHasRow'
  BY <1>0, <1>1, <1>2 DEF KeyInv, HolderHasRow, HasRow
<1> QED BY <1>4, <1>5, <1>6, <1>7, <1>8, <1>9 DEF KeyInv

(***************************************************************************)
(* What a step of a request in flight leaves: the order of the requests,   *)
(* and what the others are about, as long as it touches no row but its own.*)
(***************************************************************************)
LEMMA OthersKeep ==
  ASSUME TypeInv, KeyInv, NEW r \in Requests, InFlight(r), UNCHANGED horizon,
         OthersStay(r), KeyStays(r), req'[r].pc # "idle",
         \A q \in Requests \ {r} : row'[q] = row[q],
         IsKnown(r)', OwnsRow(r)'
  PROVE  Arrivals' /\ KeyIsSerial' /\ JobIsKnown' /\ RowIsOwn'
<1>1. /\ \A q \in Requests \ {r} : req'[q] = req[q] /\ row'[q] = row[q]
      /\ req'[r].key = req[r].key /\ req[r].pc # "idle" /\ req[r].pc \notin EndPc
      /\ Requests \subseteq Nat /\ horizon \in Nat
  BY TablesAre DEF OthersStay, KeyStays, InFlight
<1>2. Arrivals'
  BY <1>1 DEF KeyInv, Arrivals, At
<1>3. KeyIsSerial'
  BY <1>1 DEF KeyInv, KeyIsSerial, InFlight
<1>4. ASSUME NEW q \in Requests \ {r}
      PROVE  /\ req[q].job # r
             /\ Joined(q)' => Joined(q)
             /\ Joined(q) => req'[req[q].job] = req[req[q].job]
             /\ req[q].pc # "idle" => (HasRow(req[q].job)' <=> HasRow(req[q].job))
  BY <1>1, RequestIs, JobIsOwnOrEnded DEF Joined, HasRow
<1>5. JobIsKnown'
  <2>1. ASSUME NEW q \in Requests \ {r} PROVE IsKnown(q)'
    <3>1. IsKnown(q)
      BY DEF KeyInv, JobIsKnown
    <3> QED BY <1>1, <1>4, <3>1 DEF IsKnown
  <2> QED BY <2>1 DEF JobIsKnown
<1>6. RowIsOwn'
  <2>1. ASSUME NEW q \in Requests \ {r} PROVE OwnsRow(q)'
    <3>1. OwnsRow(q) /\ (HasRow(q)' <=> HasRow(q))
      BY <1>1 DEF KeyInv, RowIsOwn, HasRow
    <3> QED BY <1>1, <1>4, <3>1 DEF OwnsRow, StreamPc
  <2> QED BY <2>1 DEF RowIsOwn
<1> QED BY <1>2, <1>3, <1>5, <1>6

\* A request reserves its key, or finds it reserved.
LEMMA KeyReserve ==
  ASSUME TypeInv, KeyInv, NEW r \in Requests, Reserve(r)
  PROVE  KeyInv'
<1>0. /\ horizon' = horizon /\ row' = row /\ req[r].pc = "reserve" /\ InFlight(r)
      /\ req[r].key \in Keys /\ ~req[r].own /\ req[r].job = r /\ row[r] = "absent"
  <2>1. horizon' = horizon /\ row' = row /\ req[r].pc = "reserve"
    BY DEF Reserve, At
  <2> QED BY <2>1, RequestIs DEF KeyInv, JobIsKnown, IsKnown, RowIsOwn, OwnsRow, InFlight,
          KeyPc, EndPc
<1>1. /\ \A q \in Requests \ {r} : req'[q] = req[q]
      /\ req'[r].key = req[r].key /\ req'[r].job = r
      /\ OthersStay(r) /\ KeyStays(r)
      /\ \/ /\ reserved[req[r].key] <= horizon
            /\ reserved' = [reserved EXCEPT ![req[r].key] = r]
            /\ req'[r].pc = "insert" /\ req'[r].own = TRUE
         \/ /\ ~(reserved[req[r].key] <= horizon)
            /\ reserved' = reserved
            /\ req'[r].pc = "lookup" /\ req'[r].own = FALSE
  <2>1. req[r].own = FALSE
    BY <1>0, RequestIs
  <2> QED BY <1>0, <2>1, ReserveIs DEF TypeInv, OthersStay, KeyStays, JobStays, OwnStays
<1>2. /\ reserved \in [Keys -> Requests \cup {None}] /\ horizon \in Nat
      /\ Requests \subseteq Nat /\ None \notin Requests /\ None \notin Keys
  BY TablesAre
<1>3. Arrivals' /\ KeyIsSerial' /\ JobIsKnown' /\ RowIsOwn'
  <2>1. IsKnown(r)'
    BY <1>0, <1>1, <1>2 DEF IsKnown, Joined, KeyPc
  <2>2. OwnsRow(r)'
    BY <1>0, <1>1 DEF OwnsRow, StreamPc
  <2> QED BY <1>0, <1>1, <2>1, <2>2, OthersKeep
<1>4. ASSUME NEW q \in Requests, InFlight(q), req[q].key = req[r].key PROVE q = r
  BY <1>0, <1>2, <1>4, InFlightAlone
<1>5. KeyIsHeld'
  <2>1. ASSUME NEW i \in Keys, reserved'[i] # None
        PROVE  req'[reserved'[i]].own /\ req'[reserved'[i]].key = i
    <3>1. reserved[i] # None => /\ reserved[i] \in Requests /\ req[reserved[i]].own
                                /\ req[reserved[i]].key = i
      BY <1>2 DEF KeyInv, KeyIsHeld
    <3>2. reserved[i] # r
      BY <1>0, <1>2, <3>1
    <3> QED BY <1>0, <1>1, <1>2, <2>1, <3>1, <3>2
  <2>2. ASSUME NEW q \in Requests, q # r
        PROVE  /\ req[q].own /\ (InFlight(q) \/ (horizon < q /\ HasRow(q))) =>
                     reserved'[req[q].key] = q
               /\ InFlight(q) /\ req[q].key # None /\ req[q].pc \notin {"reserve", "lookup"} =>
                     reserved'[req[q].key] \in {req[q].job, None}
               /\ req[q].own /\ req[q].pc = "refused" => HasRow(q) \/ reserved'[req[q].key] # q
    <3>0. req[q].key \in Keys \cup {None} /\ (req[q].own => req[q].key # None)
      BY RequestIs DEF KeyInv, JobIsKnown, IsKnown
    <3>1. req[q].own /\ (InFlight(q) \/ (horizon < q /\ HasRow(q))) => reserved'[req[q].key] = q
      <4>1. SUFFICES ASSUME req[q].own, InFlight(q) \/ (horizon < q /\ HasRow(q))
                     PROVE  reserved'[req[q].key] = q
        OBVIOUS
      <4>2. reserved[req[q].key] = q
        BY <4>1 DEF KeyInv, KeyIsHeld
      <4>3. horizon < q
        BY <1>2, <4>1 DEF KeyInv, Arrivals, InFlight
      <4> QED BY <1>0, <1>1, <1>2, <3>0, <4>1, <4>2, <4>3
    <3>2. InFlight(q) /\ req[q].key # None /\ req[q].pc \notin {"reserve", "lookup"} =>
            reserved'[req[q].key] \in {req[q].job, None}
      BY <1>0, <1>1, <1>2, <1>4, <2>2, <3>0 DEF KeyInv, KeyIsHeld
    <3>3. req[q].own /\ req[q].pc = "refused" => HasRow(q) \/ reserved'[req[q].key] # q
      <4>1. req[q].own /\ req[q].pc = "refused" => HasRow(q) \/ reserved[req[q].key] # q
        BY DEF KeyInv, KeyIsHeld
      <4> QED BY <1>0, <1>1, <1>2, <2>2, <3>0, <4>1
    <3> QED BY <3>1, <3>2, <3>3
  <2>3. /\ req'[r].own => reserved'[req'[r].key] = r
        /\ req'[r].pc \in {"reserve", "lookup"} \/ reserved'[req'[r].key] = req'[r].job
        /\ req'[r].pc # "refused"
    BY <1>0, <1>1, <1>2
  <2>4. \A q \in Requests : /\ HasRow(q)' <=> HasRow(q)
                            /\ q # r => (InFlight(q)' <=> InFlight(q))
    BY <1>0, <1>1 DEF HasRow, InFlight
  <2> QED BY <1>0, <1>1, <2>1, <2>2, <2>3, <2>4 DEF KeyIsHeld
<1>6. HolderHasRow'
  <2> SUFFICES ASSUME NEW i \in Keys, reserved'[i] # None, ~HasRow(reserved[i])',
                      NEW q \in Requests, req'[q].key = i, q >= reserved'[i],
                      req'[q].pc \in {"answered", "refused"}
               PROVE  FALSE
    BY DEF HolderHasRow
  <2>1. q # r
    BY <1>1
  <2>2. CASE reserved'[i] = reserved[i]
    <3>1. ~HasRow(reserved[i])
      BY <1>0, <2>2 DEF HasRow
    <3> QED BY <1>1, <2>1, <2>2, <3>1 DEF KeyInv, HolderHasRow
  <2>3. CASE reserved'[i] = r /\ i = req[r].key
    <3>1. q <= r
      BY <1>0, <1>1, <1>2, <2>1, <2>3 DEF KeyInv, KeyIsSerial
    <3> QED BY <1>2, <2>1, <2>3, <3>1
  <2> QED BY <1>0, <1>1, <1>2, <2>2, <2>3
<1> QED BY <1>3, <1>5, <1>6 DEF KeyInv

(***************************************************************************)
(* A step of one request in flight that takes reservations back at most:   *)
(* what is to be shown of the request alone, and of the reservations that  *)
(* others count on.                                                        *)
(***************************************************************************)
LEMMA KeyStep ==
  ASSUME TypeInv, KeyInv, NEW r \in Requests, InFlight(r), UNCHANGED horizon,
         OthersStay(r), KeyStays(r), OwnStays(r), req'[r].pc # "idle",
         \A q \in Requests \ {r} : row'[q] = row[q],
         IsKnown(r)', OwnsRow(r)',
         \A i \in Keys : reserved'[i] \in {reserved[i], None},
         \A q \in Requests \ {r} :
           req[q].own /\ (InFlight(q) \/ (horizon < q /\ HasRow(q))) =>
             reserved'[req[q].key] = reserved[req[q].key],
         req[r].own /\ (InFlight(r)' \/ HasRow(r)') => reserved'[req[r].key] = r,
         /\ InFlight(r)' /\ req[r].key # None /\ req'[r].pc \notin {"reserve", "lookup"} =>
              reserved'[req[r].key] \in {req'[r].job, None}
         /\ req'[r].pc \in {"answered", "refused"} /\ req[r].key # None =>
              reserved'[req[r].key] = None
  PROVE  KeyInv'
<1>1. /\ \A q \in Requests \ {r} : req'[q] = req[q] /\ row'[q] = row[q]
      /\ req'[r].key = req[r].key /\ req'[r].own = req[r].own
      /\ req[r].pc # "idle" /\ req[r].pc \notin EndPc /\ horizon' = horizon
  BY DEF OthersStay, KeyStays, OwnStays, InFlight
<1>2. /\ reserved \in [Keys -> Requests \cup {None}] /\ horizon \in Nat
      /\ Requests \subseteq Nat /\ None \notin Requests /\ None \notin Keys
  BY TablesAre
<1>3. Arrivals' /\ KeyIsSerial' /\ JobIsKnown' /\ RowIsOwn'
  BY OthersKeep
<1>4. ASSUME NEW q \in Requests
      PROVE  /\ req'[q].own = req[q].own /\ req'[q].key = req[q].key
             /\ req[q].key \in Keys \cup {None} /\ (req[q].own => req[q].key \in Keys)
             /\ q # r => /\ HasRow(q)' <=> HasRow(q)
                         /\ InFlight(q)' <=> InFlight(q)
  BY <1>1, RequestIs DEF HasRow, InFlight, KeyInv, JobIsKnown, IsKnown
<1>5. ASSUME NEW i \in Keys, reserved'[i] # None
      PROVE  /\ reserved'[i] = reserved[i] /\ reserved[i] \in Requests
             /\ req[reserved[i]].own /\ req[reserved[i]].key = i
  BY <1>2, <1>5 DEF KeyInv, KeyIsHeld
<1>6. KeyIsHeld'
  <2>1. ASSUME NEW i \in Keys, reserved'[i] # None
        PROVE  req'[reserved'[i]].own /\ req'[reserved'[i]].key = i
    <3>1. reserved'[i] \in Requests
      BY <1>5, <2>1
    <3> QED BY <1>4, <1>5, <2>1, <3>1
  <2>2. ASSUME NEW q \in Requests
        PROVE  /\ req[q].own /\ (InFlight(q)' \/ (horizon < q /\ HasRow(q)')) =>
                    reserved'[req[q].key] = q
               /\ InFlight(q)' /\ req[q].key # None /\ req'[q].pc \notin {"reserve", "lookup"} =>
                    reserved'[req[q].key] \in {req'[q].job, None}
               /\ req[q].own /\ req'[q].pc = "refused" => HasRow(q)' \/ reserved'[req[q].key] # q
    <3>1. CASE q = r
      BY <1>2, <1>4, <3>1
    <3>2. CASE q # r
      <4>1. req'[q] = req[q] /\ (HasRow(q)' <=> HasRow(q)) /\ (InFlight(q)' <=> InFlight(q))
        BY <1>1, <1>4, <3>2
      <4>2. req[q].own /\ (InFlight(q) \/ (horizon < q /\ HasRow(q))) => reserved'[req[q].key] = q
        BY <3>2 DEF KeyInv, KeyIsHeld
      <4>3. InFlight(q) /\ req[q].key # None /\ req[q].pc \notin {"reserve", "lookup"} =>
              reserved'[req[q].key] \in {req[q].job, None}
        BY <1>4 DEF KeyInv, KeyIsHeld
      <4>4. req[q].own /\ req[q].pc = "refused" => HasRow(q) \/ reserved[req[q].key] # q
        BY DEF KeyInv, KeyIsHeld
      <4>5. req[q].own => reserved'[req[q].key] \in {reserved[req[q].key], None} /\ q # None
        BY <1>2, <1>4
      <4> QED BY <4>1, <4>2, <4>3, <4>4, <4>5
    <3> QED BY <3>1, <3>2
  <2> QED BY <1>1, <1>4, <2>1, <2>2 DEF KeyIsHeld
<1>7. HolderHasRow'
  <2> SUFFICES ASSUME NEW i \in Keys, reserved'[i] # None, ~HasRow(reserved[i])',
                      NEW q \in Requests, req'[q].key = i, q >= reserved'[i],
                      req'[q].pc \in {"answered", "refused"}
               PROVE  FALSE
    BY DEF HolderHasRow
  <2>1. q # r
    BY <1>1, <1>2
  <2>2. req[q].pc \in {"answered", "refused"} /\ req[q].key = i
    BY <1>1, <2>1
  <2>3. CASE reserved[i] = r
    <3>1. q <= r
      BY <1>1, <1>2, <1>5, <2>2, <2>3 DEF KeyInv, KeyIsSerial
    <3> QED BY <1>2, <1>5, <2>1, <2>3, <3>1
  <2>4. CASE reserved[i] # r
    <3>1. ~HasRow(reserved[i])
      BY <1>1, <1>5, <2>4 DEF HasRow
    <3> QED BY <1>5, <2>2, <3>1 DEF KeyInv, HolderHasRow
  <2> QED BY <2>3, <2>4
<1> QED BY <1>3, <1>6, <1>7 DEF KeyInv

\* What a request is about and where it stands, before a step of its own.
LEMMA Before ==
  ASSUME TypeInv, KeyInv, NEW r \in Requests
  PROVE  /\ r # None /\ IsKnown(r) /\ OwnsRow(r)
         /\ req[r].own /\ InFlight(r) => reserved[req[r].key] = r
         /\ InFlight(r) /\ req[r].key # None /\ req[r].pc \notin {"reserve", "lookup"} =>
              reserved[req[r].key] \in {req[r].job, None}
         /\ req[r].key # None => req[r].key \in Keys
         /\ \A q \in Requests : InFlight(q) /\ InFlight(r) /\ req[r].key # None
                                  /\ req[q].key = req[r].key => q = r
         /\ \A q \in Requests : req[q].own /\ HasRow(q) => reserved[req[q].key] = q \/ q <= horizon
<1>1. ASSUME NEW q \in Requests, InFlight(q), InFlight(r), req[r].key # None,
             req[q].key = req[r].key
      PROVE  q = r
  BY <1>1, InFlightAlone
<1> QED BY <1>1, RequestIs, TablesAre DEF KeyInv, JobIsKnown, RowIsOwn, KeyIsHeld

\* A request looks up the job of its key.
LEMMA KeyLookup ==
  ASSUME TypeInv, KeyInv, NEW r \in Requests, Lookup(r)
  PROVE  KeyInv'
<1>0. /\ reserved' = reserved /\ horizon' = horizon /\ row' = row
      /\ req[r].pc = "lookup" /\ InFlight(r) /\ req[r].key \in Keys
  BY RequestIs DEF Lookup, At, InFlight, KeyPc, EndPc, tables
<1>1. /\ OthersStay(r) /\ KeyStays(r) /\ OwnStays(r)
      /\ req'[r].key = req[r].key /\ req'[r].own = req[r].own
      /\ \/ /\ reserved[req[r].key] = None
            /\ req'[r].pc = "insert" /\ req'[r].job = r
         \/ /\ reserved[req[r].key] # None
            /\ req'[r].pc = "check" /\ req'[r].job = reserved[req[r].key]
  BY <1>0, LookupIs DEF TypeInv, KeyStays, OwnStays
<1>2. /\ reserved \in [Keys -> Requests \cup {None}] /\ None \notin Keys /\ None \notin Requests
      /\ IsKnown(r) /\ OwnsRow(r) /\ r # None
  BY TablesAre, Before
<1>3. /\ ~req[r].own /\ row[r] = "absent"
  BY <1>0, <1>2 DEF IsKnown, OwnsRow, KeyPc
<1>4. IsKnown(r)'
  <2>1. CASE reserved[req[r].key] = None
    BY <1>0, <1>1, <1>2, <1>3, <2>1 DEF IsKnown, Joined
  <2>2. CASE reserved[req[r].key] # None
    <3> DEFINE h == reserved[req[r].key]
    <3>1. h \in Requests /\ req[h].own /\ req[h].key = req[r].key
      BY <1>0, <1>2, <2>2 DEF KeyInv, KeyIsHeld
    <3>2. h # r /\ req[h].pc # "idle"
      BY <1>3, <3>1 DEF KeyInv, Arrivals, At
    <3>3. req[h].pc \in EndPc
      BY <1>0, <1>2, <3>1, <3>2, InFlightAlone DEF InFlight
    <3>4. req'[h] = req[h] /\ req'[r].pc = "check" /\ req'[r].job = h
      BY <1>1, <2>2, <3>1, <3>2 DEF OthersStay
    <3> HIDE DEF h
    <3> QED BY <1>0, <1>1, <1>2, <1>3, <3>1, <3>3, <3>4 DEF IsKnown, Joined, CreatePc
  <2> QED BY <2>1, <2>2
<1>5. OwnsRow(r)'
  BY <1>0, <1>1, <1>3 DEF OwnsRow, KeyPc, StreamPc
<1> QED BY <1>0, <1>1, <1>2, <1>3, <1>4, <1>5, KeyStep

\* A request drops a key whose job has no row: nobody else counts on it.
LEMMA KeyDrop ==
  ASSUME TypeInv, KeyInv, NEW r \in Requests, DropKey(r)
  PROVE  KeyInv'
<1>0. /\ reserved' = [reserved EXCEPT ![req[r].key] = None] /\ horizon' = horizon /\ row' = row
      /\ req[r].pc = "drop" /\ InFlight(r) /\ req[r].key \in Keys /\ req[r].job \in Requests
  BY RequestIs DEF DropKey, At, InFlight, KeyPc, EndPc
<1>1. /\ OthersStay(r) /\ KeyStays(r) /\ OwnStays(r)
      /\ req'[r].key = req[r].key /\ req'[r].own = req[r].own
      /\ req'[r].pc = "insert" /\ req'[r].job = r
  BY CreateIs, TablesAre DEF DropKey, KeyStays, OwnStays
<1>2. /\ reserved \in [Keys -> Requests \cup {None}] /\ None \notin Keys /\ None \notin Requests
      /\ IsKnown(r) /\ OwnsRow(r) /\ r # None
      /\ reserved[req[r].key] \in {req[r].job, None}
      /\ horizon \in Nat /\ Requests \subseteq Nat
  BY <1>0, TablesAre, Before
<1>3. ~req[r].own /\ row[r] = "absent" /\ ~HasRow(req[r].job)
  BY <1>0, <1>2 DEF IsKnown, OwnsRow, KeyPc
<1>4. IsKnown(r)' /\ OwnsRow(r)'
  BY <1>0, <1>1, <1>2, <1>3 DEF IsKnown, Joined, OwnsRow, KeyPc, StreamPc
<1>5. ASSUME NEW q \in Requests \ {r}, req[q].own, InFlight(q) \/ (horizon < q /\ HasRow(q))
      PROVE  reserved'[req[q].key] = reserved[req[q].key]
  <2>1. reserved[req[q].key] = q /\ req[q].key \in Keys
    BY <1>5, Before DEF KeyInv, KeyIsHeld, IsKnown
  <2>2. ~InFlight(q) \/ req[q].key # req[r].key
    BY <1>0, <1>2, <1>5, Before
  <2>3. req[q].key = req[r].key => req[r].job = q
    BY <1>0, <1>2, <2>1
  <2> QED BY <1>0, <1>2, <1>3, <1>5, <2>1, <2>2, <2>3
<1> QED BY <1>0, <1>1, <1>2, <1>3, <1>4, <1>5, KeyStep

\* A request inserts the row of its job.
LEMMA KeyInsert ==
  ASSUME TypeInv, KeyInv, NEW r \in Requests, InsertRow(r)
  PROVE  KeyInv'
<1>0. /\ reserved' = reserved /\ horizon' = horizon
      /\ row' = [row EXCEPT ![r] = IF r \in Uploads THEN "uploading" ELSE "queued"]
      /\ req[r].pc = "insert" /\ InFlight(r)
  BY DEF InsertRow, At, InFlight, EndPc
<1>1. /\ OthersStay(r) /\ KeyStays(r) /\ OwnStays(r)
      /\ req'[r].key = req[r].key /\ req'[r].own = req[r].own
      /\ req'[r].pc = "folder" /\ req'[r].job = req[r].job
  BY GoToIs, TablesAre, ReqPcIs DEF InsertRow, KeyStays, OwnStays, JobStays
<1>2. /\ reserved \in [Keys -> Requests \cup {None}] /\ None \notin Keys
      /\ row \in [Requests -> Status]
      /\ IsKnown(r) /\ r # None /\ req[r].job = r
      /\ req[r].own => reserved[req[r].key] = r
      /\ req[r].key # None => reserved[req[r].key] \in {req[r].job, None}
  BY <1>0, TablesAre, Before DEF IsKnown, CreatePc
<1>3. IsKnown(r)'
  BY <1>0, <1>1, <1>2 DEF IsKnown, Joined, CreatePc, KeyPc
<1>4. OwnsRow(r)'
  BY <1>0, <1>1, <1>2 DEF OwnsRow, HasRow, KeyPc, StreamPc
<1>5. \A q \in Requests \ {r} : row'[q] = row[q]
  BY <1>0, <1>2
<1> QED BY <1>0, <1>1, <1>2, <1>3, <1>4, <1>5, KeyStep

\* A request takes its row back.
LEMMA KeyCompensate ==
  ASSUME TypeInv, KeyInv, NEW r \in Requests, CompensateInsert(r)
  PROVE  KeyInv'
<1>0. /\ reserved' = reserved /\ horizon' = horizon
      /\ row' = [row EXCEPT ![r] = "deleted"]
      /\ req[r].pc = "folder" /\ InFlight(r)
  BY DEF CompensateInsert, At, InFlight, EndPc
<1>1. /\ OthersStay(r) /\ KeyStays(r) /\ OwnStays(r)
      /\ req'[r].key = req[r].key /\ req'[r].own = req[r].own
      /\ req'[r].job = req[r].job
      /\ req'[r].pc = IF req[r].own THEN "unkey" ELSE "refused"
  BY GoToIs, TablesAre, ReqPcIs DEF CompensateInsert, FailedCreate, KeyStays, OwnStays, JobStays
<1>2. /\ reserved \in [Keys -> Requests \cup {None}] /\ None \notin Keys
      /\ row \in [Requests -> Status]
      /\ IsKnown(r) /\ r # None /\ req[r].job = r
      /\ req[r].own => reserved[req[r].key] = r
      /\ req[r].key # None => reserved[req[r].key] \in {req[r].job, None} /\ req[r].key \in Keys
  BY <1>0, TablesAre, Before DEF IsKnown, CreatePc
<1>3. row'[r] = "deleted" /\ ~HasRow(r)' /\ \A q \in Requests \ {r} : row'[q] = row[q]
  BY <1>0, <1>2 DEF HasRow
<1>4. IsKnown(r)'
  BY <1>0, <1>1, <1>2 DEF IsKnown, Joined, CreatePc, KeyPc
<1>5. OwnsRow(r)'
  BY <1>0, <1>1, <1>3 DEF OwnsRow, KeyPc, StreamPc
<1>6. ~req[r].own /\ req[r].key # None => reserved[req[r].key] = None
  BY <1>2 DEF KeyInv, KeyIsHeld
<1> QED BY <1>0, <1>1, <1>2, <1>3, <1>4, <1>5, <1>6, KeyStep

\* A request takes its reservation back.
LEMMA KeyRelease ==
  ASSUME TypeInv, KeyInv, NEW r \in Requests, ReleaseKey(r)
  PROVE  KeyInv'
<1>0. /\ reserved' = [reserved EXCEPT ![req[r].key] = None] /\ horizon' = horizon
      /\ row' = row /\ req[r].pc = "unkey" /\ InFlight(r)
  BY DEF ReleaseKey, At, InFlight, EndPc
<1>1. /\ OthersStay(r) /\ KeyStays(r) /\ OwnStays(r)
      /\ req'[r].key = req[r].key /\ req'[r].own = req[r].own
      /\ req'[r].job = req[r].job /\ req'[r].pc = "refused"
  BY GoToIs, TablesAre, ReqPcIs DEF ReleaseKey, KeyStays, OwnStays, JobStays
<1>2. /\ reserved \in [Keys -> Requests \cup {None}] /\ None \notin Keys /\ None \notin Requests
      /\ IsKnown(r) /\ OwnsRow(r) /\ r # None /\ req[r].own /\ req[r].job = r
      /\ req[r].key \in Keys /\ reserved[req[r].key] = r /\ ~HasRow(r)
  BY <1>0, TablesAre, Before DEF IsKnown, OwnsRow, CreatePc
<1>3. IsKnown(r)'
  BY <1>0, <1>1, <1>2 DEF IsKnown, Joined, CreatePc, KeyPc
<1>4. OwnsRow(r)'
  BY <1>0, <1>1, <1>2 DEF OwnsRow, HasRow, KeyPc, StreamPc
<1>5. ASSUME NEW q \in Requests \ {r}, req[q].own, InFlight(q) \/ (horizon < q /\ HasRow(q))
      PROVE  reserved'[req[q].key] = reserved[req[q].key]
  <2>1. reserved[req[q].key] = q /\ req[q].key \in Keys
    BY <1>5, Before DEF KeyInv, KeyIsHeld, IsKnown
  <2> QED BY <1>0, <1>2, <2>1
<1>6. ~InFlight(r)' /\ ~HasRow(r)'
  BY <1>0, <1>1, <1>2 DEF InFlight, HasRow, EndPc
<1> QED BY <1>0, <1>1, <1>2, <1>3, <1>4, <1>5, <1>6, KeyStep

(***************************************************************************)
(* The janitor deletes reservations whose requests have all ended.         *)
(***************************************************************************)
LEMMA KeyJanitor ==
  ASSUME TypeInv, KeyInv, Janitor
  PROVE  KeyInv'
<1>0. /\ reserved' = [k \in Keys |-> IF reserved[k] <= horizon THEN None ELSE reserved[k]]
      /\ horizon' = horizon /\ row' = row /\ req' = req
  BY DEF Janitor
<1>1. /\ reserved \in [Keys -> Requests \cup {None}] /\ horizon \in Nat
      /\ Requests \subseteq Nat /\ None \notin Requests /\ None \notin Keys
  BY TablesAre
<1>2. Arrivals' /\ KeyIsSerial' /\ JobIsKnown' /\ RowIsOwn'
  BY <1>0 DEF KeyInv, Arrivals, KeyIsSerial, JobIsKnown, RowIsOwn, IsKnown, OwnsRow, Joined,
     HasRow, InFlight, At
<1>3. \A k \in Keys : reserved'[k] # None => reserved'[k] = reserved[k]
  BY <1>0
<1>4. KeyIsHeld'
  <2> SUFFICES ASSUME NEW q \in Requests
               PROVE  /\ req[q].own /\ (InFlight(q) \/ (horizon < q /\ HasRow(q))) =>
                           reserved'[req[q].key] = q
                      /\ InFlight(q) /\ req[q].key # None /\ req[q].pc \notin {"reserve", "lookup"} =>
                           reserved'[req[q].key] \in {req[q].job, None}
                      /\ req[q].own /\ req[q].pc = "refused" =>
                           HasRow(q) \/ reserved'[req[q].key] # q
    BY <1>0, <1>3 DEF KeyInv, KeyIsHeld, InFlight, HasRow
  <2>1. q \in Nat /\ q # None /\ IsKnown(q) /\ (req[q].key # None => req[q].key \in Keys)
    BY <1>1, Before
  <2>2. req[q].own /\ (InFlight(q) \/ (horizon < q /\ HasRow(q))) =>
          reserved[req[q].key] = q /\ horizon < q /\ req[q].key \in Keys
    BY <1>1, <2>1 DEF KeyInv, KeyIsHeld, Arrivals, InFlight, IsKnown
  <2>3. InFlight(q) /\ req[q].key # None /\ req[q].pc \notin {"reserve", "lookup"} =>
          reserved[req[q].key] \in {req[q].job, None}
    BY DEF KeyInv, KeyIsHeld
  <2>4. req[q].own /\ req[q].pc = "refused" =>
          (HasRow(q) \/ reserved[req[q].key] # q) /\ req[q].key \in Keys
    BY <2>1 DEF KeyInv, KeyIsHeld, IsKnown
  <2>5. req[q].own /\ (InFlight(q) \/ (horizon < q /\ HasRow(q))) => reserved'[req[q].key] = q
    BY <1>0, <1>1, <2>1, <2>2
  <2>6. InFlight(q) /\ req[q].key # None /\ req[q].pc \notin {"reserve", "lookup"} =>
          reserved'[req[q].key] \in {req[q].job, None}
    BY <1>0, <1>1, <2>1, <2>3
  <2>7. req[q].own /\ req[q].pc = "refused" => HasRow(q) \/ reserved'[req[q].key] # q
    BY <1>0, <1>1, <2>1, <2>4
  <2> QED BY <2>5, <2>6, <2>7
<1>5. HolderHasRow'
  BY <1>0, <1>3 DEF KeyInv, HolderHasRow, HasRow
<1> QED BY <1>2, <1>4, <1>5 DEF KeyInv

(***************************************************************************)
(* KeyInv is inductive where requests of a key come one after the other.   *)
(***************************************************************************)
LEMMA KeyInvStep ==
  ASSUME Overlap = FALSE, TypeInv, KeyInv, [Next]_vars
  PROVE  KeyInv'
<1>0. /\ reserved \in [Keys -> Requests \cup {None}] /\ horizon \in Nat
      /\ row \in [Requests -> Status] /\ req \in [Requests -> Request]
      /\ Requests \subseteq Nat /\ None \notin Requests
  BY TablesAre
<1>1. ASSUME NEW r \in Requests PROVE r <= horizon => req[r].pc \in EndPc
  BY DEF KeyInv, Arrivals
\* A step of request r that changes no table of the keys.
<1>g. ASSUME NEW r \in Requests, NEW p \in ReqPc, InFlight(r),
             OthersStay(r), KeyStays(r), OwnStays(r), JobStays(r), req'[r].pc = p,
             UNCHANGED <<reserved, horizon>>, RowsStay, MovesOn(r)
      PROVE  KeyInv'
  <2>1. \A q \in Requests : KeyStays(q) /\ OwnStays(q) /\ JobStays(q) /\ MovesOn(q)
    BY <1>g DEF OthersStay, KeyStays, OwnStays, JobStays, MovesOn
  <2>2. \A q \in Requests : q <= horizon => req'[q].pc \in EndPc
    BY <1>1, <1>g DEF OthersStay, InFlight
  <2> QED BY <1>0, <1>g, <2>1, <2>2, KeysStay
<1>m. ASSUME NEW r \in Requests, NEW p \in ReqPc, GoTo(r, p), InFlight(r),
             UNCHANGED <<reserved, horizon>>, RowsStay,
             req'[r].pc = p => MovesOn(r)
      PROVE  KeyInv'
  <2>1. OthersStay(r) /\ KeyStays(r) /\ OwnStays(r) /\ JobStays(r) /\ req'[r].pc = p
    BY <1>0, <1>m, GoToIs
  <2> QED BY <1>m, <1>g, <2>1
<1>n. {"open", "answered", "drop", "refused", "read", "patch", "enqueue", "stream"} \subseteq ReqPc
  BY ReqPcIs
<1>r. UNCHANGED row => RowsStay
  BY DEF RowsStay
<1>2. ASSUME NEW r \in Requests, NEW k \in Keys \cup {None}, Arrive(r, k) PROVE KeyInv'
  BY <1>2, KeyArrive
<1>3. ASSUME NEW r \in Requests, \/ Reserve(r) \/ Lookup(r) \/ DropKey(r) \/ InsertRow(r)
                                 \/ CompensateInsert(r) \/ ReleaseKey(r)
      PROVE  KeyInv'
  BY <1>3, KeyReserve, KeyLookup, KeyDrop, KeyInsert, KeyCompensate, KeyRelease
<1>4. ASSUME NEW r \in Requests, CheckJob(r) PROVE KeyInv'
  <2>0. req[r].pc = "check" /\ UNCHANGED <<reserved, horizon, row>>
    BY <1>4 DEF CheckJob, At, tables
  <2>1. CASE HasRow(req[r].job)
    <3>1. PICK p \in {"open", "answered"} : GoTo(r, p)
      BY <1>4, <2>1 DEF CheckJob, Resolved
    <3> QED BY <1>m, <1>n, <1>r, <2>0, <2>1, <3>1 DEF InFlight, EndPc, MovesOn, At, StreamPc
  <2>2. CASE ~HasRow(req[r].job)
    <3>1. GoTo(r, "drop")
      BY <1>4, <2>2 DEF CheckJob
    <3> QED BY <1>m, <1>n, <1>r, <2>0, <2>2, <3>1 DEF InFlight, EndPc, MovesOn, At
  <2> QED BY <2>1, <2>2
<1>5. ASSUME NEW r \in Requests, CreateFolder(r) PROVE KeyInv'
  <2>1. PICK p \in {"open", "answered"} : GoTo(r, p)
    BY <1>5 DEF CreateFolder, Resolved
  <2> QED BY <1>5, <1>m, <1>n, <1>r, <2>1 DEF CreateFolder, tables, InFlight, EndPc, MovesOn,
          At, StreamPc
<1>6. ASSUME NEW r \in Requests, OpenTmp(r) \/ WriteHalf(r) PROVE KeyInv'
  <2>1. /\ req[r].pc \in StreamPc /\ InFlight(r)
        /\ UNCHANGED <<reserved, horizon, row>>
    BY <1>6 DEF OpenTmp, WriteHalf, At, tables, InFlight, StreamPc, EndPc
  <2>2. /\ OthersStay(r) /\ KeyStays(r) /\ OwnStays(r) /\ JobStays(r)
        /\ req'[r].pc = "stream"
    BY <1>6, <2>1, OpenTmpIs, WriteHalfIs, RequestIs DEF TypeInv, InFlight
  <2> QED BY <1>g, <1>n, <1>r, <2>1, <2>2 DEF MovesOn, StreamPc
<1>7. ASSUME NEW r \in Requests, Publish(r) PROVE KeyInv'
  BY <1>7, <1>m, <1>n, <1>r DEF Publish, At, tables, InFlight, StreamPc, EndPc, MovesOn
<1>8. ASSUME NEW r \in Requests, BreakOff(r) PROVE KeyInv'
  BY <1>8, <1>m, <1>n, <1>r DEF BreakOff, tables, InFlight, StreamPc, EndPc, MovesOn
<1>9. ASSUME NEW r \in Requests, ReadManifest(r) PROVE KeyInv'
  <2>1. PICK p \in {"patch", "refused"} : GoTo(r, p)
    BY <1>9 DEF ReadManifest
  <2> QED BY <1>9, <1>m, <1>n, <1>r, <2>1 DEF ReadManifest, At, tables, InFlight, StreamPc,
          EndPc, MovesOn
<1>10. ASSUME NEW r \in Requests, PatchManifest(r) PROVE KeyInv'
  BY <1>10, <1>m, <1>n, <1>r DEF PatchManifest, At, tables, InFlight, StreamPc, EndPc, MovesOn
<1>11. ASSUME NEW r \in Requests, Enqueue(r) PROVE KeyInv'
  <2>1. RowsStay
    BY <1>0, <1>11 DEF Enqueue, RowsStay
  <2> QED BY <1>11, <1>m, <1>n, <2>1 DEF Enqueue, At, InFlight, StreamPc, EndPc, MovesOn
<1>12. ASSUME NEW r \in Requests, NEW s \in {"done", "failed", "cancelled"}, Settle(r, s)
       PROVE  KeyInv'
  <2>1. RowsStay
    BY <1>0, <1>12 DEF Settle, RowsStay
  <2>2. UNCHANGED <<reserved, horizon, req>>
    BY <1>12 DEF Settle
  <2> QED BY <1>0, <1>1, <2>1, <2>2, KeysStay DEF KeyStays, OwnStays, JobStays, MovesOn
<1>13. CASE PassTtl
  <2>1. /\ UNCHANGED <<reserved, row, req>> /\ horizon' = horizon + 1
        /\ req[horizon + 1].pc \in EndPc
    BY <1>13 DEF PassTtl
  <2>2. \A q \in Requests : q <= horizon' => req'[q].pc \in EndPc
    BY <1>0, <1>1, <2>1
  <2> QED BY <1>0, <1>r, <2>1, <2>2, KeysStay DEF KeyStays, OwnStays, JobStays, MovesOn
<1>14. CASE Janitor
  BY <1>14, KeyJanitor
<1>15. CASE Crash
  <2>1. /\ \A r \in Requests : KeyStays(r) /\ OwnStays(r) /\ JobStays(r)
        /\ \A r \in Requests : req'[r].pc = IF InFlight(r) THEN "lost" ELSE req[r].pc
    BY <1>15, CrashIs DEF TypeInv
  <2>2. reserved' = reserved /\ horizon' = horizon /\ RowsStay
    BY <1>0, <1>15 DEF Crash, RowsStay
  <2>3. \A q \in Requests : q <= horizon' => req'[q].pc \in EndPc
    BY <1>1, <2>1, <2>2 DEF InFlight
  <2>4. \A q \in Requests : KeyStays(q) /\ OwnStays(q) /\ JobStays(q) /\ MovesOn(q)
    BY <2>1 DEF MovesOn
  <2>5. horizon' \in Nat /\ horizon <= horizon'
    BY <1>0, <2>2
  <2> QED BY <2>2, <2>3, <2>4, <2>5, KeysStay
<1>16. CASE UNCHANGED vars
  BY <1>0, <1>1, <1>16, <1>r, KeysStay DEF vars, tables, KeyStays, OwnStays, JobStays, MovesOn
<1> QED
  BY <1>2, <1>3, <1>4, <1>5, <1>6, <1>7, <1>8, <1>9, <1>10, <1>11, <1>12, <1>13, <1>14,
     <1>15, <1>16
  DEF Next, ResolveStep, CreateStep, UploadStep

LEMMA KeyInit ==
  Init => KeyInv
<1> SUFFICES ASSUME Init PROVE KeyInv
  OBVIOUS
<1>1. /\ \A r \in Requests : /\ req[r].pc = "idle" /\ req[r].key = None /\ req[r].own = FALSE
                             /\ req[r].job = None /\ row[r] = "absent"
      /\ \A k \in Keys : reserved[k] = None
      /\ horizon = 0 /\ Requests \subseteq Nat \ {0}
  BY AdmissionAssumption DEF Init
<1>2. Arrivals
  BY <1>1 DEF Arrivals, At
<1>5. KeyIsSerial
  BY <1>1 DEF KeyIsSerial, InFlight
<1>3. JobIsKnown /\ RowIsOwn
  BY <1>1 DEF JobIsKnown, IsKnown, RowIsOwn, OwnsRow, Joined, KeyPc, CreatePc, StreamPc
<1>4. KeyIsHeld /\ HolderHasRow
  BY <1>1 DEF KeyIsHeld, HolderHasRow, InFlight
<1> QED BY <1>2, <1>5, <1>3, <1>4 DEF KeyInv

-----------------------------------------------------------------------------
(* The files.                                                              *)

\* No two requests in flight are about one job.
LEMMA OneUploader ==
  ASSUME TypeInv, KeyInv, NEW q \in Requests, NEW r \in Requests,
         InFlight(q), InFlight(r), req[q].job = req[r].job
  PROVE  q = r
<1>0. req[q].job \in Requests
  BY RequestIs DEF InFlight
<1>1. CASE req[q].job = q \/ req[q].job = r
  BY <1>1, JobIsOwnOrEnded
<1>2. CASE Joined(q) /\ Joined(r)
  BY <1>2, InFlightAlone DEF KeyInv, JobIsKnown, IsKnown
<1> QED BY <1>0, <1>1, <1>2, NoneIsFree DEF Joined

(***************************************************************************)
(* A step of a request outside the streaming that leaves the files alone.  *)
(***************************************************************************)
LEMMA FilesStay ==
  ASSUME TypeInv, KeyInv, FileInv, NEW r \in Requests, ~At(r, "stream"), req[r].pc \notin EndPc,
         OthersStay(r), UNCHANGED <<tmp, final, data, crashes>>, req'[r].pc # "stream",
         req[r].pc \in {"read", "patch", "enqueue"} =>
           JobStays(r) /\ req'[r].pc \in {"read", "patch", "enqueue"} \cup EndPc,
         req'[r].pc \in {"read", "patch", "enqueue"} => req[r].pc \in {"read", "patch", "enqueue"},
         \A j \in Requests :
           /\ row'[j] \in {"uploading", "queued"} =>
                row[j] \in {"uploading", "queued"} \/ row[j] = "absent"
           /\ j \in Uploads /\ row'[j] = "queued" => row[j] = "queued" \/ final[j] # None
  PROVE  FileInv'
<1> SUFFICES ASSUME crashes = 0, NEW q \in Requests
             PROVE  WritesOwn(q)' /\ NamesFiles(q)' /\ HasPublished(q)'
  BY DEF FileInv
<1>0. /\ WritesOwn(q) /\ NamesFiles(q) /\ HasPublished(q)
      /\ tmp \in [Requests -> Requests \cup {None}] /\ final \in [Requests -> Requests \cup {None}]
      /\ tmp' = tmp /\ final' = final /\ data' = data
      /\ \A p \in Requests \ {r} : req'[p] = req[p]
      /\ None \notin Requests
  BY TypeIs, NoneIsFree DEF FileInv, TypeInv, OthersStay
<1>1. WritesOwn(q)'
  BY <1>0 DEF WritesOwn, At
<1>2. NamesFiles(q)'
  <2>1. tmp[q] # None => tmp[q] \in Requests \ {r}
    BY <1>0 DEF NamesFiles, At
  <2>2. tmp[q] # None => At(tmp[q], "stream")' /\ req'[tmp[q]].job = q
    BY <1>0, <2>1 DEF NamesFiles, At
  <2>3. final[q] # None => req'[final[q]].pc \in {"read", "patch", "enqueue"} \cup EndPc
    <3>1. final[q] # None => final[q] \in Requests
      BY <1>0
    <3> QED BY <1>0, <3>1 DEF NamesFiles
  <2> QED BY <1>0, <2>2, <2>3 DEF NamesFiles, At
<1>3. HasPublished(q)'
  <2> SUFFICES ASSUME req'[q].pc \in {"read", "patch", "enqueue"},
                      row'[req'[q].job] \in {"uploading", "queued"}
               PROVE  final[req'[q].job] # None
    BY <1>0 DEF HasPublished
  <2>1. req[q].pc \in {"read", "patch", "enqueue"} /\ req'[q].job = req[q].job
    BY <1>0 DEF JobStays
  <2>2. req[q].job \in Requests /\ row[req[q].job] # "absent"
    BY <2>1, RequestIs DEF KeyInv, RowIsOwn, OwnsRow, HasRow, StreamPc
  <2> QED BY <1>0, <2>1, <2>2 DEF HasPublished
<1> QED BY <1>1, <1>2, <1>3

\* A request opens its temporary file.
LEMMA FileOpen ==
  ASSUME TypeInv, KeyInv, FileInv, NEW r \in Requests, OpenTmp(r)
  PROVE  FileInv'
<1> DEFINE j == req[r].job
<1> SUFFICES ASSUME crashes = 0, NEW q \in Requests
             PROVE  WritesOwn(q)' /\ NamesFiles(q)' /\ HasPublished(q)'
  BY DEF FileInv, OpenTmp
<1>0. /\ \A p \in Requests : WritesOwn(p) /\ NamesFiles(p) /\ HasPublished(p)
      /\ tmp \in [Requests -> Requests \cup {None}] /\ final \in [Requests -> Requests \cup {None}]
      /\ data \in [Requests -> SUBSET {1, 2}]
      /\ final' = final /\ row' = row /\ None \notin Requests
      /\ j \in Requests /\ req[r].pc = "open" /\ InFlight(r)
  BY TypeIs, NoneIsFree, RequestIs DEF FileInv, TypeInv, OpenTmp, At, tables, InFlight, EndPc
<1>1. tmp[j] = None
  <2> SUFFICES ASSUME tmp[j] # None PROVE FALSE
    OBVIOUS
  <2>1. tmp[j] \in Requests /\ At(tmp[j], "stream") /\ req[tmp[j]].job = j
    BY <1>0 DEF NamesFiles
  <2> QED BY <1>0, <2>1, OneUploader DEF At, InFlight, EndPc
<1>2. tmp' = [tmp EXCEPT ![j] = r] /\ data' = [data EXCEPT ![r] = {}]
  BY <1>1 DEF OpenTmp
<1>3. /\ \A p \in Requests \ {r} : req'[p] = req[p]
      /\ req'[r].pc = "stream" /\ req'[r].job = j /\ req'[r].file = r /\ req'[r].wrote = 0
  BY <1>0, <1>1, OpenTmpIs DEF TypeInv, OthersStay, JobStays
<1>4. WritesOwn(q)'
  <2>1. CASE q = r
    BY <1>0, <1>2, <1>3, <2>1 DEF WritesOwn
  <2>2. CASE q # r
    <3>1. At(q, "stream") => req[q].job \in Requests /\ req[q].job # j
      BY <1>0, <2>2, OneUploader, RequestIs DEF At, InFlight, EndPc
    <3>2. /\ req'[q] = req[q] /\ data'[q] = data[q]
          /\ At(q, "stream") => tmp'[req[q].job] = tmp[req[q].job]
      BY <1>0, <1>2, <1>3, <2>2, <3>1
    <3>3. WritesOwn(q)
      BY <1>0
    <3> QED BY <3>2, <3>3 DEF WritesOwn, At
  <2> QED BY <2>1, <2>2
<1>5. NamesFiles(q)'
  <2>0. NamesFiles(q)
    BY <1>0
  <2>1. final[q] # None => final[q] \in Requests \ {r}
    BY <1>0, <2>0 DEF NamesFiles, EndPc
  <2>2. final[q] # None => data'[final[q]] = data[final[q]] /\ req'[final[q]] = req[final[q]]
    BY <1>0, <1>2, <1>3, <2>1
  <2>3. tmp'[q] # None => At(tmp[q], "stream")' /\ req'[tmp'[q]].job = q
    <3>1. CASE q = j
      BY <1>0, <1>2, <1>3, <3>1 DEF At
    <3>2. CASE q # j
      <4>1. tmp[q] # None => tmp[q] \in Requests \ {r}
        BY <1>0, <2>0 DEF NamesFiles, At
      <4> QED BY <1>0, <1>2, <1>3, <2>0, <3>2, <4>1 DEF NamesFiles, At
    <3> QED BY <3>1, <3>2
  <2> QED BY <1>0, <2>0, <2>2, <2>3 DEF NamesFiles
<1>6. HasPublished(q)'
  BY <1>0, <1>3 DEF HasPublished
<1> QED BY <1>4, <1>5, <1>6

\* A request writes half of the body.
LEMMA FileWrite ==
  ASSUME TypeInv, KeyInv, FileInv, NEW r \in Requests, WriteHalf(r)
  PROVE  FileInv'
<1> SUFFICES ASSUME crashes = 0, NEW q \in Requests
             PROVE  WritesOwn(q)' /\ NamesFiles(q)' /\ HasPublished(q)'
  BY DEF FileInv, WriteHalf
<1>0. /\ \A p \in Requests : WritesOwn(p) /\ NamesFiles(p) /\ HasPublished(p)
      /\ tmp \in [Requests -> Requests \cup {None}] /\ final \in [Requests -> Requests \cup {None}]
      /\ data \in [Requests -> SUBSET {1, 2}]
      /\ tmp' = tmp /\ final' = final /\ row' = row
      /\ req[r].pc = "stream" /\ req[r].wrote \in 0..1 /\ req[r].file = r
      /\ data[r] = 1..req[r].wrote
  BY TypeIs, RequestIs DEF FileInv, TypeInv, WriteHalf, At, tables, WritesOwn
<1>1. data' = [data EXCEPT ![r] = @ \cup {req[r].wrote + 1}]
  BY <1>0 DEF WriteHalf
<1>2. /\ \A p \in Requests \ {r} : req'[p] = req[p]
      /\ req'[r].pc = "stream" /\ req'[r].job = req[r].job /\ req'[r].file = r
      /\ req'[r].wrote = req[r].wrote + 1
  BY <1>0, WriteHalfIs DEF TypeInv, OthersStay, JobStays
<1>3. WritesOwn(q)'
  <2>1. data'[r] = 1..req'[r].wrote
    <3>1. data'[r] = (1..req[r].wrote) \cup {req[r].wrote + 1}
      BY <1>0, <1>1
    <3> QED BY <1>0, <1>2, <3>1
  <2>2. WritesOwn(q)
    BY <1>0
  <2> QED BY <1>0, <1>1, <1>2, <2>1, <2>2 DEF WritesOwn, At
<1>4. NamesFiles(q)'
  <2>0. NamesFiles(q)
    BY <1>0
  <2>1. final[q] # None => final[q] \in Requests \ {r}
    BY <1>0, <2>0 DEF NamesFiles, EndPc
  <2>2. final[q] # None => data'[final[q]] = data[final[q]] /\ req'[final[q]] = req[final[q]]
    BY <1>0, <1>1, <1>2, <2>1
  <2>3. tmp[q] # None => tmp[q] \in Requests
    BY <1>0
  <2>4. tmp[q] # None => At(tmp[q], "stream")' /\ req'[tmp[q]].job = q
    BY <1>0, <1>2, <2>0, <2>3 DEF NamesFiles, At
  <2> QED BY <1>0, <2>0, <2>2, <2>4 DEF NamesFiles, At
<1>5. HasPublished(q)'
  BY <1>0, <1>2 DEF HasPublished
<1> QED BY <1>3, <1>4, <1>5

\* A request publishes its file, which by now has the whole body.
LEMMA FilePublish ==
  ASSUME TypeInv, KeyInv, FileInv, NEW r \in Requests, Publish(r)
  PROVE  FileInv'
<1> DEFINE j == req[r].job
<1> SUFFICES ASSUME crashes = 0, NEW q \in Requests
             PROVE  WritesOwn(q)' /\ NamesFiles(q)' /\ HasPublished(q)'
  BY DEF FileInv, Publish
<1>0. /\ \A p \in Requests : WritesOwn(p) /\ NamesFiles(p) /\ HasPublished(p)
      /\ tmp \in [Requests -> Requests \cup {None}] /\ final \in [Requests -> Requests \cup {None}]
      /\ data' = data /\ row' = row
      /\ req[r].pc = "stream" /\ InFlight(r) /\ j \in Requests /\ tmp[j] = r
      /\ data[r] = 1..2 /\ None \notin Requests
  BY TypeIs, RequestIs, NoneIsFree DEF FileInv, TypeInv, Publish, At, tables, WritesOwn, InFlight, EndPc
<1>1. final' = [final EXCEPT ![j] = r] /\ tmp' = [tmp EXCEPT ![j] = None]
  BY <1>0 DEF Publish
<1>2. /\ \A p \in Requests \ {r} : req'[p] = req[p]
      /\ req'[r].pc = "read" /\ req'[r].job = j
  BY TypeIs, GoToIs, ReqPcIs DEF TypeInv, Publish, OthersStay, JobStays
<1>3. WritesOwn(q)'
  <2>1. At(q, "stream")' => q # r /\ req[q].job \in Requests /\ req[q].job # j
    BY <1>0, <1>2, OneUploader, RequestIs DEF At, InFlight, EndPc
  <2>2. WritesOwn(q)
    BY <1>0
  <2> QED BY <1>0, <1>1, <1>2, <2>1, <2>2 DEF WritesOwn, At
<1>4. NamesFiles(q)'
  <2>0. NamesFiles(q)
    BY <1>0
  <2>1. CASE q = j
    <3>1. final'[q] = r /\ tmp'[q] = None /\ data[r] = {1, 2}
      BY <1>0, <1>1, <2>1
    <3>2. r # None
      BY <1>0
    <3> QED BY <1>0, <1>2, <3>1, <3>2 DEF NamesFiles
  <2>2. CASE q # j
    <3>1. final'[q] = final[q] /\ tmp'[q] = tmp[q]
      BY <1>0, <1>1, <2>2
    <3>2. final[q] # None => final[q] \in Requests \ {r}
      BY <1>0, <2>0 DEF NamesFiles, EndPc
    <3>3. tmp[q] # None => tmp[q] \in Requests \ {r}
      BY <1>0, <2>0, <2>2 DEF NamesFiles
    <3>4. tmp'[q] # None => At(tmp[q], "stream")' /\ req'[tmp'[q]].job = q
      BY <1>2, <2>0, <3>1, <3>3 DEF NamesFiles, At
    <3> QED BY <1>0, <1>2, <2>0, <3>1, <3>2, <3>4 DEF NamesFiles
  <2> QED BY <2>1, <2>2
<1>5. HasPublished(q)'
  <2>0. HasPublished(q) /\ (req'[q].pc \in {"read", "patch", "enqueue"} => req[q].job \in Requests)
    BY <1>0, <1>2, RequestIs
  <2>1. CASE q = r
    BY <1>0, <1>1, <1>2, <2>1 DEF HasPublished
  <2>2. CASE q # r
    BY <1>0, <1>1, <1>2, <2>0, <2>2 DEF HasPublished
  <2> QED BY <2>1, <2>2
<1> QED BY <1>3, <1>4, <1>5

\* A request breaks off, and its temporary file is gone.
LEMMA FileBreakOff ==
  ASSUME TypeInv, KeyInv, FileInv, NEW r \in Requests, BreakOff(r)
  PROVE  FileInv'
<1> DEFINE j == req[r].job
<1> SUFFICES ASSUME crashes = 0, NEW q \in Requests
             PROVE  WritesOwn(q)' /\ NamesFiles(q)' /\ HasPublished(q)'
  BY DEF FileInv, BreakOff
<1>0. /\ \A p \in Requests : WritesOwn(p) /\ NamesFiles(p) /\ HasPublished(p)
      /\ tmp \in [Requests -> Requests \cup {None}] /\ final \in [Requests -> Requests \cup {None}]
      /\ data' = data /\ row' = row /\ final' = final /\ tmp' = [tmp EXCEPT ![j] = None]
      /\ req[r].pc \in {"open", "stream"} /\ InFlight(r) /\ j \in Requests
      /\ None \notin Requests
  BY TypeIs, RequestIs, NoneIsFree DEF FileInv, TypeInv, BreakOff, At, tables, InFlight, EndPc
<1>1. /\ \A p \in Requests \ {r} : req'[p] = req[p]
      /\ req'[r].pc = "refused" /\ req'[r].job = j
  BY TypeIs, GoToIs, ReqPcIs DEF TypeInv, BreakOff, OthersStay, JobStays
<1>2. WritesOwn(q)'
  <2>1. WritesOwn(q) /\ (At(q, "stream") => req[q].job \in Requests)
    BY <1>0, RequestIs DEF At
  <2> QED BY <1>0, <1>1, <2>1 DEF WritesOwn, At
<1>3. NamesFiles(q)'
  <2>0. NamesFiles(q)
    BY <1>0
  <2>1. final[q] # None => final[q] \in Requests \ {r}
    BY <1>0, <2>0 DEF NamesFiles, EndPc
  <2>2. tmp'[q] # None => tmp'[q] = tmp[q] /\ tmp[q] \in Requests \ {r}
    BY <1>0, <2>0 DEF NamesFiles
  <2>3. tmp'[q] # None => At(tmp[q], "stream")' /\ req'[tmp'[q]].job = q
    BY <1>1, <2>0, <2>2 DEF NamesFiles, At
  <2> QED BY <1>0, <1>1, <2>0, <2>1, <2>3 DEF NamesFiles
<1>4. HasPublished(q)'
  BY <1>0, <1>1 DEF HasPublished
<1> QED BY <1>2, <1>3, <1>4

\* A queued job ends, or is cancelled with its folder.
LEMMA FileSettle ==
  ASSUME TypeInv, KeyInv, FileInv, NEW r \in Requests, NEW s \in {"done", "failed", "cancelled"},
         Settle(r, s)
  PROVE  FileInv'
<1> SUFFICES ASSUME crashes = 0, NEW q \in Requests
             PROVE  WritesOwn(q)' /\ NamesFiles(q)' /\ HasPublished(q)'
  BY DEF FileInv, Settle
<1>0. /\ WritesOwn(q) /\ NamesFiles(q) /\ HasPublished(q)
      /\ tmp \in [Requests -> Requests \cup {None}] /\ final \in [Requests -> Requests \cup {None}]
      /\ row \in [Requests -> Status]
      /\ data' = data /\ req' = req /\ row' = [row EXCEPT ![r] = s]
      /\ req[q].pc # "idle" => req[q].job \in Requests
  BY TypeIs, RequestIs DEF FileInv, TypeInv, Settle
<1>1. \/ tmp' = tmp /\ final' = final
      \/ tmp' = [tmp EXCEPT ![r] = None] /\ final' = [final EXCEPT ![r] = None]
  BY DEF Settle
<1>2. \A p \in Requests :
        /\ tmp'[p] \in {tmp[p], None} /\ (p # r => final'[p] = final[p])
        /\ final'[p] \in {final[p], None}
        /\ row'[p] = IF p = r THEN s ELSE row[p]
  BY <1>0, <1>1
<1>3. WritesOwn(q)'
  BY <1>0, <1>2 DEF WritesOwn, At
<1>4. NamesFiles(q)'
  BY <1>0, <1>2 DEF NamesFiles, At
<1>5. HasPublished(q)'
  BY <1>0, <1>2 DEF HasPublished
<1> QED BY <1>3, <1>4, <1>5

(***************************************************************************)
(* FileInv is inductive: with KeyInv, two requests never stream to one     *)
(* job, so nobody truncates, extends or renames the file of another.       *)
(***************************************************************************)
LEMMA FileInvStep ==
  ASSUME TypeInv, KeyInv, FileInv, [Next]_vars
  PROVE  FileInv'
<1>0. /\ row \in [Requests -> Status] /\ req \in [Requests -> Request]
      /\ \A q \in Requests : IsKnown(q) /\ OwnsRow(q) /\ req[q].pc \in ReqPc
      /\ crashes = 0 => \A q \in Requests : HasPublished(q) /\ NamesFiles(q)
      /\ crashes \in Nat
  BY TablesAre, RequestIs, TypeIs DEF KeyInv, JobIsKnown, RowIsOwn, FileInv, TypeInv
\* A step of request r that leaves the rows alone as well.
<1>g. ASSUME NEW r \in Requests, NEW p \in ReqPc \ {"stream"}, GoTo(r, p), ~At(r, "stream"),
             req[r].pc \notin EndPc, UNCHANGED <<row, tmp, final, data, crashes>>,
             req[r].pc \in {"read", "patch", "enqueue"} =>
               p \in {"read", "patch", "enqueue"} \cup EndPc,
             p \in {"read", "patch", "enqueue"} => req[r].pc \in {"read", "patch", "enqueue"}
      PROVE  FileInv'
  <2>1. OthersStay(r) /\ JobStays(r) /\ req'[r].pc = p
    BY <1>0, <1>g, GoToIs
  <2> QED BY <1>g, <2>1, FilesStay
<1>n. /\ {"open", "answered", "drop", "refused", "patch", "enqueue", "folder"} \subseteq ReqPc \ {"stream"}
      /\ {"insert", "unkey", "reserve", "lookup", "check"} \subseteq ReqPc \ {"stream"}
  BY ReqPcIs
<1>1. ASSUME NEW r \in Requests, NEW k \in Keys \cup {None}, Arrive(r, k) PROVE FileInv'
  <2>1. OthersStay(r) /\ req'[r].pc \in {"insert", "reserve"}
    BY <1>1, ArriveIs DEF TypeInv
  <2> QED BY <1>1, <2>1, FilesStay DEF Arrive, At, tables, files, EndPc
<1>2. ASSUME NEW r \in Requests, Reserve(r) \/ Lookup(r) \/ DropKey(r) PROVE FileInv'
  <2>1. /\ req[r].pc \in KeyPc /\ req[r].key \in Keys
        /\ UNCHANGED <<row, tmp, final, data, crashes>>
    BY <1>2, RequestIs DEF Reserve, Lookup, DropKey, At, KeyPc, tables, files
  <2>2. OthersStay(r) /\ req'[r].pc \in {"insert", "lookup", "check"}
    BY <1>0, <1>2, <2>1, ReserveIs, LookupIs, CreateIs DEF TypeInv, DropKey
  <2> QED BY <2>1, <2>2, FilesStay DEF At, KeyPc, EndPc
<1>3. ASSUME NEW r \in Requests, CheckJob(r) PROVE FileInv'
  <2>1. PICK p \in {"open", "answered", "drop"} : GoTo(r, p)
    BY <1>3 DEF CheckJob, Resolved
  <2> QED BY <1>3, <1>g, <1>n, <2>1 DEF CheckJob, At, tables, files, EndPc
<1>4. ASSUME NEW r \in Requests, InsertRow(r) PROVE FileInv'
  <2>1. OthersStay(r) /\ req'[r].pc = "folder" /\ row[r] = "absent"
    BY <1>0, <1>4, <1>n, GoToIs DEF InsertRow, OwnsRow, At
  <2>2. \A j \in Requests :
          /\ row'[j] \in {"uploading", "queued"} =>
               row[j] \in {"uploading", "queued"} \/ row[j] = "absent"
          /\ j \in Uploads /\ row'[j] = "queued" => row[j] = "queued"
    BY <1>0, <1>4, <2>1 DEF InsertRow
  <2> QED BY <1>4, <2>1, <2>2, FilesStay DEF InsertRow, At, files, EndPc
<1>5. ASSUME NEW r \in Requests, CreateFolder(r) PROVE FileInv'
  <2>1. PICK p \in {"open", "answered"} : GoTo(r, p)
    BY <1>5 DEF CreateFolder, Resolved
  <2> QED BY <1>5, <1>g, <1>n, <2>1 DEF CreateFolder, At, tables, EndPc
<1>6. ASSUME NEW r \in Requests, CompensateInsert(r) PROVE FileInv'
  <2>1. PICK p \in {"unkey", "refused"} : GoTo(r, p)
    BY <1>6 DEF CompensateInsert, FailedCreate
  <2>2. OthersStay(r) /\ req'[r].pc = p
    BY <1>0, <1>n, <2>1, GoToIs
  <2>3. \A j \in Requests : row'[j] = row[j] \/ row'[j] = "deleted"
    BY <1>0, <1>6 DEF CompensateInsert
  <2> QED BY <1>6, <2>2, <2>3, FilesStay DEF CompensateInsert, At, files, EndPc
<1>7. ASSUME NEW r \in Requests, ReleaseKey(r) PROVE FileInv'
  BY <1>7, <1>g, <1>n DEF ReleaseKey, At, files, EndPc
<1>8. ASSUME NEW r \in Requests, OpenTmp(r) \/ WriteHalf(r) \/ Publish(r) \/ BreakOff(r)
      PROVE  FileInv'
  BY <1>8, FileOpen, FileWrite, FilePublish, FileBreakOff
<1>9. ASSUME NEW r \in Requests, ReadManifest(r) PROVE FileInv'
  <2>1. PICK p \in {"patch", "refused"} : GoTo(r, p)
    BY <1>9 DEF ReadManifest
  <2> QED BY <1>9, <1>g, <1>n, <2>1 DEF ReadManifest, At, tables, files, EndPc
<1>10. ASSUME NEW r \in Requests, PatchManifest(r) PROVE FileInv'
  BY <1>10, <1>g, <1>n DEF PatchManifest, At, tables, EndPc
<1>11. ASSUME NEW r \in Requests, Enqueue(r) PROVE FileInv'
  <2>0. UNCHANGED <<tmp, final, data, crashes>> /\ At(r, "enqueue")
    BY <1>11 DEF Enqueue, files
  <2>1. CASE crashes = 0
    <3>1. OthersStay(r) /\ JobStays(r) /\ req'[r].pc = "answered"
      BY <1>0, <1>11, <1>n, GoToIs DEF Enqueue
    <3>2. final[req[r].job] # None \/ row[req[r].job] \notin {"uploading", "queued"}
      BY <1>0, <2>0, <2>1 DEF HasPublished, At
    <3>3. \A j \in Requests :
            /\ row'[j] \in {"uploading", "queued"} => row[j] \in {"uploading", "queued"}
            /\ row'[j] = "queued" => row[j] = "queued" \/ final[j] # None
      BY <1>0, <1>11, <3>2 DEF Enqueue
    <3> QED BY <2>0, <3>1, <3>3, FilesStay DEF At, EndPc
  <2>2. CASE crashes # 0
    BY <2>0, <2>2 DEF FileInv
  <2> QED BY <2>1, <2>2
<1>12. ASSUME NEW r \in Requests, NEW s \in {"done", "failed", "cancelled"}, Settle(r, s)
       PROVE  FileInv'
  BY <1>12, FileSettle
<1>13. CASE PassTtl \/ Janitor \/ UNCHANGED vars
  <2>1. UNCHANGED <<row, tmp, final, data, crashes, req>>
    BY <1>13 DEF PassTtl, Janitor, vars, tables, files
  <2> QED BY <2>1 DEF FileInv, WritesOwn, NamesFiles, HasPublished, At
<1>14. CASE Crash
  <2>1. crashes' # 0
    BY <1>0, <1>14 DEF Crash
  <2> QED BY <2>1 DEF FileInv
<1> QED
  BY <1>1, <1>2, <1>3, <1>4, <1>5, <1>6, <1>7, <1>8, <1>9, <1>10, <1>11, <1>12, <1>13, <1>14
  DEF Next, ResolveStep, CreateStep, UploadStep

-----------------------------------------------------------------------------
(* What admission promises, of requests of a key that do not overlap.      *)

(***************************************************************************)
(* The invariant holds in every behaviour without overlapping requests of  *)
(* a key, for any requests, keys and number of crashes.                    *)
(***************************************************************************)
THEOREM AdmissionInvCorrect ==
  ASSUME Overlap = FALSE
  PROVE  Spec => []AInv
<1>1. Init => AInv
  <2>1. Init => FileInv
    BY AdmissionAssumption DEF Init, FileInv, WritesOwn, NamesFiles, HasPublished, At
  <2> QED BY <2>1, TypeInit, KeyInit DEF AInv
<1>2. AInv /\ [Next]_vars => AInv'
  BY TypeStep, KeyInvStep, FileInvStep DEF AInv
<1> QED BY <1>1, <1>2, PTL DEF Spec

(***************************************************************************)
(* Within the TTL a key makes one row: both makers would have to hold it.  *)
(***************************************************************************)
THEOREM OneReservedJobPerKeyCorrect ==
  ASSUME Overlap = FALSE
  PROVE  Spec => []OneReservedJobPerKey
<1>1. AInv => OneReservedJobPerKey
  <2> SUFFICES ASSUME AInv, NEW q \in Requests, NEW r \in Requests, q < r, horizon < q,
                      req[q].own, req[r].own, req[q].key = req[r].key, HasRow(q), HasRow(r)
               PROVE  FALSE
    BY DEF OneReservedJobPerKey
  <2>1. q \in Nat /\ r \in Nat /\ horizon \in Nat
    BY RequestIs, TablesAre DEF AInv
  <2>2. reserved[req[q].key] = q /\ reserved[req[r].key] = r
    BY <2>1 DEF AInv, KeyInv, KeyIsHeld
  <2> QED BY <2>1, <2>2
<1>2. Spec => []AInv
  BY AdmissionInvCorrect
<1> QED BY <1>1, <1>2, PTL

(***************************************************************************)
(* Whoever was answered holds the id of a job with a row.                  *)
(***************************************************************************)
THEOREM AnsweredJobExistsCorrect ==
  ASSUME Overlap = FALSE
  PROVE  Spec => []AnsweredJobExists
<1>1. AInv => AnsweredJobExists
  BY DEF AInv, KeyInv, RowIsOwn, OwnsRow, AnsweredJobExists
<1>2. Spec => []AInv
  BY AdmissionInvCorrect
<1> QED BY <1>1, <1>2, PTL

(***************************************************************************)
(* A reservation without a row, with nobody at work, was left by a crash   *)
(* that no later request of the key has outlived.                          *)
(***************************************************************************)
THEOREM NoOrphanKeyCorrect ==
  ASSUME Overlap = FALSE
  PROVE  Spec => []NoOrphanKey
<1>1. AInv => NoOrphanKey
  <2> SUFFICES ASSUME AInv, NEW k \in Keys, reserved[k] # None, ~HasRow(reserved[k]),
                      \A r \in Requests : req[r].key = k => ~InFlight(r),
                      NEW r \in Requests, req[r].key = k, r >= reserved[k]
               PROVE  req[r].pc = "lost"
    BY DEF NoOrphanKey
  <2>1. req[r].pc \notin {"answered", "refused"}
    BY DEF AInv, KeyInv, HolderHasRow
  <2>2. req[r].pc # "idle"
    BY TablesAre DEF AInv, KeyInv, Arrivals, At
  <2> QED BY <2>1, <2>2 DEF InFlight, EndPc
<1>2. Spec => []AInv
  BY AdmissionInvCorrect
<1> QED BY <1>1, <1>2, PTL

(***************************************************************************)
(* Until the backend restarts, the worker never meets half a file.         *)
(***************************************************************************)
THEOREM QueuedSourceIsWholeCorrect ==
  ASSUME Overlap = FALSE
  PROVE  Spec => []QueuedSourceIsWhole
<1>1. AInv => QueuedSourceIsWhole
  BY AdmissionAssumption DEF AInv, FileInv, NamesFiles, QueuedSourceIsWhole
<1>2. Spec => []AInv
  BY AdmissionInvCorrect
<1> QED BY <1>1, <1>2, PTL

=============================================================================
