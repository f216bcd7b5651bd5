--------------------------- MODULE UploadQueue_proof ---------------------------
(***************************************************************************)
(* What TLAPS proves of UploadQueue, for any files, any number of drops    *)
(* and of visits of the page: its type invariant, that no dropped file is  *)
(* lost, overtaken or sent twice, and that one upload runs at a time.      *)
(***************************************************************************)
EXTENDS UploadQueue, SequenceTheorems, FiniteSetTheorems, TLAPS

Upload == [file : Files, pc : Pc, cancelled : BOOLEAN]

\* The hook that is mounted, if one is.
Current == uploads[Len(uploads)]

\* The mounted hook uploads the active file, until it has reported it.
HookIsActive ==
  mounted => /\ shown.active = Current.file
             /\ active = IF Current.pc = "reported" THEN NoFile ELSE Current.file
             /\ ~Current.cancelled

\* What a render saw and an effect is to use is still so, however stale.
RenderHolds ==
  /\ ~mounted /\ shown.active # NoFile => active = shown.active
  /\ due /\ shown.active = NoFile =>
       /\ active = NoFile
       /\ shown.queue # <<>> => queue # <<>> /\ Head(queue) = Head(shown.queue)

\* A hook that is gone has been told so, and sends nothing.
GoneIsCancelled ==
  \A h \in Hooks : h < Len(uploads) \/ ~mounted =>
    uploads[h].cancelled /\ uploads[h].pc # "sending"

\* Every file is somewhere, in the order in which they were dropped.
InOrder  == dropped = reported \o Active \o queue
HasACard == \A i \in DOMAIN reported : reported[i] \in cards \cup ended

\* A page that was left can be opened again.
CanReturn == ~open => visit < MaxVisits

QInv == TypeOK /\ CanReturn /\ HookIsActive /\ RenderHolds /\ GoneIsCancelled /\ InOrder /\ HasACard

-----------------------------------------------------------------------------
(* The hooks.                                                              *)

\* The hooks are a sequence of uploads.
LEMMA HooksAre ==
  ASSUME TypeOK
  PROVE  /\ uploads \in Seq(Upload) /\ Len(uploads) \in Nat /\ Hooks = 1..Len(uploads)
         /\ \A h \in Hooks : uploads[h] \in Upload
         /\ mounted => Len(uploads) \in Hooks
<1>1. uploads \in Seq(Upload)
  BY DEF TypeOK, Upload
<1>2. mounted => uploads # <<>>
  BY DEF TypeOK
<1> QED BY <1>1, <1>2, LenProperties, ElementOfSeq, EmptySeq DEF Hooks

\* Cancelling a hook ends the request it is sending.
LEMMA CancelledIs ==
  ASSUME NEW u \in Upload
  PROVE  /\ Cancelled(u) \in Upload /\ Cancelled(u).file = u.file
         /\ Cancelled(u).cancelled = TRUE
         /\ Cancelled(u).pc = IF u.pc = "sending" THEN "ended" ELSE u.pc
<1> DEFINE p == IF u.pc = "sending" THEN "ended" ELSE u.pc
<1>1. p \in Pc /\ TRUE \in BOOLEAN
  BY DEF Pc, Upload
<1> HIDE DEF p
<1>2. LET c == [u EXCEPT !.cancelled = TRUE, !.pc = p] IN
        c \in Upload /\ c.file = u.file /\ c.cancelled = TRUE /\ c.pc = p
  BY <1>1 DEF Upload
<1>3. Cancelled(u) = [u EXCEPT !.cancelled = TRUE, !.pc = p]
  BY DEF Cancelled, p
<1> QED BY <1>2, <1>3 DEF p

\* Moving a hook writes where its upload stands, and nothing else.
LEMMA MoveToIs ==
  ASSUME TypeOK, NEW h \in Hooks, NEW p \in Pc, MoveTo(h, p)
  PROVE  /\ uploads' \in Seq(Upload) /\ Len(uploads') = Len(uploads) /\ Hooks' = Hooks
         /\ \A i \in Hooks : /\ uploads'[i].file = uploads[i].file
                             /\ uploads'[i].cancelled = uploads[i].cancelled
                             /\ uploads'[i].pc = IF i = h THEN p ELSE uploads[i].pc
<1> DEFINE u == [uploads[h] EXCEPT !.pc = p]
<1>0. /\ uploads \in Seq(Upload) /\ Hooks = 1..Len(uploads) /\ uploads[h] \in Upload
      /\ Len(uploads) \in Nat
  BY HooksAre
<1>1. /\ u \in Upload /\ u.file = uploads[h].file /\ u.cancelled = uploads[h].cancelled
      /\ u.pc = p
  BY <1>0 DEF Upload
<1>2. uploads' = [uploads EXCEPT ![h] = u]
  BY DEF MoveTo
<1> HIDE DEF u
<1>3. /\ uploads' \in Seq(Upload) /\ Len(uploads') = Len(uploads)
      /\ \A i \in 1..Len(uploads) : uploads'[i] = IF i = h THEN u ELSE uploads[i]
  BY <1>0, <1>1, <1>2, ExceptSeq
<1>4. Hooks' = 1..Len(uploads')
  BY <1>3, LenProperties DEF Hooks
<1> QED BY <1>0, <1>1, <1>3, <1>4

\* After Unmount every hook is cancelled and none sends.
LEMMA UnmountIs ==
  ASSUME TypeOK, GoneIsCancelled, Unmount
  PROVE  /\ uploads' \in Seq(Upload) /\ mounted' = FALSE /\ GoneIsCancelled'
<1>0. /\ uploads \in Seq(Upload) /\ Len(uploads) \in Nat /\ Hooks = 1..Len(uploads)
      /\ \A h \in Hooks : uploads[h] \in Upload
      /\ mounted => Len(uploads) \in Hooks
  BY HooksAre
<1>1. CASE mounted
  <2> DEFINE u == Cancelled(uploads[Len(uploads)])
  <2>1. u \in Upload /\ u.cancelled = TRUE /\ u.pc # "sending"
    BY <1>0, <1>1, CancelledIs
  <2>2. uploads' = [uploads EXCEPT ![Len(uploads)] = u]
    BY <1>1 DEF Unmount
  <2> HIDE DEF u
  <2>3. /\ uploads' \in Seq(Upload) /\ Len(uploads') = Len(uploads)
        /\ \A i \in 1..Len(uploads) : uploads'[i] = IF i = Len(uploads) THEN u ELSE uploads[i]
    BY <1>0, <1>1, <2>1, <2>2, ExceptSeq
  <2>4. Hooks' = 1..Len(uploads')
    BY <2>3, LenProperties DEF Hooks
  <2>5. ASSUME NEW h \in Hooks'
        PROVE  uploads'[h].cancelled /\ uploads'[h].pc # "sending"
    <3>1. h \in Hooks /\ (h # Len(uploads) => h < Len(uploads))
      BY <1>0, <2>3, <2>4
    <3>2. h # Len(uploads) => uploads[h].cancelled /\ uploads[h].pc # "sending"
      BY <3>1 DEF GoneIsCancelled
    <3> QED BY <1>0, <2>1, <2>3, <3>1, <3>2
  <2> QED BY <2>3, <2>5 DEF Unmount, GoneIsCancelled
<1>2. CASE ~mounted
  BY <1>0, <1>2 DEF Unmount, GoneIsCancelled, Hooks
<1> QED BY <1>1, <1>2

-----------------------------------------------------------------------------
(* The files.                                                              *)

\* The sequences of files.
LEMMA FilesAre ==
  ASSUME TypeOK
  PROVE  /\ queue \in Seq(Files) /\ dropped \in Seq(Files) /\ reported \in Seq(Files)
         /\ active \in Files \cup {NoFile} /\ NoFile \notin Files
         /\ Active \in Seq(Files) /\ <<>> \in Seq(Files)
         /\ shown.queue \in Seq(Files) /\ shown.active \in Files \cup {NoFile}
<1>1. /\ queue \in Seq(Files) /\ dropped \in Seq(Files) /\ reported \in Seq(Files)
      /\ active \in Files \cup {NoFile} /\ NoFile \notin Files
  BY UploadQueueAssumption DEF TypeOK
<1>2. shown.queue \in Seq(Files) /\ shown.active \in Files \cup {NoFile}
  BY DEF TypeOK
<1> QED BY <1>1, <1>2 DEF Active

\* Files join the queue at its end.
LEMMA QueueGrows ==
  ASSUME NEW d \in Seq(Files), NEW r \in Seq(Files), NEW a \in Seq(Files), NEW q \in Seq(Files),
         NEW fs \in Seq(Files), d = r \o a \o q
  PROVE  d \o fs = r \o a \o (q \o fs)
<1>1. r \o a \in Seq(Files)
  BY ConcatProperties
<1> QED BY <1>1, ConcatAssociative

\* A file that leaves the head of the queue comes to work.
LEMMA QueuePops ==
  ASSUME NEW r \in Seq(Files), NEW q \in Seq(Files), q # <<>>
  PROVE  /\ r \o <<>> \o q = r \o <<Head(q)>> \o Tail(q)
         /\ Head(q) \in Files /\ Tail(q) \in Seq(Files)
<1>1. Head(q) \in Files /\ Tail(q) \in Seq(Files)
  BY HeadTailProperties
<1>2. <<Head(q)>> \o Tail(q) = q
  BY <1>1
<1>3. <<Head(q)>> \in Seq(Files)
  BY <1>1
<1>4. (r \o <<Head(q)>>) \o Tail(q) = r \o (<<Head(q)>> \o Tail(q))
  BY <1>1, <1>3, ConcatAssociative
<1>5. r \o <<>> = r
  BY ConcatEmptySeq
<1> QED BY <1>1, <1>2, <1>4, <1>5

-----------------------------------------------------------------------------
(* The invariant, action by action.                                        *)

LEMMA QInvInit ==
  Init => QInv
<1> SUFFICES ASSUME Init PROVE QInv
  OBVIOUS
<1>0. /\ visit = 1 /\ open = TRUE /\ queue = <<>> /\ active = NoFile
      /\ shown.queue = <<>> /\ shown.active = NoFile /\ due = FALSE
      /\ uploads = <<>> /\ mounted = FALSE /\ cards = {}
      /\ dropped = <<>> /\ reported = <<>> /\ ended = {}
  BY DEF Init, Empty
<1>1. TypeOK /\ CanReturn
  <2>1. shown \in [queue : Seq(Files), active : Files \cup {NoFile}]
    BY DEF Init, Empty
  <2>2. visit \in 1..MaxVisits
    BY <1>0, UploadQueueAssumption
  <2>3. <<>> \in Seq(Files) /\ <<>> \in Seq([file : Files, pc : Pc, cancelled : BOOLEAN])
    BY EmptySeq
  <2>4. open \in BOOLEAN /\ due \in BOOLEAN /\ mounted \in BOOLEAN /\ ~mounted /\ open
    BY <1>0
  <2> QED BY <1>0, <2>1, <2>2, <2>3, <2>4 DEF TypeOK, CanReturn
<1>2. HookIsActive /\ RenderHolds /\ GoneIsCancelled
  BY <1>0 DEF HookIsActive, RenderHolds, GoneIsCancelled, Hooks
<1>3. InOrder /\ HasACard
  BY <1>0 DEF InOrder, HasACard, Active
<1> QED BY <1>1, <1>2, <1>3 DEF QInv

\* What HookIsActive, RenderHolds and GoneIsCancelled read.
LEMMA HooksStay ==
  ASSUME HookIsActive, RenderHolds, GoneIsCancelled, UNCHANGED <<zone, react, hooks>>
  PROVE  HookIsActive' /\ RenderHolds' /\ GoneIsCancelled'
BY DEF HookIsActive, RenderHolds, GoneIsCancelled, Current, Hooks, zone, react, hooks

LEMMA QDrop ==
  ASSUME QInv, NEW fs \in Seq(Files), fs # <<>>, Drop(fs)
  PROVE  QInv'
<1>0. /\ TypeOK /\ CanReturn /\ HookIsActive /\ RenderHolds /\ GoneIsCancelled /\ InOrder /\ HasACard
      /\ UNCHANGED <<page, active, react, hooks, cards, reported, ended>>
      /\ queue' = queue \o fs /\ dropped' = dropped \o fs
  BY DEF QInv, Drop
<1>1. /\ queue \in Seq(Files) /\ dropped \in Seq(Files) /\ reported \in Seq(Files)
      /\ Active \in Seq(Files)
  BY <1>0, FilesAre
<1>2. TypeOK' /\ CanReturn'
  <2>1. queue' \in Seq(Files) /\ dropped' \in Seq(Files)
    BY <1>0, <1>1, ConcatProperties
  <2> QED BY <1>0, <2>1 DEF TypeOK, CanReturn, page, react, hooks
<1>3. HookIsActive' /\ GoneIsCancelled'
  BY <1>0 DEF HookIsActive, GoneIsCancelled, Current, Hooks, react, hooks
<1>4. RenderHolds'
  <2>1. queue # <<>> => queue' # <<>> /\ Head(queue') = Head(queue)
    <3>1. ASSUME queue # <<>> PROVE Len(queue) \in Nat \ {0} /\ Len(fs) \in Nat
      BY <1>1, <3>1, EmptySeq, LenProperties
    <3>2. ASSUME queue # <<>> PROVE Len(queue') # 0 /\ queue'[1] = queue[1]
      BY <1>0, <1>1, <3>1, <3>2, ConcatProperties
    <3> QED BY <1>0, <1>1, <3>1, <3>2, EmptySeq
  <2> QED BY <1>0, <2>1 DEF RenderHolds, react, hooks
<1>5. InOrder' /\ HasACard'
  <2>1. Active' = Active
    BY <1>0 DEF Active
  <2>2. dropped = reported \o Active \o queue
    BY <1>0 DEF InOrder
  <2>3. dropped \o fs = reported \o Active \o (queue \o fs)
    BY <1>1, <2>2, QueueGrows
  <2> QED BY <1>0, <2>1, <2>3 DEF InOrder, HasACard
<1> QED BY <1>2, <1>3, <1>4, <1>5 DEF QInv

LEMMA QCommit ==
  ASSUME QInv, Commit
  PROVE  QInv'
<1>0. /\ TypeOK /\ CanReturn /\ HookIsActive /\ RenderHolds /\ GoneIsCancelled /\ InOrder /\ HasACard
      /\ UNCHANGED <<page, zone, cards, history>>
      /\ shown'.queue = queue /\ shown'.active = active /\ due' = TRUE
      /\ shown' = [queue |-> queue, active |-> active]
      /\ NoFile \notin Files /\ active \in Files \cup {NoFile} /\ queue \in Seq(Files)
  BY FilesAre DEF QInv, Commit
<1>1. InOrder' /\ HasACard'
  BY <1>0 DEF InOrder, HasACard, Active, zone, history
<1>2. shown' \in [queue : Seq(Files), active : Files \cup {NoFile}]
  BY <1>0
<1>3. CASE active = NoFile
  <2>1. uploads' \in Seq(Upload) /\ mounted' = FALSE /\ GoneIsCancelled'
    BY <1>0, <1>3, UnmountIs DEF Commit
  <2>2. TypeOK' /\ CanReturn'
    BY <1>0, <1>2, <2>1 DEF TypeOK, CanReturn, page, zone, history, Upload
  <2>3. HookIsActive' /\ RenderHolds'
    BY <1>0, <1>3, <2>1 DEF HookIsActive, RenderHolds, zone
  <2> QED BY <1>0, <1>1, <2>1, <2>2, <2>3 DEF QInv
<1>4. CASE active # NoFile
  <2>1. uploads' = uploads /\ mounted' = mounted
    BY <1>4 DEF Commit, hooks
  <2>2. TypeOK' /\ CanReturn'
    BY <1>0, <1>2, <2>1 DEF TypeOK, CanReturn, page, zone, history
  <2>3. HookIsActive' /\ GoneIsCancelled'
    BY <1>0, <1>4, <2>1 DEF HookIsActive, GoneIsCancelled, Current, Hooks, zone
  <2>4. RenderHolds'
    BY <1>0, <1>4, <2>1 DEF RenderHolds, zone
  <2> QED BY <1>0, <1>1, <2>2, <2>3, <2>4 DEF QInv
<1> QED BY <1>3, <1>4

LEMMA QPops ==
  ASSUME QInv, EffectPops
  PROVE  QInv'
<1>0. /\ TypeOK /\ CanReturn /\ HookIsActive /\ RenderHolds /\ GoneIsCancelled /\ InOrder /\ HasACard
      /\ UNCHANGED <<page, shown, hooks, cards, history>>
      /\ due /\ shown.active = NoFile /\ shown.queue # <<>>
      /\ queue' = Tail(queue) /\ active' = Head(shown.queue) /\ due' = FALSE
  BY DEF QInv, EffectPops, Pop
<1>1. /\ queue \in Seq(Files) /\ reported \in Seq(Files) /\ NoFile \notin Files
      /\ active = NoFile /\ queue # <<>> /\ Head(queue) = Head(shown.queue)
  BY <1>0, FilesAre DEF RenderHolds
<1>2. /\ reported \o <<>> \o queue = reported \o <<Head(queue)>> \o Tail(queue)
      /\ Head(queue) \in Files /\ Tail(queue) \in Seq(Files)
  BY <1>1, QueuePops
<1>3. TypeOK' /\ CanReturn'
  BY <1>0, <1>1, <1>2 DEF TypeOK, CanReturn, page, hooks, history
<1>4. ~mounted
  <2>1. mounted => Current.file \in Files
    BY <1>0, HooksAre DEF Current, Upload
  <2> QED BY <1>0, <1>1, <2>1 DEF HookIsActive
<1>5. HookIsActive' /\ RenderHolds' /\ GoneIsCancelled'
  BY <1>0, <1>4 DEF HookIsActive, RenderHolds, GoneIsCancelled, Hooks, hooks
<1>6. InOrder' /\ HasACard'
  <2>1. Active = <<>> /\ Active' = <<Head(queue)>>
    BY <1>0, <1>1, <1>2 DEF Active
  <2> QED BY <1>0, <1>2, <2>1 DEF InOrder, HasACard, history
<1> QED BY <1>3, <1>5, <1>6 DEF QInv

LEMMA QMounts ==
  ASSUME QInv, EffectMounts
  PROVE  QInv'
<1> DEFINE u == [file |-> shown.active, pc |-> "hashing", cancelled |-> FALSE]
<1>0. /\ TypeOK /\ CanReturn /\ HookIsActive /\ RenderHolds /\ GoneIsCancelled /\ InOrder /\ HasACard
      /\ UNCHANGED <<page, zone, shown, cards, history>>
      /\ shown.active # NoFile /\ ~mounted
      /\ uploads' = Append(uploads, u) /\ mounted' = TRUE /\ due' = FALSE
      /\ shown.active \in Files \cup {NoFile} /\ active = shown.active
  BY FilesAre DEF QInv, EffectMounts, RenderHolds
<1>1. /\ u \in Upload /\ u.file = shown.active /\ u.pc = "hashing" /\ u.cancelled = FALSE
  BY <1>0 DEF Upload, Pc
<1> HIDE DEF u
<1>2. /\ uploads \in Seq(Upload) /\ Len(uploads) \in Nat /\ Hooks = 1..Len(uploads)
  BY <1>0, HooksAre
<1>3. /\ uploads' \in Seq(Upload) /\ Len(uploads') = Len(uploads) + 1
      /\ uploads'[Len(uploads')] = u
      /\ \A h \in Hooks : uploads'[h] = uploads[h]
  BY <1>0, <1>1, <1>2
<1>4. Hooks' = 1..Len(uploads')
  BY <1>3, LenProperties DEF Hooks
<1>5. TypeOK' /\ CanReturn'
  <2>1. uploads' # <<>>
    BY <1>2, <1>3
  <2> QED BY <1>0, <1>3, <2>1 DEF TypeOK, CanReturn, page, zone, history, Upload
<1>6. HookIsActive'
  BY <1>0, <1>1, <1>3 DEF HookIsActive, Current, zone
<1>7. RenderHolds'
  BY <1>0 DEF RenderHolds
<1>8. GoneIsCancelled'
  BY <1>0, <1>2, <1>3, <1>4 DEF GoneIsCancelled
<1>9. InOrder' /\ HasACard'
  BY <1>0 DEF InOrder, HasACard, Active, zone, history
<1> QED BY <1>5, <1>6, <1>7, <1>8, <1>9 DEF QInv

\* A hook's promise settles or its request ends.
LEMMA QHook ==
  ASSUME QInv, NEW h \in Hooks, Hashed(h) \/ AnswerOk(h) \/ AnswerError(h)
  PROVE  QInv'
<1>0. /\ TypeOK /\ CanReturn /\ HookIsActive /\ RenderHolds /\ GoneIsCancelled /\ InOrder /\ HasACard
      /\ UNCHANGED <<page, zone, react, mounted, cards, history>>
      /\ uploads[h].pc \in {"hashing", "sending"}
  BY DEF QInv, Hashed, AnswerOk, AnswerError, Answer
<1>1. PICK p \in {"ended", "sending", "stuck", "done", "error"} :
        MoveTo(h, p) /\ (uploads[h].cancelled /\ uploads[h].pc # "sending" => p = "ended")
  BY DEF Hashed, AnswerOk, AnswerError, Answer
<1>2. /\ uploads' \in Seq(Upload) /\ Len(uploads') = Len(uploads) /\ Hooks' = Hooks
      /\ \A i \in Hooks : /\ uploads'[i].file = uploads[i].file
                          /\ uploads'[i].cancelled = uploads[i].cancelled
                          /\ uploads'[i].pc = IF i = h THEN p ELSE uploads[i].pc
  BY <1>0, <1>1, MoveToIs DEF Pc
<1>3. Len(uploads) \in Nat /\ Hooks = 1..Len(uploads) /\ (mounted => Len(uploads) \in Hooks)
  BY <1>0, HooksAre
<1>4. TypeOK' /\ CanReturn'
  <2>1. mounted' => uploads' # <<>>
    BY <1>0, <1>2, <1>3
  <2> QED BY <1>0, <1>2, <2>1 DEF TypeOK, CanReturn, page, zone, react, history, Upload
<1>5. HookIsActive'
  BY <1>0, <1>1, <1>2, <1>3 DEF HookIsActive, Current, zone, react
<1>6. RenderHolds'
  BY <1>0 DEF RenderHolds, zone, react
<1>7. GoneIsCancelled'
  <2> SUFFICES ASSUME NEW i \in Hooks, i < Len(uploads) \/ ~mounted
               PROVE  uploads'[i].cancelled /\ uploads'[i].pc # "sending"
    BY <1>0, <1>2 DEF GoneIsCancelled
  <2>1. uploads[i].cancelled /\ uploads[i].pc # "sending"
    BY <1>0 DEF GoneIsCancelled
  <2> QED BY <1>1, <1>2, <2>1
<1>8. InOrder' /\ HasACard'
  BY <1>0 DEF InOrder, HasACard, Active, zone, history
<1> QED BY <1>4, <1>5, <1>6, <1>7, <1>8 DEF QInv

LEMMA QReport ==
  ASSUME QInv, Report
  PROVE  QInv'
<1> DEFINE n == Len(uploads)
           f == uploads[n].file
<1>0. /\ TypeOK /\ CanReturn /\ HookIsActive /\ RenderHolds /\ GoneIsCancelled /\ InOrder /\ HasACard
      /\ UNCHANGED <<page, queue, react, mounted, dropped>>
      /\ mounted /\ uploads[n].pc = "done"
      /\ cards' = cards \cup {f} /\ active' = NoFile
      /\ reported' = Append(reported, f) /\ ended' = ended \ {f}
      /\ MoveTo(n, "reported")
  BY DEF QInv, Report, Free
<1>1. /\ n \in Hooks /\ Hooks = 1..n /\ n \in Nat /\ f \in Files
  BY <1>0, HooksAre DEF Upload
<1>2. /\ uploads' \in Seq(Upload) /\ Len(uploads') = n /\ Hooks' = Hooks
      /\ \A i \in Hooks : /\ uploads'[i].file = uploads[i].file
                          /\ uploads'[i].cancelled = uploads[i].cancelled
                          /\ uploads'[i].pc = IF i = n THEN "reported" ELSE uploads[i].pc
  BY <1>0, <1>1, MoveToIs DEF Pc
<1>3. /\ reported \in Seq(Files) /\ queue \in Seq(Files) /\ NoFile \notin Files
      /\ shown.active = f /\ active = f /\ ~uploads[n].cancelled
  BY <1>0, FilesAre DEF HookIsActive, Current
<1>4. TypeOK' /\ CanReturn'
  <2>1. reported' \in Seq(Files)
    BY <1>0, <1>1, <1>3
  <2>2. uploads' # <<>>
    BY <1>1, <1>2
  <2> QED BY <1>0, <1>1, <1>2, <2>1, <2>2 DEF TypeOK, CanReturn, page, react, Upload
<1>5. HookIsActive'
  BY <1>0, <1>1, <1>2, <1>3 DEF HookIsActive, Current, react
<1>6. RenderHolds'
  BY <1>0, <1>1, <1>3 DEF RenderHolds, react
<1>7. GoneIsCancelled'
  BY <1>0, <1>1, <1>2 DEF GoneIsCancelled
<1>8. InOrder'
  <2>1. Active = <<f>> /\ Active' = <<>>
    BY <1>0, <1>1, <1>3 DEF Active
  <2>2. reported' = reported \o <<f>> /\ reported' \in Seq(Files)
    BY <1>0, <1>1, <1>3
  <2>3. reported' \o <<>> = reported'
    BY <2>2, ConcatEmptySeq
  <2> QED BY <1>0, <2>1, <2>2, <2>3 DEF InOrder
<1>9. HasACard'
  <2> SUFFICES ASSUME NEW i \in DOMAIN reported' PROVE reported'[i] \in cards' \cup ended'
    BY DEF HasACard
  <2>1. reported'[i] = f \/ (i \in DOMAIN reported /\ reported'[i] = reported[i])
    BY <1>0, <1>1, <1>3
  <2> QED BY <1>0, <2>1 DEF HasACard
<1> QED BY <1>4, <1>5, <1>6, <1>7, <1>8, <1>9 DEF QInv

LEMMA QLeave ==
  ASSUME QInv, Leave
  PROVE  QInv'
<1>0. /\ TypeOK /\ GoneIsCancelled /\ visit' = visit /\ open' = FALSE
      /\ queue' = <<>> /\ active' = NoFile /\ shown' = Empty /\ due' = FALSE
      /\ cards' = {} /\ dropped' = <<>> /\ reported' = <<>> /\ ended' = {}
      /\ uploads' \in Seq(Upload) /\ mounted' = FALSE /\ GoneIsCancelled'
  BY UnmountIs DEF QInv, Leave
<1>1. shown'.queue = <<>> /\ shown'.active = NoFile
  BY <1>0 DEF Empty
<1>2. TypeOK' /\ CanReturn'
  <2>1. shown' \in [queue : Seq(Files), active : Files \cup {NoFile}]
    BY <1>0 DEF Empty
  <2>2. visit < MaxVisits
    BY DEF Leave
  <2>3. <<>> \in Seq(Files) /\ visit' \in 1..MaxVisits
    BY <1>0, EmptySeq DEF TypeOK
  <2>4. open' \in BOOLEAN /\ due' \in BOOLEAN /\ mounted' \in BOOLEAN /\ ~mounted'
    BY <1>0
  <2>5. CanReturn'
    BY <1>0, <2>2 DEF CanReturn
  <2>6. uploads' \in Seq([file : Files, pc : Pc, cancelled : BOOLEAN])
    BY <1>0 DEF Upload
  <2> QED BY <1>0, <2>1, <2>3, <2>4, <2>5, <2>6 DEF TypeOK
<1>3. HookIsActive' /\ RenderHolds'
  BY <1>0, <1>1 DEF HookIsActive, RenderHolds
<1>4. InOrder' /\ HasACard'
  BY <1>0 DEF InOrder, HasACard, Active
<1> QED BY <1>0, <1>2, <1>3, <1>4 DEF QInv

(***************************************************************************)
(* QInv is inductive.                                                      *)
(***************************************************************************)
LEMMA QInvStep ==
  QInv /\ [Next]_vars => QInv'
<1> SUFFICES ASSUME QInv, [Next]_vars PROVE QInv'
  OBVIOUS
<1>0. TypeOK /\ CanReturn /\ HookIsActive /\ RenderHolds /\ GoneIsCancelled /\ InOrder /\ HasACard
  BY DEF QInv
<1>1. ASSUME NEW f \in Files, Drop(<<f>>) PROVE QInv'
  <2>1. <<f>> \in Seq(Files) /\ <<f>> # <<>>
    OBVIOUS
  <2> QED BY <1>1, <2>1, QDrop
<1>2. ASSUME NEW f \in Files, NEW g \in Files, Drop(<<f, g>>) PROVE QInv'
  <2>1. <<f, g>> \in Seq(Files) /\ <<f, g>> # <<>>
    OBVIOUS
  <2> QED BY <1>2, <2>1, QDrop
<1>3. CASE Effect
  <2>1. CASE EffectIdle
    <3>1. UNCHANGED <<page, zone, shown, hooks, cards, history>> /\ due' = FALSE
      BY <2>1 DEF EffectIdle
    <3>2. TypeOK' /\ CanReturn'
      BY <1>0, <3>1 DEF TypeOK, CanReturn, page, zone, hooks, history
    <3>3. HookIsActive' /\ RenderHolds' /\ GoneIsCancelled'
      BY <1>0, <3>1 DEF HookIsActive, RenderHolds, GoneIsCancelled, Current, Hooks, zone, hooks
    <3>4. InOrder' /\ HasACard'
      BY <1>0, <3>1 DEF InOrder, HasACard, Active, zone, history
    <3> QED BY <3>2, <3>3, <3>4 DEF QInv
  <2> QED BY <1>3, <2>1, QPops, QMounts DEF Effect
<1>4. ASSUME NEW f \in Files, CardLeaves(f) PROVE QInv'
  <2>1. /\ UNCHANGED <<page, zone, react, hooks, dropped, reported>>
        /\ cards' = cards \ {f} /\ ended' = ended \cup {f}
    BY <1>4 DEF CardLeaves
  <2>2. TypeOK' /\ CanReturn'
    BY <1>0, <2>1 DEF TypeOK, CanReturn, page, zone, react, hooks
  <2>3. InOrder'
    BY <1>0, <2>1 DEF InOrder, Active, zone
  <2>4. HasACard'
    BY <1>0, <2>1 DEF HasACard
  <2> QED BY <1>0, <2>1, <2>2, <2>3, <2>4, HooksStay DEF QInv
<1>5. CASE Return
  <2>1. UNCHANGED <<zone, react, hooks, cards, history>> /\ open' = TRUE /\ visit' = visit + 1
    BY <1>5 DEF Return
  <2>2. TypeOK' /\ CanReturn'
    <3>1. visit' \in 1..MaxVisits
      BY <1>0, <2>1, <1>5, UploadQueueAssumption DEF Return, TypeOK, CanReturn
    <3> QED BY <1>0, <2>1, <3>1 DEF TypeOK, CanReturn, zone, react, hooks, history
  <2>3. InOrder' /\ HasACard'
    BY <1>0, <2>1 DEF InOrder, HasACard, Active, zone, history
  <2> QED BY <1>0, <2>1, <2>2, <2>3, HooksStay DEF QInv
<1>6. CASE UNCHANGED vars
  <2>1. UNCHANGED <<page, zone, react, hooks, cards, history>>
    BY <1>6 DEF vars
  <2>2. TypeOK' /\ CanReturn'
    BY <1>0, <2>1 DEF TypeOK, CanReturn, page, zone, react, hooks, history
  <2>3. InOrder' /\ HasACard'
    BY <1>0, <2>1 DEF InOrder, HasACard, Active, zone, history
  <2> QED BY <1>0, <2>1, <2>2, <2>3, HooksStay DEF QInv
<1> QED
  BY <1>1, <1>2, <1>3, <1>4, <1>5, <1>6, QCommit, QHook, QReport, QLeave DEF Next, Browser

(***************************************************************************)
(* The invariant holds for any files, drops and visits.                    *)
(***************************************************************************)
THEOREM UploadQueueInvCorrect ==
  Spec => []QInv
BY QInvInit, QInvStep, PTL DEF Spec

(***************************************************************************)
(* No file is lost, sent twice or overtaken, whatever is dropped between a *)
(* render and its effect.                                                  *)
(***************************************************************************)
THEOREM DropsAreAccountedForCorrect ==
  Spec => []DropsAreAccountedFor
<1>1. QInv => DropsAreAccountedFor
  BY DEF QInv, InOrder, HasACard, DropsAreAccountedFor
<1> QED BY <1>1, UploadQueueInvCorrect, PTL

(***************************************************************************)
(* One upload at a time: only the hook that is mounted can be sending.     *)
(***************************************************************************)
THEOREM OneUploadAtATimeCorrect ==
  Spec => []OneUploadAtATime
<1>1. QInv => OneUploadAtATime
  <2> SUFFICES ASSUME QInv PROVE OneUploadAtATime
    OBVIOUS
  <2> DEFINE busy == {h \in Hooks : uploads[h].pc = "sending"}
  <2>1. Len(uploads) \in Nat /\ Hooks = 1..Len(uploads)
    BY HooksAre DEF QInv
  <2>2. busy \in SUBSET {Len(uploads)}
    BY <2>1 DEF QInv, GoneIsCancelled
  <2>3. IsFiniteSet({Len(uploads)}) /\ Cardinality({Len(uploads)}) = 1
    BY FS_Singleton
  <2>4. Cardinality(busy) <= 1
    BY <2>2, <2>3, FS_Subset
  <2> QED BY <2>4 DEF OneUploadAtATime
<1> QED BY <1>1, UploadQueueInvCorrect, PTL

=============================================================================
