------------------------------ MODULE UploadQueue ------------------------------
(***************************************************************************)
(* The upload queue of the history page (web/src/components/DropZone.tsx,  *)
(* hooks/useUpload.ts, pages/HistoryPage.tsx): files are dropped at any    *)
(* time, one at a time is hashed and sent, and what the server answers     *)
(* becomes a card.                                                         *)
(*                                                                         *)
(* A React effect sees the state as it was rendered, not as it is: between *)
(* a commit and its effects other handlers may run.  The server and        *)
(* crypto.subtle are outside; a file's idempotency key depends on the file *)
(* alone, so the job of a file has the file's name here.                   *)
(***************************************************************************)
EXTENDS Naturals, Sequences, FiniteSets

CONSTANTS
  Files, NoFile,
  MaxDrops,   \* bound: files dropped in one visit of the page
  MaxVisits   \* bound: how often the page is opened

ASSUME UploadQueueAssumption ==
  NoFile \notin Files /\ MaxDrops \in Nat /\ MaxVisits \in Nat \ {0}

VARIABLES
  visit, open,    \* which visit this is, and whether the page is mounted
  queue, active,  \* DropZone's state, with every update that was enqueued
  shown, due,     \* the state last committed; whether its effects are to run
  uploads,        \* the hooks that were mounted, the last one is the current
  mounted,        \* whether there is a current one
  cards,          \* HistoryPage's activeJobIds
  dropped, reported, ended  \* history of the visit: files dropped, files
                            \* whose job was reported, jobs whose card left

page    == <<visit, open>>
zone    == <<queue, active>>
react   == <<shown, due>>
hooks   == <<uploads, mounted>>
history == <<dropped, reported, ended>>
vars    == <<page, zone, react, hooks, cards, history>>

Empty == [queue |-> <<>>, active |-> NoFile]

\* A hook: where its upload stands, and its flag "cancelled".
Pc == {"hashing", "sending", "stuck", "done", "error", "reported", "ended"}

TypeOK ==
  /\ visit \in 1..MaxVisits /\ open \in BOOLEAN
  /\ queue \in Seq(Files) /\ active \in Files \cup {NoFile}
  /\ shown \in [queue : Seq(Files), active : Files \cup {NoFile}] /\ due \in BOOLEAN
  /\ uploads \in Seq([file : Files, pc : Pc, cancelled : BOOLEAN])
  /\ mounted \in BOOLEAN /\ (mounted => uploads # <<>>)
  /\ cards \subseteq Files /\ ended \subseteq Files
  /\ dropped \in Seq(Files) /\ reported \in Seq(Files)

Init ==
  /\ visit = 1 /\ open = TRUE
  /\ queue = <<>> /\ active = NoFile
  /\ shown = Empty /\ due = FALSE
  /\ uploads = <<>> /\ mounted = FALSE
  /\ cards = {}
  /\ dropped = <<>> /\ reported = <<>> /\ ended = {}

-----------------------------------------------------------------------------
(* DropZone.                                                               *)

\* handleFiles: one file, or two in one gesture.
Drop(fs) ==
  /\ open /\ Len(dropped) + Len(fs) <= MaxDrops
  /\ queue' = queue \o fs
  /\ dropped' = dropped \o fs
  /\ UNCHANGED <<page, active, react, hooks, cards, reported, ended>>

\* useUpload's cleanup: the flag, and abort, which ends a request under way.
Cancelled(u) == [u EXCEPT !.cancelled = TRUE,
                          !.pc = IF @ = "sending" THEN "ended" ELSE @]

\* The current hook is unmounted.
Unmount ==
  /\ mounted' = FALSE
  /\ uploads' = IF mounted
                THEN [uploads EXCEPT ![Len(uploads)] = Cancelled(@)] ELSE uploads

\* React renders and commits; without an active file there is no controller.
Commit ==
  /\ open /\ ~due /\ shown # [queue |-> queue, active |-> active]
  /\ shown' = [queue |-> queue, active |-> active]
  /\ due' = TRUE
  /\ IF active = NoFile THEN Unmount ELSE UNCHANGED hooks
  /\ UNCHANGED <<page, zone, cards, history>>

\* Mutant of Pop: setQueue(queue.slice(1)), from the rendered queue.
PopRendered == queue' = Tail(shown.queue) /\ active' = Head(shown.queue)

\* The effect takes the first file of the rendered queue off the queue.
Pop == queue' = Tail(queue) /\ active' = Head(shown.queue)

EffectPops ==
  /\ due /\ shown.active = NoFile /\ shown.queue # <<>>
  /\ Pop
  /\ due' = FALSE
  /\ UNCHANGED <<page, shown, hooks, cards, history>>

\* useUpload: the request is opened and the key is being hashed.
EffectMounts ==
  /\ due /\ shown.active # NoFile /\ ~mounted
  /\ uploads' = Append(uploads, [file |-> shown.active, pc |-> "hashing",
                                 cancelled |-> FALSE])
  /\ mounted' = TRUE
  /\ due' = FALSE
  /\ UNCHANGED <<page, zone, shown, cards, history>>

EffectIdle ==
  /\ due
  /\ IF shown.active = NoFile THEN shown.queue = <<>> ELSE mounted
  /\ due' = FALSE
  /\ UNCHANGED <<page, zone, shown, hooks, cards, history>>

Effect == EffectPops \/ EffectMounts \/ EffectIdle

-----------------------------------------------------------------------------
(* useUpload.                                                              *)

MoveTo(h, pc) == uploads' = [uploads EXCEPT ![h].pc = pc]

\* Mutant of Hashed: the promise does not look at the flag.  A request that
\* was aborted before it was sent can still be sent.
HashedSends(h) ==
  /\ uploads[h].pc = "hashing"
  /\ MoveTo(h, "sending")
  /\ UNCHANGED <<page, zone, react, mounted, cards, history>>

(***************************************************************************)
(* idempotencyKey(...).then: send, unless the hook is gone.  Nothing       *)
(* catches a rejected promise, or setRequestHeader on a file name that is  *)
(* not ISO-8859-1: then nothing is sent, and the upload stays "uploading"  *)
(* without an error.                                                       *)
(***************************************************************************)
Hashed(h) ==
  /\ uploads[h].pc = "hashing"
  /\ IF uploads[h].cancelled THEN MoveTo(h, "ended")
     ELSE MoveTo(h, "sending") \/ MoveTo(h, "stuck")
  /\ UNCHANGED <<page, zone, react, mounted, cards, history>>

\* xhr.onload with 201 or 200, or an error of any kind.
Answer(h, pc) ==
  /\ uploads[h].pc = "sending"
  /\ MoveTo(h, pc)
  /\ UNCHANGED <<page, zone, react, mounted, cards, history>>

AnswerOk(h)    == Answer(h, "done")
AnswerError(h) == Answer(h, "error")

\* Mutant of Free: the slot is not freed for a job that has a card already.
FreeIfNew(f) == active' = IF f \in cards THEN active ELSE NoFile

\* handleDone: only a finished upload frees the slot.
Free(f) == active' = NoFile

\* The controller's effect: handleDone, and handleJobCreated before it.
Report ==
  /\ mounted /\ uploads[Len(uploads)].pc = "done"
  /\ LET f == uploads[Len(uploads)].file
     IN  /\ cards' = cards \cup {f}
         /\ Free(f)
         /\ reported' = Append(reported, f)
         /\ ended' = ended \ {f}
  /\ MoveTo(Len(uploads), "reported")
  /\ UNCHANGED <<page, queue, react, mounted, dropped>>

-----------------------------------------------------------------------------
(* HistoryPage.                                                            *)

\* handleTerminal: the card saw the end of its job.
CardLeaves(f) ==
  /\ f \in cards
  /\ cards' = cards \ {f}
  /\ ended' = ended \cup {f}
  /\ UNCHANGED <<page, zone, react, hooks, dropped, reported>>

\* The user goes to another page: the state of this one is gone.
Leave ==
  /\ open /\ visit < MaxVisits
  /\ open' = FALSE
  /\ queue' = <<>> /\ active' = NoFile /\ shown' = Empty /\ due' = FALSE
  /\ Unmount
  /\ cards' = {}
  /\ dropped' = <<>> /\ reported' = <<>> /\ ended' = {}
  /\ UNCHANGED visit

Return ==
  /\ ~open
  /\ open' = TRUE /\ visit' = visit + 1
  /\ UNCHANGED <<zone, react, hooks, cards, history>>

Hooks == DOMAIN uploads

Browser == Commit \/ Effect \/ Report \/ (\E h \in Hooks : Hashed(h))

Next ==
  \/ \E f \in Files : Drop(<<f>>) \/ CardLeaves(f)
  \/ \E f, g \in Files : Drop(<<f, g>>)
  \/ Browser
  \/ \E h \in Hooks : AnswerOk(h) \/ AnswerError(h)
  \/ Leave \/ Return

Spec == Init /\ [][Next]_vars

\* The browser renders, runs effects and settles promises, and a request
\* ends in some way.
FairSpec ==
  /\ Spec
  /\ WF_vars(Commit) /\ WF_vars(Effect) /\ WF_vars(Report)
  /\ WF_vars(\E h \in Hooks : Hashed(h))
  /\ WF_vars(\E h \in Hooks : AnswerOk(h) \/ AnswerError(h))

-----------------------------------------------------------------------------
Active == IF active = NoFile THEN <<>> ELSE <<active>>

\* No file is lost, sent twice or overtaken, whatever is dropped between a
\* render and its effect: what was dropped is what was reported, then the
\* file at work, then the queue, and a reported file has its card until the
\* card saw the end (components/DropZone.tsx, "Multi-file drops queue FIFO").
DropsAreAccountedFor ==
  /\ TypeOK
  /\ dropped = reported \o Active \o queue
  /\ \A i \in DOMAIN reported : reported[i] \in cards \cup ended

\* "one file uploads at a time" (components/DropZone.tsx), also when the page
\* was left while a key was being hashed and is open again.
OneUploadAtATime ==
  Cardinality({h \in Hooks : uploads[h].pc = "sending"}) <= 1

\* A dropped file gets its card, unless an upload of this visit fails or
\* cannot be sent, after which nothing is sent, or the page is left.
EveryDropIsReported ==
  \A v \in 1..MaxVisits, n \in 1..MaxDrops :
    (visit = v /\ Len(dropped) >= n) ~>
      \/ Len(reported) >= n
      \/ mounted /\ uploads[Len(uploads)].pc \in {"error", "stuck"}
      \/ visit # v \/ ~open

=============================================================================
