------------------------------- MODULE Progress -------------------------------
(***************************************************************************)
(* How the progress of one job reaches the cards that watch it: the        *)
(* events run_job publishes from the loop and, through the loop, from the  *)
(* transcription thread (app/jobs/orchestrator.py), the bus with its       *)
(* bounded queues (app/jobs/progress.py), the WebSocket handler with its   *)
(* registry (app/api/routes_ws.py) and the client's card                   *)
(* (web/src/api/ws.ts, web/src/components/ActiveJobCard.tsx).              *)
(*                                                                         *)
(* A percentage is the number of chunks done.  ETAs are left out.          *)
(***************************************************************************)
EXTENDS Naturals, Sequences, FiniteSets

CONSTANTS
  Watchers,    \* cards, each with the one connection it opens
  Cap,         \* ws_subscriber_cap
  QueueSize,   \* maxsize of a subscriber's queue
  Chunks       \* chunks of the job's audio

ASSUME ProgressAssumption ==
  /\ Cap \in Nat \ {0}
  /\ QueueSize \in Nat \ {0}
  /\ Chunks \in Nat \ {0}

VARIABLES
  run,         \* where run_job stands
  outcome,     \* what the transcription thread ended with
  row,         \* the job's status in its row
  chunk,       \* chunks the thread has done
  calls,       \* callbacks the thread has scheduled on the loop
  writing,     \* writes of progress.json under way, by the chunks they say
  progress,    \* the chunks progress.json says; 0 without the file
  registry,    \* SubscriberRegistry: connections that hold a slot
  queue,       \* the queue of each subscriber of the bus
  subs,        \* the bus: connections that have subscribed
  handler,     \* where each connection's handler stands, and its snapshot
  card         \* each card: its state, the end it was told, the chunks it shows

job  == <<run, outcome, row, chunk, calls, writing, progress>>
bus  == <<queue, subs>>
vars == <<job, registry, bus, handler, card>>

Terminal  == {"done", "failed", "cancelled"}
Event     == [type : {"stage_changed", "progress"} \cup Terminal, chunk : 0..Chunks]
RunPc     == {"queued", "loading", "transcribing", "ending", "committed", "over"}
HandlerPc == {"off", "row", "register", "files", "send", "relay", "end"}

\* The future's result, among the chunk numbers of calls.
Result == 0

TypeOK ==
  /\ run \in RunPc
  /\ outcome \in Terminal
  /\ row \in {"queued", "active"} \cup Terminal
  /\ chunk \in 0..Chunks
  /\ calls \in Seq(0..Chunks)
  /\ writing \subseteq 1..Chunks
  /\ progress \in 0..Chunks
  /\ registry \subseteq Watchers /\ subs \subseteq Watchers
  /\ queue \in [Watchers -> Seq(Event)]
  /\ \A w \in Watchers : Len(queue[w]) <= QueueSize
  /\ handler \in [Watchers -> [pc : HandlerPc, chunk : 0..Chunks]]
  /\ card \in [Watchers -> [state : {"none", "shown", "fading", "gone"},
                            told  : {"nothing", "error"} \cup Terminal,
                            chunk : 0..Chunks]]

Init ==
  /\ run = "queued" /\ outcome = "done" /\ row = "queued"
  /\ chunk = 0 /\ calls = <<>>
  /\ writing = {} /\ progress = 0
  /\ registry = {} /\ subs = {}
  /\ queue = [w \in Watchers |-> <<>>]
  /\ handler = [w \in Watchers |-> [pc |-> "off", chunk |-> 0]]
  /\ card = [w \in Watchers |-> [state |-> "none", told |-> "nothing", chunk |-> 0]]

-----------------------------------------------------------------------------
(* EventBus.                                                               *)

\* Mutant of Put: a full queue drops the event that comes.
PutOrDrop(q, e) == IF Len(q) < QueueSize THEN Append(q, e) ELSE q

\* Mutant of Put: a queue without maxsize.
PutUnbounded(q, e) == Append(q, e)

\* put_nowait; a full queue loses its oldest event first.
Put(q, e) == Append(IF Len(q) < QueueSize THEN q ELSE Tail(q), e)

Publish(type, n) ==
  /\ queue' = [w \in Watchers |->
                 IF w \in subs THEN Put(queue[w], [type |-> type, chunk |-> n])
                 ELSE queue[w]]
  /\ UNCHANGED subs

-----------------------------------------------------------------------------
(* run_job and the transcription thread.                                   *)

\* Claimed; stage_changed(preparing).
Start ==
  /\ run = "queued" /\ row = "queued"
  /\ run' = "loading" /\ row' = "active"
  /\ Publish("stage_changed", 0)
  /\ UNCHANGED <<outcome, chunk, calls, writing, progress, registry, handler, card>>

\* queue.cancel of a queued job: the row is final and nothing is published.
CancelQueued ==
  /\ run = "queued"
  /\ run' = "over" /\ row' = "cancelled"
  /\ UNCHANGED <<outcome, chunk, calls, writing, progress, registry, bus, handler, card>>

\* The adapter is there: stage_changed(transcribing), and the thread starts.
Loaded ==
  /\ run = "loading"
  /\ run' = "transcribing"
  /\ Publish("stage_changed", 0)
  /\ UNCHANGED <<outcome, row, chunk, calls, writing, progress, registry, handler, card>>

LoadFailed ==
  /\ run = "loading"
  /\ run' = "ending" /\ outcome' = "failed"
  /\ UNCHANGED <<row, chunk, calls, writing, progress, registry, bus, handler, card>>

ThreadRuns == run = "transcribing" /\ Result \notin {calls[i] : i \in DOMAIN calls}

\* In the thread: a chunk is done, call_soon_threadsafe.
ChunkDone ==
  /\ ThreadRuns /\ chunk < Chunks
  /\ chunk' = chunk + 1
  /\ calls' = Append(calls, chunk + 1)
  /\ UNCHANGED <<run, outcome, row, writing, progress, registry, bus, handler, card>>

\* The thread returns the transcript after the last chunk, sees the cancel flag
\* at the top of a chunk, or raises; the future's callback takes its turn.
ThreadEnds(result) ==
  /\ ThreadRuns
  /\ result = "done" => chunk = Chunks
  /\ result = "cancelled" => chunk < Chunks
  /\ outcome' = result
  /\ calls' = Append(calls, Result)
  /\ UNCHANGED <<run, row, chunk, writing, progress, registry, bus, handler, card>>

(***************************************************************************)
(* _publish and _schedule_persist on the loop, in the order of the calls.  *)
(* The first write of progress.json is let through, a later one only if a  *)
(* second has passed; writes may overlap.                                  *)
(***************************************************************************)
OnProgress ==
  LET n == Head(calls) IN
  /\ calls # <<>> /\ n # Result
  /\ calls' = Tail(calls)
  /\ Publish("progress", n)
  /\ \/ writing' = writing \cup {n}
     \/ n > 1 /\ UNCHANGED writing
  /\ UNCHANGED <<run, outcome, row, chunk, progress, registry, handler, card>>

\* atomic_write_json replaces the file, or fails and is logged.
Persist(n) ==
  /\ n \in writing
  /\ writing' = writing \ {n}
  /\ progress' \in {n, progress}
  /\ UNCHANGED <<run, outcome, row, chunk, calls, registry, bus, handler, card>>

\* run_job goes on: a transcript may still fail to be written.
TakeResult ==
  /\ calls # <<>> /\ Head(calls) = Result
  /\ calls' = Tail(calls)
  /\ run' = "ending"
  /\ outcome' \in IF outcome = "done" THEN {"done", "failed"} ELSE {outcome}
  /\ UNCHANGED <<row, chunk, writing, progress, registry, bus, handler, card>>

\* Mutant of Commit: the session is closed without a commit.
CommitNothing ==
  /\ run = "ending"
  /\ run' = "committed"
  /\ UNCHANGED <<outcome, row, chunk, calls, writing, progress, registry, bus, handler, card>>

\* update_stage("done"), cancel_job or mark_failed.
Commit ==
  /\ run = "ending"
  /\ row' = outcome
  /\ run' = "committed"
  /\ UNCHANGED <<outcome, chunk, calls, writing, progress, registry, bus, handler, card>>

PublishEnd ==
  /\ run = "committed"
  /\ run' = "over"
  /\ Publish(outcome, 0)
  /\ UNCHANGED <<outcome, row, chunk, calls, writing, progress, registry, handler, card>>

JobStep ==
  \/ Start \/ Loaded \/ LoadFailed \/ ChunkDone
  \/ \E result \in Terminal : ThreadEnds(result)
  \/ OnProgress \/ TakeResult \/ Commit \/ PublishEnd

-----------------------------------------------------------------------------
(* The WebSocket handler job_events.                                       *)

At(w, pc)   == handler[w].pc = pc
GoTo(w, pc) == handler' = [handler EXCEPT ![w].pc = pc]
IsHere(w)   == card[w].state \in {"shown", "fading"}

\* useJobEvents opens the socket, the handler accepts.
Connect(w) ==
  /\ At(w, "off")
  /\ card' = [card EXCEPT ![w].state = "shown"]
  /\ GoTo(w, "row")
  /\ UNCHANGED <<job, registry, bus>>

\* get_job: the status of the snapshot, on which the card does not act.
ReadRow(w) ==
  /\ At(w, "row")
  /\ GoTo(w, "register")
  /\ UNCHANGED <<job, registry, bus, card>>

\* The card on a terminal event or an error: it starts to fade.
Tell(w, what) ==
  card' = [card EXCEPT ![w] = IF @.state = "shown"
                              THEN [@ EXCEPT !.state = "fading", !.told = what] ELSE @]

\* Mutant of Register: one subscriber more.
RegisterOneMore(w) ==
  /\ At(w, "register")
  /\ IF Cardinality(registry) <= Cap
     THEN registry' = registry \cup {w} /\ GoTo(w, "files") /\ UNCHANGED card
     ELSE GoTo(w, "end") /\ Tell(w, "error") /\ UNCHANGED registry
  /\ UNCHANGED <<job, bus>>

\* Mutant of Register: the subscription comes before the snapshot.
RegisterSubscribed(w) ==
  /\ At(w, "register")
  /\ IF Cardinality(registry) < Cap
     THEN /\ registry' = registry \cup {w} /\ subs' = subs \cup {w}
          /\ GoTo(w, "files") /\ UNCHANGED card
     ELSE GoTo(w, "end") /\ Tell(w, "error") /\ UNCHANGED <<registry, subs>>
  /\ UNCHANGED <<job, queue>>

\* registry.add; a connection beyond the cap gets an error and is closed.
Register(w) ==
  /\ At(w, "register")
  /\ IF Cardinality(registry) < Cap
     THEN registry' = registry \cup {w} /\ GoTo(w, "files") /\ UNCHANGED card
     ELSE GoTo(w, "end") /\ Tell(w, "error") /\ UNCHANGED registry
  /\ UNCHANGED <<job, bus>>

\* read_manifest and _read_progress_snapshot.
ReadFiles(w) ==
  /\ At(w, "files")
  /\ handler' = [handler EXCEPT ![w] = [pc |-> "send", chunk |-> progress]]
  /\ UNCHANGED <<job, registry, bus, card>>

(***************************************************************************)
(* send_json(snapshot), then bus.subscribe.  The card shows the snapshot   *)
(* and does not fade, whatever its status.  A send to a client that is     *)
(* gone raises, and nothing has been set up yet to give the slot back.     *)
(***************************************************************************)
SendSnapshot(w) ==
  /\ At(w, "send")
  /\ IF IsHere(w)
     THEN /\ card' = [card EXCEPT ![w].chunk = handler[w].chunk]
          /\ subs' = subs \cup {w}
          /\ GoTo(w, "relay")
     ELSE GoTo(w, "end") /\ UNCHANGED <<card, subs>>
  /\ UNCHANGED <<job, registry, queue>>

\* What the card does with an event.
Receive(w, e) ==
  IF e.type \in Terminal THEN Tell(w, e.type)
  ELSE card' = [card EXCEPT ![w].chunk = IF e.type = "progress" THEN e.chunk ELSE @]

\* queue.get and send_json; a send that fails ends the handler, and only then
\* are the slot and the queue given back.
Relay(w) ==
  /\ At(w, "relay") /\ queue[w] # <<>>
  /\ IF IsHere(w)
     THEN /\ Receive(w, Head(queue[w]))
          /\ queue' = [queue EXCEPT ![w] = Tail(@)]
          /\ UNCHANGED <<registry, subs, handler>>
     ELSE /\ registry' = registry \ {w}
          /\ subs' = subs \ {w}
          /\ queue' = [queue EXCEPT ![w] = <<>>]
          /\ GoTo(w, "end")
          /\ UNCHANGED card
  /\ UNCHANGED job

HandlerStep(w) ==
  ReadRow(w) \/ Register(w) \/ ReadFiles(w) \/ SendSnapshot(w) \/ Relay(w)

\* 250 ms after the fade began the parent unmounts the card: ws.close().
Unmount(w) ==
  /\ card[w].state = "fading"
  /\ card' = [card EXCEPT ![w].state = "gone"]
  /\ UNCHANGED <<job, registry, bus, handler>>

\* The user leaves the page.
Leave(w) ==
  /\ card[w].state = "shown"
  /\ card' = [card EXCEPT ![w].state = "gone"]
  /\ UNCHANGED <<job, registry, bus, handler>>

-----------------------------------------------------------------------------

Next ==
  \/ JobStep \/ CancelQueued \/ \E n \in 1..Chunks : Persist(n)
  \/ \E w \in Watchers : Connect(w) \/ HandlerStep(w) \/ Unmount(w) \/ Leave(w)

Spec == Init /\ [][Next]_vars

(***************************************************************************)
(* The loop runs its callbacks, run_job and the handlers; the thread's     *)
(* calls return; the browser runs its timers.  Users and writes to disk    *)
(* are free.                                                               *)
(***************************************************************************)
FairSpec ==
  /\ Spec
  /\ WF_vars(JobStep)
  /\ \A w \in Watchers : WF_vars(HandlerStep(w)) /\ WF_vars(Unmount(w))

-----------------------------------------------------------------------------
(* What the stream promises.                                               *)

(***************************************************************************)
(* The cap (T-04-02): no more connections than the cap hold a slot, and    *)
(* whoever is served or subscribed holds one.                              *)
(***************************************************************************)
CapHolds ==
  /\ Cardinality(registry) <= Cap
  /\ subs \subseteq registry
  /\ \A w \in Watchers : handler[w].pc \in {"files", "send", "relay"} => w \in registry

(***************************************************************************)
(* A bar never goes back: neither a snapshot from a throttled, overlapping *)
(* write nor a queue that dropped events shows a card fewer chunks than it *)
(* showed before (Fix 9, T-04-thread: calls are marshalled in order, and   *)
(* the subscription comes after the snapshot).                             *)
(***************************************************************************)
BarNeverGoesBack ==
  [][\A w \in Watchers : card'[w].chunk >= card[w].chunk]_vars

(***************************************************************************)
(* A card that fades has something to show in the history it refetches:    *)
(* the end it was told is the status in the row (D-03).                    *)
(***************************************************************************)
ToldIsSettled ==
  \A w \in Watchers : card[w].told \in Terminal => row = card[w].told

(***************************************************************************)
(* Drop-oldest backpressure never costs the end: a card whose handler is   *)
(* subscribed while the job is at work leaves, however slow it reads       *)
(* (Pitfall 2).                                                            *)
(***************************************************************************)
SubscribedLearnsEnd ==
  \A w \in Watchers :
    (w \in subs /\ run \notin {"queued", "over"}) ~> card[w].state # "shown"

=============================================================================
