------------------------------- MODULE Settings -------------------------------
(***************************************************************************)
(* The settings (app/settings/service.py): the file with its pending key,  *)
(* the copies in memory, PATCH /settings and the burn test, which write    *)
(* the file across awaits; and the boot (app/main.py), which loads them,   *)
(* installs a queued move of the data directory and migrates the database  *)
(* there before it serves.                                                 *)
(***************************************************************************)
EXTENDS Migrations

CONSTANTS
  DefaultDir,   \* the directory of settings.json
  Usable,       \* directories that can be made and hold a database
  Fields,       \* the settings that are changed without a restart
  Nullable,     \* those of them for which null is a value
  Values, Null, \* their values; Default gives the first ones
  Default,
  Backends,
  NoDir,
  Unset,        \* a field that a PATCH does not send
  Requests,     \* bound: requests to PATCH /settings and POST /gpu-burn
  Patches,      \* bound: what users send
  MaxCrashes    \* bound: how often the process ends

Settings == [data_dir : Dirs, backend : Backends, hot : [Fields -> Values \cup {Null}]]
None     == [data_dir |-> NoDir]
Patch    == [data_dir : Dirs \cup {Unset}, hot : [Fields -> Values \cup {Null, Unset}]]

ASSUME SettingsAssumption ==
  /\ DefaultDir \in Usable /\ Usable \subseteq Dirs /\ NoDir \notin Dirs
  /\ Nullable \subseteq Fields
  /\ Default \in [Fields -> Values \cup {Null}]
  /\ \A f \in Fields \ Nullable : Default[f] # Null
  /\ Unset \notin Dirs /\ Unset \notin Values \cup {Null}
  /\ Null \notin Values
  /\ Patches \subseteq Patch /\ MaxCrashes \in Nat

VARIABLES
  file,      \* settings.json: the active settings and the pending key
  settings,  \* _State.settings
  pending,   \* _State.pending
  phase,     \* the lifespan
  engine,    \* the directory whose database the engine is built on
  op,        \* the requests, with what each has read and is about to write
  crashes,
  told,      \* history: the value of each field that clients were told last
  queued,    \* history: the move of the data directory they were told last
  past       \* history: what happened that the code is not proof against

memory  == <<settings, pending>>
history == <<told, queued, past>>
vars    == <<file, memory, phase, engine, op, crashes, history, dbVars>>

Phases == {"down", "detecting", "loaded", "migrating", "serving"}
Hazards == {"overlap", "burn after move", "change after move", "null"}

NoFile == [active |-> None, pending |-> None]
NoOp   == [pc |-> "new", kind |-> "none", new |-> None, disk |-> NoFile,
           sent |-> None, stale |-> FALSE]

Maybe == Settings \cup {None}
File  == [active : Maybe, pending : Maybe]
Op    == [pc : {"new", "burning", "writing", "done"},
          kind : {"none", "hot", "move", "burn"},
          new : Maybe, disk : File, sent : Patches \cup {None}, stale : BOOLEAN]

TypeOK ==
  /\ MigrationsTypeOK
  /\ file \in File
  /\ settings \in Maybe /\ pending \in Maybe
  /\ phase \in Phases /\ engine \in Dirs \cup {NoDir}
  /\ op \in [Requests -> Op]
  /\ crashes \in Nat
  /\ told \in [Fields -> Values \cup {Null}]
  /\ queued \in Patches \cup {None}
  /\ past \subseteq Hazards

\* The file of a release without a backend does not validate, as if missing.
Init ==
  /\ MigrationsInit /\ \A d \in Dirs \ {DefaultDir} : db[d] = Empty
  /\ file = NoFile /\ settings = None /\ pending = None
  /\ phase = "down" /\ engine = NoDir
  /\ op = [r \in Requests |-> NoOp]
  /\ crashes = 0
  /\ told = Default /\ queued = None /\ past = {}
-----------------------------------------------------------------------------
(* PATCH /settings and POST /diagnostics/gpu-burn.                         *)

Serving == phase = "serving"

\* Settings.model_validate; a PATCH is not validated against it.
Valid(s) == \A f \in Fields \ Nullable : s.hot[f] # Null

\* Mutant of Update: model_dump without exclude_unset.
UpdateUnset(s, p) == [s EXCEPT !.data_dir = p.data_dir, !.hot = p.hot]

\* existing.model_copy(update=...), with the fields that were sent.
Update(s, p) ==
  [s EXCEPT !.data_dir = IF p.data_dir = Unset THEN @ ELSE p.data_dir,
            !.hot = [f \in Fields |-> IF p.hot[f] = Unset THEN @[f] ELSE p.hot[f]]]

IsMove(p) == p.data_dir # Unset /\ p.data_dir # settings.data_dir

\* Mutant of DiskOf: a change made at once drops the pending key.
DiskOfActive(kind, new) ==
  CASE kind = "move" -> [active |-> settings, pending |-> new]
    [] OTHER         -> [active |-> new, pending |-> None]

\* What is written: a move goes under the pending key, any other PATCH keeps
\* the key that is there, the burn test does not.
DiskOf(kind, new) ==
  CASE kind = "move" -> [active |-> settings, pending |-> new]
    [] kind = "hot"  -> [active |-> new, pending |-> pending]
    [] kind = "burn" -> [active |-> new, pending |-> None]

StartWrite(r, kind, new, sent) ==
  op' = [op EXCEPT ![r] = [pc |-> "writing", kind |-> kind, new |-> new,
                           disk |-> DiskOf(kind, new), sent |-> sent, stale |-> FALSE]]

PatchBegin(r, p) ==
  /\ Serving /\ op[r].pc = "new"
  /\ StartWrite(r, IF IsMove(p) THEN "move" ELSE "hot", Update(settings, p), p)
  /\ UNCHANGED <<file, memory, phase, engine, crashes, history, dbVars>>

BurnBegin(r) ==
  /\ Serving /\ op[r].pc = "new"
  /\ op' = [op EXCEPT ![r].pc = "burning"]
  /\ UNCHANGED <<file, memory, phase, engine, crashes, history, dbVars>>

BurnRead(r, b) ==
  /\ Serving /\ op[r].pc = "burning"
  /\ StartWrite(r, "burn", [settings EXCEPT !.backend = b], None)
  /\ UNCHANGED <<file, memory, phase, engine, crashes, history, dbVars>>

\* Whoever reads before and writes after another's write has a stale copy.
Finish(r) ==
  op' = [s \in Requests |->
           IF s = r THEN [op[r] EXCEPT !.pc = "done"]
           ELSE IF op[s].pc = "writing" THEN [op[s] EXCEPT !.stale = TRUE] ELSE op[s]]

Hot(told0, p) == [f \in Fields |-> IF p.hot[f] = Unset THEN told0[f] ELSE p.hot[f]]

Remember(o) ==
  /\ told' = IF o.kind = "hot" THEN Hot(told, o.sent) ELSE told
  /\ queued' = IF o.kind = "move" THEN o.sent ELSE queued
  /\ past' = past
       \cup (IF o.stale THEN {"overlap"} ELSE {})
       \cup (IF o.kind = "burn" /\ queued # None THEN {"burn after move"} ELSE {})
       \cup (IF o.kind = "hot" /\ queued # None THEN {"change after move"} ELSE {})
       \cup (IF Valid(o.new) THEN {} ELSE {"null"})

\* Mutant of Swap: a move takes effect in memory at once.
SwapAlways(o) == settings' = o.new /\ UNCHANGED pending

\* In memory: a move waits for the next boot.
Swap(o) == IF o.kind = "move" THEN pending' = o.new /\ UNCHANGED settings
                              ELSE settings' = o.new /\ UNCHANGED pending

\* The rename of the temp file and, without a further await, the memory.
Write(r) ==
  /\ Serving /\ op[r].pc = "writing"
  /\ file' = op[r].disk
  /\ Swap(op[r])
  /\ Finish(r)
  /\ Remember(op[r])
  /\ UNCHANGED <<phase, engine, crashes, dbVars>>

\* Mutant of WriteFails: the memory is swapped although the write failed.
WriteFailsSwapped(r) ==
  /\ Serving /\ op[r].pc \in {"burning", "writing"}
  /\ op' = [op EXCEPT ![r].pc = "done"]
  /\ IF op[r].pc = "writing" THEN Swap(op[r]) ELSE UNCHANGED memory
  /\ UNCHANGED <<file, phase, engine, crashes, history, dbVars>>

\* The burn test or the write of the temp file raises.
WriteFails(r) ==
  /\ Serving /\ op[r].pc \in {"burning", "writing"}
  /\ op' = [op EXCEPT ![r].pc = "done"]
  /\ UNCHANGED <<file, memory, phase, engine, crashes, history, dbVars>>

RequestStep(r) ==
  \/ \E p \in Patches : PatchBegin(r, p)
  \/ BurnBegin(r) \/ \E b \in Backends : BurnRead(r, b)
  \/ Write(r) \/ WriteFails(r)

-----------------------------------------------------------------------------
(* The boot.                                                               *)

\* Mutant of Loads: the pending key is not taken out before the validation.
LoadsWithPending == file.active # None /\ file.pending = None /\ Valid(file.active)

Loads == /\ file.active # None /\ Valid(file.active)
         /\ file.pending # None => Valid(file.pending)

\* apply_pending: the whole snapshot that the move queued.
Chosen == IF file.pending # None THEN file.pending ELSE file.active

BootLoad ==
  /\ phase = "down" /\ Loads
  /\ settings' = Chosen /\ pending' = None
  /\ file' = [active |-> Chosen, pending |-> None]
  /\ phase' = "loaded" /\ engine' = Chosen.data_dir
  /\ told' = IF queued = None THEN told ELSE Hot(told, queued)
  /\ queued' = None
  /\ UNCHANGED <<op, crashes, past, dbVars>>

\* No file, or one that does not validate: the first boot, again.
BootReset ==
  /\ phase = "down" /\ ~Loads
  /\ phase' = "detecting"
  /\ UNCHANGED <<file, memory, engine, op, crashes, history, dbVars>>

BootDetect(b) ==
  LET first == [data_dir |-> DefaultDir, backend |-> b, hot |-> Default]
  IN  /\ phase = "detecting"
      /\ settings' = first /\ file' = [active |-> first, pending |-> None]
      /\ phase' = "loaded" /\ engine' = DefaultDir
      /\ queued' = None
      /\ UNCHANGED <<pending, op, crashes, told, past, dbVars>>

BootConnect ==
  /\ phase = "loaded" /\ engine \in Usable
  /\ Connect(engine)
  /\ phase' = "migrating"
  /\ UNCHANGED <<file, memory, engine, op, crashes, history>>

BootMigrate ==
  /\ phase = "migrating" /\ MigrateStep(engine)
  /\ UNCHANGED <<file, memory, phase, engine, op, crashes, history>>

BootServe ==
  /\ phase = "migrating" /\ Commit(engine)
  /\ phase' = "serving"
  /\ UNCHANGED <<file, memory, engine, op, crashes, history>>

\* The process is gone, with its memory, its requests and its transaction.
Gone ==
  /\ phase' = "down" /\ engine' = NoDir
  /\ settings' = None /\ pending' = None
  /\ conn' = Closed /\ UNCHANGED db
  /\ op' = [r \in Requests |->
              IF op[r].pc = "new" THEN op[r] ELSE [NoOp EXCEPT !.pc = "done"]]

\* The directory cannot be made or opened, or a migration is half applied.
BootRefuse ==
  /\ phase \in {"loaded", "migrating"}
  /\ phase = "loaded" => engine \notin Usable
  /\ phase = "migrating" => MustRefuse
  /\ Gone
  /\ UNCHANGED <<file, crashes, history>>

BootStep == BootLoad \/ BootReset \/ (\E b \in Backends : BootDetect(b))
              \/ BootConnect \/ BootMigrate \/ BootServe \/ BootRefuse

\* The process ends, at any point.
Crash ==
  /\ phase # "down" /\ crashes < MaxCrashes
  /\ crashes' = crashes + 1
  /\ Gone
  /\ UNCHANGED <<file, history>>

Next == (\E r \in Requests : RequestStep(r)) \/ BootStep \/ Crash

Spec == Init /\ [][Next]_vars

\* The boot waits for no client, and detection ends.
FairSpec == Spec /\ WF_vars(BootStep)

-----------------------------------------------------------------------------
\* Once it serves, the process reports the directory its database is in, and
\* so does the active part of the file: a move, whatever overlaps with it,
\* waits for a boot (app/settings/service.py, "Do NOT swap").
DirIsTheBooted ==
  Serving => settings.data_dir = engine /\ file.active.data_dir = engine

\* The settings in force are those that clients were told last, across write
\* failures, restarts and moves, unless two requests overlapped, a change
\* followed a move that was queued, or a null was accepted
\* (app/settings/service.py, memory only after a successful write).
ToldIsInForce ==
  settings # None /\ past = {} => settings.hot = told

\* The next boot installs a queued move, although other writes of the file
\* come after it; the burn test and an overlapping request drop it, and a
\* null spoils the file (app/settings/service.py, WR-05).
MoveIsInstalled ==
  [][phase = "down" /\ phase' # "down" /\ queued # None
       /\ past \subseteq {"change after move"}
     => settings' # None /\ settings'.data_dir = queued.data_dir]_vars

\* A boot falls back on the defaults only when there is no file or a null was
\* accepted: no crash leaves a file that does not load.
FileLoads ==
  phase = "detecting" => file = NoFile \/ "null" \in past

\* What a recorded migration creates is in the schema, in every directory and
\* whenever a process died, and no request reaches a database that lacks one
\* (app/storage/db.py, the row is written after the statements of its file).
SchemaIsWhole ==
  /\ RecordedIsApplied
  /\ Serving => db[engine].versions = Versions

\* Where the next boot goes.
NextDir == IF Loads THEN Chosen.data_dir ELSE DefaultDir

\* Whatever the last process left of a file and of a migration, the next one
\* comes to serve, if the directory it is sent to is usable.
BootServes == (phase = "down" /\ NextDir \in Usable) ~> Serving

\* "hot-swaps persist" (app/settings/service.py:168): a change that clients
\* were told is in force, whether or not a move was queued before it.
HotSwapsPersist ==
  settings # None /\ past \subseteq {"change after move"} => settings.hot = told

=============================================================================
