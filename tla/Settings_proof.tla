---------------------------- MODULE Settings_proof ----------------------------
(***************************************************************************)
(* Proofs about Settings and Migrations, for any directories, migration    *)
(* files, fields, requests and crashes.                                    *)
(***************************************************************************)
EXTENDS Settings, WellFoundedInduction, TLAPS

Up == phase \in {"loaded", "migrating", "serving"}

Writing(r) == op[r].pc = "writing"

\* Memory and file hold settings of the directory that was booted, from the
\* load on, and a request writes none of another one into the active part.
MemoryInv ==
  /\ Up => /\ settings \in Settings /\ settings.data_dir = engine
           /\ file.active \in Settings /\ file.active.data_dir = engine
  /\ ~Up => settings = None /\ pending = None

OpInv ==
  \A r \in Requests :
    /\ op[r].pc \in {"burning", "writing"} => Serving
    /\ Writing(r) =>
         /\ op[r].kind \in {"hot", "move", "burn"}
         /\ op[r].new \in Settings
         /\ op[r].disk.active \in Settings /\ op[r].disk.active.data_dir = engine
         /\ op[r].kind # "move" => op[r].disk.active = op[r].new
         /\ op[r].kind # "burn" => op[r].sent \in Patches
         /\ op[r].kind = "move" => /\ op[r].disk.pending = op[r].new
                                   /\ op[r].sent.data_dir \in Dirs
                                   /\ op[r].new.data_dir = op[r].sent.data_dir
         /\ op[r].kind = "burn" => op[r].disk.pending = None

\* Without a null, what memory, file and requests hold validates.
LoadInv ==
  /\ phase = "detecting" => ~Loads
  /\ "null" \notin past =>
       /\ settings # None => Valid(settings)
       /\ pending # None => Valid(pending)
       /\ file = NoFile \/ Loads
       /\ \A r \in Requests :
            Writing(r) /\ Valid(op[r].new) =>
              /\ Valid(op[r].disk.active)
              /\ op[r].disk.pending # None => Valid(op[r].disk.pending)

\* What the runner sees is what is committed, up to the first INSERT, and
\* has the objects of the statements it has been through.
SchemaInv ==
  /\ conn.open <=> phase = "migrating"
  /\ conn.at \in Nat \ {0}
  /\ conn.open =>
       /\ \A v \in conn.seen.versions : Created(v) \subseteq conn.seen.schema
       /\ Unapplied # {} =>
            \A i \in DOMAIN Files[NextFile] :
              i < conn.at => Files[NextFile][i].object \in conn.seen.schema
       /\ ~conn.inTx => db[engine] = conn.seen
  /\ RecordedIsApplied
  /\ Serving => db[engine].versions = Versions

\* A queued move is under the pending key and in memory, and a write that
\* overlaps with none keeps it.
QueueInv ==
  past \subseteq {"change after move"} =>
    /\ queued = None => file.pending = None /\ pending = None
    /\ queued # None =>
         /\ file.pending # None /\ file.pending.data_dir = queued.data_dir
         /\ Up => pending = file.pending
    /\ \A r \in Requests :
         Writing(r) /\ ~op[r].stale /\ op[r].kind = "hot" => op[r].disk.pending = pending

\* The fields in the file and in memory are those that clients were told, and
\* a write that overlaps with none changes those that it was sent.
ToldInv ==
  past = {} =>
    /\ settings # None => settings.hot = told
    /\ file.active = None => told = Default /\ queued = None
    /\ file.active # None => file.active.hot = told
    /\ queued # None => file.pending.hot = Hot(told, queued)
    /\ \A r \in Requests :
         Writing(r) /\ ~op[r].stale =>
           /\ op[r].kind = "burn" => op[r].new.hot = told
           /\ op[r].kind # "burn" => op[r].new.hot = Hot(told, op[r].sent)
           /\ op[r].kind = "move" => op[r].disk.active.hot = told

SInv ==
  TypeOK /\ MemoryInv /\ OpInv /\ LoadInv /\ SchemaInv /\ QueueInv /\ ToldInv

-----------------------------------------------------------------------------
(* Lemmas about the operators.                                             *)

\* Settings and patches are no None.
LEMMA NoneIs ==
  ASSUME SettingsAssumption
  PROVE  /\ None \notin Settings
         /\ \A p : p.data_dir \in Dirs => p # None
BY DEF SettingsAssumption, Settings, None

\* A non-empty set of numbers has a least one.
LEMMA LeastIs ==
  ASSUME NEW S \in SUBSET Nat, S # {}
  PROVE  \E v \in S : \A w \in S : v <= w
<1> DEFINE R == OpToRel(<, Nat)
<1>1. \A x, y \in Nat : <<x, y>> \in R <=> x < y
  BY DEF OpToRel
<1>2. IsWellFoundedOn(R, Nat)
  BY NatLessThanWellFounded
<1> HIDE DEF R
<1>3. PICK x \in S : \A y \in S : ~ (<<y, x>> \in R)
  BY <1>2, WFMin
<1>4. \A y \in S : ~(y < x) /\ y \in Nat /\ x \in Nat
  BY <1>1, <1>3
<1> QED BY <1>4

\* NextFile is a file that is not applied.
LEMMA NextFileIs ==
  ASSUME MigrationsAssumption, Unapplied # {}
  PROVE  NextFile \in Unapplied /\ NextFile \in Versions
<1>1. Unapplied \in SUBSET Nat
  BY DEF MigrationsAssumption, Unapplied
<1>2. \E v \in Unapplied : \A w \in Unapplied : v <= w
  BY <1>1, LeastIs
<1>3. NextFile \in Unapplied
  BY <1>2 DEF NextFile
<1> QED BY <1>3 DEF Unapplied

\* The statements of a file are numbered from 1.
LEMMA DomainIs ==
  ASSUME MigrationsAssumption
  PROVE  \A v \in Versions :
           /\ Len(Files[v]) \in Nat /\ DOMAIN Files[v] = 1..Len(Files[v])
           /\ DOMAIN Files[v] \subseteq Nat \ {0}
<1>1. ASSUME NEW v \in Versions
      PROVE  Len(Files[v]) \in Nat /\ DOMAIN Files[v] = 1..Len(Files[v])
  BY DEF MigrationsAssumption
<1> QED BY <1>1

\* The objects of a file are those of its statements.
LEMMA CreatedIs ==
  ASSUME MigrationsAssumption, NEW v \in Versions
  PROVE  /\ Created(v) = {Files[v][i].object : i \in DOMAIN Files[v]}
         /\ Created(v) \subseteq Objects
         /\ Len(Files[v]) \in Nat /\ DOMAIN Files[v] = 1..Len(Files[v])
         /\ \A i \in DOMAIN Files[v] : Files[v][i].object \in Objects
<1>1. Files[v] \in Seq([kind : {"create", "alter"}, object : Objects])
  BY DEF MigrationsAssumption
<1>2. Created(v) = {Files[v][i].object : i \in DOMAIN Files[v]}
  BY DEF Created, Statements
<1>3. Len(Files[v]) \in Nat /\ DOMAIN Files[v] = 1..Len(Files[v])
  BY <1>1
<1>4. \A i \in DOMAIN Files[v] : Files[v][i].object \in Objects
  <2> DEFINE S == [kind : {"create", "alter"}, object : Objects]
  <2>1. \A s \in S : s.object \in Objects
    OBVIOUS
  <2>2. Files[v] \in Seq(S)
    BY <1>1
  <2> HIDE DEF S
  <2>3. \A i \in DOMAIN Files[v] : Files[v][i] \in S
    BY <1>3, <2>2
  <2> QED BY <2>1, <2>3
<1> QED BY <1>2, <1>3, <1>4

\* What a PATCH makes of valid settings.
LEMMA UpdateIs ==
  ASSUME SettingsAssumption, NEW s \in Settings, NEW p \in Patches
  PROVE  /\ Update(s, p) \in Settings
         /\ Update(s, p).data_dir = IF p.data_dir = Unset THEN s.data_dir ELSE p.data_dir
         /\ Update(s, p).hot = Hot(s.hot, p)
<1>1. /\ p.data_dir \in Dirs \cup {Unset}
      /\ p.hot \in [Fields -> Values \cup {Null, Unset}]
  BY DEF SettingsAssumption, Patch
<1>2. s.data_dir \in Dirs /\ s.hot \in [Fields -> Values \cup {Null}]
  BY DEF Settings
<1> DEFINE d == IF p.data_dir = Unset THEN s.data_dir ELSE p.data_dir
<1>3. Update(s, p) = [s EXCEPT !.data_dir = d, !.hot = Hot(s.hot, p)]
  BY DEF Update, Hot
<1>4. d \in Dirs /\ Hot(s.hot, p) \in [Fields -> Values \cup {Null}]
  BY <1>1, <1>2 DEF Hot
<1> HIDE DEF d
<1>5. ASSUME NEW h \in [Fields -> Values \cup {Null}]
      PROVE  LET t == [s EXCEPT !.data_dir = d, !.hot = h]
             IN  t \in Settings /\ t.data_dir = d /\ t.hot = h
  BY <1>4 DEF Settings
<1>6. Update(s, p) \in Settings /\ Update(s, p).data_dir = d /\ Update(s, p).hot = Hot(s.hot, p)
  BY <1>3, <1>4, <1>5
<1> QED BY <1>6 DEF d

LEMMA HotIs ==
  ASSUME SettingsAssumption, NEW t \in [Fields -> Values \cup {Null}], NEW p \in Patches
  PROVE  Hot(t, p) \in [Fields -> Values \cup {Null}]
<1>1. p.hot \in [Fields -> Values \cup {Null, Unset}]
  BY DEF SettingsAssumption, Patch
<1> QED BY <1>1 DEF Hot

\* The burn test writes another backend.
LEMMA BurntIs ==
  ASSUME NEW s \in Settings, NEW b \in Backends
  PROVE  LET t == [s EXCEPT !.backend = b]
         IN  t \in Settings /\ t.data_dir = s.data_dir /\ t.hot = s.hot
BY DEF Settings

\* The first settings are valid.
LEMMA FirstIs ==
  ASSUME SettingsAssumption, NEW b \in Backends
  PROVE  LET first == [data_dir |-> DefaultDir, backend |-> b, hot |-> Default]
         IN  first \in Settings /\ Valid(first)
BY DEF SettingsAssumption, Settings, Valid

\* A step of a request to another position.
LEMMA PcIs ==
  ASSUME op \in [Requests -> Op], NEW r \in Requests,
         NEW x \in {"new", "burning", "writing", "done"},
         op' = [op EXCEPT ![r].pc = x]
  PROVE  /\ op' \in [Requests -> Op]
         /\ op'[r].pc = x
         /\ \A s \in Requests \ {r} : op'[s] = op[s]
<1>1. op' = [s \in Requests |-> IF s = r THEN [op[r] EXCEPT !.pc = x] ELSE op[s]]
  OBVIOUS
<1>2. op[r] \in Op
  OBVIOUS
<1>3. [op[r] EXCEPT !.pc = x] \in Op /\ [op[r] EXCEPT !.pc = x].pc = x
  BY <1>2 DEF Op
<1> QED BY <1>1, <1>3

\* The start of a write.
LEMMA StartIs ==
  ASSUME op \in [Requests -> Op], NEW r \in Requests,
         NEW kind \in {"hot", "move", "burn"}, NEW new \in Settings,
         NEW sent \in Patches \cup {None},
         settings \in Maybe, pending \in Maybe, StartWrite(r, kind, new, sent)
  PROVE  /\ op' \in [Requests -> Op]
         /\ op'[r] = [pc |-> "writing", kind |-> kind, new |-> new,
                      disk |-> DiskOf(kind, new), sent |-> sent, stale |-> FALSE]
         /\ \A s \in Requests \ {r} : op'[s] = op[s]
<1> DEFINE o == [pc |-> "writing", kind |-> kind, new |-> new,
                 disk |-> DiskOf(kind, new), sent |-> sent, stale |-> FALSE]
<1>1. op' = [s \in Requests |-> IF s = r THEN o ELSE op[s]]
  BY DEF StartWrite
<1>2. DiskOf(kind, new) \in File
  BY DEF DiskOf, File, Maybe
<1>3. o \in Op
  BY <1>2 DEF Op, Maybe
<1> HIDE DEF o
<1>4. op' \in [Requests -> Op] /\ op'[r] = o /\ \A s \in Requests \ {r} : op'[s] = op[s]
  BY <1>1, <1>3
<1> QED BY <1>4 DEF o

\* The end of a write: the others that are under way are stale.
LEMMA FinishIs ==
  ASSUME op \in [Requests -> Op], NEW r \in Requests, Finish(r)
  PROVE  /\ op' \in [Requests -> Op]
         /\ op'[r].pc = "done"
         /\ \A s \in Requests \ {r} :
              /\ op'[s].pc = op[s].pc /\ op'[s].kind = op[s].kind
              /\ op'[s].new = op[s].new /\ op'[s].disk = op[s].disk
              /\ op'[s].sent = op[s].sent
              /\ op[s].pc = "writing" => op'[s].stale
<1>1. \A s \in Requests : op[s] \in Op
  OBVIOUS
<1>2. [op[r] EXCEPT !.pc = "done"] \in Op /\ [op[r] EXCEPT !.pc = "done"].pc = "done"
  BY <1>1 DEF Op
<1>3. \A s \in Requests :
        LET o == [op[s] EXCEPT !.stale = TRUE]
        IN  /\ o \in Op /\ o.stale
            /\ o.pc = op[s].pc /\ o.kind = op[s].kind /\ o.new = op[s].new
            /\ o.disk = op[s].disk /\ o.sent = op[s].sent
  BY <1>1 DEF Op
<1>4. op' = [s \in Requests |->
           IF s = r THEN [op[r] EXCEPT !.pc = "done"]
           ELSE IF op[s].pc = "writing" THEN [op[s] EXCEPT !.stale = TRUE] ELSE op[s]]
  BY DEF Finish
<1>5. op' \in [Requests -> Op]
  BY <1>1, <1>2, <1>3, <1>4
<1>6. op'[r].pc = "done"
  BY <1>2, <1>4
<1>7. ASSUME NEW s \in Requests \ {r}
      PROVE  op'[s] = IF op[s].pc = "writing" THEN [op[s] EXCEPT !.stale = TRUE] ELSE op[s]
  BY <1>4
<1> QED BY <1>3, <1>5, <1>6, <1>7

\* The process is gone.
LEMMA GoneIs ==
  ASSUME op \in [Requests -> Op], Gone
  PROVE  /\ op' \in [Requests -> Op]
         /\ \A r \in Requests : op'[r].pc \in {"new", "done"}
<1>1. [NoOp EXCEPT !.pc = "done"] \in Op /\ [NoOp EXCEPT !.pc = "done"].pc = "done"
  BY DEF Op, NoOp, Maybe, File, NoFile
<1>2. op' = [r \in Requests |->
              IF op[r].pc = "new" THEN op[r] ELSE [NoOp EXCEPT !.pc = "done"]]
  BY DEF Gone
<1> HIDE DEF Op
<1> QED BY <1>1, <1>2

-----------------------------------------------------------------------------
(* The steps of requests.                                                  *)

USE SettingsAssumption, MigrationsAssumption

\* A write begins with a copy of what is in memory.
LEMMA StartInv ==
  ASSUME SInv, NEW r \in Requests, Serving,
         NEW kind \in {"hot", "move", "burn"}, NEW new \in Settings,
         NEW sent \in Patches \cup {None}, StartWrite(r, kind, new, sent),
         kind # "move" => new.data_dir = settings.data_dir,
         kind # "burn" => sent \in Patches /\ new.hot = Hot(settings.hot, sent),
         kind = "burn" => new.hot = settings.hot,
         kind = "move" => sent.data_dir \in Dirs /\ new.data_dir = sent.data_dir,
         UNCHANGED <<file, memory, phase, engine, crashes, history, dbVars>>
  PROVE  SInv'
<1> DEFINE o == [pc |-> "writing", kind |-> kind, new |-> new,
                 disk |-> DiskOf(kind, new), sent |-> sent, stale |-> FALSE]
<1>1. /\ TypeOK /\ MemoryInv /\ OpInv /\ LoadInv /\ SchemaInv /\ QueueInv /\ ToldInv
  BY DEF SInv
<1>2. /\ file' = file /\ settings' = settings /\ pending' = pending
      /\ phase' = phase /\ engine' = engine /\ crashes' = crashes
      /\ told' = told /\ queued' = queued /\ past' = past /\ db' = db /\ conn' = conn
  BY DEF memory, history, dbVars
<1>3. /\ op' \in [Requests -> Op] /\ op'[r] = o
      /\ \A s \in Requests \ {r} : op'[s] = op[s]
  BY <1>1, StartIs DEF TypeOK
<1>4. /\ Up /\ settings \in Settings /\ settings.data_dir = engine /\ settings # None
  BY <1>1, NoneIs DEF MemoryInv, Up, Serving
<1>5. /\ o.pc = "writing" /\ o.kind = kind /\ o.new = new
      /\ o.sent = sent /\ ~o.stale
      /\ kind = "move" => o.disk.active = settings /\ o.disk.pending = new
      /\ kind # "move" => o.disk.active = new
      /\ kind = "hot" => o.disk.pending = pending
      /\ kind = "burn" => o.disk.pending = None
  BY DEF DiskOf
<1> HIDE DEF o
<1>6. TypeOK'
  BY <1>1, <1>2, <1>3 DEF TypeOK, MigrationsTypeOK
<1>7. MemoryInv'
  BY <1>1, <1>2 DEF MemoryInv, Up
<1>8. OpInv'
  BY <1>1, <1>2, <1>3, <1>4, <1>5 DEF OpInv, Writing, Serving
<1>9. LoadInv'
  BY <1>1, <1>2, <1>3, <1>4, <1>5 DEF LoadInv, Loads, Valid, Writing
<1>10. SchemaInv'
  BY <1>1, <1>2 DEF SchemaInv, Unapplied, NextFile, RecordedIsApplied, Serving
<1>11. QueueInv'
  BY <1>1, <1>2, <1>3, <1>5 DEF QueueInv, Up, Writing
<1>12. ToldInv'
  <2> SUFFICES ASSUME past = {} PROVE ToldInv'
    BY <1>2 DEF ToldInv
  <2>1. settings.hot = told
    BY <1>1, <1>4 DEF ToldInv
  <2>2. /\ kind = "burn" => o.new.hot = told
        /\ kind # "burn" => o.new.hot = Hot(told, o.sent)
        /\ kind = "move" => o.disk.active.hot = told
    BY <1>5, <2>1
  <2>3. \A s \in Requests :
          Writing(s)' /\ ~op'[s].stale =>
            /\ op'[s].kind = "burn" => op'[s].new.hot = told
            /\ op'[s].kind # "burn" => op'[s].new.hot = Hot(told, op'[s].sent)
            /\ op'[s].kind = "move" => op'[s].disk.active.hot = told
    BY <1>1, <1>3, <1>5, <2>2 DEF ToldInv, Writing
  <2>4. \A s \in Requests : Hot(told, op[s].sent)' = Hot(told, op'[s].sent)
    BY <1>2 DEF Hot
  <2>5. Hot(told, queued)' = Hot(told, queued)
    BY <1>2 DEF Hot
  <2> QED BY <1>1, <1>2, <2>3, <2>4, <2>5 DEF ToldInv
<1> QED BY <1>6, <1>7, <1>8, <1>9, <1>10, <1>11, <1>12 DEF SInv

LEMMA PatchBeginInv ==
  ASSUME SInv, NEW r \in Requests, NEW p \in Patches, PatchBegin(r, p)
  PROVE  SInv'
<1>1. settings \in Settings
  BY DEF SInv, MemoryInv, PatchBegin, Serving, Up
<1>2. /\ Update(settings, p) \in Settings
      /\ Update(settings, p).data_dir = IF p.data_dir = Unset THEN settings.data_dir ELSE p.data_dir
      /\ Update(settings, p).hot = Hot(settings.hot, p)
  BY <1>1, UpdateIs
<1>3. p.data_dir \in Dirs \cup {Unset}
  BY DEF SettingsAssumption, Patch
<1>4. CASE IsMove(p)
  <2>1. StartWrite(r, "move", Update(settings, p), p)
    BY <1>4 DEF PatchBegin
  <2> QED BY <1>2, <1>3, <1>4, <2>1, StartInv DEF PatchBegin, IsMove
<1>5. CASE ~IsMove(p)
  <2>1. StartWrite(r, "hot", Update(settings, p), p)
    BY <1>5 DEF PatchBegin
  <2> QED BY <1>2, <1>3, <1>5, <2>1, StartInv DEF PatchBegin, IsMove
<1> QED BY <1>4, <1>5

LEMMA BurnReadInv ==
  ASSUME SInv, NEW r \in Requests, NEW b \in Backends, BurnRead(r, b)
  PROVE  SInv'
<1> DEFINE t == [settings EXCEPT !.backend = b]
<1>1. settings \in Settings
  BY DEF SInv, MemoryInv, BurnRead, Serving, Up
<1>2. t \in Settings /\ t.data_dir = settings.data_dir /\ t.hot = settings.hot
  BY <1>1, BurntIs
<1>3. /\ StartWrite(r, "burn", t, None) /\ Serving
      /\ UNCHANGED <<file, memory, phase, engine, crashes, history, dbVars>>
  BY DEF BurnRead
<1> HIDE DEF t
<1> QED BY <1>2, <1>3, StartInv

\* Of a request that is not writing the invariant says nothing.
LEMMA IdleInv ==
  ASSUME SInv, NEW r \in Requests, Serving,
         op' \in [Requests -> Op], op'[r].pc # "writing",
         \A s \in Requests \ {r} : op'[s] = op[s],
         UNCHANGED <<file, memory, phase, engine, crashes, history, dbVars>>
  PROVE  SInv'
<1>1. /\ TypeOK /\ MemoryInv /\ OpInv /\ LoadInv /\ SchemaInv /\ QueueInv /\ ToldInv
  BY DEF SInv
<1>2. /\ file' = file /\ settings' = settings /\ pending' = pending
      /\ phase' = phase /\ engine' = engine /\ crashes' = crashes
      /\ told' = told /\ queued' = queued /\ past' = past /\ db' = db /\ conn' = conn
  BY DEF memory, history, dbVars
<1>3. \A s \in Requests : Writing(s)' => s # r /\ Writing(s) /\ op'[s] = op[s]
  BY DEF Writing
<1>4. TypeOK'
  BY <1>1, <1>2 DEF TypeOK, MigrationsTypeOK
<1>5. MemoryInv'
  BY <1>1, <1>2 DEF MemoryInv, Up
<1>6. OpInv'
  BY <1>1, <1>2, <1>3 DEF OpInv, Serving
<1>7. LoadInv'
  BY <1>1, <1>2, <1>3 DEF LoadInv, Loads, Valid
<1>8. SchemaInv'
  BY <1>1, <1>2 DEF SchemaInv, Unapplied, NextFile, RecordedIsApplied, Serving
<1>9. QueueInv'
  BY <1>1, <1>2, <1>3 DEF QueueInv, Up
<1>10. ToldInv'
  BY <1>1, <1>2, <1>3 DEF ToldInv, Hot
<1> QED BY <1>4, <1>5, <1>6, <1>7, <1>8, <1>9, <1>10 DEF SInv

LEMMA BurnBeginInv ==
  ASSUME SInv, NEW r \in Requests, BurnBegin(r)
  PROVE  SInv'
<1>1. /\ op' \in [Requests -> Op] /\ op'[r].pc = "burning"
      /\ \A s \in Requests \ {r} : op'[s] = op[s]
  BY PcIs DEF BurnBegin, SInv, TypeOK
<1> QED BY <1>1, IdleInv DEF BurnBegin

LEMMA WriteFailsInv ==
  ASSUME SInv, NEW r \in Requests, WriteFails(r)
  PROVE  SInv'
<1>1. /\ op' \in [Requests -> Op] /\ op'[r].pc = "done"
      /\ \A s \in Requests \ {r} : op'[s] = op[s]
  BY PcIs DEF WriteFails, SInv, TypeOK
<1> QED BY <1>1, IdleInv DEF WriteFails

\* A write puts its copy in force, whatever other requests have read before.
LEMMA WriteInv ==
  ASSUME SInv, NEW r \in Requests, Write(r)
  PROVE  SInv'
<1> DEFINE o == op[r]
<1>1. /\ TypeOK /\ MemoryInv /\ OpInv /\ LoadInv /\ SchemaInv /\ QueueInv /\ ToldInv
  BY DEF SInv
<1>2. /\ file' = o.disk /\ phase' = phase /\ engine' = engine /\ crashes' = crashes
      /\ db' = db /\ conn' = conn
  BY DEF Write, dbVars
<1>3. /\ op' \in [Requests -> Op]
      /\ op'[r].pc = "done"
      /\ \A s \in Requests \ {r} :
           /\ op'[s].pc = op[s].pc /\ op'[s].kind = op[s].kind
           /\ op'[s].new = op[s].new /\ op'[s].disk = op[s].disk
           /\ op'[s].sent = op[s].sent
           /\ op[s].pc = "writing" => op'[s].stale
  BY <1>1, FinishIs DEF Write, TypeOK
<1>4. Serving /\ Up
  BY DEF Write, Serving, Up
<1>5. /\ o \in Op /\ Writing(r) /\ o.kind \in {"hot", "move", "burn"} /\ o.new \in Settings
      /\ o.disk \in File /\ o.disk.active \in Settings /\ o.disk.active.data_dir = engine
      /\ o.kind # "move" => o.disk.active = o.new
      /\ o.kind # "burn" => o.sent \in Patches
      /\ o.kind = "move" => /\ o.disk.pending = o.new
                            /\ o.sent.data_dir \in Dirs
                            /\ o.new.data_dir = o.sent.data_dir
      /\ o.kind = "burn" => o.disk.pending = None
  BY <1>1 DEF Write, OpInv, Writing, TypeOK, Op
<1>6. /\ o.kind = "move" => pending' = o.new /\ settings' = settings
      /\ o.kind # "move" => settings' = o.new /\ pending' = pending
  BY DEF Write, Swap
<1>7. /\ told' = IF o.kind = "hot" THEN Hot(told, o.sent) ELSE told
      /\ queued' = IF o.kind = "move" THEN o.sent ELSE queued
      /\ past \subseteq past' /\ past' \subseteq Hazards
      /\ o.stale => "overlap" \in past'
      /\ o.kind = "burn" /\ queued # None => "burn after move" \in past'
      /\ o.kind = "hot" /\ queued # None => "change after move" \in past'
      /\ ~Valid(o.new) => "null" \in past'
  BY <1>1 DEF Write, Remember, TypeOK, Hazards
<1>8. \A s \in Requests : Writing(s)' =>
        /\ s # r /\ Writing(s) /\ op'[s].stale
        /\ op'[s].kind = op[s].kind /\ op'[s].new = op[s].new
        /\ op'[s].disk = op[s].disk /\ op'[s].sent = op[s].sent
  BY <1>3 DEF Writing
<1>9. None \notin Settings /\ settings \in Settings /\ settings.data_dir = engine
  BY <1>1, <1>4, NoneIs DEF MemoryInv
<1> HIDE DEF o
<1>10. TypeOK'
  <2>1. told' \in [Fields -> Values \cup {Null}]
    BY <1>1, <1>5, <1>7, HotIs DEF TypeOK
  <2>2. queued' \in Patches \cup {None}
    BY <1>1, <1>5, <1>7 DEF TypeOK
  <2>3. settings' \in Maybe /\ pending' \in Maybe
    BY <1>1, <1>5, <1>6 DEF TypeOK, Maybe
  <2> QED BY <1>1, <1>2, <1>3, <1>5, <1>7, <2>1, <2>2, <2>3 DEF TypeOK, MigrationsTypeOK
<1>11. MemoryInv'
  BY <1>2, <1>4, <1>5, <1>6, <1>9 DEF MemoryInv, Up
<1>12. OpInv'
  BY <1>1, <1>2, <1>3, <1>4, <1>8 DEF OpInv, Serving
<1>13. LoadInv'
  <2>1. phase' # "detecting"
    BY <1>2, <1>4 DEF Serving
  <2> SUFFICES ASSUME "null" \notin past'
               PROVE  /\ Valid(settings)' /\ (pending' # None => Valid(pending)')
                      /\ Loads'
                      /\ \A s \in Requests :
                           Writing(s)' /\ Valid(op'[s].new) =>
                             /\ Valid(op'[s].disk.active)
                             /\ op'[s].disk.pending # None => Valid(op'[s].disk.pending)
    BY <2>1 DEF LoadInv, Valid
  <2>2. "null" \notin past /\ Valid(o.new)
    BY <1>7
  <2>3. /\ Valid(settings) /\ (pending # None => Valid(pending))
        /\ Valid(o.disk.active) /\ (o.disk.pending # None => Valid(o.disk.pending))
    BY <1>1, <1>5, <1>9, <2>2 DEF LoadInv, o
  <2>4. Valid(settings)' /\ (pending' # None => Valid(pending)')
    BY <1>6, <2>2, <2>3 DEF Valid
  <2>5. Loads'
    BY <1>2, <1>5, <1>9, <2>3 DEF Loads, Valid
  <2>6. ASSUME NEW s \in Requests, Writing(s)', Valid(op'[s].new)
        PROVE  /\ Valid(op'[s].disk.active)
               /\ op'[s].disk.pending # None => Valid(op'[s].disk.pending)
    BY <1>1, <1>8, <2>2, <2>6 DEF LoadInv
  <2> QED BY <2>4, <2>5, <2>6
<1>14. SchemaInv'
  BY <1>1, <1>2 DEF SchemaInv, Unapplied, NextFile, RecordedIsApplied, Serving
<1>15. QueueInv'
  <2> SUFFICES ASSUME past' \subseteq {"change after move"}
               PROVE  /\ queued' = None => file'.pending = None /\ pending' = None
                      /\ queued' # None =>
                           /\ file'.pending # None /\ file'.pending.data_dir = queued'.data_dir
                           /\ pending' = file'.pending
    BY <1>8 DEF QueueInv
  <2>1. past \subseteq {"change after move"} /\ ~o.stale /\ (o.kind = "burn" => queued = None)
    BY <1>7
  <2>2. /\ queued = None => pending = None
        /\ queued # None => /\ pending # None /\ pending.data_dir = queued.data_dir
        /\ o.kind = "hot" => o.disk.pending = pending
    BY <1>1, <1>4, <1>5, <2>1 DEF QueueInv, o
  <2>3. CASE o.kind = "move"
    BY <1>2, <1>5, <1>6, <1>7, <1>9, <2>3, NoneIs
  <2>4. CASE o.kind = "hot"
    BY <1>2, <1>6, <1>7, <2>2, <2>4
  <2>5. CASE o.kind = "burn"
    BY <1>2, <1>5, <1>6, <1>7, <2>1, <2>2, <2>5
  <2> QED BY <1>5, <2>3, <2>4, <2>5
<1>16. ToldInv'
  <2> SUFFICES ASSUME past' = {}
               PROVE  /\ settings'.hot = told' /\ file'.active.hot = told'
                      /\ queued' # None => file'.pending.hot = Hot(told, queued)'
    BY <1>2, <1>5, <1>8, <1>9 DEF ToldInv
  <2>1. past = {} /\ ~o.stale /\ (o.kind # "move" => queued = None)
    BY <1>5, <1>7
  <2>2. /\ settings.hot = told
        /\ o.kind = "burn" => o.new.hot = told
        /\ o.kind # "burn" => o.new.hot = Hot(told, o.sent)
        /\ o.kind = "move" => o.disk.active.hot = told
    BY <1>1, <1>5, <1>9, <2>1 DEF ToldInv, o
  <2>3. CASE o.kind = "move"
    <3>1. Hot(told, queued)' = Hot(told, o.sent)
      BY <1>7, <2>3 DEF Hot
    <3> QED BY <1>2, <1>5, <1>6, <1>7, <2>2, <2>3, <3>1
  <2>4. CASE o.kind # "move"
    BY <1>2, <1>5, <1>6, <1>7, <2>1, <2>2, <2>4
  <2> QED BY <2>3, <2>4
<1> QED BY <1>10, <1>11, <1>12, <1>13, <1>14, <1>15, <1>16 DEF SInv

-----------------------------------------------------------------------------
(* The migrations.                                                         *)

\* A statement that is new to the schema, or one that is not.
LEMMA ExecuteIs ==
  ASSUME MigrationsTypeOK, conn.open, NEW d \in Dirs, Execute(d), conn.at \in Nat \ {0}
  PROVE  /\ Unapplied # {} /\ conn.at \in DOMAIN Files[NextFile]
         /\ MigrationsTypeOK'
         /\ conn'.open /\ conn'.at = conn.at + 1 /\ conn'.inTx = conn.inTx
         /\ conn'.seen.versions = conn.seen.versions
         /\ conn'.seen.schema = conn.seen.schema \cup {Files[NextFile][conn.at].object}
         /\ \/ db' = db /\ conn'.seen = conn.seen
            \/ db' = db /\ conn.inTx
            \/ db' = [db EXCEPT ![d] = conn'.seen]
<1> DEFINE s == Files[NextFile][conn.at]
           DB == [schema : SUBSET Objects, versions : SUBSET Versions]
<1>1. Unapplied # {} /\ ~AtEnd /\ (ExecuteAgain(s) \/ ExecuteNew(d, s))
  BY DEF Execute
<1>2. NextFile \in Versions
  BY <1>1, NextFileIs
<1>3. conn.at \in DOMAIN Files[NextFile] /\ s.object \in Objects
  <2>1. /\ Len(Files[NextFile]) \in Nat
        /\ DOMAIN Files[NextFile] = 1..Len(Files[NextFile])
        /\ \A i \in DOMAIN Files[NextFile] : Files[NextFile][i].object \in Objects
    BY <1>2, CreatedIs
  <2>2. conn.at \in 1..Len(Files[NextFile])
    BY <1>1, <2>1 DEF AtEnd
  <2> QED BY <2>1, <2>2
<1>4. /\ conn \in [open : BOOLEAN, inTx : BOOLEAN, at : Nat, dups : Nat, seen : DB]
      /\ db \in [Dirs -> DB]
  BY DEF MigrationsTypeOK
<1> HIDE DEF s
<1>5. CASE ExecuteAgain(s)
  <2> DEFINE n == IF s.kind = "alter" THEN conn.dups + 1 ELSE conn.dups
  <2>1. conn' = [conn EXCEPT !.at = conn.at + 1, !.dups = n] /\ db' = db
        /\ s.object \in conn.seen.schema
    BY <1>5 DEF ExecuteAgain
  <2>2. n \in Nat /\ conn.at + 1 \in Nat
    BY <1>4
  <2> HIDE DEF n, DB
  <2>3. /\ conn' \in [open : BOOLEAN, inTx : BOOLEAN, at : Nat, dups : Nat, seen : DB]
        /\ conn'.open = conn.open /\ conn'.at = conn.at + 1 /\ conn'.inTx = conn.inTx
        /\ conn'.seen = conn.seen
    BY <1>4, <2>1, <2>2
  <2>4. conn'.seen.schema = conn.seen.schema \cup {s.object}
    BY <2>1, <2>3
  <2>5. MigrationsTypeOK'
    BY <1>4, <2>1, <2>3 DEF MigrationsTypeOK, DB
  <2> QED BY <1>1, <1>3, <2>1, <2>3, <2>4, <2>5 DEF s
<1>6. CASE ExecuteNew(d, s)
  <2> DEFINE seen == [conn.seen EXCEPT !.schema = conn.seen.schema \cup {s.object}]
  <2>1. /\ conn' = [conn EXCEPT !.at = conn.at + 1, !.seen = seen]
        /\ db' = IF conn.inTx THEN db ELSE [db EXCEPT ![d] = seen]
    BY <1>6 DEF ExecuteNew, Change
  <2>2. /\ seen \in DB /\ seen.versions = conn.seen.versions
        /\ seen.schema = conn.seen.schema \cup {s.object}
    BY <1>3, <1>4
  <2> HIDE DEF seen, DB
  <2>3. conn.at + 1 \in Nat
    BY <1>4
  <2>4. /\ conn' \in [open : BOOLEAN, inTx : BOOLEAN, at : Nat, dups : Nat, seen : DB]
        /\ conn'.open = conn.open /\ conn'.at = conn.at + 1 /\ conn'.inTx = conn.inTx
        /\ conn'.seen = seen
    BY <1>4, <2>1, <2>2, <2>3
  <2>5. db' \in [Dirs -> DB]
    BY <1>4, <2>1, <2>2
  <2>6. MigrationsTypeOK'
    BY <2>4, <2>5 DEF MigrationsTypeOK, DB
  <2> QED BY <1>1, <1>3, <2>1, <2>2, <2>4, <2>6 DEF s
<1> QED BY <1>1, <1>5, <1>6

\* The row of a file, in the transaction.
LEMMA RecordIs ==
  ASSUME MigrationsTypeOK, NEW d \in Dirs, Record(d)
  PROVE  /\ Unapplied # {} /\ AtEnd
         /\ MigrationsTypeOK'
         /\ conn'.open /\ conn'.at = 1 /\ conn'.inTx
         /\ conn'.seen.versions = conn.seen.versions \cup {NextFile}
         /\ conn'.seen.schema = conn.seen.schema
         /\ db' = db
<1> DEFINE DB == [schema : SUBSET Objects, versions : SUBSET Versions]
           seen == [conn.seen EXCEPT !.versions = conn.seen.versions \cup {NextFile}]
<1>1. /\ conn.open /\ Unapplied # {} /\ AtEnd /\ db' = db
      /\ conn' = [conn EXCEPT !.seen = seen, !.inTx = TRUE, !.at = 1, !.dups = 0]
  BY DEF Record
<1>2. NextFile \in Versions
  BY <1>1, NextFileIs
<1>3. /\ conn \in [open : BOOLEAN, inTx : BOOLEAN, at : Nat, dups : Nat, seen : DB]
      /\ db \in [Dirs -> DB]
  BY DEF MigrationsTypeOK
<1>4. /\ seen \in DB /\ seen.schema = conn.seen.schema
      /\ seen.versions = conn.seen.versions \cup {NextFile}
  BY <1>2, <1>3
<1> HIDE DEF seen, DB
<1>5. /\ conn' \in [open : BOOLEAN, inTx : BOOLEAN, at : Nat, dups : Nat, seen : DB]
      /\ conn'.open = conn.open /\ conn'.at = 1 /\ conn'.inTx /\ conn'.seen = seen
  BY <1>1, <1>3, <1>4
<1>6. MigrationsTypeOK'
  BY <1>1, <1>3, <1>5 DEF MigrationsTypeOK, DB
<1> QED BY <1>1, <1>4, <1>5, <1>6

\* The file that is under way is the same while none is recorded.
LEMMA SameFile ==
  ASSUME conn'.seen.versions = conn.seen.versions
  PROVE  Unapplied' = Unapplied /\ NextFile' = NextFile
BY DEF Unapplied, NextFile

\* Migrations preserve what the invariant says of the databases.
LEMMA MigrateInv ==
  ASSUME SInv, phase = "migrating", MigrateStep(engine), phase' = phase, engine' = engine
  PROVE  MigrationsTypeOK' /\ SchemaInv'
<1>1. MigrationsTypeOK /\ SchemaInv /\ conn.open /\ engine \in Dirs
  BY DEF SInv, TypeOK, MemoryInv, SchemaInv, Up, Settings
<1>2. /\ conn \in [open : BOOLEAN, inTx : BOOLEAN, at : Nat, dups : Nat,
                   seen : [schema : SUBSET Objects, versions : SUBSET Versions]]
      /\ db \in [Dirs -> [schema : SUBSET Objects, versions : SUBSET Versions]]
  BY <1>1 DEF MigrationsTypeOK
<1>3. CASE Execute(engine)
  <2> DEFINE o == Files[NextFile][conn.at].object
  <2>1. /\ Unapplied # {} /\ conn.at \in DOMAIN Files[NextFile]
        /\ MigrationsTypeOK'
        /\ conn'.open /\ conn'.at = conn.at + 1 /\ conn'.inTx = conn.inTx
        /\ conn'.seen.versions = conn.seen.versions
        /\ conn'.seen.schema = conn.seen.schema \cup {o}
        /\ \/ db' = db /\ conn'.seen = conn.seen
           \/ db' = db /\ conn.inTx
           \/ db' = [db EXCEPT ![engine] = conn'.seen]
    BY <1>1, <1>3, ExecuteIs DEF SchemaInv
  <2>2. Unapplied' = Unapplied /\ NextFile' = NextFile
    BY <2>1, SameFile
  <2>3. /\ \A v \in conn.seen.versions : Created(v) \subseteq conn.seen.schema
        /\ \A i \in DOMAIN Files[NextFile] :
             i < conn.at => Files[NextFile][i].object \in conn.seen.schema
        /\ ~conn.inTx => db[engine] = conn.seen
        /\ conn.at \in Nat \ {0}
    BY <1>1, <2>1 DEF SchemaInv
  <2>4. DOMAIN Files[NextFile] \subseteq Nat
    <3>1. NextFile \in Versions
      BY <2>1, NextFileIs
    <3> QED BY <3>1, DomainIs
  <2>5. \A i \in DOMAIN Files[NextFile] :
          i < conn'.at => Files[NextFile][i].object \in conn'.seen.schema
    BY <2>1, <2>3, <2>4
  <2>6. \A v \in conn'.seen.versions : Created(v) \subseteq conn'.seen.schema
    BY <2>1, <2>3
  <2>7. ~conn'.inTx => db'[engine] = conn'.seen
    BY <1>1, <1>2, <2>1, <2>3
  <2>8. RecordedIsApplied'
    <3>1. RecordedIsApplied
      BY <1>1 DEF SchemaInv
    <3>2. db' = db \/ db' = [db EXCEPT ![engine] = conn'.seen]
      BY <2>1
    <3>3. \A d \in Dirs : db'[d] = db[d] \/ db'[d] = conn'.seen
      BY <1>2, <3>2
    <3> QED BY <2>6, <3>1, <3>3 DEF RecordedIsApplied
  <2>9. conn'.at \in Nat \ {0} /\ ~Serving'
    BY <2>1, <2>3 DEF Serving
  <2>10. db'[engine'] = db'[engine] /\ conn'.open /\ phase' = "migrating"
    BY <2>1
  <2>11. Unapplied' # {} =>
           \A i \in DOMAIN Files[NextFile'] :
             i < conn'.at => Files[NextFile'][i].object \in conn'.seen.schema
    BY <2>2, <2>5
  <2> HIDE DEF o
  <2> QED BY <2>1, <2>6, <2>7, <2>8, <2>9, <2>10, <2>11 DEF SchemaInv
<1>4. CASE Record(engine)
  <2>1. /\ Unapplied # {} /\ AtEnd
        /\ MigrationsTypeOK'
        /\ conn'.open /\ conn'.at = 1 /\ conn'.inTx
        /\ conn'.seen.versions = conn.seen.versions \cup {NextFile}
        /\ conn'.seen.schema = conn.seen.schema
        /\ db' = db
    BY <1>1, <1>4, RecordIs
  <2>2. NextFile \in Versions
    BY <2>1, NextFileIs
  <2>3. Created(NextFile) \subseteq conn.seen.schema
    <3>1. \A i \in DOMAIN Files[NextFile] : i < conn.at
      BY <1>2, <2>1, <2>2, DomainIs DEF AtEnd
    <3>2. \A i \in DOMAIN Files[NextFile] : Files[NextFile][i].object \in conn.seen.schema
      BY <1>1, <2>1, <3>1 DEF SchemaInv
    <3>3. Created(NextFile) = {Files[NextFile][i].object : i \in DOMAIN Files[NextFile]}
      BY <2>2, CreatedIs
    <3> QED BY <3>2, <3>3
  <2>4. \A v \in conn'.seen.versions : Created(v) \subseteq conn'.seen.schema
    BY <1>1, <2>1, <2>3 DEF SchemaInv
  <2>5. Unapplied' # {} => \A i \in DOMAIN Files[NextFile'] : ~(i < conn'.at)
    <3>1. ASSUME Unapplied' # {} PROVE NextFile' \in Versions
      <4>1. NextFile' \in Unapplied'
        <5>1. Unapplied' \in SUBSET Nat
          BY DEF MigrationsAssumption, Unapplied
        <5>2. \E v \in Unapplied' : \A w \in Unapplied' : v <= w
          BY <3>1, <5>1, LeastIs
        <5> QED BY <5>2 DEF NextFile
      <4> QED BY <4>1 DEF Unapplied
    <3>2. ASSUME Unapplied' # {} PROVE DOMAIN Files[NextFile'] \subseteq Nat \ {0}
      BY <3>1, <3>2, DomainIs
    <3> QED BY <2>1, <3>2
  <2>6. RecordedIsApplied'
    BY <1>1, <2>1 DEF SchemaInv, RecordedIsApplied
  <2> QED BY <1>1, <2>1, <2>4, <2>5, <2>6 DEF SchemaInv, Serving
<1> QED BY <1>3, <1>4 DEF MigrateStep

-----------------------------------------------------------------------------
(* The boot.                                                               *)

\* No request is at work before the server serves.
LEMMA QuietIs ==
  ASSUME OpInv, ~Serving
  PROVE  \A r \in Requests : op[r].pc \notin {"burning", "writing"} /\ ~Writing(r)
BY DEF OpInv, Writing

\* Between two processes, or before the connection, the database rests.
LEMMA RestInv ==
  ASSUME SchemaInv, phase # "migrating", phase' \notin {"migrating", "serving"},
         UNCHANGED dbVars
  PROVE  SchemaInv'
<1>1. db' = db /\ conn' = conn /\ ~conn.open
  BY DEF dbVars, SchemaInv
<1> QED BY <1>1 DEF SchemaInv, RecordedIsApplied, Serving

LEMMA BootLoadInv ==
  ASSUME SInv, BootLoad
  PROVE  SInv'
<1>1. /\ TypeOK /\ MemoryInv /\ OpInv /\ LoadInv /\ SchemaInv /\ QueueInv /\ ToldInv
  BY DEF SInv
<1>2. /\ phase = "down" /\ phase' = "loaded" /\ engine' = Chosen.data_dir
      /\ settings' = Chosen /\ pending' = None
      /\ file'.active = Chosen /\ file'.pending = None
      /\ file' = [active |-> Chosen, pending |-> None]
      /\ told' = (IF queued = None THEN told ELSE Hot(told, queued)) /\ queued' = None
      /\ op' = op /\ crashes' = crashes /\ past' = past /\ UNCHANGED dbVars
  BY DEF BootLoad
<1>3. /\ Chosen \in Settings /\ Valid(Chosen) /\ Chosen # None /\ file.active # None
      /\ file.pending # None => Chosen = file.pending
      /\ file.pending = None => Chosen = file.active
  BY <1>1, NoneIs DEF BootLoad, Loads, Chosen, TypeOK, File, Maybe
<1> DEFINE c == Chosen
<1>4. c.data_dir \in Dirs
  BY <1>3 DEF Settings
<1>5. /\ \A r \in Requests : op'[r].pc \notin {"burning", "writing"}
      /\ \A r \in Requests : ~Writing(r)'
  BY <1>1, <1>2, QuietIs DEF Serving, Writing
<1> HIDE DEF c
<1>6. TypeOK'
  <2>1. told' \in [Fields -> Values \cup {Null}]
    BY <1>1, <1>2, HotIs DEF TypeOK
  <2>2. file' \in File /\ settings' \in Maybe /\ pending' \in Maybe
    BY <1>2, <1>3 DEF File, Maybe
  <2> QED BY <1>1, <1>2, <1>4, <2>1, <2>2 DEF TypeOK, Phases, MigrationsTypeOK, dbVars, c
<1>7. MemoryInv'
  BY <1>2, <1>3 DEF MemoryInv, Up
<1>8. OpInv'
  BY <1>5 DEF OpInv
<1>9. LoadInv'
  BY <1>2, <1>3, <1>5 DEF LoadInv, Loads, Valid
<1>10. SchemaInv'
  BY <1>1, <1>2, RestInv
<1>11. QueueInv'
  BY <1>2, <1>5 DEF QueueInv
<1>12. ToldInv'
  <2> SUFFICES ASSUME past = {} PROVE Chosen.hot = told'
    BY <1>2, <1>3, <1>5 DEF ToldInv
  <2>1. CASE queued = None
    BY <1>1, <1>2, <1>3, <2>1 DEF QueueInv, ToldInv
  <2>2. CASE queued # None
    BY <1>1, <1>2, <1>3, <2>2 DEF QueueInv, ToldInv
  <2> QED BY <2>1, <2>2
<1> QED BY <1>6, <1>7, <1>8, <1>9, <1>10, <1>11, <1>12 DEF SInv

LEMMA BootResetInv ==
  ASSUME SInv, BootReset
  PROVE  SInv'
<1>1. /\ TypeOK /\ MemoryInv /\ OpInv /\ LoadInv /\ SchemaInv /\ QueueInv /\ ToldInv
  BY DEF SInv
<1>2. /\ phase = "down" /\ ~Loads /\ phase' = "detecting"
      /\ file' = file /\ settings' = settings /\ pending' = pending
      /\ engine' = engine /\ crashes' = crashes /\ op' = op
      /\ told' = told /\ queued' = queued /\ past' = past /\ UNCHANGED dbVars
  BY DEF BootReset, memory, history
<1>3. /\ \A r \in Requests : op'[r].pc \notin {"burning", "writing"}
      /\ \A r \in Requests : ~Writing(r)'
  BY <1>1, <1>2, QuietIs DEF Serving, Writing
<1>4. TypeOK'
  BY <1>1, <1>2 DEF TypeOK, Phases, MigrationsTypeOK, dbVars
<1>5. MemoryInv'
  BY <1>1, <1>2 DEF MemoryInv, Up
<1>6. OpInv'
  BY <1>3 DEF OpInv
<1>7. LoadInv'
  BY <1>1, <1>2, <1>3 DEF LoadInv, Loads, Valid
<1>8. SchemaInv'
  BY <1>1, <1>2, RestInv
<1>9. QueueInv'
  BY <1>1, <1>2, <1>3 DEF QueueInv, Up
<1>10. ToldInv'
  BY <1>1, <1>2, <1>3 DEF ToldInv, Hot
<1> QED BY <1>4, <1>5, <1>6, <1>7, <1>8, <1>9, <1>10 DEF SInv

\* The defaults are what clients were told, if there was no file.
LEMMA BootDetectInv ==
  ASSUME SInv, NEW b \in Backends, BootDetect(b)
  PROVE  SInv'
<1> DEFINE f == [data_dir |-> DefaultDir, backend |-> b, hot |-> Default]
<1>1. /\ TypeOK /\ MemoryInv /\ OpInv /\ LoadInv /\ SchemaInv /\ QueueInv /\ ToldInv
  BY DEF SInv
<1>2. /\ phase = "detecting" /\ phase' = "loaded" /\ engine' = DefaultDir
      /\ settings' = f /\ file' = [active |-> f, pending |-> None] /\ queued' = None
      /\ pending' = pending /\ told' = told
      /\ op' = op /\ crashes' = crashes /\ past' = past /\ UNCHANGED dbVars
  BY DEF BootDetect
<1>3. f \in Settings /\ Valid(f) /\ f.data_dir = DefaultDir /\ f.hot = Default
  BY FirstIs
<1> HIDE DEF f
<1>4. f # None /\ DefaultDir \in Dirs /\ pending = None
  BY <1>1, <1>2, <1>3, NoneIs DEF SettingsAssumption, MemoryInv, Up
<1>5. /\ \A r \in Requests : op'[r].pc \notin {"burning", "writing"}
      /\ \A r \in Requests : ~Writing(r)'
  BY <1>1, <1>2, QuietIs DEF Serving, Writing
<1>6. file'.active = f /\ file'.pending = None
  BY <1>2
<1>7. TypeOK'
  <2>1. file' \in File /\ settings' \in Maybe /\ pending' \in Maybe
    BY <1>2, <1>3, <1>4 DEF File, Maybe
  <2> QED BY <1>1, <1>2, <1>4, <2>1 DEF TypeOK, Phases, MigrationsTypeOK, dbVars
<1>8. MemoryInv'
  BY <1>2, <1>3, <1>6 DEF MemoryInv, Up
<1>9. OpInv'
  BY <1>5 DEF OpInv
<1>10. LoadInv'
  BY <1>2, <1>3, <1>4, <1>5, <1>6 DEF LoadInv, Loads, Valid
<1>11. SchemaInv'
  BY <1>1, <1>2, RestInv
<1>12. QueueInv'
  BY <1>2, <1>4, <1>5, <1>6 DEF QueueInv
<1>13. ToldInv'
  <2> SUFFICES ASSUME past = {} PROVE told = Default
    BY <1>2, <1>3, <1>4, <1>5, <1>6 DEF ToldInv
  <2>1. file = NoFile
    BY <1>1, <1>2 DEF LoadInv
  <2> QED BY <1>1, <2>1 DEF ToldInv, NoFile
<1> QED BY <1>7, <1>8, <1>9, <1>10, <1>11, <1>12, <1>13 DEF SInv

\* A step that leaves settings and requests alone, in a process that is up.
LEMMA DatabaseStep ==
  ASSUME SInv, Up, ~Serving, Up', MigrationsTypeOK', SchemaInv',
         UNCHANGED <<file, memory, engine, op, crashes, history>>
  PROVE  SInv'
<1>1. /\ TypeOK /\ MemoryInv /\ OpInv /\ LoadInv /\ SchemaInv /\ QueueInv /\ ToldInv
  BY DEF SInv
<1>2. /\ file' = file /\ settings' = settings /\ pending' = pending
      /\ engine' = engine /\ crashes' = crashes /\ op' = op
      /\ told' = told /\ queued' = queued /\ past' = past
  BY DEF memory, history
<1>3. phase' \in Phases /\ phase' # "detecting"
  BY DEF Up, Phases
<1>4. /\ \A r \in Requests : op'[r].pc \notin {"burning", "writing"}
      /\ \A r \in Requests : ~Writing(r)'
  BY <1>1, <1>2, QuietIs DEF Writing
<1>5. TypeOK'
  BY <1>1, <1>2, <1>3 DEF TypeOK
<1>6. MemoryInv'
  BY <1>1, <1>2 DEF MemoryInv
<1>7. OpInv'
  BY <1>4 DEF OpInv
<1>8. LoadInv'
  BY <1>1, <1>2, <1>3, <1>4 DEF LoadInv, Loads, Valid
<1>9. QueueInv'
  BY <1>1, <1>2, <1>4 DEF QueueInv
<1>10. ToldInv'
  BY <1>1, <1>2, <1>4 DEF ToldInv, Hot
<1> QED BY <1>5, <1>6, <1>7, <1>8, <1>9, <1>10 DEF SInv

LEMMA BootConnectInv ==
  ASSUME SInv, BootConnect
  PROVE  SInv'
<1> DEFINE DB == [schema : SUBSET Objects, versions : SUBSET Versions]
           seen == db[engine]
<1>1. /\ MigrationsTypeOK /\ SchemaInv /\ engine \in Dirs
  BY DEF SInv, TypeOK, SettingsAssumption, BootConnect
<1>2. /\ phase = "loaded" /\ phase' = "migrating" /\ db' = db /\ engine' = engine
      /\ conn' = [open |-> TRUE, seen |-> seen, inTx |-> FALSE, at |-> 1, dups |-> 0]
      /\ UNCHANGED <<file, memory, engine, op, crashes, history>>
  BY DEF BootConnect, Connect, Closed
<1>3. db \in [Dirs -> DB] /\ seen \in DB
  BY <1>1 DEF MigrationsTypeOK
<1>4. /\ conn'.open /\ conn'.seen = seen /\ ~conn'.inTx /\ conn'.at = 1
  BY <1>2
<1>5. MigrationsTypeOK'
  BY <1>2, <1>3 DEF MigrationsTypeOK
<1>6. \A v \in seen.versions : Created(v) \subseteq seen.schema
  BY <1>1 DEF SchemaInv, RecordedIsApplied
<1> HIDE DEF seen
<1>7. Unapplied' # {} => \A i \in DOMAIN Files[NextFile'] : ~(i < conn'.at)
  <2>1. ASSUME Unapplied' # {} PROVE NextFile' \in Versions
    <3>1. NextFile' \in Unapplied'
      <4>1. Unapplied' \in SUBSET Nat
        BY DEF MigrationsAssumption, Unapplied
      <4>2. \E v \in Unapplied' : \A w \in Unapplied' : v <= w
        BY <2>1, <4>1, LeastIs
      <4> QED BY <4>2 DEF NextFile
    <3> QED BY <3>1 DEF Unapplied
  <2>2. ASSUME Unapplied' # {} PROVE DOMAIN Files[NextFile'] \subseteq Nat \ {0}
    BY <2>1, <2>2, DomainIs
  <2> QED BY <1>4, <2>2
<1>8. RecordedIsApplied'
  BY <1>1, <1>2 DEF SchemaInv, RecordedIsApplied
<1>9. db'[engine'] = conn'.seen
  BY <1>2, <1>4 DEF seen
<1>10. SchemaInv'
  BY <1>2, <1>4, <1>6, <1>7, <1>8, <1>9 DEF SchemaInv, Serving
<1> QED BY <1>2, <1>5, <1>10, DatabaseStep DEF Up, Serving

LEMMA BootMigrateInv ==
  ASSUME SInv, BootMigrate
  PROVE  SInv'
<1>1. /\ phase = "migrating" /\ phase' = phase /\ engine' = engine /\ MigrateStep(engine)
      /\ UNCHANGED <<file, memory, engine, op, crashes, history>>
  BY DEF BootMigrate
<1>2. MigrationsTypeOK' /\ SchemaInv'
  BY <1>1, MigrateInv
<1> QED BY <1>1, <1>2, DatabaseStep DEF Up, Serving

\* Every file is recorded when the block ends.
LEMMA BootServeInv ==
  ASSUME SInv, BootServe
  PROVE  SInv'
<1> DEFINE DB == [schema : SUBSET Objects, versions : SUBSET Versions]
<1>1. /\ MigrationsTypeOK /\ SchemaInv /\ MemoryInv
  BY DEF SInv, TypeOK
<1>2. /\ phase = "migrating" /\ phase' = "serving" /\ conn.open /\ Unapplied = {}
      /\ db' = [db EXCEPT ![engine] = conn.seen] /\ conn' = Closed /\ engine' = engine
      /\ UNCHANGED <<file, memory, engine, op, crashes, history>>
  BY DEF BootServe, Commit
<1>3. engine \in Dirs
  BY <1>1, <1>2 DEF MemoryInv, Up, Settings
<1>4. db \in [Dirs -> DB] /\ conn.seen \in DB
  BY <1>1 DEF MigrationsTypeOK
<1>5. MigrationsTypeOK'
  BY <1>2, <1>4 DEF MigrationsTypeOK, Closed, Empty
<1>6. conn.seen.versions = Versions
  BY <1>2, <1>4 DEF Unapplied
<1>7. /\ db'[engine] = conn.seen
      /\ \A d \in Dirs : d # engine => db'[d] = db[d]
  BY <1>2, <1>3, <1>4
<1>8. RecordedIsApplied'
  BY <1>1, <1>2, <1>7 DEF SchemaInv, RecordedIsApplied
<1>9. ~conn'.open /\ conn'.at = 1
  BY <1>2 DEF Closed
<1>10. SchemaInv'
  BY <1>2, <1>6, <1>7, <1>8, <1>9 DEF SchemaInv
<1> QED BY <1>2, <1>5, <1>10, DatabaseStep DEF Up, Serving

\* A process that is gone leaves the file and what is committed.
LEMMA GoneInv ==
  ASSUME SInv, Gone, file' = file, UNCHANGED history, crashes' \in Nat
  PROVE  SInv'
<1>1. /\ TypeOK /\ MemoryInv /\ OpInv /\ LoadInv /\ SchemaInv /\ QueueInv /\ ToldInv
  BY DEF SInv
<1>2. /\ phase' = "down" /\ engine' = NoDir /\ settings' = None /\ pending' = None
      /\ conn' = Closed /\ db' = db /\ told' = told /\ queued' = queued /\ past' = past
  BY DEF Gone, history
<1>3. op' \in [Requests -> Op] /\ \A r \in Requests : op'[r].pc \in {"new", "done"}
  BY <1>1, GoneIs DEF TypeOK
<1>4. /\ \A r \in Requests : op'[r].pc \notin {"burning", "writing"}
      /\ \A r \in Requests : ~Writing(r)'
  BY <1>3 DEF Writing
<1>5. TypeOK'
  <2>1. MigrationsTypeOK'
    BY <1>1, <1>2 DEF TypeOK, MigrationsTypeOK, Closed, Empty
  <2> QED BY <1>1, <1>2, <1>3, <2>1 DEF TypeOK, Phases, Maybe
<1>6. MemoryInv'
  BY <1>2 DEF MemoryInv, Up
<1>7. OpInv'
  BY <1>4 DEF OpInv
<1>8. LoadInv'
  BY <1>1, <1>2, <1>4 DEF LoadInv, Loads, Valid
<1>9. SchemaInv'
  BY <1>1, <1>2 DEF SchemaInv, RecordedIsApplied, Serving, Closed
<1>10. QueueInv'
  BY <1>1, <1>2, <1>4 DEF QueueInv, Up
<1>11. ToldInv'
  BY <1>1, <1>2, <1>4 DEF ToldInv, Hot
<1> QED BY <1>5, <1>6, <1>7, <1>8, <1>9, <1>10, <1>11 DEF SInv

-----------------------------------------------------------------------------
(* The invariant.                                                          *)

LEMMA SInvInit == Init => SInv
<1> SUFFICES ASSUME Init PROVE SInv
  OBVIOUS
<1> DEFINE DB == [schema : SUBSET Objects, versions : SUBSET Versions]
<1>1. /\ file = NoFile /\ settings = None /\ pending = None /\ phase = "down"
      /\ engine = NoDir /\ op = [r \in Requests |-> NoOp] /\ crashes = 0
      /\ told = Default /\ queued = None /\ past = {} /\ conn = Closed
      /\ db \in [Dirs -> {MigratedBy(k) : k \in Releases}]
  BY DEF Init, MigrationsInit
<1>2. \A k \in Releases :
        /\ MigratedBy(k) \in DB
        /\ \A v \in MigratedBy(k).versions : Created(v) \subseteq MigratedBy(k).schema
  <2> TAKE k \in Releases
  <2>1. \A v \in Versions : Created(v) \subseteq Objects
    BY CreatedIs
  <2> QED BY <2>1 DEF MigratedBy
<1>3. db \in [Dirs -> DB] /\ RecordedIsApplied
  BY <1>1, <1>2 DEF RecordedIsApplied
<1>4. NoOp \in Op /\ NoOp.pc = "new"
  BY DEF NoOp, Op, NoFile, File, Maybe
<1>5. TypeOK
  <2>1. MigrationsTypeOK
    BY <1>1, <1>3 DEF MigrationsTypeOK, Closed, Empty
  <2>2. op \in [Requests -> Op]
    BY <1>1, <1>4
  <2> QED BY <1>1, <2>1, <2>2 DEF TypeOK, Maybe, File, NoFile, Phases, SettingsAssumption
<1>6. MemoryInv
  BY <1>1 DEF MemoryInv, Up
<1>7. \A r \in Requests : op[r].pc = "new" /\ ~Writing(r)
  BY <1>1, <1>4 DEF Writing
<1>8. OpInv
  BY <1>7 DEF OpInv
<1>9. LoadInv
  BY <1>1, <1>7 DEF LoadInv
<1>10. SchemaInv
  BY <1>1, <1>3 DEF SchemaInv, Closed, Serving
<1>11. QueueInv
  BY <1>1, <1>7 DEF QueueInv, NoFile
<1>12. ToldInv
  BY <1>1, <1>7 DEF ToldInv, NoFile
<1> QED BY <1>5, <1>6, <1>8, <1>9, <1>10, <1>11, <1>12 DEF SInv

LEMMA SInvStep == SInv /\ [Next]_vars => SInv'
<1> SUFFICES ASSUME SInv, [Next]_vars PROVE SInv'
  OBVIOUS
<1>1. ASSUME NEW r \in Requests, RequestStep(r) PROVE SInv'
  BY <1>1, PatchBeginInv, BurnBeginInv, BurnReadInv, WriteInv, WriteFailsInv DEF RequestStep
<1>2. CASE BootStep
  <2>1. CASE BootLoad
    BY <2>1, BootLoadInv
  <2>2. CASE BootReset
    BY <2>2, BootResetInv
  <2>3. CASE \E b \in Backends : BootDetect(b)
    BY <2>3, BootDetectInv
  <2>4. CASE BootConnect
    BY <2>4, BootConnectInv
  <2>5. CASE BootMigrate
    BY <2>5, BootMigrateInv
  <2>6. CASE BootServe
    BY <2>6, BootServeInv
  <2>7. CASE BootRefuse
    BY <2>7, GoneInv DEF BootRefuse, SInv, TypeOK
  <2> QED BY <1>2, <2>1, <2>2, <2>3, <2>4, <2>5, <2>6, <2>7 DEF BootStep
<1>3. CASE Crash
  <2>1. crashes' \in Nat
    BY <1>3 DEF Crash, SInv, TypeOK
  <2> QED BY <1>3, <2>1, GoneInv DEF Crash
<1>4. CASE UNCHANGED vars
  <2>1. /\ file' = file /\ settings' = settings /\ pending' = pending
        /\ phase' = phase /\ engine' = engine /\ crashes' = crashes /\ op' = op
        /\ told' = told /\ queued' = queued /\ past' = past /\ db' = db /\ conn' = conn
    BY <1>4 DEF vars, memory, history, dbVars
  <2>2. TypeOK' /\ MemoryInv' /\ OpInv'
    BY <2>1 DEF SInv, TypeOK, MigrationsTypeOK, MemoryInv, OpInv, Up, Writing, Serving
  <2>3. LoadInv'
    BY <2>1 DEF SInv, LoadInv, Writing, Loads, Valid
  <2>4. QueueInv'
    BY <2>1 DEF SInv, QueueInv, Up, Writing
  <2>5. ToldInv'
    BY <2>1 DEF SInv, ToldInv, Writing, Hot
  <2>6. SchemaInv'
    BY <2>1 DEF SInv, SchemaInv, Unapplied, NextFile, RecordedIsApplied, Serving
  <2> QED BY <2>2, <2>3, <2>4, <2>5, <2>6 DEF SInv
<1> QED BY <1>1, <1>2, <1>3, <1>4 DEF Next

LEMMA SInvHolds == Spec => []SInv
BY SInvInit, SInvStep, PTL DEF Spec

-----------------------------------------------------------------------------
(* The theorems.                                                           *)

\* Every variable of the settings and of the boot keeps its type.
THEOREM SettingsTypeCorrect == Spec => []TypeOK
<1>1. SInv => TypeOK
  BY DEF SInv
<1> QED BY <1>1, SInvHolds, PTL

\* Whatever requests and writes overlap, the directory that is reported is
\* the one whose database is open (app/settings/service.py, apply_update).
THEOREM DirIsTheBootedCorrect == Spec => []DirIsTheBooted
<1>1. SInv => DirIsTheBooted
  BY DEF SInv, MemoryInv, DirIsTheBooted, Serving, Up
<1> QED BY <1>1, SInvHolds, PTL

\* Short of the known hazards, clients have the settings that they were told,
\* after any failed writes, moves and restarts (app/settings/service.py).
THEOREM ToldIsInForceCorrect == Spec => []ToldIsInForce
<1>1. SInv => ToldIsInForce
  BY DEF SInv, ToldInv, ToldIsInForce
<1> QED BY <1>1, SInvHolds, PTL

\* Without a null, no file is taken for a missing one (app/main.py, the
\* lifespan; app/settings/service.py, load_settings_from_disk).
THEOREM FileLoadsCorrect == Spec => []FileLoads
<1>1. SInv => FileLoads
  BY DEF SInv, LoadInv, FileLoads
<1> QED BY <1>1, SInvHolds, PTL

\* For any migration files, a database that is served has all they create,
\* at whatever statement earlier boots died (app/storage/db.py).
THEOREM SchemaIsWholeCorrect == Spec => []SchemaIsWhole
<1>1. SInv => SchemaIsWhole
  BY DEF SInv, SchemaInv, SchemaIsWhole
<1> QED BY <1>1, SInvHolds, PTL

\* A move that clients were told is queued is in force after the next boot
\* (app/settings/service.py, apply_pending).
THEOREM MoveIsInstalledCorrect == Spec => MoveIsInstalled
<1>1. ASSUME SInv, Next, phase = "down", phase' # "down", queued # None,
             past \subseteq {"change after move"}
      PROVE  settings' # None /\ settings'.data_dir = queued.data_dir
  <2>1. /\ TypeOK /\ MemoryInv /\ LoadInv /\ SchemaInv /\ QueueInv
    BY <1>1 DEF SInv
  <2>2. file.pending # None /\ file.pending.data_dir = queued.data_dir
    BY <1>1, <2>1 DEF QueueInv
  <2>3. Loads
    <3>1. "null" \notin past
      BY <1>1
    <3>2. file = NoFile => file.pending = None
      BY DEF NoFile
    <3> QED BY <2>1, <2>2, <3>1, <3>2 DEF LoadInv
  <2>4. BootLoad
    BY <1>1, <2>3 DEF Next, RequestStep, PatchBegin, BurnBegin, BurnRead, Write, WriteFails,
         Serving, BootStep, BootReset, BootDetect, BootConnect, BootMigrate, BootServe,
         BootRefuse, Crash
  <2>5. settings' = file.pending
    BY <2>2, <2>4 DEF BootLoad, Chosen
  <2> QED BY <2>2, <2>5
<1>2. SInv /\ [Next]_vars =>
        [phase = "down" /\ phase' # "down" /\ queued # None
           /\ past \subseteq {"change after move"}
         => settings' # None /\ settings'.data_dir = queued.data_dir]_vars
  BY <1>1
<1> QED BY <1>2, SInvHolds, PTL DEF Spec, MoveIsInstalled

=============================================================================
