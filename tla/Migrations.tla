------------------------------ MODULE Migrations ------------------------------
(***************************************************************************)
(* The migration runner (app/storage/db.py) on the database of a data      *)
(* directory, statement by statement.                                      *)
(*                                                                         *)
(* Outside src/: the sqlite3 driver opens a transaction at the first       *)
(* INSERT only.  Until then every CREATE and ALTER is committed at once;   *)
(* after it nothing is, up to the commit at the end of the block.          *)
(***************************************************************************)
EXTENDS Naturals, Sequences, FiniteSets

CONSTANTS
  Dirs,      \* data directories
  Versions,  \* the numbers of the migration files
  Files,     \* [Versions -> the statements of the file, in order]
  Releases   \* the last file of the releases that a database may come from

\* CREATE ... IF NOT EXISTS creates an object, ALTER TABLE adds a column.
Create(o) == [kind |-> "create", object |-> o]
Alter(o)  == [kind |-> "alter", object |-> o]

Statements(v) == {Files[v][i] : i \in DOMAIN Files[v]}
Objects       == {s.object : s \in UNION {Statements(v) : v \in Versions}}
Created(v)    == {s.object : s \in Statements(v)}

ASSUME MigrationsAssumption ==
  /\ Versions \subseteq Nat /\ IsFiniteSet(Versions)
  /\ DOMAIN Files = Versions
  /\ \A v \in Versions :
       Files[v] \in Seq([kind : {"create", "alter"}, object : Objects])
  /\ Releases \subseteq Nat

VARIABLES
  db,    \* per directory: what is committed, the schema and schema_version
  conn   \* the runner's connection: what it sees, and where it is in a file

dbVars == <<db, conn>>

Empty  == [schema |-> {}, versions |-> {}]
Closed == [open |-> FALSE, seen |-> Empty, inTx |-> FALSE, at |-> 1, dups |-> 0]

MigrationsTypeOK ==
  /\ db \in [Dirs -> [schema : SUBSET Objects, versions : SUBSET Versions]]
  /\ conn \in [open : BOOLEAN, inTx : BOOLEAN, at : Nat, dups : Nat,
               seen : [schema : SUBSET Objects, versions : SUBSET Versions]]

\* The database of an earlier release; of release 0, none.
MigratedBy(k) ==
  LET versions == {v \in Versions : v <= k}
  IN  [schema |-> UNION {Created(v) : v \in versions}, versions |-> versions]

MigrationsInit ==
  /\ db \in [Dirs -> {MigratedBy(k) : k \in Releases}]
  /\ conn = Closed

-----------------------------------------------------------------------------
Unapplied == Versions \ conn.seen.versions

\* Files go by their number.
NextFile == CHOOSE v \in Unapplied : \A w \in Unapplied : v <= w

AtEnd == conn.at > Len(Files[NextFile])

\* engine.begin, and the versions already recorded.
Connect(d) ==
  /\ ~conn.open
  /\ conn' = [Closed EXCEPT !.open = TRUE, !.seen = db[d]]
  /\ UNCHANGED db

\* What the statement does to the schema: outside a transaction at once, for
\* whoever connects after a crash.
Change(d, seen) ==
  db' = IF conn.inTx THEN db ELSE [db EXCEPT ![d] = seen]

\* A statement that is already in the schema: CREATE ... IF NOT EXISTS does
\* nothing, a second ALTER is a duplicate column, which is counted.
ExecuteAgain(s) ==
  /\ s.object \in conn.seen.schema
  /\ conn' = [conn EXCEPT !.at = @ + 1,
                          !.dups = IF s.kind = "alter" THEN @ + 1 ELSE @]
  /\ UNCHANGED db

ExecuteNew(d, s) ==
  LET seen == [conn.seen EXCEPT !.schema = @ \cup {s.object}]
  IN  /\ s.object \notin conn.seen.schema
      /\ conn' = [conn EXCEPT !.at = @ + 1, !.seen = seen]
      /\ Change(d, seen)

Execute(d) ==
  /\ conn.open /\ Unapplied # {} /\ ~AtEnd
  /\ LET s == Files[NextFile][conn.at] IN ExecuteAgain(s) \/ ExecuteNew(d, s)

\* Mutant of HalfApplied: a file of duplicates only is taken for half applied.
HalfOrWhollyApplied == conn.dups > 0

\* Some, but not all, of the file's statements were duplicate columns.
HalfApplied == conn.dups > 0 /\ conn.dups < Len(Files[NextFile])

\* Mutant of Record: the row is written before the statements of its file.
RecordFirst(d) ==
  /\ conn.open /\ Unapplied # {}
  /\ conn' = [conn EXCEPT !.seen.versions = @ \cup {NextFile},
                          !.inTx = TRUE, !.at = 1, !.dups = 0]
  /\ UNCHANGED db

\* INSERT INTO schema_version, which opens the transaction.
Record(d) ==
  /\ conn.open /\ Unapplied # {} /\ AtEnd /\ ~HalfApplied
  /\ conn' = [conn EXCEPT !.seen.versions = @ \cup {NextFile},
                          !.inTx = TRUE, !.at = 1, !.dups = 0]
  /\ UNCHANGED db

\* RuntimeError: the transaction is rolled back and the server does not start.
MustRefuse == conn.open /\ Unapplied # {} /\ AtEnd /\ HalfApplied

\* The end of the block.
Commit(d) ==
  /\ conn.open /\ Unapplied = {}
  /\ db' = [db EXCEPT ![d] = conn.seen]
  /\ conn' = Closed

MigrateStep(d) == Execute(d) \/ Record(d)

-----------------------------------------------------------------------------
\* No table or column is missing from a database that says it has it.
RecordedIsApplied ==
  \A d \in Dirs : \A v \in db[d].versions : Created(v) \subseteq db[d].schema

=============================================================================
