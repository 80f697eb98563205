---------------------------- MODULE DbMigrate ----------------------------
(***************************************************************************)
(* How the backend opens its database and makes it ready to serve: the     *)
(* migrations (webui/backend/app/db.py) and the first administrator        *)
(* (auth.bootstrap_admin), as the lifespan of main.py calls them.  Every   *)
(* statement is committed when it ends, executescript having no            *)
(* transaction of its own, so that a crash between any two is survived by  *)
(* what the first ones did; the version is written after all of them.      *)
(*                                                                         *)
(* A table is what a statement may trip on, its added columns and unique   *)
(* constraints, and what became of the rows an earlier release left in it. *)
(* Sessions and invites are created with the users and left out with the   *)
(* indexes that nothing depends on.  X_Fault is X with a plausible         *)
(* mistake; nothing uses it.                                               *)
(***************************************************************************)
EXTENDS Integers, Sequences, SequencesExt

VARIABLES
  stamp,  \* PRAGMA user_version
  tables, \* the tables there are
  admin,  \* whether the users table has a row
  phase,  \* "closed", "migrate", "bootstrap", "jobs" or "assets" to adopt, "serving"
  ahead,  \* the statements still to be executed
  cut     \* history: the phases in which the backend died

dbVars == << stamp, tables, admin, phase, ahead, cut >>

Statement(does, table, with) == [does |-> does, table |-> table, with |-> with]

MIGRATIONS == <<
  << Statement("create", "jobs", {}), Statement("create", "assets", {"one sha256"}) >>,
  << Statement("create", "users", {}),
     Statement("add", "jobs", "owner"), Statement("add", "assets", "owner") >>,
  << Statement("create", "login_attempts", {}) >>,
  << Statement("create new", "assets_r30", {"owner"}),
     Statement("copy", "assets", "assets_r30"), Statement("drop", "assets", {}),
     Statement("rename", "assets_r30", "assets"),
     Statement("index", "assets", "one sha256 per owner") >>,
  << Statement("add", "jobs", "pid") >> >>

LATEST_VERSION == Len(MIGRATIONS)

Script(version) == FlattenSeq(SubSeq(MIGRATIONS, version + 1, LATEST_VERSION))

(***************************************************************************)
(* What SQLite does with a statement.                                      *)
(***************************************************************************)
Columns(table) == table.shape \cap {"owner", "pid"}

Accepts(s, db) ==
  /\ s.does \in {"add", "copy", "drop", "rename", "index"} => s.table \in DOMAIN db
  /\ s.does = "create new" => s.table \notin DOMAIN db
  /\ s.does = "add" => s.with \notin db[s.table].shape
  /\ s.does = "copy" => s.with \in DOMAIN db /\ Columns(db[s.table]) = Columns(db[s.with])
  /\ s.does = "rename" => s.with \notin DOMAIN db

New(shape) == [shape |-> shape, rows |-> "none"]

Without(db, table) == [t \in DOMAIN db \ {table} |-> db[t]]

\* CREATE TABLE IF NOT EXISTS leaves a table as it is.
Executed(s, db) ==
  CASE s.does \in {"create", "create new"} ->
         IF s.table \in DOMAIN db THEN db ELSE db @@ (s.table :> New(s.with))
    [] s.does \in {"add", "index"} -> [db EXCEPT ![s.table].shape = @ \cup {s.with}]
    [] s.does = "copy"   -> [db EXCEPT ![s.with].rows = db[s.table].rows]
    [] s.does = "drop"   -> Without(db, s.table)
    [] s.does = "rename" -> Without(db, s.table) @@ (s.with :> db[s.table])

\* The schema of a release that ended with this version.
Release(version) ==
  FoldLeft(LAMBDA db, s : Executed(s, db), << >>, FlattenSeq(SubSeq(MIGRATIONS, 1, version)))

Latest == Release(LATEST_VERSION)

(***************************************************************************)
(* The database an earlier release left, none at first.  Version 1 wrote   *)
(* no version; rows have an owner once there is an account.                *)
(***************************************************************************)
Filled(db, owned) ==
  [t \in DOMAIN db |-> [db[t] EXCEPT !.rows = IF t \notin {"jobs", "assets"} THEN "none"
                                             ELSE IF owned THEN "owned" ELSE "ownerless"]]

DbLeft(version) ==
  /\ admin \in (IF version >= 2 THEN BOOLEAN ELSE {FALSE})
  /\ tables = Filled(Release(version), admin)
  /\ stamp = (IF version >= 2 THEN version ELSE 0)
  /\ phase = "closed" /\ ahead = << >> /\ cut = {}

DbInit == \E version \in 0 .. LATEST_VERSION : DbLeft(version)

\* Tables without a version are of version 1.
Version == IF stamp = 0 /\ "jobs" \in DOMAIN tables THEN 1 ELSE stamp

\* The version is written first.
Open_StampsFirst ==
  /\ phase = "closed"
  /\ stamp' = LATEST_VERSION
  /\ ahead' = Script(Version)
  /\ phase' = (IF Version < LATEST_VERSION THEN "migrate" ELSE "bootstrap")
  /\ UNCHANGED << tables, admin, cut >>

Open ==
  /\ phase = "closed"
  /\ \/ /\ Version >= LATEST_VERSION
        /\ stamp' = LATEST_VERSION /\ phase' = "bootstrap"
        /\ UNCHANGED ahead
     \/ /\ Version < LATEST_VERSION
        /\ ahead' = Script(Version) /\ phase' = "migrate"
        /\ UNCHANGED stamp
  /\ UNCHANGED << tables, admin, cut >>

\* One statement of a script; the exception of one that fails ends the backend.
Execute ==
  /\ phase = "migrate" /\ ahead # << >>
  /\ \/ /\ Accepts(Head(ahead), tables)
        /\ tables' = Executed(Head(ahead), tables)
        /\ ahead' = Tail(ahead)
        /\ UNCHANGED phase
     \/ /\ ~ Accepts(Head(ahead), tables)
        /\ phase' = "closed" /\ ahead' = << >>
        /\ UNCHANGED tables
  /\ UNCHANGED << stamp, admin, cut >>

StampVersion ==
  /\ phase = "migrate" /\ ahead = << >>
  /\ stamp' = LATEST_VERSION /\ phase' = "bootstrap"
  /\ UNCHANGED << tables, admin, ahead, cut >>

\* An account is made on an empty table and with a password in the environment;
\* what nobody owned becomes its own, jobs first and assets next.
Adopted(table) == tables' = [tables EXCEPT ![table].rows = IF @ = "ownerless" THEN "owned" ELSE @]

BootstrapAdmin ==
  /\ phase = "bootstrap"
  /\ \/ phase' = "serving" /\ UNCHANGED admin
     \/ ~ admin /\ admin' = TRUE /\ phase' = "jobs"
  /\ UNCHANGED << stamp, tables, ahead, cut >>

Backfill_JobsOnly ==
  /\ phase = "jobs" /\ Adopted("jobs") /\ phase' = "serving"
  /\ UNCHANGED << stamp, admin, ahead, cut >>

Backfill ==
  /\ \/ phase = "jobs" /\ Adopted("jobs") /\ phase' = "assets"
     \/ phase = "assets" /\ Adopted("assets") /\ phase' = "serving"
  /\ UNCHANGED << stamp, admin, ahead, cut >>

StartUp == Open \/ Execute \/ StampVersion \/ BootstrapAdmin \/ Backfill

\* The backend is stopped or dies, at any step.
Dies ==
  /\ phase # "closed"
  /\ cut' = cut \cup ({phase} \ {"serving"})
  /\ phase' = "closed" /\ ahead' = << >>
  /\ UNCHANGED << stamp, tables, admin >>

(***************************************************************************)
(* What a reader of db.py counts on.                                       *)
(***************************************************************************)
ServesLatest ==
  phase \in {"bootstrap", "jobs", "assets", "serving"} =>
    /\ stamp = LATEST_VERSION /\ DOMAIN tables = DOMAIN Latest
    /\ \A t \in DOMAIN tables : tables[t].shape = Latest[t].shape

Holds(table) == table \in DOMAIN tables /\ tables[table].rows # "none"

\* Rows move from one table to the other and are in one of them at any time.
RowsSurvive(jobsThere) == jobsThere => Holds("jobs") /\ (Holds("assets") \/ Holds("assets_r30"))

RefusesOnlyCut ==
  phase = "migrate" /\ ahead # << >> /\ ~ Accepts(Head(ahead), tables) => "migrate" \in cut

EveryRowOwned == \A t \in {"jobs", "assets"} : tables[t].rows # "ownerless"
=============================================================================
