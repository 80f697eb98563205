---------------------------- MODULE MCBackend ----------------------------
(***************************************************************************)
(* The backend's database and its event streams for TLC: either the        *)
(* database of any earlier release is opened, by a backend that may die at *)
(* any step and is started again, or a good one is opened and the jobs of  *)
(* module JobEvents follow.                                                *)
(***************************************************************************)
EXTENDS MCJobEvents, DbMigrate

VARIABLES scope, \* "database" or "events"
          old    \* whether an earlier release left rows

backendVars == << scope, old, dbVars, vars >>

BackendInit ==
  /\ Init
  /\ \/ scope = "database" /\ DbInit
     \/ scope = "events" /\ DbLeft(LATEST_VERSION) /\ admin
  /\ old = ("jobs" \in DOMAIN tables)

Serving == scope = "events" /\ phase = "serving"

BackendNext ==
  \/ StartUp /\ UNCHANGED << scope, old, vars >>
  \/ scope = "database" /\ Dies /\ UNCHANGED << scope, old, vars >>
  \/ Serving /\ Next /\ UNCHANGED << scope, old, dbVars >>

\* The fairness of JobEvents, for a backend that serves.
ServingFairness ==
  /\ WF_vars(Serving /\ Submit) /\ WF_vars(Serving /\ WorkerStep) /\ WF_vars(Serving /\ CancelWrites)
  /\ \A e \in Threads : WF_vars(Serving /\ Emission(e))
  /\ \A c \in Clients :
       /\ WF_vars(Serving /\ ClientRegisters(c)) /\ WF_vars(Serving /\ ClientSnapshot(c))
       /\ WF_vars(Serving /\ ClientYields(c))

BackendSpec == BackendInit /\ [][BackendNext]_backendVars /\ ServingFairness

\* Whatever release left the database and wherever its migration was interrupted,
\* no row is ever lost (db.py:7-9), the backend serves on the whole latest schema
\* or not at all, and a start fails only after a migration was interrupted.
MigrationIsSafe == scope = "database" => ServesLatest /\ RowsSurvive(old) /\ RefusesOnlyCut

\* A backend that serves with an account has given it every row from before there
\* were accounts (auth.py:87-90, db.py:52), in whichever start it was made, unless
\* one died after it had made the account and before it had adopted the rows:
\* nobody adopts them later, since there is an account by then.
OldRowsAdopted ==
  scope = "database" /\ phase = "serving" /\ admin /\ cut \cap {"jobs", "assets"} = {} => EveryRowOwned
=============================================================================
