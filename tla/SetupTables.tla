---------------------------- MODULE SetupTables ----------------------------
(***************************************************************************)
(* The tables an administrator fills before and while a contest runs, with *)
(* the constraints the migrations declare: contests, tasks, evaluation     *)
(* sets, their assets, phase definitions and phases.  As in ContestTables  *)
(* a request is a sequence of SQL statements without a transaction, and a  *)
(* deleted row stays Gone.                                                 *)
(***************************************************************************)
EXTENDS Integers, Sequences, FiniteSets

CONSTANTS
  Contests, Tasks, Phases,   \* identifiers of the rows
  SetKeys,                   \* evaluation_set_key, in the order Create uses
  StandardKeys,              \* contest_phase_key, in the order List uses
  AssetKeys,                 \* names of assets
  Schemas,                   \* submission schemas: the assets each asks for
  Limits,                    \* values of submission_limit
  Handlers,                  \* requests served at the same time
  None, Gone,                \* no row yet; a deleted row
  MaxRequests,               \* bound on the requests served
  Faults                     \* TRUE: a statement may fail

Keys == {StandardKeys[i] : i \in DOMAIN StandardKeys}
Sets == {SetKeys[i] : i \in DOMAIN SetKeys}

ASSUME SetupAssumption ==
  /\ MaxRequests \in Nat /\ Faults \in BOOLEAN
  /\ Schemas \subseteq [task : SUBSET AssetKeys, eval : SUBSET AssetKeys]
  /\ {"judge.py", "ground_truth", "inputs"} \subseteq AssetKeys
  /\ StandardKeys \in Seq(Keys) /\ SetKeys \in Seq(Sets)
  /\ Limits \subseteq Nat
  /\ None \notin Nat \cup Tasks \cup Contests
  /\ Gone # None

VARIABLES
  contest,      \* status of each contest
  task,         \* the tasks
  sets,         \* keys of the evaluation sets of each task
  taskAssets,   \* task_assets of each task
  setAssets,    \* evaluation_set_assets of each task and set
  objects,      \* tasks whose tasks/<id>/statement.pdf is in the object store
  defs,         \* phase definitions of each contest
  phase,        \* the phases
  used,         \* phases that have submissions
  req,          \* the requests in progress
  begun,        \* number of requests begun
  verified,     \* what the publications that succeeded had checked
  dropped       \* phase definitions an administrator ever deleted

taskVars == <<task, sets, taskAssets, setAssets, objects>>
phaseVars == <<defs, phase, used, dropped>>
vars == <<contest, taskVars, phaseVars, req, begun, verified>>

\* problem_statement_url: empty, a link to elsewhere, the task whose object it
\* names, or a key that is none of these.  The path of the endpoint names the
\* object of the row's own task.
Statements == {"none", "link", "other"} \cup Tasks
TaskRow == [contest : Contests, schema : Schemas, statement : Statements]
PhaseRow == [task : Tasks, def : Contests \X Keys, set : Sets,
             limit : Limits \cup {None}, frozen : BOOLEAN]

ASSUME NoRowAssumption ==
  /\ None \notin TaskRow \cup PhaseRow
  /\ Gone \notin TaskRow \cup PhaseRow

\* What a publication has checked of a task.
Checked == [task : Tasks, schema : Schemas, sets : SUBSET Sets]

Idle == [op |-> "idle", contest |-> None, task |-> None, schema |-> None, set |-> None,
         keys |-> {}, left |-> <<>>, todo |-> {}, rest |-> {}, found |-> {}, checked |-> {},
         ok |-> TRUE, seeded |-> FALSE]

Ops == {"idle", "publish", "list_sets", "check_set", "add_set", "upload", "statement",
        "task_asset", "set_asset", "seed", "relist"}

Request ==
  [op : Ops, contest : Contests \cup {None}, task : Tasks \cup {None},
   schema : Schemas \cup {None}, set : Sets \cup {None},
   keys : SUBSET Keys, left : Seq(Sets \cup AssetKeys), todo : SUBSET (Tasks \X Schemas),
   rest : SUBSET Sets, found : SUBSET Sets, checked : SUBSET Checked,
   ok : BOOLEAN, seeded : BOOLEAN]

ContestExists(c) == contest[c] \notin {"none", "gone"}
TaskExists(t) == task[t] \notin {None, Gone}
PhaseExists(p) == phase[p] \notin {None, Gone}
PhasesOf(t) == {p \in Phases : PhaseExists(p) /\ phase[p].task = t}
PhasesBy(d) == {p \in Phases : PhaseExists(p) /\ phase[p].def = d}

\* Mutant of Unused: the foreign key cascades.
UnusedOrNot(ps) == ps \subseteq Phases
\* The foreign key of submissions on a phase has no ON DELETE clause.
Unused(ps) == ps \cap used = {}

\* publishRequiredAssets: what the schema asks for, or the defaults.
OrDefault(keys, default) == IF keys = {} THEN default ELSE keys
TaskRequired(schema) == OrDefault(schema.task, {"judge.py"})
EvalRequired(schema) == OrDefault(schema.eval, {"ground_truth", "inputs"})

\* Mutant of Coalesce: a column that the request leaves out is emptied.
Overwrite(new, old) == IF new = None THEN None ELSE new
Coalesce(new, old) == IF new = None THEN old ELSE new

Serve == begun < MaxRequests /\ begun' = begun + 1
OneStatement == Serve /\ UNCHANGED <<req, verified>>
Begin(h, r) == Serve /\ req[h] = Idle /\ req' = [req EXCEPT ![h] = r] /\ UNCHANGED verified
Goto(h, r) == req' = [req EXCEPT ![h] = r] /\ UNCHANGED begun
Done(h) == Goto(h, Idle)
=============================================================================
