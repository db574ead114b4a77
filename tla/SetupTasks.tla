----------------------------- MODULE SetupTasks -----------------------------
(***************************************************************************)
(* Tasks, their statements, evaluation sets and assets (handlers/tasks.go, *)
(* handlers/evaluation_sets.go).  Create of a task is three inserts, an    *)
(* upload of a statement a write to the object store and one to the row,   *)
(* and assets are upserted one by one.  Presigned URLs are left out: a     *)
(* client may complete an asset whether or not it has put the object.      *)
(***************************************************************************)
EXTENDS SetupTables

NewTask(c, schema, statement) == [contest |-> c, schema |-> schema, statement |-> statement]

CreateTask(h, c, t, schema, statement) ==
  /\ ContestExists(c) /\ task[t] = None
  /\ task' = [task EXCEPT ![t] = NewTask(c, schema, statement)]
  /\ Begin(h, [Idle EXCEPT !.op = "add_set", !.task = t, !.left = SetKeys])
  /\ UNCHANGED <<contest, sets, taskAssets, setAssets, objects, phaseVars>>

\* CreateEvaluationSet: an error when the task is gone or has the set.
MayAddSet(t, k) == TaskExists(t) /\ k \notin sets[t]
InsertSet(t, k) == sets' = [sets EXCEPT ![t] = @ \cup {k}]

\* The rest of Create; its first error leaves the task as it is.
AddEvaluationSet(h) ==
  LET r == req[h] IN
  /\ r.op = "add_set"
  /\ IF r.left # <<>> /\ MayAddSet(r.task, Head(r.left))
     THEN InsertSet(r.task, Head(r.left)) /\ Goto(h, [r EXCEPT !.left = Tail(r.left)])
     ELSE Done(h) /\ UNCHANGED sets
  /\ UNCHANGED <<contest, task, taskAssets, setAssets, objects, phaseVars, verified>>

CreateEvaluationSet(t, k) ==
  /\ MayAddSet(t, k)
  /\ InsertSet(t, k)
  /\ OneStatement
  /\ UNCHANGED <<contest, task, taskAssets, setAssets, objects, phaseVars>>

\* Columns that the request does not name keep their values.
Updated(row, schema, statement) ==
  [row EXCEPT !.schema = Coalesce(schema, @), !.statement = Coalesce(statement, @)]
UpdateTask(t, schema, statement) ==
  /\ TaskExists(t)
  /\ task' = [task EXCEPT ![t] = Updated(@, schema, statement)]
  /\ OneStatement
  /\ UNCHANGED <<contest, sets, taskAssets, setAssets, objects, phaseVars>>

\* GetStatement: a link redirects, any other text is read as a key.
Served(t) == TaskExists(t) /\ (task[t].statement = "link" \/ task[t].statement \in objects)

\* The rows of a set of tasks and everything that cascades from them.
RemoveTasks(ts) ==
  /\ task' = [t \in Tasks |-> IF t \in ts THEN Gone ELSE task[t]]
  /\ sets' = [t \in Tasks |-> IF t \in ts THEN {} ELSE sets[t]]
  /\ taskAssets' = [t \in Tasks |-> IF t \in ts THEN {} ELSE taskAssets[t]]
  /\ setAssets' = [t \in Tasks |-> IF t \in ts THEN [k \in Sets |-> {}] ELSE setAssets[t]]
RemovePhases(ps) == phase' = [p \in Phases |-> IF p \in ps THEN Gone ELSE phase[p]]

DeleteTask(t) ==
  /\ TaskExists(t)
  /\ Unused(PhasesOf(t))
  /\ RemoveTasks({t})
  /\ RemovePhases(PhasesOf(t))
  /\ OneStatement
  /\ UNCHANGED <<contest, objects, defs, used, dropped>>

\* Mutant of UploadStatement: the row is updated first.
UploadRowFirst(h, t) ==
  /\ TaskExists(t)
  /\ Begin(h, [Idle EXCEPT !.op = "statement", !.task = t])
  /\ UNCHANGED <<contest, taskVars, phaseVars>>

\* UploadStatement reads the task, writes the object, then the row.
UploadStatement(h, t) ==
  /\ TaskExists(t)
  /\ Begin(h, [Idle EXCEPT !.op = "upload", !.task = t])
  /\ UNCHANGED <<contest, taskVars, phaseVars>>

UploadObject(h) ==
  LET r == req[h] IN
  /\ r.op = "upload"
  /\ objects' = objects \cup {r.task}
  /\ Goto(h, [r EXCEPT !.op = "statement"])
  /\ UNCHANGED <<contest, task, sets, taskAssets, setAssets, phaseVars, verified>>

SetStatement(h) ==
  LET t == req[h].task IN
  /\ req[h].op = "statement"
  /\ task' = IF TaskExists(t) THEN [task EXCEPT ![t] = Updated(@, None, t)] ELSE task
  /\ Done(h)
  /\ UNCHANGED <<contest, sets, taskAssets, setAssets, objects, phaseVars, verified>>

\* CompleteTaskAssets and CompleteAssets read the row they are about, then
\* upsert what the client lists, up to the first bad object key.
CompleteTaskAssets(h, t, list) ==
  /\ TaskExists(t)
  /\ Begin(h, [Idle EXCEPT !.op = "task_asset", !.task = t, !.left = list])
  /\ UNCHANGED <<contest, taskVars, phaseVars>>

CompleteAssets(h, t, k, list) ==
  /\ TaskExists(t) /\ k \in sets[t]
  /\ Begin(h, [Idle EXCEPT !.op = "set_asset", !.task = t, !.set = k, !.left = list])
  /\ UNCHANGED <<contest, taskVars, phaseVars>>

\* Mutant of UpsertTaskAsset: the assets of the request replace the others.
ReplaceTaskAssets(t, a) == taskAssets' = [taskAssets EXCEPT ![t] = {a}]
UpsertTaskAsset(t, a) == taskAssets' = [taskAssets EXCEPT ![t] = @ \cup {a}]

AddTaskAsset(h) ==
  LET r == req[h] IN
  /\ r.op = "task_asset"
  /\ IF r.left # <<>> /\ TaskExists(r.task)
     THEN UpsertTaskAsset(r.task, Head(r.left)) /\ Goto(h, [r EXCEPT !.left = Tail(r.left)])
     ELSE Done(h) /\ UNCHANGED taskAssets
  /\ UNCHANGED <<contest, task, sets, setAssets, objects, phaseVars, verified>>

UpsertSetAsset(t, k, a) == setAssets' = [setAssets EXCEPT ![t][k] = @ \cup {a}]

AddSetAsset(h) ==
  LET r == req[h] IN
  /\ r.op = "set_asset"
  /\ IF r.left # <<>> /\ TaskExists(r.task)
     THEN UpsertSetAsset(r.task, r.set, Head(r.left)) /\ Goto(h, [r EXCEPT !.left = Tail(r.left)])
     ELSE Done(h) /\ UNCHANGED setAssets
  /\ UNCHANGED <<contest, task, sets, taskAssets, objects, phaseVars, verified>>
=============================================================================
