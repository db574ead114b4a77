---------------------------- MODULE ContestSetup ----------------------------
(***************************************************************************)
(* Contests, from draft to archive, with the tasks and phases they are     *)
(* made of (handlers/contests.go).  Publish checks task by task and set by *)
(* set that every asset the judges need is there, and then opens the       *)
(* contest: some ten statements during which other administrators work.    *)
(***************************************************************************)
EXTENDS SetupTasks, SetupPhases

CONSTANTS
  Drafts,       \* the contests there are at first
  Prepared,     \* the contest of each task there is at first, with all assets
  Schema,       \* and its submission schema
  AssetLists,   \* the lists of assets that clients complete
  Frozen,       \* the values of is_frozen that requests name
  Urls          \* the values of problem_statement_url that requests name

ASSUME PreparedAssumption ==
  /\ Drafts \subseteq Contests /\ Schema \in Schemas
  /\ Prepared \in [Tasks -> Drafts \cup {None}]
  /\ AssetLists \subseteq Seq(AssetKeys)
  /\ Frozen \subseteq BOOLEAN
  /\ Urls \subseteq Statements

Ready(t) == Prepared[t] # None

\* Drafts, of which some have a task that is complete.
Init ==
  /\ contest = [c \in Contests |-> IF c \in Drafts THEN "draft" ELSE "none"]
  /\ task = [t \in Tasks |-> IF Ready(t)
                             THEN NewTask(Prepared[t], Schema, "none") ELSE None]
  /\ sets = [t \in Tasks |-> IF Ready(t) THEN Sets ELSE {}]
  /\ taskAssets = [t \in Tasks |-> IF Ready(t) THEN TaskRequired(Schema) ELSE {}]
  /\ setAssets = [t \in Tasks |-> [k \in Sets |->
                     IF Ready(t) THEN EvalRequired(Schema) ELSE {}]]
  /\ objects = {}
  /\ defs = [c \in Contests |-> {}]
  /\ phase = [p \in Phases |-> None]
  /\ used = {} /\ dropped = {} /\ verified = {}
  /\ req = [h \in Handlers |-> Idle]
  /\ begun = 0

CreateContest(c) ==
  /\ contest[c] = "none"
  /\ contest' = [contest EXCEPT ![c] = "draft"]
  /\ OneStatement
  /\ UNCHANGED <<taskVars, phaseVars>>

\* UpdateContestStatus looks at no earlier status.
SetStatus(c, s) == contest' = [contest EXCEPT ![c] = s]

Archive(c) ==
  /\ ContestExists(c)
  /\ SetStatus(c, "archived")
  /\ OneStatement
  /\ UNCHANGED <<taskVars, phaseVars>>

\* Everything of the contest cascades, its submissions included.  A phase of
\* another contest with a definition of this one cascades too, unless it has
\* submissions, which then refuse the deletion.
TasksOf(c) == {t \in Tasks : TaskExists(t) /\ task[t].contest = c}
PhasesIn(c) == UNION {PhasesOf(t) : t \in TasksOf(c)}
PhasesWith(c) == UNION {PhasesBy(<<c, k>>) : k \in Keys}
DeleteContest(c) ==
  /\ ContestExists(c)
  /\ Unused(PhasesWith(c) \ PhasesIn(c))
  /\ contest' = [contest EXCEPT ![c] = "gone"]
  /\ RemoveTasks(TasksOf(c))
  /\ defs' = [defs EXCEPT ![c] = {}]
  /\ RemovePhases(PhasesIn(c) \cup PhasesWith(c))
  /\ OneStatement
  /\ UNCHANGED <<objects, used, dropped>>

\* ensurePublishReady: the tasks with their schemas as they are now.
Publish(h, c) ==
  /\ TasksOf(c) # {}
  /\ Begin(h, [Idle EXCEPT !.op = "publish", !.contest = c,
                           !.todo = {<<t, task[t].schema>> : t \in TasksOf(c)}])
  /\ UNCHANGED <<contest, taskVars, phaseVars>>

CheckTaskAssets(h) ==
  LET r == req[h] IN
  /\ r.op = "publish"
  /\ \E x \in r.todo :
       Goto(h, [r EXCEPT !.op = "list_sets", !.todo = @ \ {x}, !.task = x[1], !.schema = x[2],
                         !.ok = @ /\ TaskRequired(x[2]) \subseteq taskAssets[x[1]]])
  /\ UNCHANGED <<contest, taskVars, phaseVars, verified>>

\* A task without sets is not ready; the others are looked at all the same.
ListEvaluationSets(h) ==
  LET r == req[h] IN
  /\ r.op = "list_sets"
  /\ Goto(h, IF sets[r.task] = {} THEN [r EXCEPT !.op = "publish", !.ok = FALSE]
             ELSE [r EXCEPT !.op = "check_set", !.rest = sets[r.task], !.found = sets[r.task]])
  /\ UNCHANGED <<contest, taskVars, phaseVars, verified>>

CheckSetAssets(h) ==
  LET r == req[h] IN
  /\ r.op = "check_set"
  /\ \E k \in r.rest :
       Goto(h, [r EXCEPT !.op = IF r.rest = {k} THEN "publish" ELSE "check_set",
                         !.rest = @ \ {k},
                         !.ok = @ /\ EvalRequired(r.schema) \subseteq setAssets[r.task][k],
                         !.checked = IF r.rest = {k}
                           THEN @ \cup {[task |-> r.task, schema |-> r.schema, sets |-> r.found]}
                           ELSE @])
  /\ UNCHANGED <<contest, taskVars, phaseVars, verified>>

NotReady(h) ==
  /\ req[h].op = "publish" /\ req[h].todo = {} /\ ~req[h].ok
  /\ Done(h)
  /\ UNCHANGED <<contest, taskVars, phaseVars, verified>>

\* The last statement of Publish.
OpenRegistration(h) ==
  LET r == req[h] IN
  /\ r.op = "publish" /\ r.todo = {} /\ r.ok
  /\ IF ContestExists(r.contest)
     THEN /\ SetStatus(r.contest, "registration_open")
          /\ verified' = verified \cup r.checked
     ELSE UNCHANGED <<contest, verified>>
  /\ Done(h)
  /\ UNCHANGED <<taskVars, phaseVars>>

\* A statement fails, or a bad object key ends the list of assets: every
\* handler here answers with an error and leaves what it has done.
StatementFails(h) ==
  /\ Faults
  /\ req[h] # Idle
  /\ Done(h)
  /\ UNCHANGED <<contest, taskVars, phaseVars, verified>>

ContestStep ==
  \E c \in Contests : \/ CreateContest(c) \/ Archive(c) \/ DeleteContest(c)
                      \/ \E h \in Handlers : Publish(h, c)
PublishStep(h) ==
  CheckTaskAssets(h) \/ ListEvaluationSets(h) \/ CheckSetAssets(h) \/ NotReady(h) \/ OpenRegistration(h)

TaskRequest ==
  \E t \in Tasks :
    \/ DeleteTask(t)
    \/ \E k \in Sets : CreateEvaluationSet(t, k)
    \/ \E s \in Schemas \cup {None}, url \in Urls \cup {None} : UpdateTask(t, s, url)
    \/ \E h \in Handlers :
         \/ \E c \in Contests, s \in Schemas, url \in Urls \cup {"none"} : CreateTask(h, c, t, s, url)
         \/ UploadStatement(h, t)
         \/ \E list \in AssetLists : CompleteTaskAssets(h, t, list)
                                     \/ \E k \in Sets : CompleteAssets(h, t, k, list)
TaskStep(h) == AddEvaluationSet(h) \/ UploadObject(h) \/ SetStatement(h) \/ AddTaskAsset(h) \/ AddSetAsset(h)

PhaseRequest ==
  \/ \E c \in Contests : \/ \E k \in Keys : CreatePhaseDef(c, k) \/ DeletePhaseDef(c, k)
                         \/ \E h \in Handlers : ListPhaseDefs(h, c)
  \/ \E p \in Phases :
       \/ \E t \in Tasks, d \in Contests \X Keys, k \in Sets, l \in Limits \cup {None} :
            CreatePhase(p, t, d, k, l)
       \/ \E l \in Limits \cup {None}, f \in Frozen \cup {None} : UpdatePhase(p, l, f)
       \/ \E f \in Frozen : SetPhaseFrozen(p, f)
       \/ DeletePhase(p)
       \/ Submit(p)
PhaseStep(h) == SeedPhaseDef(h) \/ SeedConflict(h) \/ SeedingEnds(h) \/ Relist(h)

Next ==
  \/ ContestStep \/ TaskRequest \/ PhaseRequest
  \/ \E h \in Handlers : PublishStep(h) \/ TaskStep(h) \/ PhaseStep(h) \/ StatementFails(h)

Spec == Init /\ [][Next]_vars
-----------------------------------------------------------------------------
TypeOK ==
  /\ contest \in [Contests -> {"none", "draft", "registration_open", "archived", "gone"}]
  /\ task \in [Tasks -> TaskRow \cup {None, Gone}]
  /\ sets \in [Tasks -> SUBSET Sets]
  /\ taskAssets \in [Tasks -> SUBSET AssetKeys]
  /\ setAssets \in [Tasks -> [Sets -> SUBSET AssetKeys]]
  /\ objects \subseteq Tasks
  /\ defs \in [Contests -> SUBSET Keys]
  /\ phase \in [Phases -> PhaseRow \cup {None, Gone}]
  /\ used \subseteq Phases /\ dropped \subseteq Contests \X Keys
  /\ req \in [Handlers -> Request]
  /\ begun \in 0 .. MaxRequests /\ verified \subseteq Checked

\* What a publication has checked of a task stays true while the task
\* exists, whatever the other administrators do before and after the
\* contest opens: it has the task assets and a set, and each set that was
\* listed has its assets.  Tasks, sets and schemas that come later are not
\* covered: nothing checks them.
StillReady(v) ==
  TaskExists(v.task) =>
    /\ TaskRequired(v.schema) \subseteq taskAssets[v.task]
    /\ v.sets # {} /\ v.sets \subseteq sets[v.task]
    /\ \A k \in v.sets : EvalRequired(v.schema) \subseteq setAssets[v.task][k]
VerifiedStaysReady == \A v \in verified : StillReady(v)

\* Every phase has its task, a set of that very task and its definition,
\* whatever is deleted and in whatever order.
PhasesAnchored ==
  \A p \in Phases : PhaseExists(p) =>
    LET r == phase[p] IN
    /\ TaskExists(r.task) /\ ContestExists(task[r.task].contest)
    /\ r.set \in sets[r.task] /\ r.def[2] \in defs[r.def[1]]

\* A phase with submissions goes only with its own contest: no deletion of a
\* task, of a definition or of another contest takes submissions along.
UsedPhasesKept ==
  [][\A p \in Phases : (PhaseExists(p) /\ p \in used /\ ~PhaseExists(p)') =>
       contest'[task[phase[p].task].contest] = "gone"]_vars

\* A statement that readers can get stays so as long as its task is there:
\* uploads, which replace the object and then the row, never leave them
\* without, wherever they fail and whatever overlaps.  Only an administrator
\* who names another statement can, as nothing asks for the object then.
StatementStaysServed ==
  [][\A t \in Tasks : Served(t) /\ TaskExists(t)' =>
       \/ Served(t)'
       \/ \E s \in Schemas \cup {None}, url \in Urls : UpdateTask(t, s, url)]_vars

\* Requests that seed the definitions of a contest at the same time complete
\* each other: each standard key that one has passed is there, whoever
\* inserted it, unless it was deleted.
SeedingCompletes ==
  \A h \in Handlers :
    LET r == req[h] IN
    r.op \in {"seed", "relist"} /\ ContestExists(r.contest) =>
      \A k \in Keys : k \in defs[r.contest] \cup r.keys \/ <<r.contest, k>> \in dropped

\* No request lifts the limit of a phase that has one (LimitsStay proves it).
LimitKept ==
  [][\A p \in Phases : (PhaseExists(p) /\ phase[p].limit # None /\ PhaseExists(p)') =>
       phase'[p].limit # None]_vars
=============================================================================
