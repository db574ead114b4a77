------------------------- MODULE ContestSetupProofs -------------------------
(***************************************************************************)
(* What the tables of the administrators keep, whatever their requests do  *)
(* to each other and wherever they fail.                                   *)
(***************************************************************************)
EXTENDS ContestSetup, SequenceTheorems, TLAPS

\* What a request knows at each of its statements.
Knows(r) ==
  /\ r.op \in {"publish", "list_sets", "check_set", "seed", "relist"} => r.contest \in Contests
  /\ r.op \in {"list_sets", "check_set"} => r.schema \in Schemas
  /\ r.op \in {"list_sets", "check_set", "add_set", "upload", "statement", "task_asset",
               "set_asset"} => r.task \in Tasks
  /\ r.op = "set_asset" => r.set \in Sets
  /\ r.op = "add_set" => r.left \in Seq(Sets)
  /\ r.op \in {"task_asset", "set_asset"} => r.left \in Seq(AssetKeys)

TypeInv == TypeOK /\ \A h \in Handlers : Knows(req[h])

\* The tables other than the requests.
RowsTyped ==
  /\ contest \in [Contests -> {"none", "draft", "registration_open", "archived", "gone"}]
  /\ task \in [Tasks -> TaskRow \cup {None, Gone}]
  /\ sets \in [Tasks -> SUBSET Sets]
  /\ taskAssets \in [Tasks -> SUBSET AssetKeys]
  /\ setAssets \in [Tasks -> [Sets -> SUBSET AssetKeys]]
  /\ objects \subseteq Tasks
  /\ defs \in [Contests -> SUBSET Keys]
  /\ phase \in [Phases -> PhaseRow \cup {None, Gone}]
  /\ used \subseteq Phases /\ dropped \subseteq Contests \X Keys
  /\ verified \subseteq Checked

LEMMA TypesSplit ==
  TypeInv <=> /\ RowsTyped /\ begun \in 0 .. MaxRequests
              /\ req \in [Handlers -> {r \in Request : Knows(r)}]
BY DEF TypeInv, TypeOK, RowsTyped

LEMMA TypesJoin ==
  ASSUME RowsTyped', begun' \in 0 .. MaxRequests,
         req' \in [Handlers -> {r \in Request : Knows(r)}]
  PROVE  TypeInv'
BY DEF TypeInv, TypeOK, RowsTyped

LEMMA IdleKnows == Idle \in Request /\ Knows(Idle)
<1>1. <<>> \in Seq(Sets \cup AssetKeys)
  OBVIOUS
<1>2. QED
  BY <1>1 DEF Idle, Request, Ops, Knows

\* The step of a handler leaves a request that is typed.
LEMMA RequestsTyped ==
  ASSUME TypeInv, NEW h \in Handlers, NEW r \in Request, Knows(r), Begin(h, r) \/ Goto(h, r)
  PROVE  begun' \in 0 .. MaxRequests /\ req' \in [Handlers -> {q \in Request : Knows(q)}]
BY TypesSplit, SetupAssumption DEF Begin, Goto, Serve

LEMMA DoneTyped ==
  ASSUME TypeInv, NEW h \in Handlers, Done(h)
  PROVE  begun' \in 0 .. MaxRequests /\ req' \in [Handlers -> {q \in Request : Knows(q)}]
BY IdleKnows, RequestsTyped DEF Done

LEMMA OneTyped ==
  ASSUME TypeInv, OneStatement
  PROVE  begun' \in 0 .. MaxRequests /\ req' \in [Handlers -> {q \in Request : Knows(q)}]
BY TypesSplit, SetupAssumption DEF OneStatement, Serve

\* The lists of a request go through sequences of sets or of assets.
LEMMA Lists ==
  /\ SetKeys \in Seq(Sets) /\ Seq(Sets) \subseteq Seq(Sets \cup AssetKeys)
  /\ AssetLists \subseteq Seq(AssetKeys) /\ Seq(AssetKeys) \subseteq Seq(Sets \cup AssetKeys)
  /\ \A S : \A q \in Seq(S) : q # <<>> => Head(q) \in S /\ Tail(q) \in Seq(S)
<1>1. Seq(Sets) \subseteq Seq(Sets \cup AssetKeys) /\ Seq(AssetKeys) \subseteq Seq(Sets \cup AssetKeys)
  BY SeqMonotonic
<1>2. ASSUME NEW S, NEW q \in Seq(S), q # <<>> PROVE Head(q) \in S /\ Tail(q) \in Seq(S)
  BY <1>2, HeadTailProperties
<1>3. QED
  BY <1>1, <1>2, SetupAssumption, PreparedAssumption

\* What a schema asks for are assets.
LEMMA RequiredTyped ==
  ASSUME NEW s \in Schemas
  PROVE  TaskRequired(s) \subseteq AssetKeys /\ EvalRequired(s) \subseteq AssetKeys
BY SetupAssumption DEF TaskRequired, EvalRequired, OrDefault

LEMMA InitTypes == Init => TypeInv
<1> SUFFICES ASSUME Init PROVE TypeInv
  OBVIOUS
<1>1. req \in [Handlers -> {r \in Request : Knows(r)}] /\ begun \in 0 .. MaxRequests
  BY IdleKnows, SetupAssumption DEF Init
<1>2. task \in [Tasks -> TaskRow \cup {None, Gone}]
  BY PreparedAssumption DEF Init, Ready, NewTask, TaskRow, Statements
<1>3. /\ taskAssets \in [Tasks -> SUBSET AssetKeys]
      /\ setAssets \in [Tasks -> [Sets -> SUBSET AssetKeys]]
  BY RequiredTyped, PreparedAssumption DEF Init
<1>4. RowsTyped
  BY <1>2, <1>3 DEF Init, RowsTyped
<1>5. QED
  BY <1>1, <1>4, TypesSplit

LEMMA ContestTypes == TypeInv /\ ContestStep => TypeInv'
<1> SUFFICES ASSUME TypeInv, ContestStep PROVE TypeInv'
  OBVIOUS
<1>0. RowsTyped
  BY TypesSplit
<1> USE DEF taskVars, phaseVars
<1>1. ASSUME NEW c \in Contests, CreateContest(c) \/ Archive(c) PROVE TypeInv'
  <2>1. begun' \in 0 .. MaxRequests /\ req' \in [Handlers -> {q \in Request : Knows(q)}]
    BY <1>1, OneTyped DEF CreateContest, Archive
  <2>2. RowsTyped'
    BY <1>0, <1>1 DEF CreateContest, Archive, SetStatus, OneStatement, RowsTyped
  <2>3. QED
    BY <2>1, <2>2, TypesJoin
<1>2. ASSUME NEW c \in Contests, DeleteContest(c) PROVE TypeInv'
  <2>1. begun' \in 0 .. MaxRequests /\ req' \in [Handlers -> {q \in Request : Knows(q)}]
    BY <1>2, OneTyped DEF DeleteContest
  <2>2. /\ contest' \in [Contests -> {"none", "draft", "registration_open", "archived", "gone"}]
        /\ task' \in [Tasks -> TaskRow \cup {None, Gone}]
        /\ sets' \in [Tasks -> SUBSET Sets] /\ taskAssets' \in [Tasks -> SUBSET AssetKeys]
        /\ setAssets' \in [Tasks -> [Sets -> SUBSET AssetKeys]]
    BY <1>0, <1>2 DEF DeleteContest, RemoveTasks, RowsTyped
  <2>3. phase' \in [Phases -> PhaseRow \cup {None, Gone}] /\ defs' \in [Contests -> SUBSET Keys]
    BY <1>0, <1>2 DEF DeleteContest, RemovePhases, RowsTyped
  <2>4. UNCHANGED <<objects, used, dropped, verified>>
    BY <1>2 DEF DeleteContest, OneStatement
  <2>5. QED
    BY <1>0, <2>1, <2>2, <2>3, <2>4, TypesJoin DEF RowsTyped
<1>3. ASSUME NEW c \in Contests, NEW h \in Handlers, Publish(h, c) PROVE TypeInv'
  <2> DEFINE todo == {<<t, task[t].schema>> : t \in TasksOf(c)}
             r == [Idle EXCEPT !.op = "publish", !.contest = c, !.todo = todo]
  <2>1. todo \in SUBSET (Tasks \X Schemas)
    BY <1>0 DEF TasksOf, TaskExists, RowsTyped, TaskRow
  <2>2. Begin(h, r) /\ UNCHANGED <<contest, taskVars, phaseVars, verified>>
    BY <1>3 DEF Publish, Begin
  <2> HIDE DEF todo
  <2>3. r \in Request /\ Knows(r)
    BY <2>1, IdleKnows DEF Request, Ops, Idle, Knows
  <2>4. begun' \in 0 .. MaxRequests /\ req' \in [Handlers -> {q \in Request : Knows(q)}]
    BY <2>2, <2>3, RequestsTyped
  <2>5. QED
    BY <1>0, <2>2, <2>4, TypesJoin DEF RowsTyped
<1>4. QED
  BY <1>1, <1>2, <1>3 DEF ContestStep

LEMMA PublishTypes ==
  ASSUME TypeInv, NEW h \in Handlers, PublishStep(h)
  PROVE  TypeInv'
<1> DEFINE q == req[h]
<1>0. RowsTyped /\ q \in Request /\ Knows(q)
  BY TypesSplit
\* A statement that only reads, and leaves the request r.
<1>a. ASSUME NEW r \in Request, Knows(r), Goto(h, r),
             UNCHANGED <<contest, taskVars, phaseVars, verified>>
      PROVE  TypeInv'
  <2>1. begun' \in 0 .. MaxRequests /\ req' \in [Handlers -> {x \in Request : Knows(x)}]
    BY <1>a, RequestsTyped
  <2>2. QED
    BY <1>0, <1>a, <2>1, TypesJoin DEF RowsTyped, taskVars, phaseVars
<1>1. ASSUME CheckTaskAssets(h) PROVE TypeInv'
  <2>1. PICK x \in q.todo :
          Goto(h, [q EXCEPT !.op = "list_sets", !.todo = @ \ {x}, !.task = x[1], !.schema = x[2],
                            !.ok = @ /\ TaskRequired(x[2]) \subseteq taskAssets[x[1]]])
    BY <1>1 DEF CheckTaskAssets
  <2> DEFINE ok == q.ok /\ TaskRequired(x[2]) \subseteq taskAssets[x[1]]
             r == [q EXCEPT !.op = "list_sets", !.todo = @ \ {x}, !.task = x[1], !.schema = x[2],
                            !.ok = ok]
  <2>2. x[1] \in Tasks /\ x[2] \in Schemas /\ q.contest \in Contests /\ ok \in BOOLEAN
    BY <1>0, <1>1 DEF Request, CheckTaskAssets, Knows
  <2>3. Goto(h, r)
    BY <2>1
  <2> HIDE DEF ok
  <2>4. r \in Request /\ Knows(r)
    BY <1>0, <2>2 DEF Request, Ops, Knows
  <2> HIDE DEF r
  <2>5. QED
    BY <1>1, <1>a, <2>3, <2>4 DEF CheckTaskAssets
<1>2. ASSUME ListEvaluationSets(h) PROVE TypeInv'
  <2>1. q.op = "list_sets" /\ q.task \in Tasks /\ sets[q.task] \in SUBSET Sets
    BY <1>0, <1>2 DEF ListEvaluationSets, Knows, RowsTyped
  <2> DEFINE ks == sets[q.task]
  <2>2. \/ Goto(h, [q EXCEPT !.op = "publish", !.ok = FALSE])
        \/ Goto(h, [q EXCEPT !.op = "check_set", !.rest = ks, !.found = ks])
    BY <1>2 DEF ListEvaluationSets
  <2> HIDE DEF ks
  <2>3. ks \in SUBSET Sets
    BY <2>1 DEF ks
  <2>4. /\ [q EXCEPT !.op = "publish", !.ok = FALSE] \in Request
        /\ Knows([q EXCEPT !.op = "publish", !.ok = FALSE])
    BY <1>0, <2>1 DEF Request, Ops, Knows
  <2>5. /\ [q EXCEPT !.op = "check_set", !.rest = ks, !.found = ks] \in Request
        /\ Knows([q EXCEPT !.op = "check_set", !.rest = ks, !.found = ks])
    BY <1>0, <2>1, <2>3 DEF Request, Ops, Knows
  <2>6. QED
    BY <1>2, <1>a, <2>2, <2>4, <2>5 DEF ListEvaluationSets
<1>3. ASSUME CheckSetAssets(h) PROVE TypeInv'
  <2> DEFINE v == [task |-> q.task, schema |-> q.schema, sets |-> q.found]
  <2>1. PICK k \in q.rest :
          Goto(h, [q EXCEPT !.op = IF q.rest = {k} THEN "publish" ELSE "check_set",
                            !.rest = @ \ {k},
                            !.ok = @ /\ EvalRequired(q.schema) \subseteq setAssets[q.task][k],
                            !.checked = IF q.rest = {k} THEN @ \cup {v} ELSE @])
    BY <1>3 DEF CheckSetAssets
  <2> DEFINE op == IF q.rest = {k} THEN "publish" ELSE "check_set"
             ok == q.ok /\ EvalRequired(q.schema) \subseteq setAssets[q.task][k]
             checked == IF q.rest = {k} THEN q.checked \cup {v} ELSE q.checked
             r == [q EXCEPT !.op = op, !.rest = @ \ {k}, !.ok = ok, !.checked = checked]
  <2>2. Goto(h, r)
    BY <2>1
  <2>3. /\ q.op = "check_set" /\ q.task \in Tasks /\ q.schema \in Schemas
        /\ q.found \in SUBSET Sets /\ q.checked \in SUBSET Checked
    BY <1>0, <1>3 DEF CheckSetAssets, Knows, Request
  <2>4. v \in Checked
    BY <2>3 DEF Checked
  <2>5. op \in {"publish", "check_set"} /\ ok \in BOOLEAN /\ checked \in SUBSET Checked
    <3> HIDE DEF v
    <3> QED
      BY <1>0, <2>3, <2>4 DEF Request
  <2> HIDE DEF op, ok, checked, v
  <2>6. r \in Request /\ Knows(r)
    BY <1>0, <2>3, <2>5 DEF Request, Ops, Knows
  <2> HIDE DEF r
  <2>7. QED
    BY <1>3, <1>a, <2>2, <2>6 DEF CheckSetAssets
<1>4. ASSUME NotReady(h) PROVE TypeInv'
  BY <1>4, <1>a, IdleKnows DEF NotReady, Done
<1>5. ASSUME OpenRegistration(h) PROVE TypeInv'
  <2>1. begun' \in 0 .. MaxRequests /\ req' \in [Handlers -> {x \in Request : Knows(x)}]
    BY <1>5, DoneTyped DEF OpenRegistration
  <2>2. contest' \in [Contests -> {"none", "draft", "registration_open", "archived", "gone"}]
    BY <1>0, <1>5 DEF OpenRegistration, SetStatus, RowsTyped
  <2>3. verified' \subseteq Checked
    BY <1>0, <1>5 DEF OpenRegistration, RowsTyped, Request
  <2>4. QED
    BY <1>0, <1>5, <2>1, <2>2, <2>3, TypesJoin DEF OpenRegistration, RowsTyped, taskVars, phaseVars
<1>6. QED
  BY <1>1, <1>2, <1>3, <1>4, <1>5 DEF PublishStep
\* A step of handler h that leaves a typed request and typed tables.
LEMMA HandlerTypes ==
  ASSUME TypeInv, NEW h \in Handlers, NEW r \in Request, Knows(r), Begin(h, r) \/ Goto(h, r),
         RowsTyped'
  PROVE  TypeInv'
BY RequestsTyped, TypesJoin

LEMMA TaskRequestTypes == TypeInv /\ TaskRequest => TypeInv'
<1> SUFFICES ASSUME TypeInv, TaskRequest PROVE TypeInv'
  OBVIOUS
<1>0. RowsTyped
  BY TypesSplit
<1> USE DEF taskVars, phaseVars
<1>a. ASSUME OneStatement, RowsTyped' PROVE TypeInv'
  BY <1>a, OneTyped, TypesJoin
<1>b. ASSUME NEW t \in Tasks, TaskExists(t) PROVE task[t] \in TaskRow
  BY <1>0, <1>b DEF TaskExists, RowsTyped
<1>1. ASSUME NEW t \in Tasks, DeleteTask(t) PROVE TypeInv'
  <2>1. /\ task' \in [Tasks -> TaskRow \cup {None, Gone}]
        /\ sets' \in [Tasks -> SUBSET Sets] /\ taskAssets' \in [Tasks -> SUBSET AssetKeys]
        /\ setAssets' \in [Tasks -> [Sets -> SUBSET AssetKeys]]
    BY <1>0, <1>1 DEF DeleteTask, RemoveTasks, RowsTyped
  <2>2. phase' \in [Phases -> PhaseRow \cup {None, Gone}]
    BY <1>0, <1>1 DEF DeleteTask, RemovePhases, RowsTyped
  <2>3. RowsTyped'
    BY <1>0, <1>1, <2>1, <2>2 DEF DeleteTask, RowsTyped, OneStatement
  <2>4. QED
    BY <1>1, <1>a, <2>3 DEF DeleteTask
<1>2. ASSUME NEW t \in Tasks, NEW k \in Sets, CreateEvaluationSet(t, k) PROVE TypeInv'
  <2>1. RowsTyped'
    BY <1>0, <1>2 DEF CreateEvaluationSet, InsertSet, RowsTyped, OneStatement
  <2>2. QED
    BY <1>2, <1>a, <2>1 DEF CreateEvaluationSet
<1>3. ASSUME NEW t \in Tasks, NEW s \in Schemas \cup {None}, NEW url \in Urls \cup {None},
             UpdateTask(t, s, url)
      PROVE  TypeInv'
  <2>1. task[t] \in TaskRow
    BY <1>3, <1>b DEF UpdateTask
  <2>2. Updated(task[t], s, url) \in TaskRow
    BY <2>1, PreparedAssumption DEF Updated, Coalesce, TaskRow
  <2>3. task' \in [Tasks -> TaskRow \cup {None, Gone}]
    BY <1>0, <1>3, <2>2 DEF UpdateTask, RowsTyped
  <2>4. RowsTyped'
    BY <1>0, <1>3, <2>3 DEF UpdateTask, RowsTyped, OneStatement
  <2>5. QED
    BY <1>3, <1>a, <2>4 DEF UpdateTask
<1>4. ASSUME NEW t \in Tasks, NEW h \in Handlers, NEW c \in Contests, NEW s \in Schemas,
             NEW url \in Urls \cup {"none"}, CreateTask(h, c, t, s, url)
      PROVE  TypeInv'
  <2> DEFINE r == [Idle EXCEPT !.op = "add_set", !.task = t, !.left = SetKeys]
  <2>1. SetKeys \in Seq(Sets) /\ SetKeys \in Seq(Sets \cup AssetKeys)
    BY Lists
  <2>2. r \in Request /\ Knows(r)
    BY <2>1, IdleKnows DEF Request, Ops, Idle, Knows
  <2>3. Begin(h, r) /\ task' = [task EXCEPT ![t] = NewTask(c, s, url)]
    BY <1>4 DEF CreateTask
  <2>4. NewTask(c, s, url) \in TaskRow
    BY PreparedAssumption DEF NewTask, TaskRow, Statements
  <2>5. RowsTyped'
    BY <1>0, <1>4, <2>3, <2>4 DEF CreateTask, RowsTyped, Begin
  <2> HIDE DEF r
  <2>6. QED
    BY <2>2, <2>3, <2>5, HandlerTypes
<1>5. ASSUME NEW t \in Tasks, NEW h \in Handlers, UploadStatement(h, t) PROVE TypeInv'
  <2> DEFINE r == [Idle EXCEPT !.op = "upload", !.task = t]
  <2>1. r \in Request /\ Knows(r)
    BY IdleKnows DEF Request, Ops, Idle, Knows
  <2>2. Begin(h, r) /\ RowsTyped'
    BY <1>0, <1>5 DEF UploadStatement, RowsTyped, Begin
  <2> HIDE DEF r
  <2>3. QED
    BY <2>1, <2>2, HandlerTypes
<1>6. ASSUME NEW t \in Tasks, NEW h \in Handlers, NEW list \in AssetLists,
             CompleteTaskAssets(h, t, list)
      PROVE  TypeInv'
  <2> DEFINE r == [Idle EXCEPT !.op = "task_asset", !.task = t, !.left = list]
  <2>1. list \in Seq(AssetKeys) /\ list \in Seq(Sets \cup AssetKeys)
    BY Lists
  <2>2. r \in Request /\ Knows(r)
    BY <2>1, IdleKnows DEF Request, Ops, Idle, Knows
  <2>3. Begin(h, r) /\ RowsTyped'
    BY <1>0, <1>6 DEF CompleteTaskAssets, RowsTyped, Begin
  <2> HIDE DEF r
  <2>4. QED
    BY <2>2, <2>3, HandlerTypes
<1>7. ASSUME NEW t \in Tasks, NEW h \in Handlers, NEW k \in Sets, NEW list \in AssetLists,
             CompleteAssets(h, t, k, list)
      PROVE  TypeInv'
  <2> DEFINE r == [Idle EXCEPT !.op = "set_asset", !.task = t, !.set = k, !.left = list]
  <2>1. list \in Seq(AssetKeys) /\ list \in Seq(Sets \cup AssetKeys)
    BY Lists
  <2>2. r \in Request /\ Knows(r)
    BY <2>1, IdleKnows DEF Request, Ops, Idle, Knows
  <2>3. Begin(h, r) /\ RowsTyped'
    BY <1>0, <1>7 DEF CompleteAssets, RowsTyped, Begin
  <2> HIDE DEF r
  <2>4. QED
    BY <2>2, <2>3, HandlerTypes
<1>8. QED
  BY <1>1, <1>2, <1>3, <1>4, <1>5, <1>6, <1>7 DEF TaskRequest

LEMMA TaskStepTypes ==
  ASSUME TypeInv, NEW h \in Handlers, TaskStep(h)
  PROVE  TypeInv'
<1> DEFINE q == req[h]
           rest == [q EXCEPT !.left = Tail(@)]
<1>0. RowsTyped /\ q \in Request /\ Knows(q)
  BY TypesSplit
<1> USE DEF taskVars, phaseVars
<1>a. ASSUME Done(h) \/ (Goto(h, rest) /\ rest \in Request /\ Knows(rest)), RowsTyped'
      PROVE  TypeInv'
  BY <1>a, HandlerTypes, IdleKnows DEF Done
<1>1. ASSUME AddEvaluationSet(h) PROVE TypeInv'
  <2>1. q.op = "add_set" /\ q.task \in Tasks /\ q.left \in Seq(Sets)
    BY <1>0, <1>1 DEF AddEvaluationSet, Knows
  <2>2. CASE q.left # <<>> /\ InsertSet(q.task, Head(q.left)) /\ Goto(h, rest)
    <3>1. Head(q.left) \in Sets /\ Tail(q.left) \in Seq(Sets)
          /\ Tail(q.left) \in Seq(Sets \cup AssetKeys)
      BY <2>1, <2>2, Lists
    <3>2. rest \in Request /\ Knows(rest)
      BY <1>0, <2>1, <3>1 DEF Request, Knows
    <3>3. RowsTyped'
      BY <1>0, <1>1, <2>1, <2>2, <3>1 DEF AddEvaluationSet, InsertSet, RowsTyped
    <3> HIDE DEF rest
    <3>4. QED
      BY <1>a, <2>2, <3>2, <3>3
  <2>3. CASE Done(h) /\ UNCHANGED sets
    <3>1. RowsTyped'
      BY <1>0, <1>1, <2>3 DEF AddEvaluationSet, RowsTyped
    <3>2. QED
      BY <1>a, <2>3, <3>1
  <2>4. QED
    BY <1>1, <2>2, <2>3 DEF AddEvaluationSet
<1>2. ASSUME UploadObject(h) PROVE TypeInv'
  <2> DEFINE r == [q EXCEPT !.op = "statement"]
  <2>1. q.op = "upload" /\ q.task \in Tasks
    BY <1>0, <1>2 DEF UploadObject, Knows
  <2>2. r \in Request /\ Knows(r)
    BY <1>0, <2>1 DEF Request, Ops, Knows
  <2>3. Goto(h, r) /\ RowsTyped'
    BY <1>0, <1>2, <2>1 DEF UploadObject, RowsTyped
  <2> HIDE DEF r
  <2>4. QED
    BY <2>2, <2>3, HandlerTypes
<1>3. ASSUME SetStatement(h) PROVE TypeInv'
  <2>1. q.task \in Tasks
    BY <1>0, <1>3 DEF SetStatement, Knows
  <2>2. TaskExists(q.task) => Updated(task[q.task], None, q.task) \in TaskRow
    BY <1>0, <2>1, SetupAssumption DEF TaskExists, RowsTyped, Updated, Coalesce, TaskRow, Statements
  <2>3. task' \in [Tasks -> TaskRow \cup {None, Gone}]
    BY <1>0, <1>3, <2>1, <2>2 DEF SetStatement, RowsTyped
  <2>4. RowsTyped' /\ Done(h)
    BY <1>0, <1>3, <2>3 DEF SetStatement, RowsTyped
  <2>5. QED
    BY <1>a, <2>4
<1>4. ASSUME AddTaskAsset(h) PROVE TypeInv'
  <2>1. q.op = "task_asset" /\ q.task \in Tasks /\ q.left \in Seq(AssetKeys)
    BY <1>0, <1>4 DEF AddTaskAsset, Knows
  <2>2. CASE q.left # <<>> /\ UpsertTaskAsset(q.task, Head(q.left)) /\ Goto(h, rest)
    <3>1. Head(q.left) \in AssetKeys /\ Tail(q.left) \in Seq(AssetKeys)
          /\ Tail(q.left) \in Seq(Sets \cup AssetKeys)
      BY <2>1, <2>2, Lists
    <3>2. rest \in Request /\ Knows(rest)
      BY <1>0, <2>1, <3>1 DEF Request, Knows
    <3>3. RowsTyped'
      BY <1>0, <1>4, <2>1, <2>2, <3>1 DEF AddTaskAsset, UpsertTaskAsset, RowsTyped
    <3> HIDE DEF rest
    <3>4. QED
      BY <1>a, <2>2, <3>2, <3>3
  <2>3. CASE Done(h) /\ UNCHANGED taskAssets
    <3>1. RowsTyped'
      BY <1>0, <1>4, <2>3 DEF AddTaskAsset, RowsTyped
    <3>2. QED
      BY <1>a, <2>3, <3>1
  <2>4. QED
    BY <1>4, <2>2, <2>3 DEF AddTaskAsset
<1>5. ASSUME AddSetAsset(h) PROVE TypeInv'
  <2>1. q.op = "set_asset" /\ q.task \in Tasks /\ q.set \in Sets /\ q.left \in Seq(AssetKeys)
    BY <1>0, <1>5 DEF AddSetAsset, Knows
  <2>2. CASE q.left # <<>> /\ UpsertSetAsset(q.task, q.set, Head(q.left)) /\ Goto(h, rest)
    <3>1. Head(q.left) \in AssetKeys /\ Tail(q.left) \in Seq(AssetKeys)
          /\ Tail(q.left) \in Seq(Sets \cup AssetKeys)
      BY <2>1, <2>2, Lists
    <3>2. rest \in Request /\ Knows(rest)
      BY <1>0, <2>1, <3>1 DEF Request, Knows
    <3>3. setAssets' \in [Tasks -> [Sets -> SUBSET AssetKeys]]
      BY <1>0, <2>1, <2>2, <3>1 DEF UpsertSetAsset, RowsTyped
    <3>4. RowsTyped'
      BY <1>0, <1>5, <3>3 DEF AddSetAsset, RowsTyped
    <3> HIDE DEF rest
    <3>5. QED
      BY <1>a, <2>2, <3>2, <3>4
  <2>3. CASE Done(h) /\ UNCHANGED setAssets
    <3>1. RowsTyped'
      BY <1>0, <1>5, <2>3 DEF AddSetAsset, RowsTyped
    <3>2. QED
      BY <1>a, <2>3, <3>1
  <2>4. QED
    BY <1>5, <2>2, <2>3 DEF AddSetAsset
<1>6. QED
  BY <1>1, <1>2, <1>3, <1>4, <1>5 DEF TaskStep

\* The rows of the phases that an update or a freeze leaves.
LEMMA PhaseRowTyped ==
  ASSUME NEW row \in PhaseRow
  PROVE  /\ \A l \in Limits \cup {None}, f \in BOOLEAN \cup {None} :
              f # None => UpdatedPhase(row, l, f) \in PhaseRow
         /\ \A l \in Limits \cup {None} : UpdatedPhase(row, l, None) \in PhaseRow
         /\ \A f \in BOOLEAN : [row EXCEPT !.frozen = f] \in PhaseRow
BY DEF UpdatedPhase, Coalesce, PhaseRow

LEMMA PhaseRequestTypes == TypeInv /\ PhaseRequest => TypeInv'
<1> SUFFICES ASSUME TypeInv, PhaseRequest PROVE TypeInv'
  OBVIOUS
<1>0. RowsTyped
  BY TypesSplit
<1> USE DEF taskVars, phaseVars
<1>a. ASSUME OneStatement, RowsTyped' PROVE TypeInv'
  BY <1>a, OneTyped, TypesJoin
<1>b. ASSUME OneStatement, UNCHANGED <<contest, taskVars, used>>,
             phase' \in [Phases -> PhaseRow \cup {None, Gone}],
             defs' \in [Contests -> SUBSET Keys], dropped' \subseteq Contests \X Keys
      PROVE  TypeInv'
  <2>1. RowsTyped'
    BY <1>0, <1>b DEF RowsTyped, OneStatement
  <2>2. QED
    BY <1>a, <1>b, <2>1
<1>1. ASSUME NEW c \in Contests, NEW k \in Keys, CreatePhaseDef(c, k) PROVE TypeInv'
  BY <1>0, <1>1, <1>b DEF CreatePhaseDef, InsertDef, RowsTyped
<1>2. ASSUME NEW c \in Contests, NEW k \in Keys, DeletePhaseDef(c, k) PROVE TypeInv'
  BY <1>0, <1>2, <1>b DEF DeletePhaseDef, RowsTyped
<1>3. ASSUME NEW c \in Contests, NEW h \in Handlers, ListPhaseDefs(h, c) PROVE TypeInv'
  <2> DEFINE r == [Idle EXCEPT !.op = "seed", !.contest = c, !.keys = Keys \ defs[c]]
  <2>1. r \in Request /\ Knows(r)
    BY IdleKnows DEF Request, Ops, Idle, Knows
  <2>2. Begin(h, r) /\ RowsTyped'
    BY <1>0, <1>3 DEF ListPhaseDefs, RowsTyped, Begin
  <2> HIDE DEF r
  <2>3. QED
    BY <2>1, <2>2, HandlerTypes
<1>4. ASSUME NEW p \in Phases, NEW t \in Tasks, NEW d \in Contests \X Keys, NEW k \in Sets,
             NEW l \in Limits \cup {None}, CreatePhase(p, t, d, k, l)
      PROVE  TypeInv'
  <2>1. NewPhase(t, d, k, l) \in PhaseRow
    BY DEF NewPhase, PhaseRow
  <2>2. QED
    BY <1>0, <1>4, <1>b, <2>1 DEF CreatePhase, RowsTyped
<1>5. ASSUME NEW p \in Phases, NEW l \in Limits \cup {None}, NEW f \in Frozen \cup {None},
             UpdatePhase(p, l, f)
      PROVE  TypeInv'
  <2>1. phase[p] \in PhaseRow
    BY <1>0, <1>5 DEF UpdatePhase, PhaseExists, RowsTyped
  <2>2. UpdatedPhase(phase[p], l, f) \in PhaseRow
    BY <2>1, PhaseRowTyped, PreparedAssumption
  <2>3. QED
    BY <1>0, <1>5, <1>b, <2>2 DEF UpdatePhase, RowsTyped
<1>6. ASSUME NEW p \in Phases, NEW f \in Frozen, SetPhaseFrozen(p, f) PROVE TypeInv'
  <2>1. phase[p] \in PhaseRow
    BY <1>0, <1>6 DEF SetPhaseFrozen, PhaseExists, RowsTyped
  <2>2. [phase[p] EXCEPT !.frozen = f] \in PhaseRow
    BY <2>1, PhaseRowTyped, PreparedAssumption
  <2>3. QED
    BY <1>0, <1>6, <1>b, <2>2 DEF SetPhaseFrozen, RowsTyped
<1>7. ASSUME NEW p \in Phases, DeletePhase(p) PROVE TypeInv'
  BY <1>0, <1>7, <1>b DEF DeletePhase, RowsTyped
<1>8. ASSUME NEW p \in Phases, Submit(p) PROVE TypeInv'
  <2>1. RowsTyped'
    BY <1>0, <1>8 DEF Submit, RowsTyped
  <2>2. QED
    BY <1>8, <2>1, TypesSplit, TypesJoin DEF Submit
<1>9. QED
  BY <1>1, <1>2, <1>3, <1>4, <1>5, <1>6, <1>7, <1>8 DEF PhaseRequest

LEMMA PhaseStepTypes ==
  ASSUME TypeInv, NEW h \in Handlers, PhaseStep(h)
  PROVE  TypeInv'
<1> DEFINE q == req[h]
<1>0. RowsTyped /\ q \in Request /\ Knows(q)
  BY TypesSplit
<1> USE DEF taskVars, phaseVars
<1>1. ASSUME SeedPhaseDef(h) PROVE TypeInv'
  <2>1. PICK k \in Keys \ defs[q.contest] :
          \/ InsertDef(q.contest, k) /\ Goto(h, [q EXCEPT !.keys = @ \ {k}, !.seeded = TRUE])
          \/ Done(h) /\ UNCHANGED defs
    BY <1>1 DEF SeedPhaseDef
  <2> DEFINE r == [q EXCEPT !.keys = @ \ {k}, !.seeded = TRUE]
  <2>2. q.op = "seed" /\ q.contest \in Contests
    BY <1>0, <1>1 DEF SeedPhaseDef, Knows
  <2>3. r \in Request /\ Knows(r)
    BY <1>0, <2>2 DEF Request, Knows
  <2>4. RowsTyped' /\ (Goto(h, r) \/ Done(h))
    BY <1>0, <1>1, <2>1, <2>2 DEF SeedPhaseDef, InsertDef, RowsTyped
  <2> HIDE DEF r
  <2>5. QED
    BY <2>3, <2>4, HandlerTypes, IdleKnows DEF Done
<1>2. ASSUME SeedConflict(h) PROVE TypeInv'
  <2>1. PICK k : Goto(h, [q EXCEPT !.keys = @ \ {k}])
    BY <1>2 DEF SeedConflict
  <2> DEFINE r == [q EXCEPT !.keys = @ \ {k}]
  <2>2. r \in Request /\ Knows(r)
    BY <1>0, <1>2 DEF Request, Knows
  <2>3. RowsTyped' /\ Goto(h, r)
    BY <1>0, <1>2, <2>1 DEF SeedConflict, RowsTyped
  <2> HIDE DEF r
  <2>4. QED
    BY <2>2, <2>3, HandlerTypes
<1>3. ASSUME SeedingEnds(h) \/ Relist(h) PROVE TypeInv'
  <2> DEFINE r == [q EXCEPT !.op = "relist"]
  <2>1. RowsTyped' /\ ((Goto(h, r) /\ q.op = "seed") \/ Done(h))
    BY <1>0, <1>3 DEF SeedingEnds, Relist, RowsTyped
  <2>2. q.op = "seed" => r \in Request /\ Knows(r)
    BY <1>0 DEF Request, Ops, Knows
  <2> HIDE DEF r
  <2>3. QED
    BY <2>1, <2>2, HandlerTypes, IdleKnows DEF Done
<1>4. QED
  BY <1>1, <1>2, <1>3 DEF PhaseStep

LEMMA NextTypes == TypeInv /\ [Next]_vars => TypeInv'
<1> SUFFICES ASSUME TypeInv, [Next]_vars PROVE TypeInv'
  OBVIOUS
<1>0. RowsTyped
  BY TypesSplit
<1>1. ASSUME NEW h \in Handlers, StatementFails(h) PROVE TypeInv'
  <2>1. RowsTyped' /\ Done(h)
    BY <1>0, <1>1 DEF StatementFails, RowsTyped, taskVars, phaseVars
  <2>2. QED
    BY <2>1, HandlerTypes, IdleKnows DEF Done
<1>2. CASE UNCHANGED vars
  <2>1. RowsTyped' /\ req' = req /\ begun' = begun
    BY <1>0, <1>2 DEF vars, RowsTyped, taskVars, phaseVars
  <2>2. QED
    BY <2>1, TypesSplit, TypesJoin
<1>3. QED
  BY <1>1, <1>2, ContestTypes, TaskRequestTypes, PhaseRequestTypes, PublishTypes,
     TaskStepTypes, PhaseStepTypes DEF Next

\* The tables and the requests keep their shape, and a request about a task,
\* a set or a contest knows which.
THEOREM SetupTypes == Spec => []TypeOK
<1>1. TypeInv => TypeOK
  BY DEF TypeInv
<1>2. QED
  BY <1>1, InitTypes, NextTypes, PTL DEF Spec
-----------------------------------------------------------------------------
(***************************************************************************)
(* What a statement may do to one row of each table.                       *)
(***************************************************************************)
ContestFate(c) ==
  /\ contest[c] # "none" => contest'[c] # "none"
  /\ contest[c] = "gone" => contest'[c] = "gone"
  /\ ContestExists(c) => ContestExists(c)' \/ DeleteContest(c)

LEMMA ContestFates ==
  ASSUME TypeInv, [Next]_vars, NEW c \in Contests
  PROVE  ContestFate(c)
<1>0. contest \in [Contests -> {"none", "draft", "registration_open", "archived", "gone"}]
  BY DEF TypeInv, TypeOK
<1> USE DEF ContestFate, ContestExists
<1>1. CASE contest' = contest
  BY <1>1
<1>2. ASSUME NEW x \in Contests, CreateContest(x) \/ Archive(x) PROVE ContestFate(c)
  BY <1>0, <1>2 DEF CreateContest, Archive, SetStatus
<1>3. ASSUME NEW x \in Contests, DeleteContest(x) PROVE ContestFate(c)
  <2>1. CASE c = x
    BY <1>0, <1>3, <2>1 DEF DeleteContest
  <2>2. CASE c # x
    BY <1>0, <1>3, <2>2 DEF DeleteContest
  <2>3. QED
    BY <2>1, <2>2
<1>4. ASSUME NEW x \in Contests, NEW h \in Handlers, Publish(h, x) PROVE contest' = contest
  BY <1>4 DEF Publish
<1>5. ASSUME NEW h \in Handlers, OpenRegistration(h) PROVE ContestFate(c)
  BY <1>0, <1>5 DEF OpenRegistration, SetStatus
<1>6. ASSUME NEW h \in Handlers, PublishStep(h), ~OpenRegistration(h) PROVE contest' = contest
  BY <1>6 DEF PublishStep, CheckTaskAssets, ListEvaluationSets, CheckSetAssets, NotReady
<1>7. CASE TaskRequest
  BY <1>1, <1>7 DEF TaskRequest, DeleteTask, CreateEvaluationSet, UpdateTask, CreateTask,
     UploadStatement, CompleteTaskAssets, CompleteAssets
<1>8. ASSUME NEW h \in Handlers, TaskStep(h) PROVE contest' = contest
  BY <1>8 DEF TaskStep, AddEvaluationSet, UploadObject, SetStatement, AddTaskAsset, AddSetAsset
<1>9. CASE PhaseRequest
  BY <1>1, <1>9 DEF PhaseRequest, CreatePhaseDef, DeletePhaseDef, ListPhaseDefs, CreatePhase,
     UpdatePhase, SetPhaseFrozen, DeletePhase, Submit
<1>10. ASSUME NEW h \in Handlers, PhaseStep(h) PROVE contest' = contest
  BY <1>10 DEF PhaseStep, SeedPhaseDef, SeedConflict, SeedingEnds, Relist
<1>11. ASSUME NEW h \in Handlers, StatementFails(h) PROVE contest' = contest
  BY <1>11 DEF StatementFails
<1>12. CASE UNCHANGED vars
  BY <1>1, <1>12 DEF vars
<1> HIDE DEF ContestFate, ContestExists
<1>13. CASE ContestStep
  BY <1>1, <1>2, <1>3, <1>4, <1>13 DEF ContestStep
<1>14. QED
  BY <1>1, <1>5, <1>6, <1>7, <1>8, <1>9, <1>10, <1>11, <1>12, <1>13 DEF Next

\* Who sets the statement of a task: an administrator, who names it, or the
\* request that has written the object of that task.
StatementNamed(t) == \E s \in Schemas \cup {None}, url \in Urls : UpdateTask(t, s, url)
StatementSet(t) == \E h \in Handlers : req[h].op = "statement" /\ req[h].task = t

\* The task stays with its contest and loses neither a set nor an asset.
TaskKept(t) ==
  /\ TaskExists(t)
  /\ task'[t].contest = task[t].contest
  /\ sets[t] \subseteq sets'[t] /\ taskAssets[t] \subseteq taskAssets'[t]
  /\ \A k \in Sets : setAssets[t][k] \subseteq setAssets'[t][k]
  /\ \/ task'[t].statement = task[t].statement
     \/ task'[t].statement = t /\ StatementSet(t)
     \/ StatementNamed(t)

TaskCreated(t) ==
  /\ task[t] = None
  /\ ContestExists(task'[t].contest) /\ contest' = contest

TaskFate(t) ==
  /\ task[t] # None => task'[t] # None
  /\ IF TaskExists(t)' THEN TaskKept(t) \/ TaskCreated(t)
     ELSE TaskExists(t) => DeleteTask(t) \/ DeleteContest(task[t].contest)

LEMMA TaskUnchanged ==
  ASSUME NEW t \in Tasks, task'[t] = task[t], sets[t] \subseteq sets'[t],
         taskAssets[t] \subseteq taskAssets'[t],
         \A k \in Sets : setAssets[t][k] \subseteq setAssets'[t][k]
  PROVE  TaskFate(t)
BY DEF TaskFate, TaskKept, TaskExists

\* An update keeps the contest, and every column that it does not name.
LEMMA UpdatedRow ==
  ASSUME NEW row \in TaskRow, NEW s \in Schemas \cup {None}, NEW url \in Statements \cup {None}
  PROVE  /\ Updated(row, s, url) \in TaskRow
         /\ Updated(row, s, url) # None /\ Updated(row, s, url) # Gone
         /\ Updated(row, s, url).contest = row.contest
         /\ Updated(row, s, url).statement = IF url = None THEN row.statement ELSE url
<1>1. Updated(row, s, url) \in TaskRow
  BY DEF Updated, Coalesce, TaskRow
<1>2. /\ Updated(row, s, url).contest = row.contest
      /\ Updated(row, s, url).statement = IF url = None THEN row.statement ELSE url
  BY DEF Updated, Coalesce, TaskRow
<1>3. QED
  BY <1>1, <1>2, NoRowAssumption

LEMMA TaskFates ==
  ASSUME TypeInv, [Next]_vars, NEW t \in Tasks
  PROVE  TaskFate(t)
<1>0. RowsTyped
  BY TypesSplit
<1>1. ASSUME UNCHANGED <<task, sets, taskAssets, setAssets>> PROVE TaskFate(t)
  BY <1>1, TaskUnchanged
<1>2. ASSUME NEW x \in Tasks, NEW h \in Handlers, NEW c \in Contests, NEW s \in Schemas,
             NEW url \in Urls \cup {"none"}, CreateTask(h, c, x, s, url)
      PROVE  TaskFate(t)
  <2> DEFINE row == NewTask(c, s, url)
  <2>1. /\ task' = [task EXCEPT ![x] = row] /\ task[x] = None /\ ContestExists(c)
        /\ UNCHANGED <<contest, sets, taskAssets, setAssets>>
    BY <1>2 DEF CreateTask
  <2>2. row.contest = c /\ row \in TaskRow
    BY PreparedAssumption DEF NewTask, TaskRow, Statements
  <2> HIDE DEF row
  <2>3. row # None
    BY <2>2, NoRowAssumption
  <2>4. CASE t = x
    BY <1>0, <2>1, <2>2, <2>3, <2>4 DEF TaskFate, TaskCreated, TaskExists, RowsTyped
  <2>5. CASE t # x
    BY <1>0, <2>1, <2>5, TaskUnchanged DEF RowsTyped
  <2>6. QED
    BY <2>4, <2>5
\* An update of row x to a row that keeps its contest.
<1>a. ASSUME NEW x \in Tasks, NEW row, task' = [task EXCEPT ![x] = row], TaskExists(x),
             row # None, row # Gone, row.contest = task[x].contest,
             \/ row.statement = task[x].statement
             \/ row.statement = x /\ StatementSet(x)
             \/ StatementNamed(x),
             UNCHANGED <<sets, taskAssets, setAssets>>
      PROVE  TaskFate(t)
  <2>1. CASE t = x
    <3>1. task'[t] = row
      BY <1>0, <1>a, <2>1 DEF RowsTyped
    <3>2. QED
      BY <1>a, <2>1, <3>1 DEF TaskFate, TaskKept, TaskExists
  <2>2. CASE t # x
    BY <1>0, <1>a, <2>2, TaskUnchanged DEF RowsTyped
  <2>3. QED
    BY <2>1, <2>2
<1>b. ASSUME NEW x \in Tasks, TaskExists(x) PROVE task[x] \in TaskRow
  BY <1>0, <1>b DEF TaskExists, RowsTyped
<1>3. ASSUME NEW x \in Tasks, NEW s \in Schemas \cup {None}, NEW url \in Urls \cup {None},
             UpdateTask(x, s, url)
      PROVE  TaskFate(t)
  <2> DEFINE row == Updated(task[x], s, url)
  <2>1. /\ task' = [task EXCEPT ![x] = row] /\ TaskExists(x) /\ task[x] \in TaskRow
        /\ UNCHANGED <<sets, taskAssets, setAssets>>
    BY <1>3, <1>b DEF UpdateTask
  <2>2. /\ row # None /\ row # Gone /\ row.contest = task[x].contest
        /\ url = None => row.statement = task[x].statement
    BY <2>1, UpdatedRow, PreparedAssumption
  <2>3. url # None => StatementNamed(x)
    BY <1>3 DEF StatementNamed
  <2> HIDE DEF row
  <2>4. QED
    BY <1>a, <2>1, <2>2, <2>3
<1>4. ASSUME NEW h \in Handlers, SetStatement(h) PROVE TaskFate(t)
  <2> DEFINE x == req[h].task
             row == Updated(task[x], None, x)
  <2>1. x \in Tasks /\ StatementSet(x) /\ UNCHANGED <<sets, taskAssets, setAssets>>
    BY <1>4 DEF SetStatement, StatementSet, TypeInv, Knows
  <2>2. CASE task' = task
    BY <1>1, <2>1, <2>2
  <2>3. CASE TaskExists(x) /\ task' = [task EXCEPT ![x] = row]
    <3>1. row # None /\ row # Gone /\ row.contest = task[x].contest /\ row.statement = x
      BY <1>b, <2>1, <2>3, UpdatedRow, SetupAssumption DEF Statements
    <3> HIDE DEF row
    <3>2. QED
      BY <1>a, <2>1, <2>3, <3>1
  <2>4. QED
    BY <1>4, <2>2, <2>3 DEF SetStatement
<1>5. ASSUME NEW x \in Tasks, DeleteTask(x) PROVE TaskFate(t)
  <2>1. CASE t = x
    BY <1>5, <2>1, SetupAssumption DEF DeleteTask, RemoveTasks, TaskFate, TaskExists
  <2>2. CASE t # x
    BY <1>0, <1>5, <2>2, TaskUnchanged DEF DeleteTask, RemoveTasks
  <2>3. QED
    BY <2>1, <2>2
<1>6. ASSUME NEW c \in Contests, DeleteContest(c) PROVE TaskFate(t)
  <2>1. CASE t \in TasksOf(c)
    <3>1. task'[t] = Gone /\ c = task[t].contest
      BY <1>6, <2>1 DEF DeleteContest, RemoveTasks, TasksOf
    <3>2. QED
      BY <1>6, <3>1, SetupAssumption DEF TaskFate, TaskExists
  <2>2. CASE t \notin TasksOf(c)
    BY <1>0, <1>6, <2>2, TaskUnchanged DEF DeleteContest, RemoveTasks
  <2>3. QED
    BY <2>1, <2>2
<1>7. ASSUME task' = task, (\E x \in Tasks : \E k : InsertSet(x, k)) \/ sets' = sets,
             UNCHANGED <<taskAssets, setAssets>>
      PROVE  TaskFate(t)
  BY <1>0, <1>7, TaskUnchanged DEF InsertSet, RowsTyped
<1>8. ASSUME NEW h \in Handlers, AddEvaluationSet(h) PROVE TaskFate(t)
  BY <1>0, <1>8, TaskUnchanged DEF AddEvaluationSet, InsertSet, RowsTyped
<1>9. ASSUME NEW x \in Tasks, NEW k \in Sets, CreateEvaluationSet(x, k) PROVE TaskFate(t)
  BY <1>0, <1>9, TaskUnchanged DEF CreateEvaluationSet, InsertSet, RowsTyped
<1>10. ASSUME NEW h \in Handlers, AddTaskAsset(h) PROVE TaskFate(t)
  BY <1>0, <1>10, TaskUnchanged DEF AddTaskAsset, UpsertTaskAsset, RowsTyped
<1>11. ASSUME NEW h \in Handlers, AddSetAsset(h) PROVE TaskFate(t)
  <2>1. \/ setAssets' = setAssets
        \/ \E x \in Tasks, k \in Sets : \E a : setAssets' = [setAssets EXCEPT ![x][k] = @ \cup {a}]
    BY <1>11 DEF AddSetAsset, UpsertSetAsset, TypeInv, Knows
  <2>2. \A k \in Sets : setAssets[t][k] \subseteq setAssets'[t][k]
    BY <1>0, <2>1 DEF RowsTyped
  <2>3. QED
    BY <1>11, <2>2, TaskUnchanged DEF AddSetAsset
<1>12. CASE TaskRequest
  BY <1>1, <1>2, <1>3, <1>5, <1>9, <1>12 DEF TaskRequest, UploadStatement, CompleteTaskAssets,
     CompleteAssets, taskVars
<1>13. ASSUME NEW h \in Handlers, TaskStep(h) PROVE TaskFate(t)
  BY <1>1, <1>4, <1>8, <1>10, <1>11, <1>13 DEF TaskStep, UploadObject
<1>14. CASE ContestStep
  BY <1>1, <1>6, <1>14 DEF ContestStep, CreateContest, Archive, Publish, taskVars
<1>15. ASSUME NEW h \in Handlers, PublishStep(h) \/ PhaseStep(h) \/ StatementFails(h)
       PROVE  UNCHANGED <<task, sets, taskAssets, setAssets>>
  BY <1>15 DEF PublishStep, CheckTaskAssets, ListEvaluationSets, CheckSetAssets, NotReady,
     OpenRegistration, PhaseStep, SeedPhaseDef, SeedConflict, SeedingEnds, Relist,
     StatementFails, taskVars
<1>16. CASE PhaseRequest
  BY <1>1, <1>16 DEF PhaseRequest, CreatePhaseDef, DeletePhaseDef, ListPhaseDefs, CreatePhase,
     UpdatePhase, SetPhaseFrozen, DeletePhase, Submit, taskVars
<1>17. CASE UNCHANGED vars
  BY <1>1, <1>17 DEF vars, taskVars
<1>18. QED
  BY <1>1, <1>12, <1>13, <1>14, <1>15, <1>16, <1>17 DEF Next

\* A definition goes when an administrator deletes it or its contest.
DefFate(c, k) ==
  /\ k \in defs[c] => k \in defs'[c] \/ DeletePhaseDef(c, k) \/ DeleteContest(c)
  /\ dropped \subseteq dropped'

LEMMA DefFates ==
  ASSUME TypeInv, [Next]_vars, NEW c \in Contests, NEW k \in Keys
  PROVE  DefFate(c, k)
<1>0. defs \in [Contests -> SUBSET Keys]
  BY DEF TypeInv, TypeOK
<1>1. ASSUME UNCHANGED <<defs, dropped>> PROVE DefFate(c, k)
  BY <1>1 DEF DefFate
<1>2. ASSUME NEW x \in Contests, NEW j, InsertDef(x, j), dropped' = dropped PROVE DefFate(c, k)
  BY <1>0, <1>2 DEF DefFate, InsertDef
<1>3. ASSUME NEW x \in Contests, NEW j \in Keys, DeletePhaseDef(x, j) PROVE DefFate(c, k)
  <2>1. defs' = [defs EXCEPT ![x] = @ \ {j}] /\ dropped \subseteq dropped'
    BY <1>3 DEF DeletePhaseDef
  <2>2. CASE x = c /\ j = k
    BY <1>3, <2>1, <2>2 DEF DefFate
  <2>3. CASE ~(x = c /\ j = k)
    BY <1>0, <2>1, <2>3 DEF DefFate
  <2>4. QED
    BY <2>2, <2>3
<1>4. ASSUME NEW x \in Contests, DeleteContest(x) PROVE DefFate(c, k)
  <2>1. defs' = [defs EXCEPT ![x] = {}] /\ dropped' = dropped
    BY <1>4 DEF DeleteContest
  <2>2. QED
    BY <1>0, <1>4, <2>1 DEF DefFate
<1>5. CASE ContestStep
  BY <1>1, <1>4, <1>5 DEF ContestStep, CreateContest, Archive, Publish, phaseVars
<1>6. CASE TaskRequest
  BY <1>1, <1>6 DEF TaskRequest, DeleteTask, CreateEvaluationSet, UpdateTask, CreateTask,
     UploadStatement, CompleteTaskAssets, CompleteAssets, phaseVars
<1>7. CASE PhaseRequest
  BY <1>1, <1>2, <1>3, <1>7 DEF PhaseRequest, CreatePhaseDef, ListPhaseDefs, CreatePhase,
     UpdatePhase, SetPhaseFrozen, DeletePhase, Submit, phaseVars
<1>8. ASSUME NEW h \in Handlers, PublishStep(h) \/ TaskStep(h) \/ StatementFails(h)
      PROVE  UNCHANGED <<defs, dropped>>
  BY <1>8 DEF PublishStep, CheckTaskAssets, ListEvaluationSets, CheckSetAssets, NotReady,
     OpenRegistration, TaskStep, AddEvaluationSet, UploadObject, SetStatement, AddTaskAsset,
     AddSetAsset, StatementFails, phaseVars
<1>9. ASSUME NEW h \in Handlers, PhaseStep(h) PROVE DefFate(c, k)
  <2>1. req[h].op = "seed" => req[h].contest \in Contests
    BY DEF TypeInv, Knows
  <2>2. QED
    BY <1>1, <1>2, <1>9, <2>1 DEF PhaseStep, SeedPhaseDef, SeedConflict, SeedingEnds, Relist,
       phaseVars
<1>10. CASE UNCHANGED vars
  BY <1>1, <1>10 DEF vars, phaseVars
<1>11. QED
  BY <1>1, <1>5, <1>6, <1>7, <1>8, <1>9, <1>10 DEF Next

\* A phase keeps what it refers to and its limit.  It goes only when it has no
\* submissions, unless its own contest goes.
PhaseKept(p) ==
  /\ PhaseExists(p)
  /\ phase'[p].task = phase[p].task /\ phase'[p].def = phase[p].def /\ phase'[p].set = phase[p].set
  /\ phase[p].limit # None => phase'[p].limit # None

PhaseCreated(p) ==
  /\ phase[p] = None
  /\ phase'[p].task \in Tasks /\ phase'[p].def \in Contests \X Keys
  /\ PhaseRefs(phase'[p].task, phase'[p].def, phase'[p].set)
  /\ UNCHANGED <<contest, task, sets, defs>>

PhaseGone(p) ==
  p \notin used \/ \E c \in Contests : DeleteContest(c) /\ task[phase[p].task].contest = c

PhaseFate(p) ==
  IF PhaseExists(p)' THEN PhaseKept(p) \/ PhaseCreated(p)
  ELSE PhaseExists(p) => PhaseGone(p)

LEMMA PhaseUnchanged ==
  ASSUME NEW p \in Phases, phase'[p] = phase[p]
  PROVE  PhaseFate(p)
BY DEF PhaseFate, PhaseKept, PhaseExists

LEMMA PhaseFates ==
  ASSUME TypeInv, [Next]_vars, NEW p \in Phases
  PROVE  PhaseFate(p)
<1>0. RowsTyped /\ phase \in [Phases -> PhaseRow \cup {None, Gone}]
  BY TypesSplit DEF RowsTyped
<1>1. ASSUME phase' = phase PROVE PhaseFate(p)
  BY <1>1, PhaseUnchanged
<1>2. ASSUME NEW q \in Phases, NEW t \in Tasks, NEW d \in Contests \X Keys, NEW k \in Sets,
             NEW l \in Limits \cup {None}, CreatePhase(q, t, d, k, l)
      PROVE  PhaseFate(p)
  <2> DEFINE row == NewPhase(t, d, k, l)
  <2>1. /\ phase' = [phase EXCEPT ![q] = row] /\ phase[q] = None /\ PhaseRefs(t, d, k)
        /\ UNCHANGED <<contest, task, sets, defs>>
    BY <1>2 DEF CreatePhase, taskVars
  <2>2. row.task = t /\ row.def = d /\ row.set = k
    BY DEF NewPhase
  <2> HIDE DEF row
  <2>3. CASE p = q
    <3>1. phase'[p] = row
      BY <1>0, <2>1, <2>3
    <3>2. PhaseCreated(p)
      BY <2>1, <2>2, <2>3, <3>1 DEF PhaseCreated
    <3>3. ~PhaseExists(p)
      BY <2>1, <2>3 DEF PhaseExists
    <3>4. QED
      BY <3>2, <3>3 DEF PhaseFate
  <2>4. CASE p # q
    BY <1>0, <2>1, <2>4, PhaseUnchanged
  <2>5. QED
    BY <2>3, <2>4
\* An update of phase q that keeps what it refers to.
<1>a. ASSUME NEW q \in Phases, NEW row \in PhaseRow, phase' = [phase EXCEPT ![q] = row],
             PhaseExists(q), row.task = phase[q].task, row.def = phase[q].def,
             row.set = phase[q].set, phase[q].limit # None => row.limit # None
      PROVE  PhaseFate(p)
  <2>1. CASE p = q
    <3>1. phase'[p] = row /\ row # None /\ row # Gone
      BY <1>0, <1>a, <2>1, NoRowAssumption
    <3>2. QED
      BY <1>a, <2>1, <3>1 DEF PhaseFate, PhaseKept, PhaseExists
  <2>2. CASE p # q
    BY <1>0, <1>a, <2>2, PhaseUnchanged
  <2>3. QED
    BY <2>1, <2>2
<1>3. ASSUME NEW q \in Phases, NEW l \in Limits \cup {None}, NEW f \in Frozen \cup {None},
             UpdatePhase(q, l, f)
      PROVE  PhaseFate(p)
  <2> DEFINE row == UpdatedPhase(phase[q], l, f)
  <2>1. phase[q] \in PhaseRow /\ PhaseExists(q) /\ phase' = [phase EXCEPT ![q] = row]
    BY <1>0, <1>3 DEF UpdatePhase, PhaseExists
  <2>2. row \in PhaseRow
    BY <2>1, PhaseRowTyped, PreparedAssumption
  <2>3. /\ row.task = phase[q].task /\ row.def = phase[q].def /\ row.set = phase[q].set
        /\ phase[q].limit # None => row.limit # None
    BY <2>1 DEF UpdatedPhase, Coalesce, PhaseRow
  <2> HIDE DEF row
  <2>4. QED
    BY <1>a, <2>1, <2>2, <2>3
<1>4. ASSUME NEW q \in Phases, NEW f \in Frozen, SetPhaseFrozen(q, f) PROVE PhaseFate(p)
  <2> DEFINE row == [phase[q] EXCEPT !.frozen = f]
  <2>1. phase[q] \in PhaseRow /\ PhaseExists(q) /\ phase' = [phase EXCEPT ![q] = row]
    BY <1>0, <1>4 DEF SetPhaseFrozen, PhaseExists
  <2>2. row \in PhaseRow
    BY <2>1, PhaseRowTyped, PreparedAssumption
  <2>3. /\ row.task = phase[q].task /\ row.def = phase[q].def /\ row.set = phase[q].set
        /\ row.limit = phase[q].limit
    BY <2>1 DEF PhaseRow
  <2> HIDE DEF row
  <2>4. QED
    BY <1>a, <2>1, <2>2, <2>3
\* A deletion of phases without submissions.
<1>b. ASSUME NEW ps, \A q \in Phases : phase'[q] = IF q \in ps THEN Gone ELSE phase[q],
             p \in ps => PhaseGone(p)
      PROVE  PhaseFate(p)
  <2>1. CASE p \in ps
    BY <1>b, <2>1 DEF PhaseFate, PhaseExists
  <2>2. CASE p \notin ps
    BY <1>b, <2>2, PhaseUnchanged
  <2>3. QED
    BY <2>1, <2>2
<1>5. ASSUME NEW q \in Phases, DeletePhase(q) PROVE PhaseFate(p)
  <2>1. \A x \in Phases : phase'[x] = IF x \in {q} THEN Gone ELSE phase[x]
    BY <1>0, <1>5 DEF DeletePhase
  <2>2. p \in {q} => PhaseGone(p)
    BY <1>5 DEF DeletePhase, Unused, PhaseGone
  <2>3. QED
    BY <1>b, <2>1, <2>2
<1>6. ASSUME NEW c \in Contests, NEW k \in Keys, DeletePhaseDef(c, k) PROVE PhaseFate(p)
  <2>1. \A x \in Phases : phase'[x] = IF x \in PhasesBy(<<c, k>>) THEN Gone ELSE phase[x]
    BY <1>6 DEF DeletePhaseDef
  <2>2. p \in PhasesBy(<<c, k>>) => PhaseGone(p)
    BY <1>6 DEF DeletePhaseDef, Unused, PhaseGone
  <2>3. QED
    BY <1>b, <2>1, <2>2
<1>7. ASSUME NEW t \in Tasks, DeleteTask(t) PROVE PhaseFate(p)
  <2>1. \A x \in Phases : phase'[x] = IF x \in PhasesOf(t) THEN Gone ELSE phase[x]
    BY <1>7 DEF DeleteTask, RemovePhases
  <2>2. p \in PhasesOf(t) => PhaseGone(p)
    BY <1>7 DEF DeleteTask, Unused, PhaseGone
  <2>3. QED
    BY <1>b, <2>1, <2>2
<1>8. ASSUME NEW c \in Contests, DeleteContest(c) PROVE PhaseFate(p)
  <2> DEFINE ps == PhasesIn(c) \cup PhasesWith(c)
  <2>1. \A x \in Phases : phase'[x] = IF x \in ps THEN Gone ELSE phase[x]
    BY <1>8 DEF DeleteContest, RemovePhases
  <2>2. CASE p \in PhasesIn(c)
    <3>1. task[phase[p].task].contest = c
      BY <2>2 DEF PhasesIn, PhasesOf, TasksOf
    <3>2. QED
      BY <1>8, <1>b, <2>1, <3>1 DEF PhaseGone
  <2>3. CASE p \notin PhasesIn(c)
    <3>1. p \in ps => p \notin used
      BY <1>8, <2>3 DEF DeleteContest, Unused
    <3> HIDE DEF ps
    <3>2. QED
      BY <1>b, <2>1, <3>1 DEF PhaseGone
  <2>4. QED
    BY <2>2, <2>3
<1>9. CASE ContestStep
  BY <1>1, <1>8, <1>9 DEF ContestStep, CreateContest, Archive, Publish, phaseVars
<1>10. CASE TaskRequest
  BY <1>1, <1>7, <1>10 DEF TaskRequest, CreateEvaluationSet, UpdateTask, CreateTask,
     UploadStatement, CompleteTaskAssets, CompleteAssets, phaseVars
<1>11. CASE PhaseRequest
  BY <1>1, <1>2, <1>3, <1>4, <1>5, <1>6, <1>11 DEF PhaseRequest, CreatePhaseDef, ListPhaseDefs,
     Submit, phaseVars
<1>12. ASSUME NEW h \in Handlers,
              PublishStep(h) \/ TaskStep(h) \/ PhaseStep(h) \/ StatementFails(h)
       PROVE  phase' = phase
  BY <1>12 DEF PublishStep, CheckTaskAssets, ListEvaluationSets, CheckSetAssets, NotReady,
     OpenRegistration, TaskStep, AddEvaluationSet, UploadObject, SetStatement, AddTaskAsset,
     AddSetAsset, PhaseStep, SeedPhaseDef, SeedConflict, SeedingEnds, Relist,
     StatementFails, phaseVars
<1>13. CASE UNCHANGED vars
  BY <1>1, <1>13 DEF vars, phaseVars
<1>14. QED
  BY <1>1, <1>9, <1>10, <1>11, <1>12, <1>13 DEF Next
-----------------------------------------------------------------------------
(***************************************************************************)
(* Rows and what they refer to.                                            *)
(***************************************************************************)
TasksAnchored == \A t \in Tasks : TaskExists(t) => ContestExists(task[t].contest)
AnchorInv == TypeInv /\ PhasesAnchored /\ TasksAnchored

\* What a deletion takes along.
LEMMA GoesWithTask ==
  ASSUME NEW t \in Tasks, DeleteTask(t)
  PROVE  ~TaskExists(t)' /\ \A p \in PhasesOf(t) : ~PhaseExists(p)'
BY DEF DeleteTask, RemoveTasks, RemovePhases, PhasesOf, TaskExists, PhaseExists

LEMMA GoesWithContest ==
  ASSUME NEW c \in Contests, DeleteContest(c)
  PROVE  /\ \A t \in TasksOf(c) : ~TaskExists(t)' /\ \A p \in PhasesOf(t) : ~PhaseExists(p)'
         /\ \A k \in Keys : \A p \in PhasesBy(<<c, k>>) : ~PhaseExists(p)'
<1>1. \A t \in TasksOf(c) : t \in Tasks /\ ~TaskExists(t)'
  BY DEF DeleteContest, RemoveTasks, TasksOf, TaskExists
<1>2. \A p \in PhasesIn(c) \cup PhasesWith(c) : p \in Phases => ~PhaseExists(p)'
  BY DEF DeleteContest, RemovePhases, PhaseExists
<1>3. \A t \in TasksOf(c) : PhasesOf(t) \subseteq PhasesIn(c) /\ PhasesOf(t) \subseteq Phases
  BY DEF PhasesIn, PhasesOf
<1>4. \A k \in Keys : PhasesBy(<<c, k>>) \subseteq PhasesWith(c) /\ PhasesBy(<<c, k>>) \subseteq Phases
  BY DEF PhasesWith, PhasesBy
<1>5. QED
  BY <1>1, <1>2, <1>3, <1>4

LEMMA GoesWithDef ==
  ASSUME NEW c \in Contests, NEW k \in Keys, DeletePhaseDef(c, k)
  PROVE  \A p \in PhasesBy(<<c, k>>) : ~PhaseExists(p)'
BY DEF DeletePhaseDef, PhasesBy, PhaseExists

LEMMA TasksStayAnchored == AnchorInv /\ [Next]_vars => TasksAnchored'
<1> SUFFICES ASSUME AnchorInv, [Next]_vars, NEW t \in Tasks, TaskExists(t)'
             PROVE  ContestExists(task[t].contest)'
  BY DEF TasksAnchored
<1>0. TypeInv /\ RowsTyped
  BY TypesSplit DEF AnchorInv
<1>1. TaskKept(t) \/ TaskCreated(t)
  BY <1>0, TaskFates DEF TaskFate
<1>2. CASE TaskKept(t)
  <2>1. PICK c : c = task[t].contest
    OBVIOUS
  <2>2. TaskExists(t) /\ ContestExists(c) /\ task'[t].contest = c
    BY <1>2, <2>1 DEF TaskKept, AnchorInv, TasksAnchored
  <2>3. c \in Contests /\ t \in TasksOf(c)
    BY <1>0, <2>1, <2>2 DEF RowsTyped, TaskExists, TaskRow, TasksOf
  <2>4. ~DeleteContest(c)
    BY <2>3, GoesWithContest
  <2>5. ContestExists(c)'
    <3>1. ContestFate(c)
      BY <1>0, <2>3, ContestFates
    <3>2. QED
      BY <2>2, <2>4, <3>1 DEF ContestFate
  <2>6. QED
    BY <2>2, <2>5 DEF ContestExists
<1>3. CASE TaskCreated(t)
  BY <1>3 DEF TaskCreated, ContestExists
<1>4. QED
  BY <1>1, <1>2, <1>3

\* The rows that the phase p refers to after the step: task t, its set s, and
\* the definition k of contest c.
LEMMA ReferencesKept ==
  ASSUME AnchorInv, [Next]_vars, NEW p \in Phases, PhaseExists(p)',
         NEW t, NEW s, NEW c, NEW k,
         phase'[p].task = t, phase'[p].set = s, phase'[p].def[1] = c, phase'[p].def[2] = k
  PROVE  /\ TaskExists(t)' /\ ContestExists(task[t].contest)'
         /\ s \in sets'[t] /\ k \in defs'[c]
<1>0. TypeInv /\ RowsTyped
  BY TypesSplit DEF AnchorInv
<1>a. TasksAnchored'
  BY TasksStayAnchored
<1>1. PhaseKept(p) \/ PhaseCreated(p)
  BY <1>0, PhaseFates DEF PhaseFate
<1>2. CASE PhaseKept(p)
  <2>1. /\ t \in Tasks /\ TaskExists(t) /\ p \in PhasesOf(t) /\ s \in sets[t]
        /\ c \in Contests /\ k \in Keys /\ k \in defs[c] /\ p \in PhasesBy(<<c, k>>)
    <3>1. PhaseExists(p) /\ phase[p] \in PhaseRow
      BY <1>0, <1>2 DEF PhaseKept, PhaseExists, RowsTyped
    <3>2. phase[p].def = phase'[p].def /\ phase[p].task = t /\ phase[p].set = s
      BY <1>2 DEF PhaseKept
    <3>3. phase[p].def \in Contests \X Keys /\ t \in Tasks
      BY <3>1, <3>2 DEF PhaseRow
    <3>4. phase[p].def = <<c, k>> /\ c \in Contests /\ k \in Keys
      BY <3>2, <3>3
    <3>5. TaskExists(t) /\ s \in sets[t] /\ k \in defs[c]
      BY <3>1, <3>2 DEF AnchorInv, PhasesAnchored
    <3>6. QED
      BY <3>1, <3>2, <3>3, <3>4, <3>5 DEF PhasesOf, PhasesBy
  <2>2. ~DeleteTask(t) /\ \A x \in Contests : t \in TasksOf(x) => ~DeleteContest(x)
    BY <2>1, GoesWithTask, GoesWithContest
  <2>3. ~DeletePhaseDef(c, k) /\ ~DeleteContest(c)
    BY <2>1, GoesWithDef, GoesWithContest
  <2>4. task[t].contest \in Contests /\ t \in TasksOf(task[t].contest)
    BY <1>0, <2>1 DEF RowsTyped, TaskExists, TaskRow, TasksOf
  <2>5. TaskExists(t)'
    <3>1. TaskFate(t)
      BY <1>0, <2>1, TaskFates
    <3>2. QED
      BY <2>1, <2>2, <2>4, <3>1 DEF TaskFate
  <2>6. sets[t] \subseteq sets'[t]
    <3>1. TaskFate(t)
      BY <1>0, <2>1, TaskFates
    <3>2. TaskKept(t) \/ TaskCreated(t)
      BY <2>5, <3>1 DEF TaskFate
    <3>3. QED
      BY <2>1, <3>2 DEF TaskKept, TaskCreated, TaskExists
  <2>7. k \in defs'[c]
    <3>1. DefFate(c, k)
      BY <1>0, <2>1, DefFates
    <3>2. QED
      BY <2>1, <2>3, <3>1 DEF DefFate
  <2>8. ContestExists(task[t].contest)'
    BY <1>a, <2>1, <2>5 DEF TasksAnchored
  <2>9. QED
    BY <2>1, <2>5, <2>6, <2>7, <2>8
<1>3. CASE PhaseCreated(p)
  <2>1. /\ t \in Tasks /\ TaskExists(t) /\ s \in sets[t] /\ k \in defs[c]
        /\ UNCHANGED <<contest, task, sets, defs>>
    BY <1>3 DEF PhaseCreated, PhaseRefs
  <2>2. ContestExists(task[t].contest)
    BY <2>1 DEF AnchorInv, TasksAnchored
  <2>3. QED
    BY <2>1, <2>2 DEF ContestExists, TaskExists
<1>4. QED
  BY <1>1, <1>2, <1>3

LEMMA PhasesStayAnchored == AnchorInv /\ [Next]_vars => PhasesAnchored'
<1> SUFFICES ASSUME AnchorInv, [Next]_vars, NEW p \in Phases, PhaseExists(p)'
             PROVE  LET r == phase[p] IN
                    (/\ TaskExists(r.task) /\ ContestExists(task[r.task].contest)
                     /\ r.set \in sets[r.task] /\ r.def[2] \in defs[r.def[1]])'
  BY DEF PhasesAnchored
<1>1. PICK t, s, c, k : /\ phase'[p].task = t /\ phase'[p].set = s
                        /\ phase'[p].def[1] = c /\ phase'[p].def[2] = k
  OBVIOUS
<1>2. /\ TaskExists(t)' /\ ContestExists(task[t].contest)'
      /\ s \in sets'[t] /\ k \in defs'[c]
  BY <1>1, ReferencesKept
<1>3. QED
  BY <1>1, <1>2 DEF TaskExists, ContestExists

LEMMA InitAnchored == Init => AnchorInv
<1> SUFFICES ASSUME Init PROVE PhasesAnchored /\ TasksAnchored
  BY InitTypes DEF AnchorInv
<1>1. \A p \in Phases : ~PhaseExists(p)
  BY DEF Init, PhaseExists
<1>2. ASSUME NEW t \in Tasks, TaskExists(t) PROVE ContestExists(task[t].contest)
  <2>1. task[t] = NewTask(Prepared[t], Schema, "none") /\ Prepared[t] \in Drafts
    BY <1>2, PreparedAssumption DEF Init, TaskExists, Ready
  <2>2. task[t].contest \in Drafts
    BY <2>1 DEF NewTask
  <2>3. QED
    BY <2>2, PreparedAssumption DEF Init, ContestExists
<1>3. QED
  BY <1>1, <1>2 DEF PhasesAnchored, TasksAnchored

\* A phase always has its task, the contest of that task, its set and its
\* definition: no order of deletions and late requests leaves it without.
THEOREM PhasesStayWhole == Spec => []PhasesAnchored
<1>1. AnchorInv /\ [Next]_vars => AnchorInv'
  BY NextTypes, PhasesStayAnchored, TasksStayAnchored DEF AnchorInv
<1>2. AnchorInv => PhasesAnchored
  BY DEF AnchorInv
<1>3. QED
  BY InitAnchored, <1>1, <1>2, PTL DEF Spec

\* A phase that has submissions goes only when its own contest does.
THEOREM SubmissionsKeepPhases == Spec => UsedPhasesKept
<1> DEFINE Kept == \A p \in Phases : (PhaseExists(p) /\ p \in used /\ ~PhaseExists(p)') =>
                     contest'[task[phase[p].task].contest] = "gone"
<1>1. ASSUME TypeInv, [Next]_vars PROVE Kept
  <2> SUFFICES ASSUME NEW p \in Phases, PhaseExists(p), p \in used, ~PhaseExists(p)'
               PROVE  contest'[task[phase[p].task].contest] = "gone"
    OBVIOUS
  <2>1. PhaseGone(p)
    BY <1>1, PhaseFates DEF PhaseFate
  <2>2. PICK c \in Contests : DeleteContest(c) /\ task[phase[p].task].contest = c
    BY <2>1 DEF PhaseGone
  <2>3. contest'[c] = "gone"
    BY <1>1, <2>2 DEF DeleteContest, TypeInv, TypeOK
  <2>4. QED
    BY <2>2, <2>3
<1>2. QED
  BY <1>1, InitTypes, NextTypes, PTL DEF Spec, UsedPhasesKept

\* A phase that has a limit keeps one, whatever its updates leave out.
THEOREM LimitsStay == Spec => LimitKept
<1> DEFINE Kept == \A p \in Phases :
                     (PhaseExists(p) /\ phase[p].limit # None /\ PhaseExists(p)') =>
                       phase'[p].limit # None
<1>1. ASSUME TypeInv, [Next]_vars PROVE Kept
  <2> SUFFICES ASSUME NEW p \in Phases, PhaseExists(p), phase[p].limit # None, PhaseExists(p)'
               PROVE  phase'[p].limit # None
    OBVIOUS
  <2>1. PhaseKept(p) \/ PhaseCreated(p)
    BY <1>1, PhaseFates DEF PhaseFate
  <2>2. ~PhaseCreated(p)
    BY DEF PhaseCreated, PhaseExists
  <2>3. QED
    BY <2>1, <2>2 DEF PhaseKept
<1>2. QED
  BY <1>1, InitTypes, NextTypes, PTL DEF Spec, LimitKept
-----------------------------------------------------------------------------
(***************************************************************************)
(* What a statement may do to the request of one handler.                  *)
(***************************************************************************)
RequestFate(h) ==
  \/ req'[h] = req[h] \/ req'[h] = Idle
  \/ /\ req'[h].op \in {"add_set", "upload", "task_asset", "set_asset"}
     /\ req'[h].todo = {} /\ req'[h].checked = {}
  \/ \E c \in Contests : Publish(h, c) \/ ListPhaseDefs(h, c)
  \/ PublishStep(h) \/ TaskStep(h) \/ PhaseStep(h)

LEMMA OthersWait ==
  ASSUME TypeInv, NEW h \in Handlers, NEW x \in Handlers, NEW r, Begin(x, r) \/ Goto(x, r), x # h
  PROVE  req'[h] = req[h]
BY DEF Begin, Goto, TypeInv, TypeOK

LEMMA RequestFates ==
  ASSUME TypeInv, [Next]_vars, NEW h \in Handlers
  PROVE  RequestFate(h)
<1>0. req \in [Handlers -> Request]
  BY DEF TypeInv, TypeOK
<1>1. ASSUME req' = req PROVE RequestFate(h)
  BY <1>1 DEF RequestFate
<1>2. ASSUME NEW x \in Handlers, NEW r, Begin(x, r) \/ Goto(x, r), x = h => RequestFate(h)
      PROVE  RequestFate(h)
  BY <1>2, OthersWait DEF RequestFate
<1>3. CASE ContestStep
  <2>1. ASSUME NEW c \in Contests, NEW x \in Handlers, Publish(x, c) PROVE RequestFate(h)
    <3>1. PICK r : Begin(x, r)
      BY <2>1 DEF Publish
    <3>2. x = h => RequestFate(h)
      BY <2>1 DEF RequestFate
    <3>3. QED
      BY <1>2, <3>1, <3>2
  <2>2. QED
    BY <1>1, <1>3, <2>1 DEF ContestStep, CreateContest, Archive, DeleteContest, OneStatement
<1>4. CASE TaskRequest
  <2>1. ASSUME NEW t \in Tasks, NEW x \in Handlers,
               \/ \E c \in Contests, s \in Schemas, url \in Urls \cup {"none"} : CreateTask(x, c, t, s, url)
               \/ UploadStatement(x, t)
               \/ \E list \in AssetLists : CompleteTaskAssets(x, t, list)
                                           \/ \E k \in Sets : CompleteAssets(x, t, k, list)
        PROVE  RequestFate(h)
    <3>1. PICK r : /\ Begin(x, r) /\ r.op \in {"add_set", "upload", "task_asset", "set_asset"}
                   /\ r.todo = {} /\ r.checked = {}
      <4>1. ASSUME NEW c \in Contests, NEW s \in Schemas, NEW url \in Urls \cup {"none"},
                   CreateTask(x, c, t, s, url)
            PROVE  \E r : Begin(x, r) /\ r.op = "add_set" /\ r.todo = {} /\ r.checked = {}
        <5> DEFINE r == [Idle EXCEPT !.op = "add_set", !.task = t, !.left = SetKeys]
        <5>1. Begin(x, r) /\ r.op = "add_set" /\ r.todo = {} /\ r.checked = {}
          BY <4>1 DEF CreateTask, Idle
        <5> HIDE DEF r
        <5>2. QED
          BY <5>1
      <4>2. ASSUME UploadStatement(x, t)
            PROVE  \E r : Begin(x, r) /\ r.op = "upload" /\ r.todo = {} /\ r.checked = {} /\ r.todo = {} /\ r.checked = {}
        <5> DEFINE r == [Idle EXCEPT !.op = "upload", !.task = t]
        <5>1. Begin(x, r) /\ r.op = "upload" /\ r.todo = {} /\ r.checked = {}
          BY <4>2 DEF UploadStatement, Idle
        <5> HIDE DEF r
        <5>2. QED
          BY <5>1
      <4>3. ASSUME NEW list, CompleteTaskAssets(x, t, list)
            PROVE  \E r : Begin(x, r) /\ r.op = "task_asset" /\ r.todo = {} /\ r.checked = {}
        <5> DEFINE r == [Idle EXCEPT !.op = "task_asset", !.task = t, !.left = list]
        <5>1. Begin(x, r) /\ r.op = "task_asset" /\ r.todo = {} /\ r.checked = {}
          BY <4>3 DEF CompleteTaskAssets, Idle
        <5> HIDE DEF r
        <5>2. QED
          BY <5>1
      <4>4. ASSUME NEW list, NEW k, CompleteAssets(x, t, k, list)
            PROVE  \E r : Begin(x, r) /\ r.op = "set_asset" /\ r.todo = {} /\ r.checked = {}
        <5> DEFINE r == [Idle EXCEPT !.op = "set_asset", !.task = t, !.set = k, !.left = list]
        <5>1. Begin(x, r) /\ r.op = "set_asset" /\ r.todo = {} /\ r.checked = {}
          BY <4>4 DEF CompleteAssets, Idle
        <5> HIDE DEF r
        <5>2. QED
          BY <5>1
      <4>5. QED
        BY <2>1, <4>1, <4>2, <4>3, <4>4
    <3>2. x = h => req'[h] = r
      BY <1>0, <3>1 DEF Begin
    <3>3. QED
      BY <1>2, <3>1, <3>2 DEF RequestFate
  <2>2. ASSUME NEW t \in Tasks, DeleteTask(t) \/ \E k \in Sets : CreateEvaluationSet(t, k)
        PROVE  req' = req
    BY <2>2 DEF DeleteTask, CreateEvaluationSet, OneStatement
  <2>3. ASSUME NEW t \in Tasks, NEW s, NEW url, UpdateTask(t, s, url) PROVE req' = req
    BY <2>3 DEF UpdateTask, OneStatement
  <2>4. PICK t \in Tasks :
          \/ DeleteTask(t)
          \/ \E k \in Sets : CreateEvaluationSet(t, k)
          \/ \E s \in Schemas \cup {None}, url \in Urls \cup {None} : UpdateTask(t, s, url)
          \/ \E x \in Handlers :
               \/ \E c \in Contests, s \in Schemas, url \in Urls \cup {"none"} : CreateTask(x, c, t, s, url)
               \/ UploadStatement(x, t)
               \/ \E list \in AssetLists : CompleteTaskAssets(x, t, list)
                                           \/ \E k \in Sets : CompleteAssets(x, t, k, list)
    BY <1>4, Zenon DEF TaskRequest
  <2>5. QED
    BY <1>1, <2>1, <2>2, <2>3, <2>4
<1>5. CASE PhaseRequest
  <2>1. ASSUME NEW c \in Contests, NEW x \in Handlers, ListPhaseDefs(x, c) PROVE RequestFate(h)
    <3>1. PICK r : Begin(x, r)
      BY <2>1 DEF ListPhaseDefs
    <3>2. x = h => RequestFate(h)
      BY <2>1 DEF RequestFate
    <3>3. QED
      BY <1>2, <3>1, <3>2
  <2>2. QED
    BY <1>1, <1>5, <2>1 DEF PhaseRequest, CreatePhaseDef, DeletePhaseDef, CreatePhase, UpdatePhase,
       SetPhaseFrozen, DeletePhase, Submit, OneStatement
<1>6. ASSUME NEW x \in Handlers, PublishStep(x) \/ TaskStep(x) \/ PhaseStep(x) PROVE RequestFate(h)
  <2>1. \E r : Goto(x, r)
    <3>1. CASE PublishStep(x)
      BY <3>1 DEF PublishStep, CheckTaskAssets, ListEvaluationSets, CheckSetAssets, NotReady,
         OpenRegistration, Done
    <3>2. CASE TaskStep(x)
      BY <3>2 DEF TaskStep, AddEvaluationSet, UploadObject, SetStatement, AddTaskAsset,
         AddSetAsset, Done
    <3>3. CASE PhaseStep(x)
      BY <3>3 DEF PhaseStep, SeedPhaseDef, SeedConflict, SeedingEnds, Relist, Done
    <3>4. QED
      BY <1>6, <3>1, <3>2, <3>3
  <2>2. x = h => RequestFate(h)
    BY <1>6 DEF RequestFate
  <2>3. QED
    BY <1>2, <2>1, <2>2
<1>7. ASSUME NEW x \in Handlers, StatementFails(x) PROVE RequestFate(h)
  <2>1. Goto(x, Idle)
    BY <1>7 DEF StatementFails, Done
  <2>2. x = h => req'[h] = Idle
    BY <1>0, <2>1 DEF Goto
  <2>3. QED
    BY <1>2, <2>1, <2>2 DEF RequestFate
<1>8. CASE UNCHANGED vars
  BY <1>1, <1>8 DEF vars
<1>9. QED
  BY <1>3, <1>4, <1>5, <1>6, <1>7, <1>8 DEF Next

\* After the step of a handler its request is what the step says.
LEMMA RequestIs ==
  ASSUME TypeInv, NEW h \in Handlers, NEW r, Begin(h, r) \/ Goto(h, r)
  PROVE  req'[h] = r
BY DEF Begin, Goto, TypeInv, TypeOK
-----------------------------------------------------------------------------
\* What kind of request each kind of step leaves.
LEMMA KindsKept ==
  ASSUME TypeInv, NEW h \in Handlers
  PROVE  /\ \A c \in Contests : Publish(h, c) => req'[h].op = "publish"
         /\ \A c \in Contests : ListPhaseDefs(h, c) => req'[h].op = "seed"
         /\ PublishStep(h) => req'[h].op \in {"idle", "publish", "list_sets", "check_set"}
         /\ TaskStep(h) => \/ req'[h].op \in {"idle", "add_set", "task_asset", "set_asset"}
                           \/ UploadObject(h) /\ req'[h].op = "statement" /\ req'[h].task = req[h].task
         /\ PhaseStep(h) => req'[h].op \in {"idle", "seed", "relist"}
<1>0. req[h] \in Request /\ Idle.op = "idle"
  BY TypesSplit DEF Idle
<1>1. ASSUME NEW c \in Contests, Publish(h, c) PROVE req'[h].op = "publish"
  BY <1>1, RequestIs DEF Publish, Idle
<1>2. ASSUME NEW c \in Contests, ListPhaseDefs(h, c) PROVE req'[h].op = "seed"
  BY <1>2, RequestIs DEF ListPhaseDefs, Idle
<1>3. ASSUME PublishStep(h) PROVE req'[h].op \in {"idle", "publish", "list_sets", "check_set"}
  <2>1. CASE CheckTaskAssets(h)
    <3>1. PICK x \in req[h].todo :
            req'[h] = [req[h] EXCEPT !.op = "list_sets", !.todo = @ \ {x}, !.task = x[1],
                         !.schema = x[2],
                         !.ok = @ /\ TaskRequired(x[2]) \subseteq taskAssets[x[1]]]
      BY <2>1, RequestIs DEF CheckTaskAssets
    <3>2. QED
      BY <1>0, <3>1 DEF Request
  <2>2. CASE ListEvaluationSets(h)
    BY ZenonT(40), <1>0, <2>2, RequestIs DEF ListEvaluationSets, Request
  <2>3. CASE CheckSetAssets(h)
    <3>1. PICK k \in req[h].rest :
            req'[h] = [req[h] EXCEPT !.op = IF req[h].rest = {k} THEN "publish" ELSE "check_set",
                         !.rest = @ \ {k},
                         !.ok = @ /\ EvalRequired(req[h].schema) \subseteq setAssets[req[h].task][k],
                         !.checked = IF req[h].rest = {k}
                           THEN @ \cup {[task |-> req[h].task, schema |-> req[h].schema,
                                         sets |-> req[h].found]}
                           ELSE @]
      BY <2>3, RequestIs DEF CheckSetAssets
    <3>2. QED
      BY <1>0, <3>1 DEF Request
  <2>4. CASE NotReady(h) \/ OpenRegistration(h)
    BY <1>0, <2>4, RequestIs DEF NotReady, OpenRegistration, Done
  <2>5. QED
    BY <1>3, <2>1, <2>2, <2>3, <2>4 DEF PublishStep
<1>4. ASSUME TaskStep(h)
      PROVE  \/ req'[h].op \in {"idle", "add_set", "task_asset", "set_asset"}
             \/ UploadObject(h) /\ req'[h].op = "statement" /\ req'[h].task = req[h].task
  <2>1. CASE AddEvaluationSet(h) \/ AddTaskAsset(h) \/ AddSetAsset(h)
    <3>1. req[h].op \in {"add_set", "task_asset", "set_asset"}
      BY <2>1 DEF AddEvaluationSet, AddTaskAsset, AddSetAsset
    <3>2. Done(h) \/ Goto(h, [req[h] EXCEPT !.left = Tail(req[h].left)])
      BY <2>1 DEF AddEvaluationSet, AddTaskAsset, AddSetAsset
    <3>3. req'[h] = Idle \/ req'[h] = [req[h] EXCEPT !.left = Tail(req[h].left)]
      BY <3>2, RequestIs DEF Done
    <3>4. QED
      BY <1>0, <3>1, <3>3 DEF Request
  <2>2. CASE UploadObject(h)
    <3>1. req'[h] = [req[h] EXCEPT !.op = "statement"]
      BY <2>2, RequestIs DEF UploadObject
    <3>2. QED
      BY <1>0, <2>2, <3>1 DEF Request
  <2>3. CASE SetStatement(h)
    BY <1>0, <2>3, RequestIs DEF SetStatement, Done
  <2>4. QED
    BY <1>4, <2>1, <2>2, <2>3 DEF TaskStep
<1>5. ASSUME PhaseStep(h) PROVE req'[h].op \in {"idle", "seed", "relist"}
  <2>1. CASE SeedPhaseDef(h)
    <3>1. PICK k : req'[h] \in {Idle, [req[h] EXCEPT !.keys = @ \ {k}, !.seeded = TRUE]}
      BY <2>1, RequestIs DEF SeedPhaseDef, Done
    <3>2. QED
      BY <1>0, <2>1, <3>1 DEF SeedPhaseDef, Request
  <2>2. CASE SeedConflict(h)
    <3>1. PICK k : req'[h] = [req[h] EXCEPT !.keys = @ \ {k}]
      BY <2>2, RequestIs DEF SeedConflict
    <3>2. QED
      BY <1>0, <2>2, <3>1 DEF SeedConflict, Request
  <2>3. CASE SeedingEnds(h) \/ Relist(h)
    <3>1. req'[h] \in {Idle, [req[h] EXCEPT !.op = "relist"]}
      BY <2>3, RequestIs DEF SeedingEnds, Relist, Done
    <3>2. QED
      BY <1>0, <3>1 DEF Request
  <2>4. QED
    BY <1>5, <2>1, <2>2, <2>3 DEF PhaseStep
<1>6. QED
  BY <1>1, <1>2, <1>3, <1>4, <1>5

\* The request that sets a statement is the one that has written the object.
StoreInv ==
  TypeInv /\ \A h \in Handlers : req[h].op = "statement" => req[h].task \in objects

LEMMA ObjectsGrow == [Next]_vars => objects \subseteq objects'
<1> SUFFICES ASSUME [Next]_vars, objects' # objects PROVE objects \subseteq objects'
  OBVIOUS
<1>1. ContestStep => objects' = objects
  BY DEF ContestStep, CreateContest, Archive, Publish, DeleteContest, taskVars
<1>2. TaskRequest => objects' = objects
  BY DEF TaskRequest, DeleteTask, CreateEvaluationSet, UpdateTask, CreateTask, UploadStatement,
     CompleteTaskAssets, CompleteAssets, taskVars
<1>3. PhaseRequest => objects' = objects
  BY DEF PhaseRequest, CreatePhaseDef, DeletePhaseDef, ListPhaseDefs, CreatePhase, UpdatePhase,
     SetPhaseFrozen, DeletePhase, Submit, taskVars
<1>4. ASSUME NEW h \in Handlers, PublishStep(h) \/ PhaseStep(h) \/ StatementFails(h)
      PROVE  objects' = objects
  BY <1>4 DEF PublishStep, CheckTaskAssets, ListEvaluationSets, CheckSetAssets, NotReady,
     OpenRegistration, PhaseStep, SeedPhaseDef, SeedConflict, SeedingEnds, Relist, StatementFails,
     taskVars
<1>5. ASSUME NEW h \in Handlers, TaskStep(h) PROVE objects \subseteq objects'
  BY <1>5 DEF TaskStep, AddEvaluationSet, UploadObject, SetStatement, AddTaskAsset, AddSetAsset
<1>6. QED
  BY <1>1, <1>2, <1>3, <1>4, <1>5 DEF Next, vars, taskVars

LEMMA StoreStep == StoreInv /\ [Next]_vars => StoreInv'
<1> SUFFICES ASSUME StoreInv, [Next]_vars PROVE StoreInv'
  OBVIOUS
<1>0. TypeInv /\ TypeInv' /\ objects \subseteq objects'
  BY NextTypes, ObjectsGrow DEF StoreInv
<1>1. ASSUME NEW h \in Handlers, req'[h].op = "statement" PROVE req'[h].task \in objects'
  <2>1. RequestFate(h)
    BY <1>0, RequestFates
  <2>2. req'[h] = req[h] \/ (UploadObject(h) /\ req'[h].task = req[h].task)
    BY <1>0, <1>1, <2>1, KindsKept DEF RequestFate, Idle
  <2>3. QED
    BY <1>0, <1>1, <2>2 DEF StoreInv, UploadObject
<1>2. QED
  BY <1>0, <1>1 DEF StoreInv

\* Only an administrator who names another statement takes away one that
\* readers can get.
LEMMA ServedStep ==
  ASSUME StoreInv, [Next]_vars, NEW t \in Tasks, Served(t), TaskExists(t)'
  PROVE  Served(t)' \/ StatementNamed(t)
<1>1. objects \subseteq objects' /\ task[t] # None
  BY ObjectsGrow DEF Served, TaskExists
<1>2. TaskKept(t)
  BY <1>1, TaskFates DEF StoreInv, TaskFate, TaskCreated
<1>3. CASE task'[t].statement = task[t].statement
  BY <1>1, <1>3 DEF Served, TaskExists
<1>4. CASE task'[t].statement = t /\ StatementSet(t)
  BY <1>1, <1>4 DEF StatementSet, StoreInv, Served, TaskExists
<1>5. QED
  BY <1>2, <1>3, <1>4 DEF TaskKept

\* UploadStatement writes the object and then the row, so a statement that
\* GetStatement can serve is served until its task is deleted or an
\* administrator names another one, whatever else overlaps or fails.
THEOREM StatementsStayServed == Spec => StatementStaysServed
<1>1. Init => StoreInv
  <2>1. Init => \A h \in Handlers : req[h].op = "idle"
    BY DEF Init, Idle
  <2>2. QED
    BY <2>1, InitTypes DEF StoreInv
<1>2. StoreInv /\ [Next]_vars =>
        [\A t \in Tasks : Served(t) /\ TaskExists(t)' =>
           \/ Served(t)'
           \/ \E s \in Schemas \cup {None}, url \in Urls : UpdateTask(t, s, url)]_vars
  BY ServedStep DEF StatementNamed
<1>3. QED
  BY <1>1, <1>2, StoreStep, PTL DEF Spec, StatementStaysServed

\* The contest of a request that seeds has been there.
SeedInv ==
  /\ TypeInv /\ SeedingCompletes
  /\ \A h \in Handlers : req[h].op \in {"seed", "relist"} => contest[req[h].contest] # "none"

\* The keys of a request of contest c that this step continues: what is not
\* there any more has been dropped.
LEMMA SeedStep ==
  ASSUME SeedInv, [Next]_vars, NEW h \in Handlers, req'[h].op \in {"seed", "relist"},
         NEW c \in Contests, req'[h].contest = c
  PROVE  /\ contest'[c] # "none"
         /\ ContestExists(c)' =>
              \A k \in Keys : k \in defs'[c] \cup req'[h].keys \/ <<c, k>> \in dropped'
<1>0. TypeInv /\ req[h] \in Request /\ RequestFate(h)
  BY TypesSplit, RequestFates DEF SeedInv
\* The step, the request it continues, and the key it has passed.
<1>1. \/ contest[c] # "none" /\ UNCHANGED <<defs>> /\ req'[h].keys = Keys \ defs[c]
      \/ /\ req[h].op \in {"seed", "relist"} /\ req[h].contest = c
         /\ \A k \in Keys : k \in req[h].keys => k \in req'[h].keys \cup defs[c] \cup defs'[c]
  <2>1. CASE req'[h] = req[h]
    BY <2>1
  <2>2. ASSUME NEW x \in Contests, ListPhaseDefs(h, x)
        PROVE  contest[c] # "none" /\ UNCHANGED <<defs>> /\ req'[h].keys = Keys \ defs[c]
    <3>1. req'[h] = [Idle EXCEPT !.op = "seed", !.contest = x, !.keys = Keys \ defs[x]]
      BY <1>0, <2>2, RequestIs DEF ListPhaseDefs
    <3>2. req'[h].contest = x /\ req'[h].keys = Keys \ defs[x]
      BY <3>1 DEF Idle
    <3>3. QED
      BY <2>2, <3>2 DEF ListPhaseDefs, phaseVars
  <2>3. CASE SeedPhaseDef(h)
    <3>1. PICK k \in Keys : /\ InsertDef(req[h].contest, k)
                            /\ Goto(h, [req[h] EXCEPT !.keys = @ \ {k}, !.seeded = TRUE])
      <4>1. ~Done(h)
        BY <1>0, RequestIs DEF Done, Idle
      <4>2. QED
        BY <2>3, <4>1 DEF SeedPhaseDef
    <3>2. req'[h] = [req[h] EXCEPT !.keys = @ \ {k}, !.seeded = TRUE]
      BY <1>0, <3>1, RequestIs
    <3>3. req'[h].keys = req[h].keys \ {k} /\ req[h].contest = c /\ req[h].op = "seed"
      BY <1>0, <2>3, <3>2 DEF Request, SeedPhaseDef
    <3>4. k \in defs'[c]
      BY <1>0, <3>1, <3>3 DEF InsertDef, TypeInv, TypeOK
    <3>5. QED
      BY <3>3, <3>4
  <2>4. CASE SeedConflict(h)
    <3>1. PICK k \in defs[req[h].contest] : Goto(h, [req[h] EXCEPT !.keys = @ \ {k}])
      BY <2>4 DEF SeedConflict
    <3>2. req'[h] = [req[h] EXCEPT !.keys = @ \ {k}]
      BY <1>0, <3>1, RequestIs
    <3>3. req'[h].keys = req[h].keys \ {k} /\ req[h].contest = c /\ req[h].op = "seed"
      BY <1>0, <2>4, <3>2 DEF Request, SeedConflict
    <3>4. QED
      BY <3>1, <3>3
  <2>5. CASE SeedingEnds(h)
    <3>1. req'[h] = [req[h] EXCEPT !.op = "relist"]
      BY <1>0, <2>5, RequestIs DEF SeedingEnds, Done, Idle
    <3>2. req'[h].keys = req[h].keys /\ req[h].contest = c /\ req[h].op = "seed"
      BY <1>0, <2>5, <3>1 DEF Request, SeedingEnds
    <3>3. QED
      BY <3>2
  <2>6. ~Relist(h)
    BY <1>0, RequestIs DEF Relist, Done, Idle
  <2>7. PhaseStep(h) \/ req'[h] = req[h] \/ \E x \in Contests : ListPhaseDefs(h, x)
    BY <1>0, KindsKept DEF RequestFate, Idle
  <2>8. QED
    BY <2>1, <2>2, <2>3, <2>4, <2>5, <2>6, <2>7 DEF PhaseStep
<1>2. contest[c] # "none"
  BY <1>1 DEF SeedInv
<1>3. contest'[c] # "none" /\ (ContestExists(c)' => ContestExists(c) /\ ~DeleteContest(c))
  <2>1. ContestFate(c)
    BY <1>0, ContestFates
  <2>2. DeleteContest(c) => contest'[c] = "gone"
    BY <1>0 DEF DeleteContest, TypeInv, TypeOK
  <2>3. QED
    BY <1>2, <2>1, <2>2 DEF ContestFate, ContestExists
<1>4. ASSUME ContestExists(c)', NEW k \in Keys
      PROVE  k \in defs'[c] \cup req'[h].keys \/ <<c, k>> \in dropped'
  <2>1. DefFate(c, k)
    BY <1>0, DefFates
  <2>2. dropped \subseteq dropped' /\ (k \in defs[c] => k \in defs'[c] \/ <<c, k>> \in dropped')
    BY <1>3, <1>4, <2>1 DEF DefFate, DeletePhaseDef
  <2>3. k \in defs[c] \cup defs'[c] \cup req'[h].keys \/ <<c, k>> \in dropped
    BY <1>1, <1>3, <1>4 DEF SeedInv, SeedingCompletes
  <2>4. QED
    BY <2>2, <2>3
<1>5. QED
  BY <1>3, <1>4

\* However the requests that seed the definitions of a contest overlap, each
\* standard key that one of them has passed is there, unless somebody ever
\* deleted it or the contest is gone.
THEOREM SeedingIsComplete == Spec => []SeedingCompletes
<1>1. Init => SeedInv
  BY InitTypes DEF Init, SeedInv, SeedingCompletes, Idle
<1>2. SeedInv /\ [Next]_vars => SeedInv'
  <2> SUFFICES ASSUME SeedInv, [Next]_vars PROVE SeedInv'
    OBVIOUS
  <2>1. TypeInv'
    BY NextTypes DEF SeedInv
  <2>2. ASSUME NEW h \in Handlers, req'[h].op \in {"seed", "relist"}
        PROVE  /\ contest'[req'[h].contest] # "none"
               /\ ContestExists(req[h].contest)' =>
                    \A k \in Keys : \/ k \in defs'[req'[h].contest] \cup req'[h].keys
                                    \/ <<req'[h].contest, k>> \in dropped'
    <3>1. PICK c \in Contests : req'[h].contest = c
      BY <2>1, <2>2 DEF TypeInv, Knows
    <3>2. /\ contest'[c] # "none"
          /\ ContestExists(c)' =>
               \A k \in Keys : k \in defs'[c] \cup req'[h].keys \/ <<c, k>> \in dropped'
      BY <2>2, <3>1, SeedStep
    <3>3. QED
      BY <3>1, <3>2 DEF ContestExists
  <2>3. QED
    BY <2>1, <2>2 DEF SeedInv, SeedingCompletes
<1>3. SeedInv => SeedingCompletes
  BY DEF SeedInv
<1>4. QED
  BY <1>1, <1>2, <1>3, PTL DEF Spec
-----------------------------------------------------------------------------
(***************************************************************************)
(* What a publication checks, between the check and the opening of the     *)
(* contest and ever after.                                                 *)
(***************************************************************************)
\* What it has checked of the assets of task t with schema s.
AssetsThere(t, s) == TaskExists(t) => TaskRequired(s) \subseteq taskAssets[t]

\* What it has found of the sets ks, of which only those of rest are left.
SetsThere(t, s, ks, rest) ==
  TaskExists(t) => /\ ks \subseteq sets[t]
                   /\ \A k \in ks \ rest : EvalRequired(s) \subseteq setAssets[t][k]

Ever(t) == task[t] # None

Confirmed(v) == Ever(v.task) /\ StillReady(v)

\* What a request may rely on at each of its statements.
Checking(r) ==
  /\ \A x \in r.todo : Ever(x[1])
  /\ r.op \in {"list_sets", "check_set"} =>
       Ever(r.task) /\ (r.ok => AssetsThere(r.task, r.schema))
  /\ r.op = "check_set" =>
       r.found # {} /\ (r.ok => SetsThere(r.task, r.schema, r.found, r.rest))
  /\ r.ok => \A v \in r.checked : Confirmed(v)

ReadyInv ==
  /\ TypeInv
  /\ \A h \in Handlers : Checking(req[h])
  /\ \A v \in verified : Confirmed(v)

\* Nothing takes away what was found of a task, but its deletion.
LEMMA TaskLasts ==
  ASSUME TypeInv, [Next]_vars, NEW t \in Tasks, Ever(t)
  PROVE  /\ Ever(t)'
         /\ TaskExists(t)' => /\ TaskExists(t) /\ sets[t] \subseteq sets'[t]
                              /\ taskAssets[t] \subseteq taskAssets'[t]
                              /\ \A k \in Sets : setAssets[t][k] \subseteq setAssets'[t][k]
<1>1. TaskFate(t)
  BY TaskFates
<1>2. QED
  BY <1>1 DEF TaskFate, TaskKept, TaskCreated, Ever

LEMMA FindingsLast ==
  ASSUME TypeInv, [Next]_vars, NEW t \in Tasks, NEW s, Ever(t)
  PROVE  /\ AssetsThere(t, s) => AssetsThere(t, s)'
         /\ \A ks \in SUBSET Sets : \A rest :
              SetsThere(t, s, ks, rest) => SetsThere(t, s, ks, rest)'
<1>1. AssetsThere(t, s) => AssetsThere(t, s)'
  BY TaskLasts DEF AssetsThere
<1>2. ASSUME NEW ks \in SUBSET Sets, NEW rest, SetsThere(t, s, ks, rest)
      PROVE  SetsThere(t, s, ks, rest)'
  <2> SUFFICES ASSUME TaskExists(t)'
               PROVE  /\ ks \subseteq sets'[t]
                      /\ \A k \in ks \ rest : EvalRequired(s) \subseteq setAssets'[t][k]
    BY DEF SetsThere
  <2>1. /\ TaskExists(t) /\ sets[t] \subseteq sets'[t]
        /\ \A k \in Sets : setAssets[t][k] \subseteq setAssets'[t][k]
    BY TaskLasts
  <2>2. ks \subseteq sets[t] /\ \A k \in ks \ rest : EvalRequired(s) \subseteq setAssets[t][k]
    BY <1>2, <2>1 DEF SetsThere
  <2>3. QED
    BY <2>1, <2>2
<1>3. QED
  BY <1>1, <1>2

LEMMA ConfirmedLasts ==
  ASSUME TypeInv, [Next]_vars, NEW v \in Checked, Confirmed(v)
  PROVE  Confirmed(v)'
<1>1. v.task \in Tasks /\ v.sets \in SUBSET Sets /\ Ever(v.task)
  BY DEF Checked, Confirmed
<1>2. PICK t \in Tasks : t = v.task
  BY <1>1
<1>3. /\ Ever(t)'
      /\ TaskExists(t)' => /\ TaskExists(t) /\ sets[t] \subseteq sets'[t]
                           /\ taskAssets[t] \subseteq taskAssets'[t]
                           /\ \A k \in Sets : setAssets[t][k] \subseteq setAssets'[t][k]
  BY <1>1, <1>2, TaskLasts
<1>4. ASSUME TaskExists(t)'
      PROVE  /\ TaskRequired(v.schema) \subseteq taskAssets'[t]
             /\ v.sets # {} /\ v.sets \subseteq sets'[t]
             /\ \A k \in v.sets : EvalRequired(v.schema) \subseteq setAssets'[t][k]
  <2>1. /\ TaskRequired(v.schema) \subseteq taskAssets[t]
        /\ v.sets # {} /\ v.sets \subseteq sets[t]
        /\ \A k \in v.sets : EvalRequired(v.schema) \subseteq setAssets[t][k]
    BY <1>2, <1>3, <1>4 DEF Confirmed, StillReady
  <2>2. QED
    BY <1>1, <1>3, <1>4, <2>1
<1>5. QED
  BY <1>2, <1>3, <1>4 DEF Confirmed, StillReady, Ever

LEMMA CheckingLasts ==
  ASSUME TypeInv, [Next]_vars, NEW r \in Request, Knows(r), Checking(r)
  PROVE  Checking(r)'
<1>1. \A t \in Tasks : Ever(t) => Ever(t)'
  BY TaskLasts
<1>2. \A x \in r.todo : x[1] \in Tasks
  BY DEF Request
<1>3. r.ok => \A v \in r.checked : Confirmed(v)'
  <2>1. r.checked \subseteq Checked
    BY DEF Request
  <2>2. QED
    BY <2>1, ConfirmedLasts DEF Checking
<1>4. CASE r.op \in {"list_sets", "check_set"}
  <2>1. PICK t \in Tasks : t = r.task
    BY <1>4 DEF Knows
  <2>2. r.found \in SUBSET Sets
    BY DEF Request
  <2>3. Ever(t) /\ Ever(t)'
    BY <1>1, <1>4, <2>1 DEF Checking
  <2>4. /\ AssetsThere(t, r.schema) => AssetsThere(t, r.schema)'
        /\ SetsThere(t, r.schema, r.found, r.rest) => SetsThere(t, r.schema, r.found, r.rest)'
    BY <2>2, <2>3, FindingsLast
  <2>5. /\ r.ok => AssetsThere(t, r.schema)
        /\ r.op = "check_set" =>
             r.found # {} /\ (r.ok => SetsThere(t, r.schema, r.found, r.rest))
    BY <1>4, <2>1, <2>2 DEF Checking
  <2>6. QED
    BY <1>1, <1>2, <1>3, <2>1, <2>3, <2>4, <2>5 DEF Checking
<1>5. CASE r.op \notin {"list_sets", "check_set"}
  BY <1>1, <1>2, <1>3, <1>5 DEF Checking
<1>6. QED
  BY <1>4, <1>5

\* A request that has nothing to check, or goes on with what it had.
LEMMA CheckingKept ==
  ASSUME NEW q, Checking(q), NEW r, r.op \notin {"list_sets", "check_set"},
         \/ r.todo = {} /\ r.checked = {}
         \/ r.todo = q.todo /\ r.checked = q.checked /\ r.ok = q.ok
  PROVE  Checking(r)
BY DEF Checking

LEMMA CheckingStep ==
  ASSUME ReadyInv, NEW h \in Handlers, PublishStep(h), NEW r, req'[h] = r
  PROVE  Checking(r)
<1> DEFINE q == req[h]
<1>0. TypeInv /\ q \in Request /\ Knows(q) /\ Checking(q) /\ Checking(Idle)
  BY TypesSplit DEF ReadyInv, Checking, Idle
<1>1. CASE CheckTaskAssets(h)
  <2>1. PICK x \in q.todo :
          r = [q EXCEPT !.op = "list_sets", !.todo = @ \ {x}, !.task = x[1], !.schema = x[2],
                        !.ok = @ /\ TaskRequired(x[2]) \subseteq taskAssets[x[1]]]
    BY <1>0, <1>1, RequestIs DEF CheckTaskAssets
  <2>2. /\ r.op = "list_sets" /\ r.todo = q.todo \ {x} /\ r.task = x[1] /\ r.schema = x[2]
        /\ r.ok = (q.ok /\ TaskRequired(x[2]) \subseteq taskAssets[x[1]]) /\ r.checked = q.checked
    BY <1>0, <2>1 DEF Request
  <2>3. QED
    BY <1>0, <2>2 DEF Checking, AssetsThere
<1>2. CASE ListEvaluationSets(h)
  <2>1. q.op = "list_sets" /\ q.task \in Tasks
    BY <1>0, <1>2 DEF ListEvaluationSets, Knows
  <2>2. CASE sets[q.task] = {}
    <3>1. r = [q EXCEPT !.op = "publish", !.ok = FALSE]
      BY <1>0, <1>2, <2>2, RequestIs DEF ListEvaluationSets
    <3>2. r.op = "publish" /\ ~r.ok /\ r.todo = q.todo
      BY <1>0, <3>1 DEF Request
    <3>3. QED
      BY <1>0, <3>2 DEF Checking
  <2>3. CASE sets[q.task] # {}
    <3>1. r = [q EXCEPT !.op = "check_set", !.rest = sets[q.task], !.found = sets[q.task]]
      BY <1>0, <1>2, <2>3, RequestIs DEF ListEvaluationSets
    <3>2. /\ r.op = "check_set" /\ r.rest = sets[q.task] /\ r.found = sets[q.task] /\ r.ok = q.ok
          /\ r.todo = q.todo /\ r.checked = q.checked /\ r.task = q.task /\ r.schema = q.schema
      BY <1>0, <3>1 DEF Request
    <3>3. SetsThere(r.task, r.schema, r.found, r.rest)
      BY <3>2 DEF SetsThere
    <3>4. QED
      BY <1>0, <2>1, <2>3, <3>2, <3>3 DEF Checking
  <2>4. QED
    BY <2>2, <2>3
<1>3. CASE CheckSetAssets(h)
  <2> DEFINE v == [task |-> q.task, schema |-> q.schema, sets |-> q.found]
  <2>1. q.op = "check_set"
    BY <1>3 DEF CheckSetAssets
  <2>2. PICK k \in q.rest :
          r = [q EXCEPT !.op = IF q.rest = {k} THEN "publish" ELSE "check_set",
                 !.rest = @ \ {k},
                 !.ok = @ /\ EvalRequired(q.schema) \subseteq setAssets[q.task][k],
                 !.checked = IF q.rest = {k} THEN @ \cup {v} ELSE @]
    BY <1>0, <1>3, RequestIs DEF CheckSetAssets
  <2>3. /\ r.op = IF q.rest = {k} THEN "publish" ELSE "check_set"
        /\ r.rest = q.rest \ {k} /\ r.task = q.task /\ r.schema = q.schema /\ r.found = q.found
        /\ r.todo = q.todo /\ r.checked = IF q.rest = {k} THEN q.checked \cup {v} ELSE q.checked
    BY <1>0, <2>2 DEF Request
  <2>4. r.ok = (q.ok /\ EvalRequired(q.schema) \subseteq setAssets[q.task][k])
    BY <1>0, <2>2 DEF Request
  <2>5. v.task = q.task /\ v.schema = q.schema /\ v.sets = q.found
    OBVIOUS
  <2> HIDE DEF v, q
  <2>6. r.ok => SetsThere(q.task, q.schema, q.found, q.rest \ {k})
    BY <1>0, <2>1, <2>4 DEF Checking, SetsThere
  <2>7. ASSUME q.rest = {k}, r.ok PROVE Confirmed(v)
    <3>1. q.found \ (q.rest \ {k}) = q.found
      BY <2>7
    <3>2. QED
      BY <1>0, <2>1, <2>4, <2>5, <2>6, <2>7, <3>1
      DEF Checking, Confirmed, StillReady, SetsThere, AssetsThere
  <2>8. r.ok => \A x \in r.checked : Confirmed(x)
    BY <1>0, <2>3, <2>4, <2>7 DEF Checking
  <2>9. QED
    BY <1>0, <2>1, <2>3, <2>4, <2>6, <2>8 DEF Checking
<1>4. CASE NotReady(h) \/ OpenRegistration(h)
  BY <1>0, <1>4, RequestIs DEF NotReady, OpenRegistration, Done
<1>5. QED
  BY <1>1, <1>2, <1>3, <1>4 DEF PublishStep

LEMMA CheckingGoesOn ==
  ASSUME ReadyInv, [Next]_vars, NEW h \in Handlers, NEW r, req'[h] = r
  PROVE  Checking(r)
<1> DEFINE q == req[h]
<1>0. TypeInv /\ q \in Request /\ Checking(q) /\ Checking(Idle)
  BY TypesSplit DEF ReadyInv, Checking, Idle
<1>1. CASE r \in {q, Idle}
  BY <1>0, <1>1
<1>2. CASE r.op \in {"add_set", "upload", "task_asset", "set_asset"} /\ r.todo = {} /\ r.checked = {}
  BY <1>0, <1>2, CheckingKept
<1>3. ASSUME NEW c \in Contests, Publish(h, c) PROVE Checking(r)
  <2>1. r = [Idle EXCEPT !.op = "publish", !.contest = c,
                         !.todo = {<<t, task[t].schema>> : t \in TasksOf(c)}]
    BY <1>0, <1>3, RequestIs DEF Publish
  <2>2. r.op = "publish" /\ r.checked = {} /\ r.todo = {<<t, task[t].schema>> : t \in TasksOf(c)}
    BY <2>1 DEF Idle
  <2>3. \A t \in TasksOf(c) : Ever(t)
    BY DEF TasksOf, TaskExists, Ever
  <2>4. \A x \in r.todo : Ever(x[1])
    BY <2>2, <2>3
  <2>5. QED
    BY <2>2, <2>4 DEF Checking
<1>4. ASSUME NEW c \in Contests, ListPhaseDefs(h, c) PROVE Checking(r)
  <2>1. r = [Idle EXCEPT !.op = "seed", !.contest = c, !.keys = Keys \ defs[c]]
    BY <1>0, <1>4, RequestIs DEF ListPhaseDefs
  <2>2. r.op = "seed" /\ r.checked = {} /\ r.todo = {}
    BY <2>1 DEF Idle
  <2>3. QED
    BY <1>0, <2>2, CheckingKept
<1>5. CASE TaskStep(h)
  <2>1. CASE AddEvaluationSet(h) \/ AddTaskAsset(h) \/ AddSetAsset(h)
    <3>1. Done(h) \/ Goto(h, [q EXCEPT !.left = Tail(q.left)])
      BY <2>1 DEF AddEvaluationSet, AddTaskAsset, AddSetAsset
    <3>2. r = Idle \/ r = [q EXCEPT !.left = Tail(q.left)]
      BY <1>0, <3>1, RequestIs DEF Done
    <3>3. q.op \in {"add_set", "task_asset", "set_asset"}
      BY <2>1 DEF AddEvaluationSet, AddTaskAsset, AddSetAsset
    <3>4. r = Idle \/ (r.todo = q.todo /\ r.checked = q.checked /\ r.ok = q.ok /\ r.op = q.op)
      BY <1>0, <3>2 DEF Request
    <3>5. QED
      BY <1>0, <3>3, <3>4, CheckingKept
  <2>2. CASE UploadObject(h)
    <3>1. r = [q EXCEPT !.op = "statement"]
      BY <1>0, <2>2, RequestIs DEF UploadObject
    <3>2. r.todo = q.todo /\ r.checked = q.checked /\ r.ok = q.ok /\ r.op = "statement"
      BY <1>0, <3>1 DEF Request
    <3>3. QED
      BY <1>0, <3>2, CheckingKept
  <2>3. CASE SetStatement(h)
    BY <1>0, <2>3, RequestIs DEF SetStatement, Done
  <2>4. QED
    BY <1>5, <2>1, <2>2, <2>3 DEF TaskStep
<1>6. CASE PhaseStep(h)
  <2>1. \/ r = Idle
        \/ \E k : r = [q EXCEPT !.keys = @ \ {k}, !.seeded = TRUE]
        \/ \E k : r = [q EXCEPT !.keys = @ \ {k}]
        \/ r = [q EXCEPT !.op = "relist"]
    <3>1. CASE SeedPhaseDef(h)
      BY <1>0, <3>1, RequestIs DEF SeedPhaseDef, Done
    <3>2. CASE SeedConflict(h)
      BY <1>0, <3>2, RequestIs DEF SeedConflict
    <3>3. CASE SeedingEnds(h) \/ Relist(h)
      BY <1>0, <3>3, RequestIs DEF SeedingEnds, Relist, Done
    <3>4. QED
      BY <1>6, <3>1, <3>2, <3>3 DEF PhaseStep
  <2>2. r = Idle \/ (r.todo = q.todo /\ r.checked = q.checked /\ r.ok = q.ok)
    BY <1>0, <2>1 DEF Request
  <2>3. r.op \in {"idle", "seed", "relist"}
    BY <1>0, <1>6, KindsKept
  <2>4. QED
    BY <1>0, <2>2, <2>3, CheckingKept
<1>7. CASE PublishStep(h)
  BY <1>7, CheckingStep
<1>8. RequestFate(h)
  BY <1>0, RequestFates
<1> HIDE DEF q
<1>9. QED
  BY <1>1, <1>2, <1>3, <1>4, <1>5, <1>6, <1>7, <1>8 DEF RequestFate, q

LEMMA VerifiedGrows ==
  ASSUME TypeInv, [Next]_vars, NEW v \in verified'
  PROVE  v \in verified \/ \E h \in Handlers : req[h].ok /\ v \in req[h].checked
<1> SUFFICES ASSUME verified' # verified
             PROVE  v \in verified \/ \E h \in Handlers : req[h].ok /\ v \in req[h].checked
  OBVIOUS
<1>1. ContestStep => verified' = verified
  BY DEF ContestStep, CreateContest, Archive, Publish, DeleteContest, OneStatement, Begin
<1>2. TaskRequest => verified' = verified
  BY DEF TaskRequest, DeleteTask, CreateEvaluationSet, UpdateTask, CreateTask, UploadStatement,
     CompleteTaskAssets, CompleteAssets, OneStatement, Begin
<1>3. PhaseRequest => verified' = verified
  BY DEF PhaseRequest, CreatePhaseDef, DeletePhaseDef, ListPhaseDefs, CreatePhase, UpdatePhase,
     SetPhaseFrozen, DeletePhase, Submit, OneStatement, Begin
<1>4. ASSUME NEW h \in Handlers, TaskStep(h) \/ PhaseStep(h) \/ StatementFails(h)
      PROVE  verified' = verified
  BY <1>4 DEF TaskStep, AddEvaluationSet, UploadObject, SetStatement, AddTaskAsset, AddSetAsset,
     PhaseStep, SeedPhaseDef, SeedConflict, SeedingEnds, Relist, StatementFails
<1>5. ASSUME NEW h \in Handlers, PublishStep(h)
      PROVE  verified' = verified \/ (req[h].ok /\ verified' = verified \cup req[h].checked)
  BY <1>5 DEF PublishStep, CheckTaskAssets, ListEvaluationSets, CheckSetAssets, NotReady,
     OpenRegistration
<1>6. QED
  BY <1>1, <1>2, <1>3, <1>4, <1>5 DEF Next, vars

LEMMA ReadyStep == ReadyInv /\ [Next]_vars => ReadyInv'
<1> SUFFICES ASSUME ReadyInv, [Next]_vars PROVE ReadyInv'
  OBVIOUS
<1>0. TypeInv /\ TypeInv'
  BY NextTypes DEF ReadyInv
<1>1. ASSUME NEW h \in Handlers PROVE Checking(req[h])'
  <2>1. PICK r : r = req'[h]
    OBVIOUS
  <2>2. r \in Request /\ Knows(r)
    BY <1>0, <2>1 DEF TypeInv, TypeOK
  <2>3. Checking(r)'
    BY <1>0, <2>1, <2>2, CheckingGoesOn, CheckingLasts
  <2>4. QED
    BY <2>1, <2>3 DEF Checking
<1>2. ASSUME NEW v \in verified' PROVE Confirmed(v)'
  <2>1. v \in Checked
    BY <1>0 DEF TypeInv, TypeOK
  <2>2. Confirmed(v)
    BY <1>0, VerifiedGrows DEF ReadyInv, Checking
  <2>3. QED
    BY <1>0, <2>1, <2>2, ConfirmedLasts
<1>3. QED
  BY <1>0, <1>1, <1>2 DEF ReadyInv

\* What a publication has checked of a task stays true as long as the task
\* exists, although the checks are not one transaction with the opening.
THEOREM CheckedStaysReady == Spec => []VerifiedStaysReady
<1>1. Init => ReadyInv
  BY InitTypes DEF Init, ReadyInv, Checking, Idle
<1>2. ReadyInv => VerifiedStaysReady
  BY DEF ReadyInv, VerifiedStaysReady, Confirmed
<1>3. QED
  BY <1>1, <1>2, ReadyStep, PTL DEF Spec
=============================================================================
