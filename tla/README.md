# A TLA+ model of OLPAI's judging system

OLPAI is an online judge for AI contests: a Go API over Postgres and Redis
streams, judges that run on volunteers' machines and poll the API, an older
judge that reads the stream itself, a goroutine that keeps leaderboards, and a
React front end. These modules model the parts in which independent processes or
overlapping requests share stores without a transaction: the preparation of a
contest, registration and uploads, the judging pipeline, the registry of
workers with its scheduler, and the leaderboards.

All source paths below are relative to `src/`.

## 1. The system

| Component | State | Operations | Talks to |
|---|---|---|---|
| Submission handlers, `backend/internal/http/handlers/submissions.go` | `submissions` (status, scores, is_final), `submission_files` | InitiateUpload, CompleteUpload, MarkFinal, reads | `jobs:judge`, `jobs:results` |
| Worker handlers, `.../handlers/volunteer_workers.go` | `volunteer_workers`, `volunteer_worker_claims`, run time logs | Register, Heartbeat, NextJob, ClaimNext, JobHeartbeat, SubmitResult, AdminApprove, AdminReject, AdminDelete | agents, both streams, `submissions` |
| Queue, `backend/internal/queue/producer.go` | Redis streams `jobs:judge`, `jobs:results` | EnqueueJudge (XADD), DequeueOne (XREADGROUP), PeekPendingJobs (XRANGE), ClaimMessage (XRANGE and XDEL), Ack, EnqueueResult | |
| Reaper, `backend/cmd/api/main.go` (runWorkerTimeoutWatcher) | what it read this tick | every minute: delete stale claims, requeue their submissions, requeue orphans | claims, `submissions`, `jobs:judge` |
| Volunteer agent, `volunteer-agent/app` | claim slots, a queue of jobs, an artifact cache | one dispatcher thread polls, n threads judge, heartbeat and report with retries for 180 s | worker handlers |
| Official worker, `backend/workers/app` | the batch it read | reads `jobs:judge` in the consumer group, updates `submissions` by id, acknowledges | `jobs:judge`, `jobs:results`, `submissions` |
| Leaderboard bridge, `backend/internal/queue/leaderboard_bridge.go` | leaderboards, a Redis ZSET per task and phase | consumes `jobs:results`, recomputes fully or incrementally | Postgres, Redis |
| Scheduler, `backend/internal/scheduler` | none (pure) | worker profiles, slots, run time and cost estimates, ranks, corrections | worker handlers (slots, demands and run times), tests (the rest) |
| Worker registry, `.../handlers/volunteer_workers.go` | `volunteer_workers`, `experiment_events`, `job_execution_logs` | registration, the admin's decisions, tokens, counters, events and run times of jobs | worker handlers, reaper |
| Teams and entries, `.../handlers/teams.go`, `entries.go`, `entry-members.go` | teams, team members, contest entries, line-ups | create, invite, accept, remove, delete | submission handlers (by foreign keys) |
| Contest set-up, `.../handlers/contests.go`, `evaluation_sets.go`, `tasks.go`, `phase-defs.go`, `phases.go` | contests, tasks, evaluation sets, assets, phase definitions, phases | create, publish, archive, delete, seed the standard definitions | object store |
| Rate limiter, `.../middleware/rate_limit.go` | counters in Redis | INCR, EXPIRE | |
| Accounts, communications, statistics | their tables | single statements | |
| Front end, `frontend` | a cache of queries | polls a submission until it is done or failed | API |

What is hard here is that nothing is transactional across stores. A submission
is queued by an update and then an XADD; a job is taken by an XDEL, then an
INSERT of a claim, then an update to running; a result is an update, an XADD
and a DELETE. Each step may fail, errors are mostly ignored (`_ =`), an HTTP
client that gives up cancels the context of the rest of the handler, and the
reaper interferes between any two steps. The hazards, each at its line, are in
`PROJECT.json`.

What should hold, per component:

- pipeline: a result comes from the newest attempt only; no queued submission
  is lost; a job is in one place; a finished submission stays finished;
  capacity is respected; every claim ends; no submission stays running;
- submissions: the limit per phase and entry, one final submission per entry,
  task and phase, no queued submission without its files;
- teams and entries: members consented, one entry per participant and mode,
  a submission keeps its entry and its author;
- set-up: what was checked when a contest was published stays true, a phase
  keeps what it refers to, submissions keep their phase;
- registry: a job is counted and logged once, whatever is repeated; what the
  scheduler says of the pool is what the claim handlers do;
- bridge: a leaderboard entry is that of the best submission, ranks agree with
  scores, each committed result is eventually reflected;
- agent: never more jobs than slots; a slot is given back exactly once;
- rate limiter: a counter eventually resets;
- scheduler: the comparison of costs orders workers, slots are never negative.

## 2. Modules

| Module | What it is |
|---|---|
| `WorkerProfile` | the slot rules of `scheduler/profile.go` |
| `JudgePipeline` | the pipeline, the reaper and the agents as the API sees them |
| `FencedLease` | the abstract specification: what the table of claims promises; `JudgePipeline` and `WorkerRegistry` implement it |
| `OfficialWorker` | the official worker, composed with `JudgePipeline` |
| `Scheduler` | `scheduler/cost.go`, `availability.go`, `corrector.go` as operators; extends `WorkerProfile` |
| `WorkerRegistry` | workers, tokens, counters, events and run times; extends `Scheduler` |
| `Boards` | the queries that each leaderboard is |
| `LeaderboardBridge` | from `jobs:results` to the boards: bridge, sorted set, readers; extends `Boards` |
| `ContestTables`, `Teams`, `Entries`, `Submissions` | the participants' tables and requests |
| `Registration` | these requests composed, with the administrator and failing statements |
| `SetupTables`, `SetupTasks`, `SetupPhases` | the administrator's tables and requests |
| `ContestSetup` | these requests composed, with publication |
| `MC...` | the small instances for TLC |
| `FencedLeaseProofs` | what every fenced lease keeps |
| `JudgePipelineProofs`, `JudgePlaceProofs` | proofs about `JudgePipeline`: types, order of attempts and refinement; losses, places and capacity |
| `RegistrationProofs`, `ContestSetupProofs`, `LeaderboardProofs` | proofs about `Registration`, `ContestSetup` and `LeaderboardBridge` |
| `WorkerRegistryProofs` | proofs about `WorkerRegistry`, and about the operators of `Scheduler` |
| `FiniteSums` | induction over a set of numbers, least elements and sums over finite sets, for the proofs about counters, totals and limits |

Definitions whose comment begins with "Mutant of" are variants with a bug. No
specification uses them; put in the place of the original they show which
property notices. In every module one SQL statement or one Redis command is
one step, and the requests in flight are records in `req` whose `pc` or `op`
names the statement that comes next.

### JudgePipeline and the code

One SQL statement or one Redis command is one step, and so is a check of a
request up to its first write. A request in flight is a record in `req`: `pc`
is the statement it executes next, the other fields are what it has read.

| Variable | In the code |
|---|---|
| `status`, `resultBy` | `submissions.status`; whose result the row holds (history, compared by properties only) |
| `claim` | the row of `volunteer_worker_claims` for a submission (`submission_id` is unique), its `attempt_id` and its age |
| `stream` | `jobs:judge`; an entry is `delivered` once the consumer group has read it, and stays until XDEL |
| `results` | what SubmitResult added to `jobs:results` |
| `req` | HTTP requests in flight |
| `watch` | where the reaper is within a tick: submissions to look at, the one between its update and its XADD |
| `jobs` | the jobs agents hold, with the verdict they will report |
| `wstatus` | `volunteer_workers.status`, or that the row is gone |
| `uploads`, `nextAttempt` | counters; `attempt_id` is a random UUID, modelled as a number so that "newer" is defined |

| Actions | In the code |
|---|---|
| CompleteUpload, Enqueue | MarkSubmissionQueued, then EnqueueJudge; Enqueue also ends every failed poll |
| ClaimNext, CountKinds, ClaimMessage, NoCompatibleJobs | ClaimNext: capacity, the counts by kind, the scan |
| NextJob, Dequeue, CheckKind | NextJob: capacity, DequeueOne, the counts and the kind |
| CreateClaim, ClaimConflict, MarkRunning | dispatchJob: the INSERT, its failure, MarkSubmissionRunning and the response |
| JobHeartbeat, SubmitResult, MarkResult, StaleResult, EmitResult, DeleteClaim | the agent's two other requests |
| LeaseLapses, ClaimOverdue | time: the lease of 2 minutes, and the limit on `claimed_at` (10 minutes, 30 for a final phase) |
| DeleteStaleClaims, RequeueStale, DiscardStale, EnqueueStale, RequeueOrphans, EnqueueOrphan, TickEnds | a tick of the reaper |
| Abort, DispatchFails, MarkRunningFails, ResponseLost, EmitFails, RequeueFails, WatcherCrash, DropJob | failures |

Abort stands for a crash of the API and for a client that disconnects: its
context is cancelled, so each later statement fails and its error is ignored.
A restart of the API ends every request and the tick; ending them one by one
gives the same states.

Abstractions. Time is the age of a claim: fresh until the lease, lapsed after
it, overdue beyond the limit; a heartbeat renews a lapsed lease, never an
overdue claim, as the query compares `claimed_at`. Whether an orphan is older
than three minutes is left open (any subset of the orphans). A candidate that
ClaimNext skips because another request removed it, or because its lookup
failed, is the freedom to pick any compatible candidate. The pending entries
list of the consumer group is never read by the code, so Ack changes nothing.
Counters of workers, run time logs and experiment events are in
WorkerRegistry; metrics are only written.

`FencedLease` keeps of all this, per submission, who holds the lease and whose
result stands; `JudgePipeline!ImplementsLease` is the refinement.

### OfficialWorker and the code

`official` is the process of `backend/workers/app`: `pc`, the batch that
XREADGROUP returned, and whether an error passed through `__call__`, in which
case `consume_forever` marks the submission as failed once more. Read, Start,
MarkDone, Announce and AckEntry are its statements in order (`queue.py`,
`main.py`, `db.py`); StartFails, RunFails, MarkFailed, AnnounceFailed and
MarkFailedFails are its two levels of error handling; after OfficialCrash a
process reads new entries only. Acknowledging changes nothing in `stream`, as
XACK deletes no entry.

### LeaderboardBridge and the code

| Variable | In the code |
|---|---|
| `sub`, `dq` (of `Boards`) | the columns of `submissions` and `contest_entries` that the queries read |
| `announcing` | results committed and not yet announced by their producer |
| `results`, `bridge` | the unread part of `jobs:results`; per API process its batch, its next statement and what it has read |
| `zset` | the sorted set of a phase, a score per entry |
| `board`, `cboard`, `ranking` | `task_phase_leaderboard_entries`, `contest_phase_leaderboard_entries`, `global_phase_rankings` |
| `req`, `asked` | readers and MarkFinal in flight; a bound |

A message goes through the incremental path (GetMaxScore, GetBestSubmission,
UpdateScore, RevRank, ZCard, UpdateSingleEntry) or through the full one
(FullRecomputeTaskPhase, WriteTaskRows, SeedRead, SeedPhase), then the contest
board and the global ranking are recomputed, DeleteStaleRankings follows, and
NextMessage is the acknowledgement. A recomputation is one SQL statement in the
code but two steps here: the snapshot that it reads, and the moment its rows
become visible, so that two of them can overlap. The handlers that recompute
before they answer (TaskPhaseBoard, ContestPhaseBoard, GlobalPhaseRanking) do
so by their own queries, which break ties differently; `Boards` has both
(BridgeKey, IncrementalKey, HandlerKey). Ties of a time are broken by the
number of a submission, which stands for `submitted_at`. `ScaleScores` turns on
the normalisation of scores by the best one of the phase. `Judge` and `Rejudge`
stand for the whole of JudgePipeline. `Faults` names the failures considered:
`incremental` and `full` (an error of that path), `boards` (an error of one of
the two other recomputations), `read` (XREADGROUP fails and the loop ends),
`crash` and `emit` (an announcement is lost).

### Registration and the code

`team`, `member`, `entry`, `lineup`, `phase`, `sub` and `files` are the rows of
the tables with these names; a deleted row stays `Gone`. The constraints of the
migrations are guards of the statement they would fail: SlotFree are the two
unique indexes of entries, SubmissionRefs the foreign keys of a submission,
HasSubmitted the one that keeps an author in the line-up. `agreed` is history:
who accepted the invitation of which team. `jobs` and `results` are what was
put on the two streams.

| Actions | In the code |
|---|---|
| CreateTeam, AddOwner, DeleteTeam, AddMember, AcceptInvitation, DeclineInvitation, RemoveMember | `teams.go` |
| CreateEntry, InsertEntry, AddLeader, ListMembers, AddLineup, DeleteContestEntry, AddMemberByHand, RemoveEntryMember | `entries.go`, `entry-members.go` |
| InitiateUpload, CreateSubmission, CompleteUpload, CreateSubmissionFile, MarkSubmissionQueued, EnqueueJudge, MarkFinal, MarkSubmissionFinal, EnqueueResult | `submissions.go` |
| DeletePhase, DeleteContest, ContestEnds, StatementFails | the administrator, time, and errors |

### ContestSetup and the code

`contest`, `task`, `sets`, `taskAssets`, `setAssets`, `defs` and `phase` are the
rows; `objects` the statements in the object store; `used` the phases with
submissions. `verified` is history, what a publication that succeeded had
checked, and `dropped` the definitions somebody deleted. Publish is a request
of about ten reads (CheckTaskAssets, ListEvaluationSets, CheckSetAssets) and one
write (OpenRegistration). CreateTask inserts the task and then its sets
(AddEvaluationSet); UploadStatement writes the object (UploadObject) and then
the row (SetStatement). A statement is empty, a link, the task whose object it
names, or another key: requests may name any of them (`Urls`), whether or not
the object is there, and Served says of which GetStatement finds something (of
another key nothing is known). ListPhaseDefs inserts what is missing of the standard
definitions (SeedPhaseDef, SeedConflict) and may read the list again (Relist).
The cascades are those of the migrations, including the phase definition of
another contest.

### WorkerRegistry, Scheduler and the code

| Variable | In the code |
|---|---|
| `row` | `volunteer_workers`: status, token, the counters of jobs completed and failed |
| `status`, `queue`, `claim` | `submissions.status`, how many entries of the stream carry a submission, its claim |
| `events` | `experiment_events`, counted by attempt and kind |
| `logs` | `job_execution_logs`: the ratio of real to predicted time, the peak of memory |
| `req`, `watch` | requests in flight, the reaper |

Register, AdminApprove, AdminReject and AdminDelete change the row; ClaimNext,
FetchWorker, Dispatch, NoJob and MarkRunning are a poll; SubmitResult,
CheckResult, MarkResult, CountResult, RecordResult and DeleteClaim a result, up
to the log of run times; DeleteStaleClaims, RequeueStale, CountRequeued and
RequeueOrphan the reaper, with the counter and the event that JudgePipeline
leaves out. A token is the number of the approval that issued it. The order of
the stream, failures and the age of leases are the subject of JudgePipeline:
here a lease may lapse at any time, and each submission is uploaded once.

`WorkerRegistry!ImplementsLease` maps the claims to the leases, the last attempt
with events to the last token, and the attempts whose result was committed, as
the events or a request about to write them say, to the writes.

`Scheduler` has the functions of the package over whole numbers: times are
whole seconds, ratios, stress and waste thousandths. Of these functions the
handlers call EstimateRuntime, EstimateJobDemand and CanAcceptJob; the rest is
called from tests only, and is checked here against what the handlers do.

## 3. Runs

Each run is `tlc -config <run>.cfg <module>`.

| Run | Module | Checks | Shows |
|---|---|---|---|
| `fencing` | `MCJudgePipeline` | TypeOK, Fenced, NewestAttemptWins, ImplementsLease | two workers, a repeated upload and a failure at any statement: late results never replace newer ones, and the pipeline refines `FencedLease` |
| `no_lost_job` | `MCJudgePipeline` | NoLostJob, CommittedIsAnnounced, CapacityRespected | without failures, no interleaving loses a job or a result, and an exclusive worker with one slot per kind never holds too much; both kinds of poll |
| `reaping` | `MCJudgePipeline` | JobInOnePlace, TerminalStays, ClaimsEnd, RunningEnds | overlapping polls and every failure: one upload makes one job, and the reaper ends whatever hangs |
| `official` | `MCOfficialWorker` | FinishedNotJudgedAgain fails | an entry that the official worker has read and finished is given to a volunteer |
| `stale_lost` | `MCJudgePipeline` | StaleJobRequeued fails | update, then a failed XADD: the job is gone |
| `boards_settle` | `MCLeaderboardBridge` | TypeOK, TaskRowsFollow, ContestBoardFollows, RankingFollows, PageInOrder | results in any order and a final mark: a bridge that has caught up shows what the submissions say |
| `boards_faults` | `MCLeaderboardBridge` | ChosenIsOwn | readers that recompute, disqualifications, failures, restarts: no row names another entry's submission |
| `results_reach_board` | `MCLeaderboardBridge` | ResultsReachBoard | liveness of the bridge, with failing updates of the task board and a submission judged again |
| `first_row` | `MCLeaderboardBridge` | TaskRowPublished fails | the first result of a phase changes no row of its task board |
| `registration` | `MCRegistration` | TypeOK, SubmissionsAnchored, Consented, OneEntryPerMode, LimitOvershoot, FilesCoverCount, QueuedFits, FinalsBounded | what constraints and statement order keep true, and how far the unguarded pairs of check and act can go |
| `setup` | `MCContestSetup` | TypeOK, VerifiedStaysReady, PhasesAnchored, SeedingCompletes, UsedPhasesKept, StatementStaysServed | administrators who prepare, publish and take apart two contests at once |
| `fleet` | `MCWorkerRegistry` | TypeOK, CountersMatchEvents, OutcomeRecordedOnce, FreeSlotsAreClaimable, BestWorkerCanTakeIt, CorrectionFollowsRuns, ImplementsLease | new tokens, deletions, late and repeated results, reaped claims: nothing is counted twice, the registry refines `FencedLease`, and the scheduler agrees with the handlers |

The runs that fail disagree with the document quoted in `PROJECT.json`.

### Bounds

- Two request slots suffice for every race of two requests; the reaper, the
  agents, the bridge and the official worker run beside them.
- Pipeline: one submission suffices for fencing and the single place, as no
  rule relates two submissions except the slots, for which `no_lost_job` has one
  of each kind. Two attempts make a predecessor and a successor. `MaxUploads` = 2
  is one repeated call. `MaxStream` bounds NextJob, which leaves its entries
  behind; every other step moves entries without adding any. `PollsPerWorker` =
  1 in `no_lost_job` is the agent's single dispatcher thread (`cli.py`,
  dispatcher_loop); with two polls of one worker in flight the check of the
  slots is a race, and CapacityRespected fails. `CandidateLimit` is 24 in the
  code. `reaping` allows one CompleteUpload per submission and no polls of
  jobs/next (the agent tries claim-next first; NextJob never deletes its
  entry, so ClaimNext finds it again): JobInOnePlace and TerminalStays hold
  under these two preconditions, which the code does not enforce.
- Boards: two entries give a rank to lose, three submissions a best one to
  replace, two scores an order and ties. `boards_faults` has a phase for each
  entry, so that a row of the wrong phase would show, and one request that
  changes a table. PageInOrder is not checked there: it does not hold when
  readers recompute at the same time as the bridge. It quantifies over all pages
  (`Pages`) that ORDER BY allows, with the rows of equal columns in any order.
- `registration`: two users, teams, entries and phases, six submissions of
  which three are there at first, and three requests, so that two uploads
  overlap at a limit of one and the files of two completions at the size limit.
  The first phase has no submission at first, so that it may be deleted.
  `LimitOvershoot` and `FinalsBounded` are stated by the number of handlers.
- `setup`: two contests and tasks, one phase, two standard keys, four requests:
  two overlapping ones and what each needs before it. The statements that
  requests name are a link, a key of no statement, and the first task's object,
  which is the own one for that task and a foreign one for the other.
- `fleet`: a worker that may be approved twice, another once; two claims in all;
  one submission of each kind; two earlier runs of each kind, so that the third
  makes the correction and the observed profile apply.
  Two claims are two leases of one submission, or one of each. The request
  slots are interchangeable (symmetry).

### Fairness

In `reaping` and `stale_lost` the ticker of the reaper keeps firing and its
statements do not block, so each is weakly fair; a claim's age grows; an orphan
that stays one is older than the cutoff sooner or later, and the reaper passes
that point in each tick (strong fairness of RequeueOrphans). Nothing is assumed
of agents, clients or requests: RunningEnds holds although no agent ever
reports and the process may restart during any tick. In `results_reach_board` a
producer announces what it has committed and the bridge's loop goes on (weak
fairness of EnqueueResult and BridgeStep); a crash or a failed XREADGROUP, after
which nothing goes on, are not among its faults. `first_row` and `official`
refute safety and need no fairness.

## 4. Proofs

`tlapm <module>` checks them; the assumptions are the named ASSUMEs on the
constants: submissions, workers, entries and concurrent requests are finite sets
of any size, the initial tables are consistent. Where a theorem asks for more
(`ASSUME ... PROVE`), it is said below, with the behaviour that it leaves out and
why. Of the properties that the passing runs check, all but those of the last
paragraph are proved.

Several invariants bound a number of rows. FiniteSetTheorems has the facts about
cardinalities of a set and of a part of it. Sums over a set (MapThenSumSet) and
the least element of a set need induction over finite sets; the induction
theorems of the library take an operator, so `SetInduction` states induction for
a set of natural numbers instead, and SumSame, SumSplits and LeastOf follow.
They are in `FiniteSums`, which knows nothing of the judge.

FencedLease, the abstract specification:

- `LeaseKeepsOrder` and `LeaseWritesInOrder`: a token larger than all before it for
  each grant, and the holder's token for each write, suffice for writes that
  never go back, however often leases are revoked. What implements FencedLease
  inherits both.

JudgePipeline:

- `TypeCorrect`: `Spec => []TypeOK`. TypeOK is inductive because it says what a
  request has read by its `pc` (RequestOK). It splits into RequestsOK and
  TablesOK, each proved with one step per action.
- `FencedAlways`: `Spec => []Fenced`. NewestAttemptWins is no invariant, and
  what it needs is spread over jobs, requests, rows and claims, so Fenced
  orders their attempts: all below `nextAttempt`, and those of a claimed
  submission at most its claim's. The lemmas ClaimStep, JobStep, ResultsStep
  and RequestStep say how a step may change each store, and StaysBehind that an
  attempt handed out earlier stays behind the claim.
- `Fencing` and `Refinement` follow: only MarkResult changes a result, and its
  condition names the current claim.
- `NothingLost`: `ReliableSpec => []NoLostJob`. NoLostJob is inductive with
  TypeOK: StreamHandsOver, CarrierHandsOver and ReaperHandsOver show that
  whoever takes a job out of one place holds it next, QueuedByCarrier that
  whoever queues a row carries its job.
- `CommittedResultsAnnounced`: `ReliableSpec => []CommittedIsAnnounced`, by the
  only step that ends the request which has committed (AnnouncerFootprint).
- `OneJobOnePlace` and `FinishedStaysFinished`: under `MaxUploads <= 1` (a client
  completes an upload once) and `UseNextJob = FALSE`, with all failures. PlaceInv
  adds to JobInOnePlace that the stream has a single entry of a submission, that
  a running or finished one has no job anywhere, and that there is none before
  the upload is completed. Both conditions are real: section 5 says what a
  second completion does.
- `CapacityIsRespected`: under `PollsPerWorker <= 1`. The count and the insert are
  two statements, so CapacityInv says of every poll past its count that there is
  still room for what it may insert (HasRoom); that holds as the worker's only
  other requests free slots.

Registration:

- `RegistrationTypes`: types of tables and requests, one lemma per component.
- `SubmissionsStayAnchored`: the inductive invariant is Anchored, which adds to
  SubmissionsAnchored the typing of the references. A step either changes only
  submissions (AnchoredBySubs: an insert checks its foreign keys) or only
  entries (AnchoredByEntries: a line-up row with a submission stays).
- `MembersConsented`: ConsentInv also says what a request between CreateTeam and
  AddOwner knows: its user owns the team or the team is gone.
- `QueuedFilesExist` and `QueuedFitTheLimit`: FilesInv and SizesInv also say of a
  completion in progress that what is left to insert and the rows there are
  together cover what it will claim, and that the size it will write was checked
  against the limit of that phase.
- `EntryIsUnique`: the two partial indexes, for every order of requests.
- `LimitIsNearlyKept`: LimitInv counts, for a phase with a limit, the submissions
  of the slot and the requests that have passed the check; their sum stays below
  the limit and the number of handlers, as an insert moves one from the second
  set to the first.
- `FinalsAreBounded`: MarksInv counts the final submissions and those about to be
  marked together; a reset leaves only what some request is about to mark.

ContestSetup:

- `SetupTypes`: TypeInv adds what a request knows at its statement (Knows).
- `PhasesStayWhole`: AnchorInv adds that a task has its contest, because the
  cascades run along both references. `SubmissionsKeepPhases` is an action
  property over it, and so is `LimitsStay`: LimitKept is proved and in no run.
- `StatementsStayServed` is an action property over StoreInv: whoever is about to
  set a statement has written the object, which is never deleted (ObjectsGrow).
  TaskKept says who may change a statement: that request, or an administrator
  who names another one, whose statement may well have no object.
- `SeedingIsComplete`: SeedInv adds that a contest being seeded has existed, so
  that a key that disappears was dropped by somebody.
- `CheckedStaysReady`: ReadyInv says what each request that publishes has found so
  far (Checking) and that what was found lasts as long as the task (TaskLasts).

LeaderboardBridge:

- `BoardsTypes`: TypeInv says of a bridge and of a reader what it has in hand at
  each of its statements.
- `RowsNameOwnSubmissions`: any number of bridges and readers and every fault, but
  no submission judged anew (`"rejudge"`), because a row keeps naming it while
  it is queued again. OwnInv says the same of what is in hand.
- `ContestBoardIsRecomputed` and `RankingIsRecomputed`: a single bridge, no
  announcement lost, no failing recomputation of these boards, no crash and
  nothing judged anew. A reader's own query may not run (it breaks ties
  otherwise, and it may write older rows late), and for the ranking nothing is
  disqualified, which announces nothing. ContestInv and RankingInv: something is
  still to be read or looked at, or else what the bridge has in hand, and later
  the table, is what the query answers now. Failures of the task board are
  allowed.
- `TaskBoardsFollow`: a single bridge, higher scores better and the best one
  counting in all phases, no announcement lost, no failing full recomputation,
  no crash, nothing judged anew, no reader of the task board. TaskInv says the
  same as above of each slot of entry and phase: a message of that slot is
  pending, or the row in hand or on the board names the first submission in the
  order of the query and its score. Where lower scores are better or the latest
  counts, the incremental path picks another submission than the full one (its
  query always takes the highest score), so there is nothing to prove. That a
  single bridge is needed follows from the two steps of a recomputation; several
  bridges are one consumer group in the code, and a late write of one of them may
  undo a newer one of another.
- `PagesAreInOrder`: a single bridge, nothing judged anew, no reader of the
  contest board; every fault is allowed, as a board that is late is in order
  too. The rows of one recomputation are in order among themselves (RankFalls: a
  greater total has a smaller dense rank), but a page shows the rows of the
  table. OrderInv therefore says that the rows shown, and those of a
  recomputation in hand, are ordered, and that a recomputation in hand has a row
  for every entry that is shown: an entry that had a result keeps one
  (ResultsStay), so each recomputation replaces all rows of those before it.
  Without the first condition an entry whose only submission is judged again
  keeps its old row among new ones; without the other a reader that read earlier
  than the bridge may write later.

WorkerRegistry:

- `RegistryTypes`: TypeInv adds that requests, claims and the list of the reaper
  name an attempt of that very worker and submission.
- `OneOutcomePerAttempt`: OnceInv says that a submission is in one place, that
  one of which an attempt has reported is no longer queued or running
  (ConcludedIsOver), that claims and what the reaper took are of attempts not put
  back yet (ClaimsOpen), and that the log has no more lines of an attempt than it
  has results (LogsBacked).
- `CountersAreBacked`: CounterInv is the property with the sums written as sums
  over a function; a step that counts moves a result from those being committed
  to the events, or leaves it among them.
- `FreeSlotsAreHandedOut`: from the theorems on the scheduler's operators below,
  for the pool of every reachable state.
- `JobsFindTheirWorker`: the worker with the least rank among those that can take
  the job is not beaten by a full one, provided it finishes within the default
  wait. The premise was found by the proof: a longer job is left for a full
  worker whose unknown finish time is replaced by that default.
- `FactorFollowsRuns`: the log has only rows of Log, so the ratios of a kind are a
  finite group of positive numbers (Group), to which `MedianHalvesTheRuns`
  applies.
- `RegistryImplementsLease`: the steps are those of `FencedLease` under TypeInv,
  OnceInv and UsedFirst, which says that the attempts with events are the first
  ones, so that a new attempt is the next token (ClaimsGrant). A commit is a write
  by the holder (CommitWrites): its submission was running, and by
  ConcludedIsOver no attempt had been committed for it. Every other step revokes
  leases or none (QuietRevokes, RecordRevokes). `ClaimsAreOrdered` is
  LeaseKeepsOrder under that mapping: the attempt that holds a claim is at least
  as new as any that committed a result of its submission, and no two claims
  share one.

Scheduler, which is not a state machine:

- `FreeSlotsAreThoseClaimed` and `ScarcityCountsTheAccepting`: the free slots and
  the graphics processors the scheduler counts are those that CanAcceptJob
  accepts, for all profiles and loads.
- `FeasibleFitsEverySlot`: a feasible job fits in memory in all slots at once.
- `LessThanAsymmetric`, and `LessThanHasCycles`: with its tolerances the order is
  not transitive, so it is not the "lexicographic comparison" of the comment at
  `cost.go:108`.
- `MedianHalvesTheRuns`: at least half of a group of three or more rows is as
  large as the factor and at least half as small. `percentile_cont` sorts; here
  the k-th value is the least one that k rows do not exceed (SmallestIs), which
  needs no induction over a sorted sequence, and grows with k (SmallestGrows).

Model-checked only: liveness (ClaimsEnd, RunningEnds, ResultsReachBoard), which
is out of the prover's reach. FinishedNotJudgedAgain, StaleJobRequeued and
TaskRowPublished are false. Every other property of a run has a theorem.

## 5. Observed while modelling, without a run

Pipeline
- A second CompleteUpload requeues a submission that is done
  (`submissions.go:201`), although a client polls until it is terminal
  (`PRODUCT_UI_UX_SPEC.md:351`). With such a second job and a claim reaped
  between its insert and MarkSubmissionRunning, which has no condition, one
  attempt can commit twice.
- The reaper drops the stale claim of a submission that is not running with the
  message that it is terminal (`main.go:184-188`), also when it is still queued
  because MarkSubmissionRunning failed.
- ClaimNext looks at 24 entries (`volunteer_workers.go:348`, comment at :311):
  as many jobs of the other kind hide all that follow.
- A job of the official worker has no claim, so the reaper requeues it after
  three minutes; a failed announcement after `done` marks it failed; a crash
  loses the rest of its batch (`phase-05-queue-protocol.md:177`).

Boards
- The incremental update does not recompute the ranks of the other entries
  (`leaderboard_bridge.go:316`; `phase-04-incremental-leaderboard.md:38`).
- Scaled scores of a full recomputation and plain ones of the incremental path
  meet in one sorted set (`leaderboard_bridge.go:298`, `cache.go:13`).
- A restarted bridge does not read what it had not acknowledged
  (`leaderboard_bridge.go:105`; `phase-05-queue-protocol.md:178`).
- The handlers' boards ignore final marks (`leaderboards.sql.go:651`;
  `phase-hub-page.tsx:568`), the bridge's prefer them.

Registration and set-up
- Concurrent uploads exceed `submission_limit` (`phase-02-api-specification.md:332`)
  by at most what LimitOvershoot says.
- The tables of entries and line-ups differ from
  `phase-01-database-schema.md:103-105`.
- Publish and Archive ask for no earlier status (`contests.go:272`, `:276`). A
  phase may use the definition of another contest.
- POST and PATCH of a task take any text as `problem_statement_url`
  (`dto/tasks-phases.go:19`, `:30`, `tasks.go:144`, `:242`), and GetStatement reads
  what is no http link as a key (`tasks.go:300-309`): an administrator may leave
  a task whose statement names an object that is not there, or that of another
  task. StatementStaysServed therefore excepts the request that names it.
- A task with one of its two sets, because the second insert of Create failed,
  passes the checks of Publish (`tasks.go:169`, `contests.go:320`).
- A reader whose inserts of standard definitions all meet a conflict answers
  with the empty list it read first (`phase-defs.go:67`, `:94`).

Registry and scheduler
- A token replaced between the commit and IncrementWorkerCompleted or -Failed
  loses a count; CountersMatchEvents is therefore an inequality.
- GetAllActiveWorkersWithEarliestAvailable has no condition on `last_seen`, so a
  worker out of contact can be the best; a predicted finish time that has
  passed makes a full worker look free.
- A job that takes longer than the default wait of 20 minutes may be left for a
  full worker: its unknown finish time counts as 20 minutes from now, and if it
  would finish before every free worker, it is the best one
  (BestWorkerCanTakeIt has a premise for this).
- ComputeGPUScarcity looks at each worker by itself and returns 0 when all are
  busy.
- When the observed peak of memory exceeds a worker's share, no run time is
  predicted, the ratio is empty, and the correction no longer sees such runs.

## 6. Not modelled, and why

The hazards, each at its line, are in `PROJECT.json`, with the properties that
cover them or the reason why none does.

- Accounts, tokens and password reset: single statements around JWT and bcrypt;
  requests are taken as authenticated. Worker tokens are in WorkerRegistry.
- Rate limiter: two Redis commands in front of the handlers; it only refuses
  requests, which the modules allow never to come.
- Communications, statistics, admin lists, metrics, snapshots and decision
  logs: single statements and reads.
- Storage, e-mail, configuration, the seed and dbcheck commands: external
  services and one-shot tools.
- The artifact cache and the threads of an agent: they bound what one agent
  sends, and the modules allow any agent's requests.
- The judges' scoring: a verdict and a score are chosen freely.
- Titles, names, roles, listings, times and visibility of contests, the approval
  of entries, presigned URLs, the worker heartbeat: nothing modelled reads them.
- The trimming of `jobs:judge` at 100 000 entries, and retries inside the Redis
  client, which could add an entry twice.
- The front end: a client that polls.

What could follow: the semaphore and the job queue of the agent as a module of
their own under JudgePipeline's DropJob and SubmitResult; TaskBoardsFollow,
RankingFollows and PagesAreInOrder for several bridges, with the writes that one
of them may undo named; what the official worker keeps true beside the
volunteers, as theorems about OfficialWorker.
