--------------------------- MODULE WorkerRegistry ---------------------------
(***************************************************************************)
(* The table volunteer_workers and what the API keeps about the work of a  *)
(* worker: registration and the admin's decisions, the token that          *)
(* authenticates a worker, its job counters, the experiment events and the *)
(* log of run times that the scheduler learns from.                        *)
(*                                                                         *)
(* Requests are slots as in JudgePipeline, one statement a step.  Of the   *)
(* queue this module keeps the number of entries of each submission, and a *)
(* lease may lapse at any time: JudgePipeline has both in detail.  A token *)
(* is the number of the approval that issued it; a worker's row is never   *)
(* created twice.                                                          *)
(***************************************************************************)
EXTENDS Scheduler

CONSTANTS
  Workers,        \* the rows Register may create
  ProfileOf,      \* what a worker declares at registration ...
  BenchmarkOf,    \* ... and measured
  Submissions, FinalSubs,
  BytesOf,        \* submissions.total_size_bytes
  RunOf,          \* what an agent reports of each: outcome, time and peak
  Approved,       \* workers approved on earlier days ...
  History,        \* ... and the logs of those days
  Handlers,       \* slots for requests in flight
  None,
  MaxApprovals,   \* bounds: the tokens of each worker ...
  MaxAttempts     \* ... and the claims of all

ASSUME RegistryAssumption ==
  /\ ProfileOf \in [Workers -> Profile]
  /\ BenchmarkOf \in [Workers -> Benchmark]
  /\ FinalSubs \subseteq Submissions
  /\ MaxApprovals \in [Workers -> Nat]
  /\ BytesOf \in [Submissions -> Nat]
  /\ None \notin Workers \cup Submissions
  /\ MaxAttempts \in Nat
  /\ RunOf \in [Submissions -> [verdict: {"done", "failed"},
                               seconds: Nat \ {0}, ram: Nat]]

ASSUME FiniteAssumption ==
  IsFiniteSet(Workers) /\ IsFiniteSet(Submissions) /\ IsFiniteSet(Handlers)

VARIABLES
  row,       \* volunteer_workers
  status,    \* submissions.status
  queue,     \* entries of each submission in jobs:judge
  claim,     \* volunteer_worker_claims, by submission
  events,    \* experiment_events, grouped by attempt_id
  logs,      \* job_execution_logs
  req,       \* the requests in flight
  watch      \* the reaper

vars == <<row, status, queue, claim, events, logs, req, watch>>
-----------------------------------------------------------------------------
NoRow == [status |-> "none", token |-> 0, completed |-> 0, failed |-> 0]
Row == [status: {"none", "pending", "active", "rejected", "deleted"},
        token: Nat, completed: Nat, failed: Nat]

Attempts == 1..MaxAttempts
NoClaim == [worker |-> None, attempt |-> 0]
Claim == [worker: Workers, attempt: Attempts]

\* What the events of one attempt say: who claimed what, and how often its
\* result was committed and its job put back.
NoEvents == [worker |-> None, sub |-> None, done |-> 0, failed |-> 0,
             requeued |-> 0]
Events == [worker: Workers, sub: Submissions, done: Nat, failed: Nat,
           requeued: Nat]

\* ratio is the generated error_ratio, 0 for NULL.
Log == [isFinal: BOOLEAN, attempt: 0..MaxAttempts, ratio: Nat, ram: Nat]

\* The logs of earlier days are of no attempt of this instance.
ASSUME HistoryAssumption ==
  /\ History \in Seq(Log) /\ \A i \in DOMAIN History : History[i].attempt = 0
  /\ Approved \subseteq Workers

Request == [pc: {"idle", "fetch", "dispatch", "mark_running", "check",
                 "mark", "count", "record", "delete"},
            worker: Workers \cup {None}, token: Nat,
            sub: Submissions \cup {None}, attempt: 0..MaxAttempts,
            kinds: SUBSET BOOLEAN]
Idle == [pc |-> "idle", worker |-> None, token |-> 0, sub |-> None,
         attempt |-> 0, kinds |-> {}]

WatchIdle == [todo |-> {}, back |-> NoClaim]

TypeOK ==
  /\ row \in [Workers -> Row]
  /\ status \in [Submissions -> {"queued", "running", "done", "failed"}]
  /\ queue \in [Submissions -> Nat]
  /\ claim \in [Submissions -> Claim \cup {NoClaim}]
  /\ events \in [Attempts -> Events \cup {NoEvents}]
  /\ logs \in Seq(Log)
  /\ req \in [Handlers -> Request]
  /\ \A h \in Handlers : req[h].pc = "idle" <=> req[h] = Idle
  /\ watch \in [todo: SUBSET [sub: Submissions, worker: Workers,
                              attempt: Attempts],
                back: Claim \cup {NoClaim}]

\* Every submission was uploaded once.
Init ==
  /\ row = [w \in Workers |->
              IF w \in Approved
              THEN [NoRow EXCEPT !.status = "active", !.token = 1]
              ELSE NoRow]
  /\ status = [s \in Submissions |-> "queued"]
  /\ queue = [s \in Submissions |-> 1]
  /\ claim = [s \in Submissions |-> NoClaim]
  /\ events = [a \in Attempts |-> NoEvents]
  /\ logs = History
  /\ req = [h \in Handlers |-> Idle]
  /\ watch = WatchIdle
-----------------------------------------------------------------------------
Claimed(s) == claim[s] # NoClaim
ClaimsOf(w) == {s \in Submissions : claim[s].worker = w}
OutputClaims(w) == Cardinality(ClaimsOf(w) \ FinalSubs)
InferenceClaims(w) == Cardinality(ClaimsOf(w) \cap FinalSubs)
Exists(w) == row[w].status \notin {"none", "deleted"}

\* GetVolunteerWorkerByToken, and the token alone.
Holds(w, t) == Exists(w) /\ t > 0 /\ row[w].token = t
Authentic(w, t) == Holds(w, t) /\ row[w].status = "active"

Goto(h, pc) == req' = [req EXCEPT ![h].pc = pc]

\* Mutant of Reply: the slot keeps the request that it answered.
ReplyKeeps(h) == req' = [req EXCEPT ![h].pc = "idle"]

Reply(h) == req' = [req EXCEPT ![h] = Idle]
-----------------------------------------------------------------------------
(* The row: registration, the admin's decisions and tokens.                *)

Register(w) ==
  /\ row[w].status = "none"
  /\ row' = [row EXCEPT ![w].status = "pending"]
  /\ UNCHANGED <<status, queue, claim, events, logs, req, watch>>

\* A second approval replaces the token.
AdminApprove(w) ==
  /\ Exists(w) /\ row[w].token < MaxApprovals[w]
  /\ row' = [row EXCEPT ![w].status = "active", ![w].token = @ + 1]
  /\ UNCHANGED <<status, queue, claim, events, logs, req, watch>>

AdminReject(w) ==
  /\ Exists(w) /\ row[w].status # "rejected"
  /\ row' = [row EXCEPT ![w].status = "rejected"]
  /\ UNCHANGED <<status, queue, claim, events, logs, req, watch>>

\* The claims go with the row.
AdminDelete(w) ==
  /\ Exists(w)
  /\ row' = [row EXCEPT ![w] = [NoRow EXCEPT !.status = "deleted"]]
  /\ claim' = [s \in Submissions |->
                 IF claim[s].worker = w THEN NoClaim ELSE claim[s]]
  /\ UNCHANGED <<status, queue, events, logs, req, watch>>

\* WorkerAuth lets a poll of the worker in, by the token that the row holds.
ClaimNext(h, w) ==
  /\ req[h] = Idle /\ Authentic(w, row[w].token)
  /\ req' = [req EXCEPT ![h] =
       [Idle EXCEPT !.pc = "fetch", !.worker = w, !.token = row[w].token]]
  /\ UNCHANGED <<row, status, queue, claim, events, logs, watch>>
-----------------------------------------------------------------------------
(* A poll: the row and the claims are read, an entry is taken and claimed. *)

FetchWorker(h) ==
  LET w == req[h].worker
      kinds == {k \in BOOLEAN : CanAcceptJob(ProfileOf[w], OutputClaims(w),
                                             InferenceClaims(w), k)}
  IN  /\ req[h].pc = "fetch"
      /\ IF /\ Authentic(w, req[h].token)
            /\ Cardinality(ClaimsOf(w)) < ProfileOf[w].maxWorkers
            /\ kinds # {}
         THEN req' = [req EXCEPT ![h].pc = "dispatch", ![h].kinds = kinds]
         ELSE Reply(h)
      /\ UNCHANGED <<row, status, queue, claim, events, logs, watch>>

Waiting(h) ==
  {s \in Submissions : queue[s] > 0 /\ (s \in FinalSubs) \in req[h].kinds}

Unused == {a \in Attempts : events[a] = NoEvents}

\* ClaimMessage and CreateWorkerClaimWithFinish; an insert that fails puts
\* the entry back.  The event job_claimed is written with the claim.
Dispatch(h) ==
  /\ req[h].pc = "dispatch"
  /\ \E s \in Waiting(h) :
       IF Claimed(s) \/ ~Exists(req[h].worker)
       THEN Reply(h) /\ UNCHANGED <<queue, claim, events>>
       ELSE /\ Unused # {}
            /\ queue' = [queue EXCEPT ![s] = @ - 1]
            /\ LET a == Min(Unused) IN
               /\ claim' = [claim EXCEPT ![s] = [worker |-> req[h].worker,
                                                 attempt |-> a]]
               /\ events' = [events EXCEPT ![a] =
                    [NoEvents EXCEPT !.worker = req[h].worker, !.sub = s]]
               /\ req' = [req EXCEPT ![h].pc = "mark_running", ![h].sub = s,
                                     ![h].attempt = a, ![h].kinds = {}]
  /\ UNCHANGED <<row, status, logs, watch>>

NoJob(h) ==
  /\ req[h].pc = "dispatch" /\ Waiting(h) = {}
  /\ Reply(h)
  /\ UNCHANGED <<row, status, queue, claim, events, logs, watch>>

MarkRunning(h) ==
  /\ req[h].pc = "mark_running"
  /\ status' = [status EXCEPT ![req[h].sub] = "running"]
  /\ Reply(h)
  /\ UNCHANGED <<row, queue, claim, events, logs, watch>>

-----------------------------------------------------------------------------
(* A result: an agent may send it for any attempt it was given, and again. *)

SubmitResult(h, w, a) ==
  /\ req[h] = Idle /\ Authentic(w, row[w].token)
  /\ events[a].worker = w
  /\ \A g \in Handlers : req[g].attempt = a => req[g].pc # "mark_running"
  /\ req' = [req EXCEPT ![h] =
       [pc |-> "check", worker |-> w, token |-> row[w].token,
        sub |-> events[a].sub, attempt |-> a, kinds |-> {}]]
  /\ UNCHANGED <<row, status, queue, claim, events, logs, watch>>

OwnsClaim(h) ==
  claim[req[h].sub] = [worker |-> req[h].worker, attempt |-> req[h].attempt]

\* The claim and the worker are read.
CheckResult(h) ==
  /\ req[h].pc = "check"
  /\ IF OwnsClaim(h) /\ Authentic(req[h].worker, req[h].token)
     THEN Goto(h, "mark") ELSE Reply(h)
  /\ UNCHANGED <<row, status, queue, claim, events, logs, watch>>

\* Mutant of MayCommit: the claim is trusted as it was read.
MayCommitRunning(h) == status[req[h].sub] = "running"

MayCommit(h) == status[req[h].sub] = "running" /\ OwnsClaim(h)

Finished(h) == RunOf[req[h].sub].verdict

MarkResult(h) ==
  /\ req[h].pc = "mark"
  /\ IF MayCommit(h)
     THEN /\ status' = [status EXCEPT ![req[h].sub] = Finished(h)]
          /\ Goto(h, "count")
     ELSE Reply(h) /\ UNCHANGED status
  /\ UNCHANGED <<row, queue, claim, events, logs, watch>>

\* Mutant of CountResult: the reaper's update is used, and by a retry too.
CountResultOfRetry(h) ==
  LET w == req[h].worker IN
  /\ req[h].pc = "count"
  /\ row' = IF Finished(h) = "done"
            THEN [row EXCEPT ![w].completed = @ + 1, ![w].failed = @ + 1]
            ELSE [row EXCEPT ![w].failed = @ + 1]
  /\ Goto(h, "record")
  /\ UNCHANGED <<status, queue, claim, events, logs, watch>>

\* IncrementWorkerCompleted and IncrementWorkerFailed find the row by the
\* token of the request: none, when the token was replaced since.
CountResult(h) ==
  LET w == req[h].worker IN
  /\ req[h].pc = "count"
  /\ row' = IF ~Holds(w, req[h].token) THEN row
            ELSE IF Finished(h) = "done"
            THEN [row EXCEPT ![w].completed = @ + 1]
            ELSE [row EXCEPT ![w].failed = @ + 1]
  /\ Goto(h, "record")
  /\ UNCHANGED <<status, queue, claim, events, logs, watch>>
-----------------------------------------------------------------------------
(* The log of run times.                                                   *)

\* The rows of a kind, and of those the ratios and the peaks that are known.
RunsOf(isFinal) == {i \in DOMAIN logs : logs[i].isFinal = isFinal}
Ratios(isFinal) ==
  [i \in {j \in RunsOf(isFinal) : logs[j].ratio > 0} |-> logs[i].ratio]
Peaks(isFinal) ==
  [i \in {j \in RunsOf(isFinal) : logs[j].ram > 0} |-> logs[i].ram]

\* GetObservedResourceProfile; the runs of an instance use no VRAM.
ObservedDemand(s) ==
  LET peaks == Peaks(s \in FinalSubs)
  IN  ApplyObservedResourceProfile(
        EstimateJobDemand(s \in FinalSubs, BytesOf[s]),
        Cardinality(DOMAIN peaks), PercentileCont(95, peaks), 0)

\* A job that should not have fitted the worker is predicted to take 0.
PredictedRuntime(w, s) ==
  IF Feasible(ProfileOf[w], BenchmarkOf[w], ObservedDemand(s))
  THEN EstimateRuntime(ProfileOf[w], BenchmarkOf[w], ObservedDemand(s))
  ELSE 0

\* The events result_committed and job_finished, and logExecutionRuntime.
RecordResult(h) ==
  LET s == req[h].sub
      a == req[h].attempt IN
  /\ req[h].pc = "record"
  /\ events' = IF Finished(h) = "done"
               THEN [events EXCEPT ![a].done = @ + 1]
               ELSE [events EXCEPT ![a].failed = @ + 1]
  /\ logs' = Append(logs,
       [isFinal |-> s \in FinalSubs, attempt |-> a,
        ratio |-> SafeDivide(Scale * RunOf[s].seconds,
                             PredictedRuntime(req[h].worker, s)),
        ram |-> RunOf[s].ram])
  /\ Goto(h, "delete")
  /\ UNCHANGED <<row, status, queue, claim, watch>>

DeleteClaim(h) ==
  /\ req[h].pc = "delete"
  /\ claim' = [claim EXCEPT ![req[h].sub] =
                 IF @.worker = req[h].worker THEN NoClaim ELSE @]
  /\ Reply(h)
  /\ UNCHANGED <<row, status, queue, events, logs, watch>>
-----------------------------------------------------------------------------
(* The reaper.                                                             *)

\* Any claims may have become stale.
DeleteStaleClaims ==
  /\ watch = WatchIdle
  /\ \E stale \in SUBSET {s \in Submissions : Claimed(s)} :
       /\ stale # {}
       /\ watch' = [WatchIdle EXCEPT !.todo =
            {[sub |-> s, worker |-> claim[s].worker,
              attempt |-> claim[s].attempt] : s \in stale}]
       /\ claim' = [s \in Submissions |->
                      IF s \in stale THEN NoClaim ELSE claim[s]]
  /\ UNCHANGED <<row, status, queue, events, logs, req>>

\* Mutant of RequeueStale: the status is not looked at.
RequeueStaleAnyStatus(c) ==
  /\ c \in watch.todo /\ watch.back = NoClaim
  /\ status' = [status EXCEPT ![c.sub] = "queued"]
  /\ queue' = [queue EXCEPT ![c.sub] = @ + 1]
  /\ watch' = [todo |-> watch.todo \ {c},
               back |-> [worker |-> c.worker, attempt |-> c.attempt]]
  /\ UNCHANGED <<row, claim, events, logs, req>>

\* MarkSubmissionRequeued and EnqueueJudge; a job that is no longer running
\* is left alone.
RequeueStale(c) ==
  /\ c \in watch.todo /\ watch.back = NoClaim
  /\ IF status[c.sub] = "running"
     THEN /\ status' = [status EXCEPT ![c.sub] = "queued"]
          /\ queue' = [queue EXCEPT ![c.sub] = @ + 1]
          /\ watch' = [todo |-> watch.todo \ {c},
                       back |-> [worker |-> c.worker, attempt |-> c.attempt]]
     ELSE /\ watch' = [watch EXCEPT !.todo = @ \ {c}]
          /\ UNCHANGED <<status, queue>>
  /\ UNCHANGED <<row, claim, events, logs, req>>

\* The event job_requeued and IncrementWorkerFailedByID.
CountRequeued ==
  LET c == watch.back IN
  /\ c # NoClaim
  /\ events' = [events EXCEPT ![c.attempt].requeued = @ + 1]
  /\ row' = IF ~Exists(c.worker) THEN row
            ELSE [row EXCEPT ![c.worker].failed = @ + 1]
  /\ watch' = [watch EXCEPT !.back = NoClaim]
  /\ UNCHANGED <<status, queue, claim, logs, req>>

\* A running submission without a claim goes back to the queue.
RequeueOrphan(s) ==
  /\ watch = WatchIdle
  /\ status[s] = "running" /\ ~Claimed(s)
  /\ status' = [status EXCEPT ![s] = "queued"]
  /\ queue' = [queue EXCEPT ![s] = @ + 1]
  /\ UNCHANGED <<row, claim, events, logs, req, watch>>
-----------------------------------------------------------------------------
Next ==
  \/ \E w \in Workers : Register(w) \/ AdminApprove(w) \/ AdminReject(w)
                        \/ AdminDelete(w)
  \/ \E h \in Handlers, w \in Workers :
       ClaimNext(h, w) \/ \E a \in Attempts : SubmitResult(h, w, a)
  \/ \E h \in Handlers :
       \/ FetchWorker(h) \/ Dispatch(h) \/ NoJob(h) \/ MarkRunning(h)
       \/ CheckResult(h) \/ MarkResult(h) \/ CountResult(h)
       \/ RecordResult(h) \/ DeleteClaim(h)
  \/ \E s \in Submissions : RequeueOrphan(s)
  \/ DeleteStaleClaims \/ CountRequeued
  \/ \E c \in watch.todo : RequeueStale(c)

Spec == Init /\ [][Next]_vars
-----------------------------------------------------------------------------
(* Properties of the records.                                              *)

Total(F(_), S) == MapThenSumSet(F, S)
AttemptsOf(w) == {a \in Attempts : events[a].worker = w}
Committing(w, v) ==
  {h \in Handlers : req[h].worker = w /\ req[h].pc = "record"
                    /\ Finished(h) = v}

\* The counters of a worker never say more than the events do: no retry, no
\* reaped claim and no resubmission counts a job a second time.  (They may
\* say less: a token replaced before IncrementWorkerCompleted loses a job.)
CountersMatchEvents ==
  \A w \in Workers :
    /\ row[w].completed <= Total(LAMBDA a : events[a].done, AttemptsOf(w))
                           + Cardinality(Committing(w, "done"))
    /\ row[w].failed <= Total(LAMBDA a : events[a].failed + events[a].requeued,
                              AttemptsOf(w))
                        + Cardinality(Committing(w, "failed"))

\* An attempt has one outcome, whatever its agent repeats: one event says that
\* its result was committed or its job put back.  The log has at most one run
\* of it, and none without such an event.
OutcomeRecordedOnce ==
  \A a \in Attempts :
    /\ events[a].done + events[a].failed + events[a].requeued <= 1
    /\ Cardinality({i \in DOMAIN logs : logs[i].attempt = a})
         <= events[a].done + events[a].failed
-----------------------------------------------------------------------------
(* Properties of the scheduler's view of the pool.                         *)

\* GetAllActiveWorkersWithEarliestAvailable: polls predict no finish time,
\* so a full worker is free after the default wait.
Availability(w) ==
  [worker |-> w, profile |-> ProfileOf[w], bench |-> BenchmarkOf[w],
   output |-> OutputClaims(w), inference |-> InferenceClaims(w),
   availableIn |-> IF Cardinality(ClaimsOf(w)) < ProfileOf[w].maxWorkers
                   THEN 0 ELSE DefaultWait]
Pool == {Availability(w) : w \in {v \in Workers : row[v].status = "active"}}

\* How many jobs of a kind a worker could claim one after the other, by the
\* rules of ClaimNext.
Claimable(a, isFinal) ==
  CHOOSE n \in 0..a.profile.maxWorkers :
    LET OneMore(m) ==
          /\ a.output + a.inference + m < a.profile.maxWorkers
          /\ CanAcceptJob(a.profile,
                          a.output + IF isFinal THEN 0 ELSE m,
                          a.inference + IF isFinal THEN m ELSE 0, isFinal)
    IN  ~OneMore(n) /\ \A m \in 0..n-1 : OneMore(m)

\* The free slots that ImmediateFreeSlots announces are the jobs that the
\* claim handlers would hand out, also when a worker holds too many; and
\* ComputeGPUScarcity, which decides by rules of its own which workers may
\* take a final job, sees a free graphics processor where they would.
FreeSlotsAreClaimable ==
  LET pool == Pool IN
  /\ \A isFinal \in BOOLEAN :
       ImmediateFreeSlots(pool, isFinal)
         = Total(LAMBDA a : Claimable(a, isFinal), pool)
  /\ \A a \in pool :
       FreeGpu(a) > 0 <=> a.bench.gpu > 0 /\ Accepting(a, TRUE)

\* No job waits for a worker that may not take it: as long as some active
\* worker can, and would finish before a full one is taken to be free, one
\* that can is told that it is the best one.  (A longer job is left for a full
\* worker that would finish it first all the same.)
BestWorkerCanTakeIt ==
  LET pool == Pool IN
  \A s \in Submissions :
    LET d == ObservedDemand(s)
        able == {a \in pool : /\ Claimable(a, d.isFinal) > 0
                              /\ Feasible(a.profile, a.bench, d)}
    IN  (\E a \in able : Finish(a, d) <= DefaultWait)
          => \E a \in able : IsGloballyBestWorker(a, pool, d)

\* Once three runs of a kind are known, at least half of them took as long
\* as the corrected prediction or longer, and half as long or less; before,
\* the prediction stands.
CorrectionFollowsRuns ==
  \A isFinal \in BOOLEAN :
    LET r == Ratios(isFinal)
        f == CorrectionFactor(r)
        Below == {i \in DOMAIN r : r[i] <= f}
        Above == {i \in DOMAIN r : r[i] >= f}
        n == Cardinality(DOMAIN r)
    IN  IF n < 3 THEN f = Scale
        ELSE /\ 2 * Cardinality(Below) >= n
             /\ 2 * Cardinality(Above) >= n
-----------------------------------------------------------------------------
(* The claims as a fenced lease.                                           *)

\* The attempts whose result was committed for a submission: the events say
\* so, or a request is about to write them.
CommittedFor(s) ==
  {a \in Attempts :
     /\ events[a].sub = s
     /\ \/ events[a].done + events[a].failed > 0
        \/ \E h \in Handlers :
             req[h].attempt = a /\ req[h].pc \in {"count", "record"}}

\* The claims and the committed results implement a fenced lease on each
\* submission, whatever is approved anew, deleted, reaped or repeated: a claim
\* is granted to a new attempt while there is none, and only the attempt that
\* holds the claim commits a result.
Lease == INSTANCE FencedLease WITH
           Resources <- Submissions,
           holder    <- [s \in Submissions |-> claim[s].attempt],
           written   <- [s \in Submissions |-> Max({0} \cup CommittedFor(s))],
           issued    <- Max({0} \cup (Attempts \ Unused))
ImplementsLease == Lease!LeaseSpec
=============================================================================
