--------------------------- MODULE JudgePipeline ---------------------------
(***************************************************************************)
(* How a submission is judged: the submissions table, the table of worker  *)
(* claims, the Redis stream jobs:judge, the API requests in flight that    *)
(* move a submission between them, the goroutine that reaps stale claims   *)
(* and the volunteer agents.                                               *)
(*                                                                         *)
(* One SQL statement or one Redis command is one step.  A request is a     *)
(* handler slot that remembers the next statement it will execute (pc) and *)
(* what it read so far, so other requests and the reaper run between any   *)
(* two of its statements.  Worker statistics, metrics and experiment       *)
(* events are written and never read by this code, and are left out.       *)
(***************************************************************************)
EXTENDS WorkerProfile, FiniteSets, SequencesExt

CONSTANTS
  Submissions,      \* the rows InitiateUpload has created
  FinalSubs,        \* those of a final phase (p.is_final): inference jobs
  Workers,          \* the volunteer workers an admin has approved
  ProfileOf,        \* the profile of each worker
  Verdicts,         \* the outcomes an agent may report
  Handlers,         \* slots for API requests in flight
  None,             \* "no submission", "no worker"
  CandidateLimit,   \* schedulerCandidateLimit
  UseNextJob,       \* whether agents also poll with GET /worker/jobs/next
  PollsPerWorker,   \* bound: polls of one worker in flight together
  MaxUploads,       \* bound: CompleteUpload calls per submission
  MaxAttempts,      \* bound: claims created
  MaxStream         \* bound: entries in jobs:judge when jobs/next is polled

ASSUME SubmissionsAssumption ==
  /\ FinalSubs \subseteq Submissions
  /\ None \notin Submissions \cup Workers
  /\ IsFiniteSet(Submissions)
ASSUME HandlersAssumption == IsFiniteSet(Handlers)
ASSUME WorkersAssumption == ProfileOf \in [Workers -> Profile]
ASSUME VerdictsAssumption == Verdicts \subseteq {"done", "failed"}
ASSUME BoundsAssumption ==
  /\ UseNextJob \in BOOLEAN
  /\ CandidateLimit \in Nat /\ PollsPerWorker \in Nat
  /\ MaxUploads \in Nat /\ MaxAttempts \in Nat /\ MaxStream \in Nat

VARIABLES
  status,       \* submissions.status
  resultBy,     \* the attempt whose result the row holds, 0 for none
  uploads,      \* CompleteUpload calls so far
  claim,        \* volunteer_worker_claims, by its unique submission_id
  nextAttempt,  \* the next attempt_id
  stream,       \* jobs:judge, in the order of entry ids
  results,      \* jobs:results, what SubmitResult has appended to it
  req,          \* the requests in flight
  watch,        \* the reaper, runWorkerTimeoutWatcher
  jobs,         \* what the agents hold: claims whose response they received
  wstatus       \* volunteer_workers.status, "deleted" when the row is gone

vars == <<status, resultBy, uploads, claim, nextAttempt, stream, results,
          req, watch, jobs, wstatus>>
-----------------------------------------------------------------------------
Status == {"uploaded", "queued", "running", "done", "failed"}
Terminal == {"done", "failed"}

\* age: "fresh" until lease_expires_at, "lapsed" after it, and "overdue"
\* once claimed_at is older than the limit of its kind of phase.
NoClaim == [worker |-> None, attempt |-> 0, age |-> "fresh"]
Claim == [worker: Workers, attempt: Nat \ {0},
          age: {"fresh", "lapsed", "overdue"}]

Entry == [sub: Submissions, delivered: BOOLEAN]
Job == [worker: Workers, sub: Submissions, attempt: Nat \ {0},
        verdict: Verdicts]

\* The statement a poll of a worker executes next ...
PollPC == {"count_kinds", "scan", "dequeue", "check_kind", "create_claim",
           "mark_running"}
\* ... and the one a result does.  "enqueue" ends an upload or a failed poll.
ResultPC == {"mark_result", "emit_result", "delete_claim"}
Request == [pc: PollPC \cup ResultPC \cup {"idle", "enqueue"},
            worker: Workers \cup {None}, sub: Submissions \cup {None},
            attempt: Nat, verdict: Verdicts \cup {"none"},
            kinds: SUBSET BOOLEAN]
Idle == [pc |-> "idle", worker |-> None, sub |-> None, attempt |-> 0,
         verdict |-> "none", kinds |-> {}]
WatchIdle == [pc |-> "idle", todo |-> {}, sub |-> None]

\* A request has a submission, a worker, an attempt and a verdict from the
\* statement that reads them on.
CarryPC == {"enqueue", "check_kind", "create_claim", "mark_running"}
RequestOK(r) ==
  /\ r.pc \in PollPC \cup ResultPC => r.worker \in Workers
  /\ r.pc \in CarryPC \cup ResultPC => r.sub \in Submissions
  /\ r.pc \in {"mark_running"} \cup ResultPC <=> r.attempt # 0
  /\ r.pc \in ResultPC => r.verdict \in Verdicts

TablesOK ==
  /\ status \in [Submissions -> Status]
  /\ resultBy \in [Submissions -> Nat]
  /\ uploads \in [Submissions -> Nat]
  /\ claim \in [Submissions -> Claim \cup {NoClaim}]
  /\ nextAttempt \in Nat \ {0}
  /\ stream \in Seq(Entry)
  /\ results \subseteq [sub: Submissions, attempt: Nat \ {0}]
  /\ watch \in [pc: {"idle", "claims", "orphans"},
                todo: SUBSET Submissions, sub: Submissions \cup {None}]
  /\ watch.sub # None => watch.pc = "claims"
  /\ jobs \subseteq Job
  /\ wstatus \in [Workers -> {"active", "rejected", "deleted"}]
RequestsOK ==
  /\ req \in [Handlers -> Request]
  /\ \A h \in Handlers : RequestOK(req[h])
TypeOK == TablesOK /\ RequestsOK

Init ==
  /\ status = [s \in Submissions |-> "uploaded"]
  /\ resultBy = [s \in Submissions |-> 0]
  /\ uploads = [s \in Submissions |-> 0]
  /\ claim = [s \in Submissions |-> NoClaim]
  /\ nextAttempt = 1
  /\ stream = <<>>
  /\ results = {}
  /\ req = [h \in Handlers |-> Idle]
  /\ watch = WatchIdle
  /\ jobs = {}
  /\ wstatus = [w \in Workers |-> "active"]
-----------------------------------------------------------------------------
IsFinal(s) == s \in FinalSubs
Claimed(s) == claim[s] # NoClaim
ClaimsOf(w) == {s \in Submissions : claim[s].worker = w}
OutputClaims(w) == Cardinality(ClaimsOf(w) \ FinalSubs)
InferenceClaims(w) == Cardinality(ClaimsOf(w) \cap FinalSubs)
Accepts(w, isFinal) ==
  CanAcceptJob(ProfileOf[w], OutputClaims(w), InferenceClaims(w), isFinal)

PollsOf(w) == {h \in Handlers : req[h].worker = w /\ req[h].pc \notin ResultPC}

\* Mutant of Reply: the slot keeps what the last request read.
ReplyKeepsFields(h) == req' = [req EXCEPT ![h].pc = "idle"]

\* Request h goes on to its next statement; Reply ends it.
Goto(h, pc) == req' = [req EXCEPT ![h].pc = pc]
Reply(h) == req' = [req EXCEPT ![h] = Idle]

\* EnqueueJudge: XADD at the tail.
EnqueueJudge(s) ==
  stream' = Append(stream, [sub |-> s, delivered |-> FALSE])
-----------------------------------------------------------------------------
(* POST /submissions/:id/complete and every other use of EnqueueJudge.     *)

\* The status is overwritten whatever it was, and the client may call again.
CompleteUpload(h, s) ==
  /\ req[h] = Idle
  /\ uploads[s] < MaxUploads
  /\ uploads' = [uploads EXCEPT ![s] = @ + 1]
  /\ status' = [status EXCEPT ![s] = "queued"]
  /\ req' = [req EXCEPT ![h] = [Idle EXCEPT !.pc = "enqueue", !.sub = s]]
  /\ UNCHANGED <<resultBy, claim, nextAttempt, stream, results, watch, jobs,
                 wstatus>>

Enqueue(h) ==
  /\ req[h].pc = "enqueue"
  /\ EnqueueJudge(req[h].sub)
  /\ Reply(h)
  /\ UNCHANGED <<status, resultBy, uploads, claim, nextAttempt, results,
                 watch, jobs, wstatus>>
-----------------------------------------------------------------------------
(* Polls for work: POST jobs/claim-next and GET jobs/next.                 *)

\* The worker is authenticated and below max_workers claims.
StartPoll(h, w, pc) ==
  /\ req[h] = Idle
  /\ wstatus[w] = "active"
  /\ Cardinality(PollsOf(w)) < PollsPerWorker
  /\ Cardinality(ClaimsOf(w)) < ProfileOf[w].maxWorkers
  /\ req' = [req EXCEPT ![h] = [Idle EXCEPT !.pc = pc, !.worker = w]]
  /\ UNCHANGED <<status, resultBy, uploads, claim, nextAttempt, stream,
                 results, watch, jobs, wstatus>>

ClaimNext(h, w) == StartPoll(h, w, "count_kinds")
NextJob(h, w) ==
  UseNextJob /\ Len(stream) <= MaxStream /\ StartPoll(h, w, "dequeue")

\* CountWorkerActiveClaimsByKind: the kinds of job the scan will accept.
CountKinds(h) ==
  /\ req[h].pc = "count_kinds"
  /\ req' = [req EXCEPT ![h].pc = "scan",
               ![h].kinds = {k \in BOOLEAN : Accepts(req[h].worker, k)}]
  /\ UNCHANGED <<status, resultBy, uploads, claim, nextAttempt, stream,
                 results, watch, jobs, wstatus>>

\* The peeked entries that the counts read earlier allow.
Compatible(h) ==
  {i \in DOMAIN stream : i <= CandidateLimit
                         /\ IsFinal(stream[i].sub) \in req[h].kinds}

\* Peek and ClaimMessage.  Candidates before i may be skipped: their lookup
\* failed or another request removed them first.
ClaimMessage(h) ==
  /\ req[h].pc = "scan"
  /\ \E i \in Compatible(h) :
       /\ stream' = RemoveAt(stream, i)
       /\ req' = [req EXCEPT ![h].pc = "create_claim",
                             ![h].sub = stream[i].sub, ![h].kinds = {}]
  /\ UNCHANGED <<status, resultBy, uploads, claim, nextAttempt, results,
                 watch, jobs, wstatus>>

NoCompatibleJobs(h) ==
  /\ req[h].pc = "scan"
  /\ Compatible(h) = {}
  /\ Reply(h)
  /\ UNCHANGED <<status, resultBy, uploads, claim, nextAttempt, stream,
                 results, watch, jobs, wstatus>>

\* DequeueOne: the group's next undelivered entry, which stays in the stream
\* (Ack never deletes it); the entries before it are all delivered.
Dequeue(h) ==
  /\ req[h].pc = "dequeue"
  /\ \/ \E i \in DOMAIN stream :
          /\ ~stream[i].delivered
          /\ \A k \in 1..i-1 : stream[k].delivered
          /\ stream' = [stream EXCEPT ![i].delivered = TRUE]
          /\ req' = [req EXCEPT ![h].pc = "check_kind",
                                ![h].sub = stream[i].sub]
     \/ /\ \A i \in DOMAIN stream : stream[i].delivered
        /\ Reply(h)
        /\ UNCHANGED stream
  /\ UNCHANGED <<status, resultBy, uploads, claim, nextAttempt, results,
                 watch, jobs, wstatus>>

\* A job of a kind the worker has no slot for is put back at the tail.
CheckKind(h) ==
  /\ req[h].pc = "check_kind"
  /\ Goto(h, IF Accepts(req[h].worker, IsFinal(req[h].sub))
             THEN "create_claim" ELSE "enqueue")
  /\ UNCHANGED <<status, resultBy, uploads, claim, nextAttempt, stream,
                 results, watch, jobs, wstatus>>

\* The insert succeeds unless the submission is claimed (unique index) or
\* the worker's row is gone (foreign key).
CreateClaim(h) ==
  /\ req[h].pc = "create_claim"
  /\ ~Claimed(req[h].sub)
  /\ wstatus[req[h].worker] # "deleted"
  /\ nextAttempt <= MaxAttempts
  /\ claim' = [claim EXCEPT ![req[h].sub] =
       [worker |-> req[h].worker, attempt |-> nextAttempt, age |-> "fresh"]]
  /\ nextAttempt' = nextAttempt + 1
  /\ req' = [req EXCEPT ![h].pc = "mark_running", ![h].attempt = nextAttempt]
  /\ UNCHANGED <<status, resultBy, uploads, stream, results, watch, jobs,
                 wstatus>>

\* Mutant of ClaimConflict: the message taken out of the stream is dropped.
ClaimConflictDropsJob(h) ==
  /\ req[h].pc = "create_claim"
  /\ Claimed(req[h].sub) \/ wstatus[req[h].worker] = "deleted"
  /\ Reply(h)
  /\ UNCHANGED <<status, resultBy, uploads, claim, nextAttempt, stream,
                 results, watch, jobs, wstatus>>

ClaimConflict(h) ==
  /\ req[h].pc = "create_claim"
  /\ Claimed(req[h].sub) \/ wstatus[req[h].worker] = "deleted"
  /\ Goto(h, "enqueue")
  /\ UNCHANGED <<status, resultBy, uploads, claim, nextAttempt, stream,
                 results, watch, jobs, wstatus>>

\* The agent receives the job; what its judge will report is its verdict.
Receive(h) ==
  \E v \in Verdicts :
    jobs' = jobs \cup {[worker |-> req[h].worker, sub |-> req[h].sub,
                        attempt |-> req[h].attempt, verdict |-> v]}

\* MarkSubmissionRunning has no condition on the status.
MarkRunning(h) ==
  /\ req[h].pc = "mark_running"
  /\ status' = [status EXCEPT ![req[h].sub] = "running"]
  /\ Receive(h)
  /\ Reply(h)
  /\ UNCHANGED <<resultBy, uploads, claim, nextAttempt, stream, results,
                 watch, wstatus>>
-----------------------------------------------------------------------------
(* The agent at work: job heartbeats, results and giving up.               *)

OwnsClaim(w, s, a) == claim[s].worker = w /\ claim[s].attempt = a

\* Renews the lease even when it has lapsed; an overdue claim stays overdue.
JobHeartbeat(j) ==
  /\ j \in jobs
  /\ wstatus[j.worker] = "active"
  /\ OwnsClaim(j.worker, j.sub, j.attempt)
  /\ claim[j.sub].age = "lapsed"
  /\ claim' = [claim EXCEPT ![j.sub].age = "fresh"]
  /\ UNCHANGED <<status, resultBy, uploads, nextAttempt, stream, results, req,
                 watch, jobs, wstatus>>

\* POST jobs/:id/result up to its checks; a retry is a second request.
SubmitResult(h, j) ==
  /\ req[h] = Idle
  /\ j \in jobs
  /\ wstatus[j.worker] = "active"
  /\ OwnsClaim(j.worker, j.sub, j.attempt)
  /\ req' = [req EXCEPT ![h] =
       [pc |-> "mark_result", worker |-> j.worker, sub |-> j.sub,
        attempt |-> j.attempt, verdict |-> j.verdict, kinds |-> {}]]
  /\ UNCHANGED <<status, resultBy, uploads, claim, nextAttempt, stream,
                 results, watch, jobs, wstatus>>

\* Mutant of MayCommit: the update trusts the check made before it.
MayCommitUnfenced(h) == status[req[h].sub] = "running"

\* The condition of MarkSubmissionDone and MarkSubmissionFailed.
MayCommit(h) ==
  /\ status[req[h].sub] = "running"
  /\ OwnsClaim(req[h].worker, req[h].sub, req[h].attempt)

MarkResult(h) ==
  /\ req[h].pc = "mark_result"
  /\ MayCommit(h)
  /\ status' = [status EXCEPT ![req[h].sub] = req[h].verdict]
  /\ resultBy' = [resultBy EXCEPT ![req[h].sub] = req[h].attempt]
  /\ Goto(h, "emit_result")
  /\ UNCHANGED <<uploads, claim, nextAttempt, stream, results, watch, jobs,
                 wstatus>>

\* Mutant of StaleResult: an update of no row is taken for a success.
StaleResultAnnounced(h) ==
  /\ req[h].pc = "mark_result"
  /\ ~MayCommit(h)
  /\ Goto(h, "emit_result")
  /\ UNCHANGED <<status, resultBy, uploads, claim, nextAttempt, stream,
                 results, watch, jobs, wstatus>>

StaleResult(h) ==
  /\ req[h].pc = "mark_result"
  /\ ~MayCommit(h)
  /\ Reply(h)
  /\ UNCHANGED <<status, resultBy, uploads, claim, nextAttempt, stream,
                 results, watch, jobs, wstatus>>

\* Mutant of EmitResult: only the branch of a score announces.
EmitResultOfScores(h) ==
  /\ req[h].pc = "emit_result"
  /\ results' = IF req[h].verdict # "done" THEN results ELSE
       results \cup {[sub |-> req[h].sub, attempt |-> req[h].attempt]}
  /\ Goto(h, "delete_claim")
  /\ UNCHANGED <<status, resultBy, uploads, claim, nextAttempt, stream, watch,
                 jobs, wstatus>>

EmitResult(h) ==
  /\ req[h].pc = "emit_result"
  /\ results' = results \cup {[sub |-> req[h].sub, attempt |-> req[h].attempt]}
  /\ Goto(h, "delete_claim")
  /\ UNCHANGED <<status, resultBy, uploads, claim, nextAttempt, stream, watch,
                 jobs, wstatus>>

\* The row is found by worker and submission, not by attempt.
DeleteClaim(h) ==
  /\ req[h].pc = "delete_claim"
  /\ claim' = [claim EXCEPT ![req[h].sub] =
                 IF @.worker = req[h].worker THEN NoClaim ELSE @]
  /\ Reply(h)
  /\ UNCHANGED <<status, resultBy, uploads, nextAttempt, stream, results,
                 watch, jobs, wstatus>>

\* The agent is done with a job: acknowledged, out of retries, or crashed.
DropJob(j) ==
  /\ j \in jobs
  /\ jobs' = jobs \ {j}
  /\ UNCHANGED <<status, resultBy, uploads, claim, nextAttempt, stream,
                 results, req, watch, wstatus>>
-----------------------------------------------------------------------------
(* Time, and the reaper: every minute it deletes the stale claims, then    *)
(* requeues their submissions one by one, then the running submissions     *)
(* that no claim covers.                                                   *)

LeaseLapses(s) ==
  /\ Claimed(s) /\ claim[s].age = "fresh"
  /\ claim' = [claim EXCEPT ![s].age = "lapsed"]
  /\ UNCHANGED <<status, resultBy, uploads, nextAttempt, stream, results, req,
                 watch, jobs, wstatus>>

ClaimOverdue(s) ==
  /\ Claimed(s) /\ claim[s].age # "overdue"
  /\ claim' = [claim EXCEPT ![s].age = "overdue"]
  /\ UNCHANGED <<status, resultBy, uploads, nextAttempt, stream, results, req,
                 watch, jobs, wstatus>>

\* Mutant of Stale: only the lease counts, not the age of the claim.
StaleByLease == {s \in Submissions : Claimed(s) /\ claim[s].age = "lapsed"}

Stale == {s \in Submissions : Claimed(s) /\ claim[s].age # "fresh"}

DeleteStaleClaims ==
  /\ watch.pc = "idle"
  /\ claim' = [s \in Submissions |-> IF s \in Stale THEN NoClaim ELSE claim[s]]
  /\ watch' = [pc |-> "claims", todo |-> Stale, sub |-> None]
  /\ UNCHANGED <<status, resultBy, uploads, nextAttempt, stream, results, req,
                 jobs, wstatus>>

\* Mutant of RequeueStale: the update does not look at the status.
RequeueStaleAnyStatus(s) ==
  /\ watch.pc = "claims" /\ watch.sub = None /\ s \in watch.todo
  /\ status' = [status EXCEPT ![s] = "queued"]
  /\ watch' = [watch EXCEPT !.todo = @ \ {s}, !.sub = s]
  /\ UNCHANGED <<resultBy, uploads, claim, nextAttempt, stream, results, req,
                 jobs, wstatus>>

RequeueStale(s) ==
  /\ watch.pc = "claims" /\ watch.sub = None /\ s \in watch.todo
  /\ status[s] = "running"
  /\ status' = [status EXCEPT ![s] = "queued"]
  /\ watch' = [watch EXCEPT !.todo = @ \ {s}, !.sub = s]
  /\ UNCHANGED <<resultBy, uploads, claim, nextAttempt, stream, results, req,
                 jobs, wstatus>>

\* MarkSubmissionRequeued finds no running row.
DiscardStale(s) ==
  /\ watch.pc = "claims" /\ watch.sub = None /\ s \in watch.todo
  /\ status[s] # "running"
  /\ watch' = [watch EXCEPT !.todo = @ \ {s}]
  /\ UNCHANGED <<status, resultBy, uploads, claim, nextAttempt, stream,
                 results, req, jobs, wstatus>>

EnqueueStale ==
  /\ watch.sub # None
  /\ EnqueueJudge(watch.sub)
  /\ watch' = [watch EXCEPT !.sub = None]
  /\ UNCHANGED <<status, resultBy, uploads, claim, nextAttempt, results, req,
                 jobs, wstatus>>

\* Mutant of Orphans: the condition on the claim is inverted.
OrphansClaimed == {s \in Submissions : status[s] = "running" /\ Claimed(s)}

Orphans == {s \in Submissions : status[s] = "running" /\ ~Claimed(s)}

\* Any subset of the orphans may be older than orphanRunTimeout by now.
RequeueOrphans(old) ==
  /\ watch.pc = "claims" /\ watch.todo = {} /\ watch.sub = None
  /\ old \subseteq Orphans
  /\ status' = [s \in Submissions |-> IF s \in old THEN "queued" ELSE status[s]]
  /\ watch' = [watch EXCEPT !.pc = "orphans", !.todo = old]
  /\ UNCHANGED <<resultBy, uploads, claim, nextAttempt, stream, results, req,
                 jobs, wstatus>>

EnqueueOrphan(s) ==
  /\ watch.pc = "orphans" /\ s \in watch.todo
  /\ EnqueueJudge(s)
  /\ watch' = [watch EXCEPT !.todo = @ \ {s}]
  /\ UNCHANGED <<status, resultBy, uploads, claim, nextAttempt, results, req,
                 jobs, wstatus>>

TickEnds ==
  /\ watch.pc = "orphans" /\ watch.todo = {}
  /\ watch' = WatchIdle
  /\ UNCHANGED <<status, resultBy, uploads, claim, nextAttempt, stream,
                 results, req, jobs, wstatus>>
-----------------------------------------------------------------------------
(* Admin requests on workers.                                              *)

SetWorkerStatus(w, st) ==
  /\ wstatus[w] \notin {st, "deleted"}
  /\ wstatus' = [wstatus EXCEPT ![w] = st]
  /\ UNCHANGED <<status, resultBy, uploads, claim, nextAttempt, stream,
                 results, req, watch, jobs>>

AdminApprove(w) == SetWorkerStatus(w, "active")
AdminReject(w) == SetWorkerStatus(w, "rejected")

\* Deleting the row deletes its claims (ON DELETE CASCADE).
AdminDelete(w) ==
  /\ wstatus[w] # "deleted"
  /\ wstatus' = [wstatus EXCEPT ![w] = "deleted"]
  /\ claim' = [s \in Submissions |->
                 IF s \in ClaimsOf(w) THEN NoClaim ELSE claim[s]]
  /\ UNCHANGED <<status, resultBy, uploads, nextAttempt, stream, results, req,
                 watch, jobs>>
-----------------------------------------------------------------------------
(* Failures: a statement returns an error, a request or the whole API      *)
(* process dies, a response is lost.                                       *)

\* The request stops where it is: the process died, or the client
\* disconnected and every later statement fails on the cancelled context.
Abort(h) ==
  /\ req[h].pc # "idle"
  /\ Reply(h)
  /\ UNCHANGED <<status, resultBy, uploads, claim, nextAttempt, stream,
                 results, watch, jobs, wstatus>>

\* A lookup, a presign or the insert fails: the job is put back.
DispatchFails(h) ==
  /\ req[h].pc \in {"check_kind", "create_claim"}
  /\ Goto(h, "enqueue")
  /\ UNCHANGED <<status, resultBy, uploads, claim, nextAttempt, stream,
                 results, watch, jobs, wstatus>>

\* The error of MarkSubmissionRunning is ignored.
MarkRunningFails(h) ==
  /\ req[h].pc = "mark_running"
  /\ Receive(h)
  /\ Reply(h)
  /\ UNCHANGED <<status, resultBy, uploads, claim, nextAttempt, stream,
                 results, watch, wstatus>>

\* The agent timed out, so nobody runs the claimed job.
ResponseLost(h) ==
  /\ req[h].pc = "mark_running"
  /\ status' = [status EXCEPT ![req[h].sub] = "running"]
  /\ Reply(h)
  /\ UNCHANGED <<resultBy, uploads, claim, nextAttempt, stream, results,
                 watch, jobs, wstatus>>

\* The error of EnqueueResult is ignored.
EmitFails(h) ==
  /\ req[h].pc = "emit_result"
  /\ Goto(h, "delete_claim")
  /\ UNCHANGED <<status, resultBy, uploads, claim, nextAttempt, stream,
                 results, watch, jobs, wstatus>>

\* The reaper logs the error and takes the next claim, or the next orphan.
RequeueFails ==
  /\ \/ watch.sub # None /\ watch' = [watch EXCEPT !.sub = None]
     \/ \E s \in watch.todo : /\ watch.sub = None
                              /\ watch' = [watch EXCEPT !.todo = @ \ {s}]
  /\ UNCHANGED <<status, resultBy, uploads, claim, nextAttempt, stream,
                 results, req, jobs, wstatus>>

WatcherCrash ==
  /\ watch # WatchIdle
  /\ watch' = WatchIdle
  /\ UNCHANGED <<status, resultBy, uploads, claim, nextAttempt, stream,
                 results, req, jobs, wstatus>>
-----------------------------------------------------------------------------
PollStep(h) ==
  \/ CountKinds(h) \/ ClaimMessage(h) \/ NoCompatibleJobs(h)
  \/ Dequeue(h) \/ CheckKind(h)
  \/ CreateClaim(h) \/ ClaimConflict(h) \/ MarkRunning(h)
ResultStep(h) ==
  MarkResult(h) \/ StaleResult(h) \/ EmitResult(h) \/ DeleteClaim(h)
NewRequest(h) ==
  \/ \E s \in Submissions : CompleteUpload(h, s)
  \/ \E w \in Workers : ClaimNext(h, w) \/ NextJob(h, w)
  \/ \E j \in jobs : SubmitResult(h, j)
HandlerStep(h) == NewRequest(h) \/ Enqueue(h) \/ PollStep(h) \/ ResultStep(h)

AgentStep == \E j \in jobs : JobHeartbeat(j) \/ DropJob(j)
TimePasses == \E s \in Submissions : LeaseLapses(s) \/ ClaimOverdue(s)
WatcherStep ==
  \/ DeleteStaleClaims \/ EnqueueStale \/ TickEnds
  \/ \E s \in Submissions : RequeueStale(s) \/ DiscardStale(s) \/ EnqueueOrphan(s)
  \/ \E old \in SUBSET Submissions : RequeueOrphans(old)
AdminStep == \E w \in Workers : AdminApprove(w) \/ AdminReject(w) \/ AdminDelete(w)

Failure ==
  \/ \E h \in Handlers : \/ Abort(h) \/ DispatchFails(h) \/ MarkRunningFails(h)
                         \/ ResponseLost(h) \/ EmitFails(h)
  \/ RequeueFails \/ WatcherCrash

\* Everything but failures.
ReliableNext ==
  \/ \E h \in Handlers : HandlerStep(h)
  \/ AgentStep \/ TimePasses \/ WatcherStep \/ AdminStep
Next == ReliableNext \/ Failure

Spec == Init /\ [][Next]_vars
ReliableSpec == Init /\ [][ReliableNext]_vars
-----------------------------------------------------------------------------
(* Fairness: the reaper's ticker keeps running, a claim grows old, and a   *)
(* submission that stays an orphan is one day older than the cutoff.       *)
Reaping ==
  /\ WF_vars(DeleteStaleClaims) /\ WF_vars(EnqueueStale) /\ WF_vars(TickEnds)
  /\ WF_vars(watch.todo = {} /\ RequeueOrphans({}))
  /\ SF_vars(Orphans # {} /\ RequeueOrphans(Orphans))
  /\ \A s \in Submissions :
       /\ WF_vars(RequeueStale(s)) /\ WF_vars(DiscardStale(s))
       /\ WF_vars(EnqueueOrphan(s)) /\ WF_vars(ClaimOverdue(s))
FairSpec == Spec /\ Reaping
-----------------------------------------------------------------------------
(* Properties.                                                             *)

InStream(s) == \E i \in DOMAIN stream : stream[i].sub = s

\* The requests that carry the job of s between the stream and the claim.
Carriers(s) == {h \in Handlers : req[h].sub = s /\ req[h].pc \in CarryPC}

ReaperCarries(s) == watch.sub = s \/ (watch.pc = "orphans" /\ s \in watch.todo)

\* Fencing.  The result a row holds is replaced only by a newer attempt, and
\* never by an attempt older than one an agent or a request already holds:
\* a worker that was given up cannot overwrite its successor.
AttemptsOf(s) == {j.attempt : j \in {k \in jobs : k.sub = s}}
                 \cup {req[h].attempt : h \in {g \in Handlers : req[g].sub = s}}
NewestAttemptWins ==
  [][\A s \in Submissions : resultBy'[s] # resultBy[s] =>
       /\ resultBy'[s] > resultBy[s]
       /\ \A a \in AttemptsOf(s) : a <= resultBy'[s]]_vars

\* The order of attempts that makes fencing work: a new claim gets an attempt
\* nobody has seen, and whatever a job, a request, the row or jobs:results
\* holds of a claimed submission is no newer than its claim.
Fenced ==
  /\ \A s \in Submissions :
       /\ claim[s].attempt < nextAttempt
       /\ resultBy[s] < nextAttempt
       /\ Claimed(s) => resultBy[s] <= claim[s].attempt
  /\ \A j \in jobs :
       /\ j.attempt < nextAttempt
       /\ Claimed(j.sub) => j.attempt <= claim[j.sub].attempt
  /\ \A h \in Handlers :
       /\ req[h].attempt < nextAttempt
       /\ req[h].sub # None /\ Claimed(req[h].sub) =>
            req[h].attempt <= claim[req[h].sub].attempt
       /\ req[h].pc = "emit_result" => req[h].attempt <= resultBy[req[h].sub]
  /\ \A r \in results : r.attempt <= resultBy[r.sub]

\* Without failures a committed result is announced, or about to be.
CommittedIsAnnounced ==
  \A s \in Submissions : resultBy[s] # 0 =>
    \/ [sub |-> s, attempt |-> resultBy[s]] \in results
    \/ \E h \in Handlers : /\ req[h].pc = "emit_result" /\ req[h].sub = s
                           /\ req[h].attempt = resultBy[s]

\* Without failures a queued submission is never lost: its job is in the
\* stream, or a request or the reaper is carrying it there or to a claim.
NoLostJob ==
  \A s \in Submissions : status[s] = "queued" =>
    InStream(s) \/ Carriers(s) # {} \/ ReaperCarries(s)

\* A worker holds no more claims than its max_workers and its slots allow,
\* and an exclusive worker never mixes the two kinds.
CapacityRespected ==
  \A w \in Workers :
    LET p == ProfileOf[w] IN
    /\ Cardinality(ClaimsOf(w)) <= p.maxWorkers
    /\ OutputClaims(w) <= p.outputSlots
    /\ InferenceClaims(w) <= p.inferenceSlots
    /\ p.exclusive => OutputClaims(w) = 0 \/ InferenceClaims(w) = 0

\* When the client completes an upload once and nobody polls jobs/next, the
\* job of a submission is in one place: one stream entry, one carrier, or a
\* row that is running or finished.
JobInOnePlace ==
  \A s \in Submissions :
    /\ \A i, k \in DOMAIN stream :
         stream[i].sub = s /\ stream[k].sub = s => i = k
    /\ \A g, h \in Carriers(s) : g = h
    /\ InStream(s) => Carriers(s) = {} /\ ~ReaperCarries(s)
    /\ ReaperCarries(s) => Carriers(s) = {}
    /\ status[s] \in {"running"} \cup Terminal =>
         ~InStream(s) /\ Carriers(s) = {} /\ ~ReaperCarries(s)

\* A finished submission stays finished.
TerminalStays ==
  [][\A s \in Submissions :
       status[s] \in Terminal => status'[s] = status[s]]_vars

\* Nobody keeps a submission for ever: every claim ends, even under a worker
\* that renews its lease for ever, and no submission stays running.
ClaimsEnd ==
  \A s \in Submissions, a \in 1..MaxAttempts :
    claim[s].attempt = a ~> claim[s].attempt # a
RunningEnds ==
  \A s \in Submissions : status[s] = "running" ~> status[s] # "running"

\* A running job whose claim is overdue is finished or queued again.
StaleJobRequeued ==
  \A s \in Submissions :
    status[s] = "running" /\ claim[s].age = "overdue" ~>
      status[s] \in Terminal \/ InStream(s)

\* The claims and results implement a fenced lease per submission: every
\* step of the pipeline is a grant, a revocation, a write by the current
\* holder, or no step of the lease at all.
Lease == INSTANCE FencedLease WITH
           Resources <- Submissions,
           holder    <- [s \in Submissions |-> claim[s].attempt],
           written   <- resultBy,
           issued    <- nextAttempt - 1
ImplementsLease == Lease!LeaseSpec
=============================================================================
