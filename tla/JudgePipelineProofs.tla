------------------------ MODULE JudgePipelineProofs ------------------------
(***************************************************************************)
(* The shape of every row, queue entry, request and job; lemmas about the  *)
(* stream; and the order of the attempts at a submission, from which the   *)
(* refinement of FencedLease follows.                                      *)
(***************************************************************************)
EXTENDS JudgePipeline, SequenceTheorems, TLAPS

\* XDEL of one entry: those after it move up, the others stay.
LEMMA RemoveEntry ==
  ASSUME NEW S, NEW q \in Seq(S), NEW i \in DOMAIN q
  PROVE  /\ RemoveAt(q, i) \in Seq(S)
         /\ DOMAIN RemoveAt(q, i) = 1 .. Len(q) - 1
         /\ \A k \in 1 .. Len(q) - 1 :
              RemoveAt(q, i)[k] = IF k < i THEN q[k] ELSE q[k + 1]
<1> DEFINE before == SubSeq(q, 1, i - 1)
           after  == SubSeq(q, i + 1, Len(q))
<1>1. i \in 1 .. Len(q) /\ Len(q) \in Nat
  OBVIOUS
<1>2. /\ before \in Seq(S) /\ Len(before) = i - 1
      /\ \A k \in 1 .. i - 1 : before[k] = q[k]
  BY <1>1
<1>3. /\ after \in Seq(S) /\ Len(after) = Len(q) - i
      /\ \A k \in 1 .. Len(q) - i : after[k] = q[i + k]
  BY <1>1
<1> HIDE DEF before, after
<1>4. /\ before \o after \in Seq(S)
      /\ Len(before \o after) = Len(q) - 1
      /\ \A k \in 1 .. Len(q) - 1 : (before \o after)[k] =
           IF k <= i - 1 THEN before[k] ELSE after[k - (i - 1)]
  BY SMTT(40), <1>1, <1>2, <1>3, ConcatProperties
<1>5. RemoveAt(q, i) = before \o after
  BY DEF RemoveAt, before, after
<1>6. DOMAIN (before \o after) = 1 .. Len(q) - 1
  BY <1>4
<1>7. \A k \in 1 .. Len(q) - 1 :
        (before \o after)[k] = IF k < i THEN q[k] ELSE q[k + 1]
  BY <1>1, <1>2, <1>3, <1>4
<1>8. QED
  BY <1>4, <1>5, <1>6, <1>7

\* XADD: the new entry is last and undelivered, the others stay.
LEMMA Enqueued ==
  ASSUME stream \in Seq(Entry), NEW s \in Submissions, EnqueueJudge(s)
  PROVE  /\ stream' \in Seq(Entry)
         /\ DOMAIN stream' = 1 .. Len(stream) + 1
         /\ \A i \in DOMAIN stream : stream'[i] = stream[i]
         /\ stream'[Len(stream) + 1] = [sub |-> s, delivered |-> FALSE]
<1> DEFINE e == [sub |-> s, delivered |-> FALSE]
<1>1. e \in Entry
  BY DEF Entry
<1>2. stream' = Append(stream, e)
  BY DEF EnqueueJudge
<1> HIDE DEF e
<1>3. /\ stream' \in Seq(Entry)
      /\ DOMAIN stream' = 1 .. Len(stream) + 1
      /\ \A i \in DOMAIN stream : stream'[i] = stream[i]
      /\ stream'[Len(stream) + 1] = e
  BY <1>1, <1>2
<1>4. QED
  BY <1>3 DEF e

\* An entry of the stream names a submission, and may be marked delivered.
LEMMA Delivered ==
  ASSUME stream \in Seq(Entry), NEW i \in DOMAIN stream
  PROVE  /\ stream[i].sub \in Submissions
         /\ [stream[i] EXCEPT !.delivered = TRUE] \in Entry
<1>1. stream[i] \in Entry
  OBVIOUS
<1> DEFINE e == stream[i]
<1>2. e \in Entry
  BY <1>1
<1> HIDE DEF e
<1>3. e.sub \in Submissions /\ [e EXCEPT !.delivered = TRUE] \in Entry
  BY <1>2 DEF Entry
<1>4. QED
  BY <1>3 DEF e

\* Ageing or renewing a claim leaves a well-formed table of claims.
LEMMA Aged ==
  ASSUME claim \in [Submissions -> Claim \cup {NoClaim}],
         NEW s \in Submissions, claim[s] # NoClaim,
         NEW age \in {"fresh", "lapsed", "overdue"},
         claim' = [claim EXCEPT ![s].age = age]
  PROVE  claim' \in [Submissions -> Claim \cup {NoClaim}]
<1>1. claim[s] \in Claim
  OBVIOUS
<1>2. [claim[s] EXCEPT !.age = age] \in Claim
  BY <1>1 DEF Claim
<1>3. claim' = [claim EXCEPT ![s] = [claim[s] EXCEPT !.age = age]]
  OBVIOUS
<1> HIDE DEF Claim
<1>4. QED
  BY <1>2, <1>3

\* A job handed to an agent names a worker, a submission and an attempt.
LEMMA Received ==
  ASSUME jobs \subseteq Job, NEW h \in Handlers, RequestsOK,
         req[h].pc = "mark_running", Receive(h)
  PROVE  jobs' \subseteq Job
<1>1. /\ req[h].worker \in Workers /\ req[h].sub \in Submissions
      /\ req[h].attempt \in Nat \ {0}
  BY DEF RequestsOK, Request, RequestOK, PollPC, CarryPC
<1>2. QED
  BY <1>1 DEF Receive, Job

\* Every statement leaves each request with the fields its next one needs.
LEMMA RequestsStep == TypeOK /\ [Next]_vars => RequestsOK'
<1> SUFFICES ASSUME TypeOK, [Next]_vars PROVE RequestsOK'
  OBVIOUS
<1> USE SubmissionsAssumption
        DEF TypeOK, RequestsOK, Request, RequestOK, Idle, PollPC, ResultPC,
            CarryPC, Reply, Goto
<1>1. ASSUME NEW h \in Handlers, NEW s \in Submissions, CompleteUpload(h, s)
      PROVE  RequestsOK'
  BY <1>1 DEF CompleteUpload
<1>2. ASSUME NEW h \in Handlers, NEW w \in Workers, ClaimNext(h, w)
      PROVE  RequestsOK'
  BY <1>2 DEF ClaimNext, StartPoll
<1>3. ASSUME NEW h \in Handlers, NEW w \in Workers, NextJob(h, w)
      PROVE  RequestsOK'
  BY <1>3 DEF NextJob, StartPoll
<1>4. ASSUME NEW h \in Handlers, NEW j \in jobs, SubmitResult(h, j)
      PROVE  RequestsOK'
  BY <1>4 DEF SubmitResult, Job, TablesOK
<1>5. ASSUME NEW h \in Handlers, Enqueue(h)
      PROVE  RequestsOK'
  BY <1>5 DEF Enqueue
<1>6. ASSUME NEW h \in Handlers, CountKinds(h)
      PROVE  RequestsOK'
  BY ZenonT(40), <1>6 DEF CountKinds
<1>7. ASSUME NEW h \in Handlers, ClaimMessage(h)
      PROVE  RequestsOK'
  <2>1. PICK i \in DOMAIN stream :
          req' = [req EXCEPT ![h].pc = "create_claim",
                             ![h].sub = stream[i].sub, ![h].kinds = {}]
    BY <1>7 DEF ClaimMessage, Compatible
  <2> DEFINE s == stream[i].sub
  <2>2. s \in Submissions
    BY Delivered DEF TablesOK
  <2>3. req[h].pc = "scan"
    BY <1>7 DEF ClaimMessage
  <2>4. req' = [req EXCEPT ![h].pc = "create_claim", ![h].sub = s,
                           ![h].kinds = {}]
    BY <2>1
  <2> HIDE DEF s
  <2>5. [req[h] EXCEPT !.pc = "create_claim", !.sub = s, !.kinds = {}]
          \in {r \in Request : RequestOK(r)}
    BY <2>2, <2>3
  <2>6. QED
    BY ZenonT(40), <2>4, <2>5
<1>8. ASSUME NEW h \in Handlers, NoCompatibleJobs(h)
      PROVE  RequestsOK'
  BY <1>8 DEF NoCompatibleJobs
<1>9. ASSUME NEW h \in Handlers, Dequeue(h)
      PROVE  RequestsOK'
  <2>1. CASE \E i \in DOMAIN stream :
               req' = [req EXCEPT ![h].pc = "check_kind",
                                  ![h].sub = stream[i].sub]
    <3>1. PICK i \in DOMAIN stream :
            req' = [req EXCEPT ![h].pc = "check_kind",
                               ![h].sub = stream[i].sub]
      BY <2>1
    <3> DEFINE s == stream[i].sub
    <3>2. s \in Submissions
      BY Delivered DEF TablesOK
    <3>3. req[h].pc = "dequeue"
      BY <1>9 DEF Dequeue
    <3>4. req' = [req EXCEPT ![h].pc = "check_kind", ![h].sub = s]
      BY <3>1
    <3> HIDE DEF s
    <3>5. QED
      BY ZenonT(40), <3>2, <3>3, <3>4
  <2>2. CASE Reply(h)
    BY <2>2
  <2>3. QED
    BY <1>9, <2>1, <2>2 DEF Dequeue
<1>10. ASSUME NEW h \in Handlers, CheckKind(h)
      PROVE  RequestsOK'
  BY <1>10 DEF CheckKind
<1>11. ASSUME NEW h \in Handlers, CreateClaim(h)
      PROVE  RequestsOK'
  <2>1. nextAttempt \in Nat \ {0}
    BY DEF TablesOK
  <2>2. /\ req[h].pc = "create_claim"
        /\ req' = [req EXCEPT ![h].pc = "mark_running",
                              ![h].attempt = nextAttempt]
    BY <1>11 DEF CreateClaim
  <2>3. QED
    BY <2>1, <2>2
<1>12. ASSUME NEW h \in Handlers, ClaimConflict(h)
      PROVE  RequestsOK'
  BY <1>12 DEF ClaimConflict
<1>13. ASSUME NEW h \in Handlers, MarkRunning(h)
      PROVE  RequestsOK'
  BY <1>13 DEF MarkRunning
<1>14. ASSUME NEW h \in Handlers, MarkResult(h)
      PROVE  RequestsOK'
  BY <1>14 DEF MarkResult
<1>15. ASSUME NEW h \in Handlers, StaleResult(h)
      PROVE  RequestsOK'
  BY <1>15 DEF StaleResult
<1>16. ASSUME NEW h \in Handlers, EmitResult(h)
      PROVE  RequestsOK'
  BY <1>16 DEF EmitResult
<1>17. ASSUME NEW h \in Handlers, DeleteClaim(h)
      PROVE  RequestsOK'
  BY <1>17 DEF DeleteClaim
<1>18. ASSUME NEW h \in Handlers, Abort(h)
      PROVE  RequestsOK'
  BY <1>18 DEF Abort
<1>19. ASSUME NEW h \in Handlers, DispatchFails(h)
      PROVE  RequestsOK'
  BY <1>19 DEF DispatchFails
<1>20. ASSUME NEW h \in Handlers, MarkRunningFails(h)
      PROVE  RequestsOK'
  BY <1>20 DEF MarkRunningFails
<1>21. ASSUME NEW h \in Handlers, ResponseLost(h)
      PROVE  RequestsOK'
  BY <1>21 DEF ResponseLost
<1>22. ASSUME NEW h \in Handlers, EmitFails(h)
      PROVE  RequestsOK'
  BY <1>22 DEF EmitFails
<1>23. CASE UNCHANGED req
  BY <1>23
<1>24. QED
  BY <1>1, <1>2, <1>3, <1>4, <1>5, <1>6, <1>7, <1>8, <1>9, <1>10, <1>11, <1>12, <1>13, <1>14, <1>15, <1>16, <1>17, <1>18, <1>19, <1>20, <1>21, <1>22, <1>23
  DEF vars, Next, ReliableNext, HandlerStep, NewRequest, PollStep, ResultStep, AgentStep, TimePasses, WatcherStep, AdminStep, Failure, SetWorkerStatus, JobHeartbeat, DropJob, LeaseLapses, ClaimOverdue, RequeueStale, DiscardStale, EnqueueOrphan, RequeueOrphans, DeleteStaleClaims, EnqueueStale, TickEnds, RequeueFails, WatcherCrash, AdminApprove, AdminReject, AdminDelete

\* Every statement leaves tables, streams and the reaper's notes well-formed.
LEMMA TablesStep == TypeOK /\ [Next]_vars => TablesOK'
<1> SUFFICES ASSUME TypeOK, [Next]_vars PROVE TablesOK'
  OBVIOUS
<1> USE SubmissionsAssumption, VerdictsAssumption
        DEF TypeOK, TablesOK
<1>1. ASSUME NEW h \in Handlers, NEW s \in Submissions, CompleteUpload(h, s)
      PROVE  TablesOK'
  BY <1>1 DEF CompleteUpload, Status
<1>2. ASSUME NEW h \in Handlers, NEW w \in Workers, ClaimNext(h, w)
      PROVE  TablesOK'
  BY <1>2 DEF ClaimNext, StartPoll
<1>3. ASSUME NEW h \in Handlers, NEW w \in Workers, NextJob(h, w)
      PROVE  TablesOK'
  BY <1>3 DEF NextJob, StartPoll
<1>4. ASSUME NEW h \in Handlers, NEW j \in jobs, SubmitResult(h, j)
      PROVE  TablesOK'
  BY <1>4 DEF SubmitResult
<1>5. ASSUME NEW h \in Handlers, Enqueue(h)
      PROVE  TablesOK'
  BY <1>5 DEF Enqueue, EnqueueJudge, Entry, RequestsOK, Request, RequestOK, CarryPC, ResultPC
<1>6. ASSUME NEW h \in Handlers, CountKinds(h)
      PROVE  TablesOK'
  BY <1>6 DEF CountKinds
<1>7. ASSUME NEW h \in Handlers, ClaimMessage(h)
      PROVE  TablesOK'
  BY <1>7, RemoveEntry DEF ClaimMessage, Compatible, Entry
<1>8. ASSUME NEW h \in Handlers, NoCompatibleJobs(h)
      PROVE  TablesOK'
  BY <1>8 DEF NoCompatibleJobs
<1>9. ASSUME NEW h \in Handlers, Dequeue(h)
      PROVE  TablesOK'
  <2>1. stream' \in Seq(Entry)
    <3>1. CASE \E i \in DOMAIN stream :
                 stream' = [stream EXCEPT ![i].delivered = TRUE]
      <4>1. PICK i \in DOMAIN stream :
              stream' = [stream EXCEPT ![i].delivered = TRUE]
        BY <3>1
      <4>2. [stream[i] EXCEPT !.delivered = TRUE] \in Entry
        BY Delivered
      <4>3. stream' = [stream EXCEPT ![i] = [stream[i] EXCEPT !.delivered = TRUE]]
        BY <4>1
      <4>4. QED
        BY <4>2, <4>3
    <3>2. CASE UNCHANGED stream
      BY <3>2
    <3>3. QED
      BY <1>9, <3>1, <3>2 DEF Dequeue
  <2>2. QED
    BY <1>9, <2>1 DEF Dequeue
<1>10. ASSUME NEW h \in Handlers, CheckKind(h)
      PROVE  TablesOK'
  BY <1>10 DEF CheckKind
<1>11. ASSUME NEW h \in Handlers, CreateClaim(h)
      PROVE  TablesOK'
  <2>1. req[h].worker \in Workers /\ req[h].sub \in Submissions
    BY <1>11 DEF CreateClaim, RequestsOK, Request, RequestOK, PollPC, CarryPC
  <2>2. [worker |-> req[h].worker, attempt |-> nextAttempt,
         age |-> "fresh"] \in Claim
    BY <2>1 DEF Claim
  <2>3. claim' \in [Submissions -> Claim \cup {NoClaim}]
    BY <1>11, <2>1, <2>2 DEF CreateClaim
  <2>4. QED
    BY <1>11, <2>3 DEF CreateClaim
<1>12. ASSUME NEW h \in Handlers, ClaimConflict(h)
      PROVE  TablesOK'
  BY <1>12 DEF ClaimConflict
<1>13. ASSUME NEW h \in Handlers, MarkRunning(h)
      PROVE  TablesOK'
  <2>1. jobs' \subseteq Job
    BY <1>13, Received DEF MarkRunning
  <2>2. QED
    BY <1>13, <2>1 DEF MarkRunning, Status
<1>14. ASSUME NEW h \in Handlers, MarkResult(h)
      PROVE  TablesOK'
  BY <1>14 DEF MarkResult, Status, RequestsOK, Request, RequestOK, CarryPC, ResultPC
<1>15. ASSUME NEW h \in Handlers, StaleResult(h)
      PROVE  TablesOK'
  BY <1>15 DEF StaleResult
<1>16. ASSUME NEW h \in Handlers, EmitResult(h)
      PROVE  TablesOK'
  BY <1>16 DEF EmitResult, RequestsOK, Request, RequestOK, CarryPC, ResultPC
<1>17. ASSUME NEW h \in Handlers, DeleteClaim(h)
      PROVE  TablesOK'
  BY <1>17 DEF DeleteClaim, Claim, RequestsOK, Request, RequestOK, CarryPC, ResultPC
<1>18. ASSUME NEW h \in Handlers, Abort(h)
      PROVE  TablesOK'
  BY <1>18 DEF Abort
<1>19. ASSUME NEW h \in Handlers, DispatchFails(h)
      PROVE  TablesOK'
  BY <1>19 DEF DispatchFails
<1>20. ASSUME NEW h \in Handlers, MarkRunningFails(h)
      PROVE  TablesOK'
  BY <1>20, Received DEF MarkRunningFails
<1>21. ASSUME NEW h \in Handlers, ResponseLost(h)
      PROVE  TablesOK'
  BY <1>21 DEF ResponseLost, Status, RequestsOK, Request, RequestOK, CarryPC, ResultPC
<1>22. ASSUME NEW h \in Handlers, EmitFails(h)
      PROVE  TablesOK'
  BY <1>22 DEF EmitFails
<1>23. ASSUME NEW j \in jobs, JobHeartbeat(j)
      PROVE  TablesOK'
  <2>1. j.sub \in Submissions /\ claim[j.sub] # NoClaim
    BY <1>23 DEF JobHeartbeat, OwnsClaim, NoClaim, Job
  <2>2. QED
    BY <1>23, <2>1, Aged DEF JobHeartbeat
<1>24. ASSUME NEW j \in jobs, DropJob(j)
      PROVE  TablesOK'
  BY <1>24 DEF DropJob
<1>25. ASSUME NEW s \in Submissions, LeaseLapses(s)
      PROVE  TablesOK'
  BY <1>25, Aged DEF LeaseLapses, Claimed
<1>26. ASSUME NEW s \in Submissions, ClaimOverdue(s)
      PROVE  TablesOK'
  BY <1>26, Aged DEF ClaimOverdue, Claimed
<1>27. ASSUME NEW s \in Submissions, RequeueStale(s)
      PROVE  TablesOK'
  BY <1>27 DEF RequeueStale, Status
<1>28. ASSUME NEW s \in Submissions, DiscardStale(s)
      PROVE  TablesOK'
  BY <1>28 DEF DiscardStale
<1>29. ASSUME NEW s \in Submissions, EnqueueOrphan(s)
      PROVE  TablesOK'
  BY <1>29, Enqueued DEF EnqueueOrphan
<1>30. ASSUME NEW old \in SUBSET Submissions, RequeueOrphans(old)
      PROVE  TablesOK'
  BY <1>30 DEF RequeueOrphans, Orphans, Status
<1>31. ASSUME DeleteStaleClaims
      PROVE  TablesOK'
  BY <1>31 DEF DeleteStaleClaims, Stale, Claim
<1>32. ASSUME EnqueueStale
      PROVE  TablesOK'
  <2>1. watch.sub \in Submissions
    BY <1>32 DEF EnqueueStale
  <2>2. QED
    BY <1>32, <2>1, Enqueued DEF EnqueueStale
<1>33. ASSUME TickEnds
      PROVE  TablesOK'
  BY <1>33 DEF TickEnds, WatchIdle
<1>34. ASSUME RequeueFails
      PROVE  TablesOK'
  <2>1. CASE watch' = [watch EXCEPT !.sub = None]
    <3>1. /\ watch' \in [pc: {"idle", "claims", "orphans"},
                        todo: SUBSET Submissions, sub: Submissions \cup {None}]
          /\ watch'.sub = None
      BY <2>1
    <3>2. QED
      BY <1>34, <3>1 DEF RequeueFails
  <2>2. ASSUME NEW s \in watch.todo, watch.sub = None,
               watch' = [watch EXCEPT !.todo = @ \ {s}]
        PROVE  TablesOK'
    <3>1. /\ watch' \in [pc: {"idle", "claims", "orphans"},
                        todo: SUBSET Submissions, sub: Submissions \cup {None}]
          /\ watch'.sub = None
      BY <2>2
    <3>2. QED
      BY <1>34, <3>1 DEF RequeueFails
  <2>3. QED
    BY <1>34, <2>1, <2>2 DEF RequeueFails
<1>35. ASSUME WatcherCrash
      PROVE  TablesOK'
  BY <1>35 DEF WatcherCrash, WatchIdle
<1>36. ASSUME NEW w \in Workers, AdminApprove(w)
      PROVE  TablesOK'
  BY <1>36 DEF AdminApprove, SetWorkerStatus
<1>37. ASSUME NEW w \in Workers, AdminReject(w)
      PROVE  TablesOK'
  BY <1>37 DEF AdminReject, SetWorkerStatus
<1>38. ASSUME NEW w \in Workers, AdminDelete(w)
      PROVE  TablesOK'
  BY <1>38 DEF AdminDelete
<1>39. CASE UNCHANGED vars
  BY <1>39 DEF vars
<1>40. QED
  BY <1>1, <1>2, <1>3, <1>4, <1>5, <1>6, <1>7, <1>8, <1>9, <1>10, <1>11, <1>12, <1>13, <1>14, <1>15, <1>16, <1>17, <1>18, <1>19, <1>20, <1>21, <1>22, <1>23, <1>24, <1>25, <1>26, <1>27, <1>28, <1>29, <1>30, <1>31, <1>32, <1>33, <1>34, <1>35, <1>36, <1>37, <1>38, <1>39
  DEF Next, ReliableNext, HandlerStep, NewRequest, PollStep, ResultStep,
      AgentStep, TimePasses, WatcherStep, AdminStep, Failure

\* The empty system is well-formed.
LEMMA TypeInit == Init => TypeOK
<1> SUFFICES ASSUME Init PROVE TypeOK
  OBVIOUS
<1>1. TablesOK
  BY SubmissionsAssumption
  DEF Init, TablesOK, Status, Claim, NoClaim, Entry, WatchIdle, Job
<1>2. RequestsOK
  BY DEF Init, RequestsOK, RequestOK, Request, Idle, PollPC, ResultPC, CarryPC
<1>3. QED
  BY <1>1, <1>2 DEF TypeOK

\* TypeOK is inductive.
LEMMA TypeStep == TypeOK /\ [Next]_vars => TypeOK'
BY RequestsStep, TablesStep DEF TypeOK

\* Every row, queue entry, request and job always has the shape the handlers
\* rely on; in particular a request that has reached the statement that needs
\* a submission, a worker or an attempt holds one.
THEOREM TypeCorrect == Spec => []TypeOK
BY TypeInit, TypeStep, PTL DEF Spec
-----------------------------------------------------------------------------
(***************************************************************************)
(* Why a worker that was given up never overwrites its successor: Fenced   *)
(* is inductive, the fencing properties follow from it, and the pipeline   *)
(* implements FencedLease.                                                 *)
(***************************************************************************)
\* Which actions touch claims, jobs, the result a row holds and jobs:results.
Footprint ==
  /\ \/ \E h \in Handlers : CreateClaim(h) \/ DeleteClaim(h)
     \/ \E j \in jobs : JobHeartbeat(j)
     \/ \E s \in Submissions : LeaseLapses(s) \/ ClaimOverdue(s)
     \/ \E w \in Workers : AdminDelete(w)
     \/ DeleteStaleClaims
     \/ UNCHANGED <<claim, nextAttempt>>
  /\ \/ \E h \in Handlers : req[h].pc = "mark_running" /\ Receive(h)
     \/ \E j \in jobs : DropJob(j)
     \/ UNCHANGED jobs
  /\ (\E h \in Handlers : MarkResult(h)) \/ UNCHANGED resultBy
  /\ (\E h \in Handlers : EmitResult(h)) \/ UNCHANGED results

\* Every step of the pipeline has such a footprint.
LEMMA Footprints ==
  ASSUME [Next]_vars
  PROVE  Footprint
<1>1. CASE UNCHANGED vars
  BY <1>1 DEF vars, Footprint
<1>2. ASSUME NEW h \in Handlers, NewRequest(h) PROVE Footprint
  BY <1>2 DEF NewRequest, CompleteUpload, ClaimNext, NextJob, StartPoll,
              SubmitResult, Footprint
<1>3. ASSUME NEW h \in Handlers, PollStep(h) PROVE Footprint
  BY <1>3 DEF PollStep, CountKinds, ClaimMessage, NoCompatibleJobs, Dequeue,
              CheckKind, ClaimConflict, MarkRunning, CreateClaim, Footprint
<1>4. ASSUME NEW h \in Handlers, ResultStep(h) \/ Enqueue(h) PROVE Footprint
  BY <1>4 DEF ResultStep, Enqueue, MarkResult, StaleResult, EmitResult,
              DeleteClaim, Footprint
<1>5. CASE AgentStep \/ TimePasses
  BY <1>5 DEF AgentStep, TimePasses, JobHeartbeat, DropJob, LeaseLapses,
              ClaimOverdue, Footprint
<1>6. CASE WatcherStep
  BY <1>6 DEF WatcherStep, DeleteStaleClaims, RequeueStale, DiscardStale,
              EnqueueStale, RequeueOrphans, EnqueueOrphan, TickEnds, Footprint
<1>7. CASE AdminStep
  BY <1>7 DEF AdminStep, AdminApprove, AdminReject, AdminDelete,
              SetWorkerStatus, Footprint
<1>8. CASE Failure
  BY <1>8 DEF Failure, Abort, DispatchFails, MarkRunningFails, ResponseLost,
              EmitFails, RequeueFails, WatcherCrash, Footprint
<1>9. QED
  BY <1>1, <1>2, <1>3, <1>4, <1>5, <1>6, <1>7, <1>8
  DEF Next, ReliableNext, HandlerStep

\* The claims that a step touches: it grants one to the next attempt, or it
\* ends any number of them; a claim that goes on keeps its worker and attempt.
Granted(s) ==
  /\ claim[s] = NoClaim
  /\ claim' = [claim EXCEPT ![s] = [worker |-> claim'[s].worker,
                              attempt |-> nextAttempt, age |-> "fresh"]]
  /\ nextAttempt' = nextAttempt + 1
KeptOrEnded ==
  /\ \A s \in Submissions :
       \/ claim'[s] = NoClaim
       \/ /\ Claimed(s)
          /\ claim'[s].worker = claim[s].worker
          /\ claim'[s].attempt = claim[s].attempt
  /\ UNCHANGED nextAttempt

\* A step grants a fresh attempt, or keeps and ends claims.
LEMMA ClaimStep ==
  ASSUME TypeOK, [Next]_vars
  PROVE  (\E s \in Submissions : Granted(s)) \/ KeptOrEnded
<1> USE SubmissionsAssumption
<1>1. ASSUME NEW h \in Handlers, CreateClaim(h)
      PROVE  \E s \in Submissions : Granted(s)
  <2>1. req[h].sub \in Submissions
    BY <1>1 DEF CreateClaim, TypeOK, RequestsOK, RequestOK, CarryPC
  <2>2. Granted(req[h].sub)
    BY <1>1, <2>1 DEF CreateClaim, Granted, Claimed, TypeOK, TablesOK
  <2>3. QED
    BY <2>1, <2>2
<1>2. ASSUME NEW h \in Handlers, DeleteClaim(h) PROVE KeptOrEnded
  BY <1>2 DEF DeleteClaim, KeptOrEnded, Claimed, TypeOK, TablesOK
<1>3. ASSUME NEW j \in jobs, JobHeartbeat(j) PROVE KeptOrEnded
  BY <1>3 DEF JobHeartbeat, KeptOrEnded, Claimed, TypeOK, TablesOK, Claim, NoClaim
<1>4. ASSUME NEW s \in Submissions, LeaseLapses(s) PROVE KeptOrEnded
  BY <1>4 DEF LeaseLapses, KeptOrEnded, Claimed, TypeOK, TablesOK, Claim, NoClaim
<1>5. ASSUME NEW s \in Submissions, ClaimOverdue(s) PROVE KeptOrEnded
  BY <1>5 DEF ClaimOverdue, KeptOrEnded, Claimed, TypeOK, TablesOK, Claim, NoClaim
<1>6. CASE DeleteStaleClaims
  BY <1>6 DEF DeleteStaleClaims, KeptOrEnded, Claimed, TypeOK, TablesOK
<1>7. ASSUME NEW w \in Workers, AdminDelete(w) PROVE KeptOrEnded
  BY <1>7 DEF AdminDelete, KeptOrEnded, Claimed, TypeOK, TablesOK
<1>8. CASE UNCHANGED <<claim, nextAttempt>>
  BY <1>8 DEF KeptOrEnded, Claimed
<1>9. QED
  BY Footprints, <1>1, <1>2, <1>3, <1>4, <1>5, <1>6, <1>7, <1>8 DEF Footprint

\* An attempt that was handed out earlier stays behind the claim of its
\* submission whatever the step does.
LEMMA StaysBehind ==
  ASSUME TypeOK, [Next]_vars, TypeOK', NEW s \in Submissions, NEW a \in Nat,
         a < nextAttempt, Claimed(s) => a <= claim[s].attempt
  PROVE  a < nextAttempt' /\ (claim'[s] # NoClaim => a <= claim'[s].attempt)
<1>1. nextAttempt \in Nat
  BY DEF TypeOK, TablesOK
<1>2. CASE KeptOrEnded
  BY <1>1, <1>2 DEF KeptOrEnded, Claimed
<1>3. ASSUME NEW g \in Submissions, Granted(g)
      PROVE  a < nextAttempt' /\ (claim'[s] # NoClaim => a <= claim'[s].attempt)
  <2>1. DOMAIN claim = Submissions
    BY DEF TypeOK, TablesOK
  <2>2. claim'[s] # NoClaim => g = s \/ claim'[s] = claim[s]
    BY <1>3, <2>1 DEF Granted
  <2>3. claim'[g].attempt = nextAttempt
    BY <1>3, <2>1 DEF Granted
  <2>4. QED
    BY <1>1, <1>3, <2>2, <2>3 DEF Granted, Claimed
<1>4. QED
  BY <1>2, <1>3, ClaimStep

\* An agent holds only attempts that a request handed it.
LEMMA JobStep ==
  ASSUME TypeOK, [Next]_vars, NEW j \in jobs'
  PROVE  j \in jobs \/ \E h \in Handlers : /\ req[h].pc = "mark_running"
                                           /\ j.sub = req[h].sub
                                           /\ j.attempt = req[h].attempt
BY Footprints DEF Footprint, Receive, DropJob

\* A row changes its result, and jobs:results grows, only so.
LEMMA ResultsStep ==
  ASSUME [Next]_vars
  PROVE  /\ (\E h \in Handlers : MarkResult(h)) \/ UNCHANGED resultBy
         /\ \A r \in results' : r \in results
              \/ \E h \in Handlers : /\ req[h].pc = "emit_result"
                                     /\ r.sub = req[h].sub
                                     /\ r.attempt = req[h].attempt
<1>1. ASSUME NEW h \in Handlers, EmitResult(h)
      PROVE  /\ req[h].pc = "emit_result"
             /\ results' = results \cup
                  {[sub |-> req[h].sub, attempt |-> req[h].attempt]}
  BY <1>1 DEF EmitResult
<1>2. QED
  BY <1>1, Footprints DEF Footprint

\* How a request comes to hold an attempt.
LEMMA RequestStep ==
  ASSUME TypeOK, [Next]_vars, NEW h \in Handlers
  PROVE  \/ req'[h].attempt = 0
         \/ /\ UNCHANGED <<req[h].attempt, req[h].sub>>
            /\ req'[h].pc = "emit_result" => req[h].pc = "emit_result" \/ MarkResult(h)
         \/ \E j \in jobs : /\ req'[h].pc = "mark_result"
                            /\ req'[h].sub = j.sub
                            /\ req'[h].attempt = j.attempt
         \/ CreateClaim(h)
<1> DEFINE Goal ==
      \/ req'[h].attempt = 0
      \/ /\ UNCHANGED <<req[h].attempt, req[h].sub>>
         /\ req'[h].pc = "emit_result" => req[h].pc = "emit_result" \/ MarkResult(h)
      \/ \E j \in jobs : /\ req'[h].pc = "mark_result"
                         /\ req'[h].sub = j.sub
                         /\ req'[h].attempt = j.attempt
      \/ CreateClaim(h)
<1> USE DEF TypeOK, RequestsOK
<1>1. CASE \E g \in Handlers : Reply(g)
  BY <1>1 DEF Reply, Idle
<1>2. ASSUME NEW g \in Handlers, NewRequest(g) PROVE Goal
  <2>1. ASSUME NEW s \in Submissions, CompleteUpload(g, s) PROVE Goal
    BY <2>1 DEF CompleteUpload, Idle
  <2>2. ASSUME NEW w \in Workers, NEW pc, StartPoll(g, w, pc) PROVE Goal
    BY <2>2 DEF StartPoll, Idle
  <2>3. ASSUME NEW j \in jobs, SubmitResult(g, j) PROVE Goal
    BY <2>3 DEF SubmitResult
  <2>4. QED
    BY <1>2, <2>1, <2>2, <2>3 DEF NewRequest, ClaimNext, NextJob
<1>3. ASSUME NEW g \in Handlers, NEW pc \in {"enqueue", "create_claim", "delete_claim"},
             Goto(g, pc)
      PROVE  Goal
  BY <1>3 DEF Goto
<1>4. ASSUME NEW g \in Handlers, CountKinds(g) \/ ClaimMessage(g)
      PROVE  Goal
  <2>1. req[g].attempt = 0
    BY <1>4 DEF CountKinds, ClaimMessage, RequestOK, ResultPC, Request
  <2>2. g # h => req'[h] = req[h]
    BY <1>4 DEF CountKinds, ClaimMessage
  <2>3. CASE CountKinds(g)
    BY <2>1, <2>2, <2>3 DEF CountKinds
  <2>4. CASE ClaimMessage(g)
    BY <2>1, <2>2, <2>4 DEF ClaimMessage
  <2>5. QED
    BY <1>4, <2>3, <2>4
<1>5. ASSUME NEW g \in Handlers, Dequeue(g) PROVE Goal
  <2>1. req[g].attempt = 0
    BY <1>5 DEF Dequeue, RequestOK, ResultPC, Request
  <2>2. CASE \E i \in DOMAIN stream :
               req' = [req EXCEPT ![g].pc = "check_kind",
                                  ![g].sub = stream[i].sub]
    <3>1. g # h => req'[h] = req[h]
      BY <2>2
    <3>2. req'[g].attempt = req[g].attempt
      BY <2>2
    <3>3. QED
      BY <2>1, <3>1, <3>2
  <2>3. QED
    BY <1>1, <1>5, <2>2 DEF Dequeue
<1>6. ASSUME NEW g \in Handlers, CreateClaim(g) PROVE Goal
  BY <1>6 DEF CreateClaim
<1>7. ASSUME NEW g \in Handlers, MarkResult(g) PROVE Goal
  <2>1. g # h => req'[h] = req[h]
    BY <1>7 DEF MarkResult, Goto
  <2>2. UNCHANGED <<req[g].attempt, req[g].sub>>
    BY <1>7 DEF MarkResult, Goto
  <2>3. QED
    BY <1>7, <2>1, <2>2
<1>8. CASE UNCHANGED req
  BY <1>8
<1>9. QED
  BY <1>1, <1>2, <1>3, <1>4, <1>5, <1>6, <1>7, <1>8
  DEF vars, Next, ReliableNext, HandlerStep, PollStep, ResultStep,
      AgentStep, TimePasses, WatcherStep, AdminStep, Failure,
      Enqueue, NoCompatibleJobs, CheckKind, ClaimConflict, MarkRunning,
      StaleResult, EmitResult, DeleteClaim, JobHeartbeat, DropJob, LeaseLapses,
      ClaimOverdue, DeleteStaleClaims, RequeueStale, DiscardStale,
      EnqueueStale, RequeueOrphans, EnqueueOrphan, TickEnds, SetWorkerStatus,
      AdminApprove, AdminReject, AdminDelete, Abort, DispatchFails,
      MarkRunningFails, ResponseLost, EmitFails, RequeueFails, WatcherCrash

\* Nobody holds an attempt at the start.
LEMMA FencedInit == Init => Fenced
BY DEF Init, Fenced, Claimed, NoClaim, Idle

\* Fenced is inductive, given the types.
LEMMA FencedStep ==
  ASSUME TypeOK, Fenced, [Next]_vars, TypeOK'
  PROVE  Fenced'
<1> USE SubmissionsAssumption DEF Claimed
<1>1. ASSUME NEW h \in Handlers, MarkResult(h), NEW s \in Submissions
      PROVE  \/ /\ req[h].sub = s /\ Claimed(s)
                /\ resultBy'[s] = claim[s].attempt
                /\ req[h].attempt = claim[s].attempt
             \/ req[h].sub # s /\ UNCHANGED resultBy[s]
  BY <1>1 DEF MarkResult, MayCommit, OwnsClaim, Claimed, NoClaim, TypeOK,
              TablesOK, RequestsOK, RequestOK, ResultPC
<1>2. ASSUME NEW s \in Submissions
      PROVE  /\ resultBy[s] \in Nat /\ resultBy'[s] \in Nat
             /\ claim[s].attempt \in Nat /\ claim'[s].attempt \in Nat
             /\ nextAttempt \in Nat \ {0} /\ nextAttempt' \in Nat \ {0}
  BY DEF TypeOK, TablesOK, Claim, NoClaim
<1>3. ASSUME NEW s \in Submissions
      PROVE  \/ UNCHANGED resultBy[s]
             \/ resultBy'[s] = claim[s].attempt /\ Claimed(s)
  BY <1>1, ResultsStep
<1>4. ASSUME NEW s \in Submissions PROVE resultBy[s] <= resultBy'[s]
  BY <1>2, <1>3 DEF Fenced
<1>5. ASSUME NEW s \in Submissions
      PROVE  /\ claim'[s].attempt < nextAttempt'
             /\ resultBy'[s] < nextAttempt'
             /\ claim'[s] # NoClaim => resultBy'[s] <= claim'[s].attempt
  <2>1. claim'[s].attempt < nextAttempt'
    <3>1. CASE KeptOrEnded
      BY <1>2, <3>1 DEF KeptOrEnded, Fenced, NoClaim
    <3>2. ASSUME NEW g \in Submissions, Granted(g)
          PROVE  claim'[s].attempt < nextAttempt'
      <4>1. DOMAIN claim = Submissions
        BY DEF TypeOK, TablesOK
      <4>2. claim'[s].attempt \in {nextAttempt, claim[s].attempt}
        BY <3>2, <4>1 DEF Granted
      <4>3. QED
        BY <1>2, <3>2, <4>2 DEF Granted, Fenced
    <3>3. QED
      BY <3>1, <3>2, ClaimStep
  <2>2. /\ resultBy'[s] < nextAttempt
        /\ Claimed(s) => resultBy'[s] <= claim[s].attempt
    BY <1>2, <1>3 DEF Fenced
  <2>3. QED
    BY <1>2, <2>1, <2>2, StaysBehind
<1>6. ASSUME NEW j \in jobs'
      PROVE  /\ j.attempt < nextAttempt'
             /\ claim'[j.sub] # NoClaim => j.attempt <= claim'[j.sub].attempt
  <2>1. j.sub \in Submissions /\ j.attempt \in Nat
    BY DEF TypeOK, TablesOK, Job
  <2>2. /\ j.attempt < nextAttempt
        /\ Claimed(j.sub) => j.attempt <= claim[j.sub].attempt
    BY <2>1, JobStep DEF Fenced
  <2>3. QED
    BY <2>1, <2>2, StaysBehind
<1>7. ASSUME NEW h \in Handlers
      PROVE  /\ req'[h].attempt < nextAttempt'
             /\ req'[h].sub # None /\ claim'[req'[h].sub] # NoClaim =>
                  req'[h].attempt <= claim'[req'[h].sub].attempt
             /\ req'[h].pc = "emit_result" =>
                  req'[h].attempt <= resultBy'[req'[h].sub]
  <2> DEFINE a == req'[h].attempt
             s == req'[h].sub
  <2>1. a \in Nat /\ s \in Submissions \cup {None}
    BY DEF TypeOK, RequestsOK, Request
  <2>2. nextAttempt' \in Nat \ {0}
    BY DEF TypeOK, TablesOK
  <2>3. a # 0 => s \in Submissions
    BY DEF TypeOK, RequestsOK, RequestOK, CarryPC
  <2>4. req'[h].pc = "emit_result" => s \in Submissions
    BY DEF TypeOK, RequestsOK, RequestOK, ResultPC
  <2>5. CASE a = 0
    <3>1. \A q \in Submissions :
            claim'[q].attempt \in Nat /\ resultBy'[q] \in Nat
      BY <1>2
    <3>2. QED
      BY <2>1, <2>2, <2>4, <2>5, <3>1
  <2>6. CASE /\ a # 0
             /\ a = req[h].attempt /\ s = req[h].sub
             /\ req'[h].pc = "emit_result" =>
                  req[h].pc = "emit_result" \/ MarkResult(h)
    <3>1. s \in Submissions /\ s # None
      BY <2>3, <2>6
    <3>2. /\ a < nextAttempt'
          /\ claim'[s] # NoClaim => a <= claim'[s].attempt
      BY <2>1, <2>6, <3>1, StaysBehind DEF Fenced
    <3>3. req'[h].pc = "emit_result" => a <= resultBy'[s]
      <4>1. CASE req[h].pc = "emit_result"
        BY <1>2, <1>4, <2>1, <2>6, <3>1, <4>1 DEF Fenced
      <4>2. CASE MarkResult(h)
        BY <1>1, <1>2, <2>6, <3>1, <4>2
      <4>3. QED
        BY <2>6, <4>1, <4>2
    <3>4. QED
      BY <3>2, <3>3
  <2>7. CASE \E j \in jobs : /\ req'[h].pc = "mark_result"
                             /\ s = j.sub /\ a = j.attempt
    <3>1. PICK j \in jobs : /\ req'[h].pc = "mark_result"
                            /\ s = j.sub /\ a = j.attempt
      BY <2>7
    <3>2. /\ a < nextAttempt /\ s \in Submissions
          /\ Claimed(s) => a <= claim[s].attempt
      BY <3>1 DEF Fenced, TypeOK, TablesOK, Job
    <3>3. QED
      BY <2>1, <3>1, <3>2, StaysBehind
  <2>8. CASE CreateClaim(h)
    BY <2>8 DEF CreateClaim, TypeOK, TablesOK, RequestsOK, RequestOK, CarryPC
  <2>9. QED
    BY <2>5, <2>6, <2>7, <2>8, RequestStep
<1>8. ASSUME NEW r \in results' PROVE r.attempt <= resultBy'[r.sub]
  <2>1. r.sub \in Submissions /\ r.attempt \in Nat
    BY DEF TypeOK, TablesOK
  <2>2. r.attempt <= resultBy[r.sub]
    BY ResultsStep DEF Fenced
  <2>3. QED
    BY <1>2, <1>4, <2>1, <2>2
<1>9. QED
  BY <1>5, <1>6, <1>7, <1>8 DEF Fenced

\* Fenced holds in every reachable state, for any number of submissions,
\* workers and requests.
THEOREM FencedAlways == Spec => []Fenced
<1>1. TypeOK /\ Fenced /\ [Next]_vars => Fenced'
  BY TypeStep, FencedStep
<1>2. QED
  BY <1>1, FencedInit, TypeCorrect, PTL DEF Spec

\* MarkSubmissionDone and MarkSubmissionFailed require the claim's attempt, so
\* a result is replaced only by that of a newer attempt, and no job or request
\* holds a newer attempt at that moment: whoever was given up comes too late.
THEOREM Fencing == Spec => NewestAttemptWins
<1> DEFINE Ordered == \A s \in Submissions : resultBy'[s] # resultBy[s] =>
              /\ resultBy'[s] > resultBy[s]
              /\ \A a \in AttemptsOf(s) : a <= resultBy'[s]
<1>1. TypeOK /\ Fenced /\ [Next]_vars => [Ordered]_vars
  <2> SUFFICES ASSUME TypeOK, Fenced, [Next]_vars PROVE Ordered
    OBVIOUS
  <2> USE SubmissionsAssumption
  <2>1. ASSUME NEW h \in Handlers, MarkResult(h), NEW s \in Submissions,
               resultBy'[s] # resultBy[s]
        PROVE  /\ resultBy'[s] > resultBy[s]
               /\ \A a \in AttemptsOf(s) : a <= resultBy'[s]
    <3>1. req[h].sub = s
      BY <2>1 DEF MarkResult, TypeOK, TablesOK
    <3>2. resultBy'[s] = claim[s].attempt /\ Claimed(s)
      BY <2>1, <3>1 DEF MarkResult, MayCommit, OwnsClaim, Claimed, NoClaim,
                        TypeOK, TablesOK, RequestsOK, RequestOK, ResultPC
    <3>3. resultBy[s] \in Nat /\ claim[s].attempt \in Nat
      BY DEF TypeOK, TablesOK, Claim, NoClaim
    <3>4. \A j \in jobs : j.sub = s => j.attempt <= claim[s].attempt
      BY <3>2 DEF Fenced
    <3>5. \A g \in Handlers : req[g].sub = s => req[g].attempt <= claim[s].attempt
      BY <3>2 DEF Fenced
    <3>6. QED
      BY <2>1, <3>2, <3>3, <3>4, <3>5 DEF Fenced, AttemptsOf
  <2>2. CASE UNCHANGED resultBy
    BY <2>2
  <2>3. QED
    BY <2>1, <2>2, ResultsStep
<1>2. QED
  BY <1>1, TypeCorrect, FencedAlways, PTL DEF Spec, NewestAttemptWins

-----------------------------------------------------------------------------
(* The refinement.                                                         *)

\* The pipeline starts as an empty lease does.
LEMMA LeaseInitially == Init => Lease!LeaseInit
BY DEF Init, Lease!LeaseInit, NoClaim

\* Every step of the pipeline is a step of the lease or leaves it unchanged.
LEMMA LeaseStep ==
  ASSUME TypeOK, Fenced, [Next]_vars, TypeOK'
  PROVE  [Lease!LeaseNext]_(Lease!lvars)
<1> USE SubmissionsAssumption
<1>1. ASSUME NEW h \in Handlers, MarkResult(h)
      PROVE  Lease!LeaseNext
  <2> DEFINE s == req[h].sub
  <2>1. s \in Submissions
    BY <1>1 DEF MarkResult, TypeOK, RequestsOK, RequestOK, ResultPC
  <2>2. claim[s].attempt = req[h].attempt /\ req[h].attempt # 0
    BY <1>1 DEF MarkResult, MayCommit, OwnsClaim, TypeOK, RequestsOK,
                RequestOK, ResultPC
  <2>3. Lease!Write(s)
    BY <1>1, <2>1, <2>2 DEF MarkResult, Lease!Write
  <2>4. QED
    BY <2>1, <2>3 DEF Lease!LeaseNext
<1>2. ASSUME NEW s \in Submissions, Granted(s), UNCHANGED resultBy
      PROVE  Lease!LeaseNext
  <2>1. nextAttempt \in Nat /\ DOMAIN claim = Submissions
    BY DEF TypeOK, TablesOK
  <2>2. Lease!Grant(s)
    <3>1. claim[s].attempt = 0
      BY <1>2 DEF Granted, NoClaim
    <3>2. \A r \in Submissions : claim'[r].attempt =
            IF r = s THEN nextAttempt ELSE claim[r].attempt
      BY <1>2, <2>1 DEF Granted
    <3>3. nextAttempt' - 1 = nextAttempt /\ (nextAttempt - 1) + 1 = nextAttempt
      BY <1>2, <2>1 DEF Granted
    <3>4. QED
      BY <1>2, <3>1, <3>2, <3>3 DEF Lease!Grant
  <2>3. QED
    BY <2>2 DEF Lease!LeaseNext
<1>3. ASSUME KeptOrEnded, UNCHANGED resultBy
      PROVE  Lease!LeaseNext
  <2>1. PICK R \in SUBSET Submissions :
          \A s \in Submissions : s \in R <=> claim'[s] = NoClaim
    <3> WITNESS {s \in Submissions : claim'[s] = NoClaim} \in SUBSET Submissions
    <3> QED
      OBVIOUS
  <2>2. \A s \in Submissions :
          claim'[s].attempt = IF s \in R THEN 0 ELSE claim[s].attempt
    BY <1>3, <2>1 DEF KeptOrEnded, NoClaim
  <2>3. Lease!Revoke(R)
    BY <1>3, <2>2 DEF KeptOrEnded, Lease!Revoke
  <2>4. QED
    BY <2>3 DEF Lease!LeaseNext
<1>4. QED
  BY <1>1, <1>2, <1>3, ClaimStep, ResultsStep

\* The table of claims implements the fenced lease: every reachable step is a
\* grant of a fresh token, a revocation, or a write by the current holder.
THEOREM Refinement == Spec => ImplementsLease
<1>1. TypeOK /\ Fenced /\ [Next]_vars => [Lease!LeaseNext]_(Lease!lvars)
  BY TypeStep, LeaseStep
<1>2. QED
  BY <1>1, LeaseInitially, TypeCorrect, FencedAlways, PTL
  DEF Spec, ImplementsLease, Lease!LeaseSpec
=============================================================================
