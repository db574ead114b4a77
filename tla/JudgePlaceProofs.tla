-------------------------- MODULE JudgePlaceProofs --------------------------
(***************************************************************************)
(* What the pipeline owes to well-behaved clients.  When an upload is      *)
(* completed once and nobody polls jobs/next, the job of a submission is   *)
(* in one place and a finished submission stays finished: whatever fails,  *)
(* a statement moves the job from one place to the next, or loses it, and  *)
(* never leaves a second one behind.  When nothing fails, no queued        *)
(* submission is left without a job.  When a worker has one poll in flight *)
(* at a time, its claims stay within its limits.                           *)
(***************************************************************************)
EXTENDS JudgePipelineProofs, FiniteSetTheorems
-----------------------------------------------------------------------------
(* One place, when an upload is completed once and nobody uses NextJob.    *)

\* At most one entry of the stream is a job of s.
SingleEntry(s) ==
  \A i, k \in DOMAIN stream : stream[i].sub = s /\ stream[k].sub = s => i = k

Nowhere(s) == ~InStream(s) /\ Carriers(s) = {} /\ ~ReaperCarries(s)

\* One submission's part of JobInOnePlace; before the upload is completed
\* there is no job at all.
OnePlace(s) ==
  /\ SingleEntry(s)
  /\ \A g, h \in Carriers(s) : g = h
  /\ InStream(s) => Carriers(s) = {} /\ ~ReaperCarries(s)
  /\ ReaperCarries(s) => Carriers(s) = {}
  /\ status[s] \in {"running"} \cup Terminal => Nowhere(s)
  /\ uploads[s] = 0 => status[s] = "uploaded" /\ Nowhere(s)

\* The inductive invariant: without NextJob no request is at its statements.
PlaceInv ==
  /\ \A s \in Submissions : OnePlace(s)
  /\ \A h \in Handlers : req[h].pc \notin {"dequeue", "check_kind"}

\* It is what JobInOnePlace says and more.
LEMMA PlaceInvImplies == PlaceInv => JobInOnePlace
BY DEF PlaceInv, OnePlace, SingleEntry, Nowhere, JobInOnePlace

\* After a removal the submission of the entry has none, the others have
\* what they had.
LEMMA TakenOut ==
  ASSUME stream \in Seq(Entry), NEW i \in DOMAIN stream,
         stream' = RemoveAt(stream, i), NEW s \in Submissions, SingleEntry(s)
  PROVE  /\ SingleEntry(s)'
         /\ InStream(s)' => InStream(s) /\ s # stream[i].sub
<1>1. i \in 1 .. Len(stream) /\ Len(stream) \in Nat
  OBVIOUS
<1>2. /\ DOMAIN stream' = 1 .. Len(stream) - 1
      /\ \A n \in 1 .. Len(stream) - 1 :
           stream'[n] = IF n < i THEN stream[n] ELSE stream[n + 1]
  BY RemoveEntry
<1> DEFINE old(n) == IF n < i THEN n ELSE n + 1
<1>3. \A n \in DOMAIN stream' : /\ old(n) \in DOMAIN stream /\ old(n) # i
                                /\ stream'[n] = stream[old(n)]
  BY <1>1, <1>2
<1>4. \A m, n \in DOMAIN stream' : old(m) = old(n) => m = n
  BY <1>1, <1>2
<1> HIDE DEF old
<1>5. SingleEntry(s)'
  BY <1>3, <1>4 DEF SingleEntry
<1>6. InStream(s)' => InStream(s) /\ s # stream[i].sub
  BY <1>3 DEF SingleEntry, InStream
<1>7. QED
  BY <1>5, <1>6

\* After an XADD the submission of a job that was nowhere in the stream has
\* one entry, the others have what they had.
LEMMA PutIn ==
  ASSUME stream \in Seq(Entry), NEW q \in Submissions, EnqueueJudge(q),
         NEW s \in Submissions, SingleEntry(s)
  PROVE  /\ s # q => SingleEntry(s)' /\ (InStream(s)' => InStream(s))
         /\ s = q /\ ~InStream(s) => SingleEntry(s)'
<1>1. /\ DOMAIN stream' = 1 .. Len(stream) + 1
      /\ \A i \in DOMAIN stream : stream'[i] = stream[i]
      /\ stream'[Len(stream) + 1] = [sub |-> q, delivered |-> FALSE]
  BY Enqueued
<1>2. DOMAIN stream = 1 .. Len(stream) /\ Len(stream) \in Nat
  OBVIOUS
<1>3. \A i \in DOMAIN stream' : i \in DOMAIN stream \/ i = Len(stream) + 1
  BY <1>1, <1>2
<1>4. stream'[Len(stream) + 1].sub = q
  BY <1>1
<1>5. QED
  BY <1>1, <1>3, <1>4 DEF SingleEntry, InStream

\* A step that adds no place for s keeps OnePlace(s).
LEMMA NoNewPlace ==
  ASSUME NEW s \in Submissions, OnePlace(s), SingleEntry(s)',
         InStream(s)' => InStream(s), Carriers(s)' \subseteq Carriers(s),
         ReaperCarries(s)' => ReaperCarries(s),
         status'[s] = status[s], uploads'[s] = uploads[s]
  PROVE  OnePlace(s)'
BY DEF OnePlace, Nowhere

\* A step that leaves the stream alone leaves its entries alone.
LEMMA SameStream ==
  ASSUME NEW s \in Submissions, SingleEntry(s), UNCHANGED stream
  PROVE  SingleEntry(s)' /\ (InStream(s)' <=> InStream(s))
BY DEF SingleEntry, InStream

\* A request that goes on without taking up a job, and without touching the
\* stream, the rows or the reaper, leaves every job where it is.
LEMMA QuietRequest ==
  ASSUME PlaceInv, NEW h \in Handlers,
         \A g \in Handlers \ {h} : req'[g] = req[g],
         UNCHANGED <<stream, status, uploads, watch>>,
         req'[h].pc \in CarryPC =>
           req[h].pc \in CarryPC /\ req'[h].sub = req[h].sub,
         req'[h].pc \notin {"dequeue", "check_kind"}
  PROVE  PlaceInv'
<1>1. ASSUME NEW s \in Submissions PROVE OnePlace(s)'
  <2>1. Carriers(s)' \subseteq Carriers(s)
    BY DEF Carriers
  <2>2. SingleEntry(s)' /\ (InStream(s)' => InStream(s))
    BY SameStream DEF PlaceInv, OnePlace
  <2>3. ReaperCarries(s)' => ReaperCarries(s)
    BY DEF ReaperCarries
  <2>4. QED
    BY <2>1, <2>2, <2>3, NoNewPlace DEF PlaceInv
<1>2. QED
  BY <1>1 DEF PlaceInv

\* The same for a step of the agents, of time or of an administrator.
LEMMA QuietStep ==
  ASSUME PlaceInv, UNCHANGED <<stream, status, uploads, watch, req>>
  PROVE  PlaceInv'
BY DEF PlaceInv, OnePlace, SingleEntry, Nowhere, InStream, Carriers,
       ReaperCarries

\* The statements of a request that neither queue a job, take it out of the
\* stream, nor change a row.
LEMMA RequestGoesOn ==
  ASSUME TypeOK, PlaceInv, UseNextJob = FALSE, NEW h \in Handlers,
         \/ \E w \in Workers : ClaimNext(h, w) \/ NextJob(h, w)
         \/ \E j \in jobs : SubmitResult(h, j)
         \/ CountKinds(h) \/ NoCompatibleJobs(h)
         \/ Dequeue(h) \/ CheckKind(h) \/ CreateClaim(h) \/ ClaimConflict(h)
         \/ StaleResult(h) \/ EmitResult(h) \/ DeleteClaim(h)
         \/ Abort(h) \/ DispatchFails(h) \/ MarkRunningFails(h) \/ EmitFails(h)
  PROVE  PlaceInv'
<1> DEFINE Quiet ==
      /\ \A g \in Handlers \ {h} : req'[g] = req[g]
      /\ UNCHANGED <<stream, status, uploads, watch>>
      /\ req'[h].pc \in CarryPC =>
           req[h].pc \in CarryPC /\ req'[h].sub = req[h].sub
      /\ req'[h].pc \notin {"dequeue", "check_kind"}
<1> USE DEF TypeOK, RequestsOK, CarryPC, Reply, Goto, Idle
<1>1. ASSUME NEW w \in Workers, ClaimNext(h, w) \/ NextJob(h, w)
      PROVE  Quiet
  BY <1>1 DEF ClaimNext, NextJob, StartPoll
<1>2. ASSUME NEW j \in jobs, SubmitResult(h, j) PROVE Quiet
  BY <1>2 DEF SubmitResult
<1>3. ASSUME CountKinds(h) \/ NoCompatibleJobs(h) PROVE Quiet
  BY <1>3 DEF CountKinds, NoCompatibleJobs, Request
<1>4. ASSUME Dequeue(h) \/ CheckKind(h) PROVE FALSE
  BY <1>4 DEF Dequeue, CheckKind, PlaceInv
<1>5. ASSUME CreateClaim(h) \/ ClaimConflict(h) PROVE Quiet
  BY <1>5 DEF CreateClaim, ClaimConflict, Request
<1>6. ASSUME StaleResult(h) \/ EmitResult(h) \/ DeleteClaim(h) PROVE Quiet
  BY <1>6 DEF StaleResult, EmitResult, DeleteClaim, Request
<1>7. ASSUME Abort(h) \/ DispatchFails(h) \/ MarkRunningFails(h) \/ EmitFails(h)
      PROVE  Quiet
  BY <1>7 DEF Abort, DispatchFails, MarkRunningFails, EmitFails, Request
<1> HIDE DEF Quiet
<1>8. Quiet => PlaceInv'
  BY QuietRequest DEF Quiet
<1>9. QED
  BY <1>1, <1>2, <1>3, <1>4, <1>5, <1>6, <1>7, <1>8

\* The first and only CompleteUpload makes the first job of its submission.
LEMMA UploadPlaces ==
  ASSUME TypeOK, PlaceInv, MaxUploads <= 1, NEW h \in Handlers,
         NEW q \in Submissions, CompleteUpload(h, q)
  PROVE  PlaceInv'
<1>1. /\ uploads[q] = 0 /\ uploads'[q] = 1 /\ status'[q] = "queued"
      /\ \A s \in Submissions \ {q} : status'[s] = status[s] /\ uploads'[s] = uploads[s]
  BY BoundsAssumption DEF CompleteUpload, TypeOK, TablesOK
<1>2. /\ req'[h].pc = "enqueue" /\ req'[h].sub = q
      /\ \A g \in Handlers \ {h} : req'[g] = req[g]
      /\ UNCHANGED <<stream, watch>>
  BY DEF CompleteUpload, Idle, TypeOK, RequestsOK
<1>3. ASSUME NEW s \in Submissions PROVE OnePlace(s)'
  <2>1. /\ SingleEntry(s)' /\ (InStream(s)' <=> InStream(s))
        /\ (ReaperCarries(s)' <=> ReaperCarries(s))
    BY <1>2, SameStream DEF PlaceInv, OnePlace, ReaperCarries
  <2>2. CASE s = q
    <3>1. Nowhere(q)
      BY <1>1 DEF PlaceInv, OnePlace
    <3>2. Carriers(q)' \subseteq {h}
      BY <1>2, <3>1 DEF Nowhere, Carriers
    <3>3. QED
      BY <1>1, <2>1, <2>2, <3>1, <3>2 DEF OnePlace, Nowhere, Terminal
  <2>3. CASE s # q
    <3>1. Carriers(s)' \subseteq Carriers(s)
      BY <1>2, <2>3 DEF Carriers
    <3>2. QED
      BY <1>1, <2>1, <2>3, <3>1, NoNewPlace DEF PlaceInv
  <2>4. QED
    BY <2>2, <2>3
<1>4. \A g \in Handlers : req'[g].pc \notin {"dequeue", "check_kind"}
  BY <1>2 DEF PlaceInv
<1>5. QED
  BY <1>3, <1>4 DEF PlaceInv

\* The request that carries a job to the stream leaves it there.
LEMMA EnqueuePlaces ==
  ASSUME TypeOK, PlaceInv, NEW h \in Handlers, Enqueue(h)
  PROVE  PlaceInv'
<1> DEFINE q == req[h].sub
<1>1. /\ q \in Submissions /\ h \in Carriers(q) /\ stream \in Seq(Entry)
      /\ EnqueueJudge(q)
  BY DEF Enqueue, TypeOK, TablesOK, RequestsOK, RequestOK, CarryPC, Carriers
<1>2. /\ req'[h].pc = "idle" /\ \A g \in Handlers \ {h} : req'[g] = req[g]
      /\ UNCHANGED <<status, uploads, watch>>
  BY DEF Enqueue, Reply, Idle, TypeOK, RequestsOK
<1> HIDE DEF q
<1>3. ASSUME NEW s \in Submissions PROVE OnePlace(s)'
  <2>1. /\ Carriers(s)' \subseteq Carriers(s) \ {h}
        /\ ReaperCarries(s)' => ReaperCarries(s)
    BY <1>2 DEF Carriers, CarryPC, ReaperCarries
  <2>2. CASE s = q
    <3>1. /\ ~InStream(q) /\ ~ReaperCarries(q) /\ uploads[q] # 0
          /\ status[q] \notin {"running"} \cup Terminal
          /\ \A g \in Carriers(q) : g = h
      BY <1>1 DEF PlaceInv, OnePlace, Nowhere
    <3>2. SingleEntry(s)'
      BY <1>1, <2>2, <3>1, PutIn DEF PlaceInv, OnePlace
    <3>3. Carriers(s)' = {}
      BY <2>1, <2>2, <3>1
    <3>4. QED
      BY <1>2, <2>1, <2>2, <3>1, <3>2, <3>3 DEF OnePlace
  <2>3. CASE s # q
    BY <1>1, <1>2, <2>1, <2>3, PutIn, NoNewPlace DEF PlaceInv, OnePlace
  <2>4. QED
    BY <2>2, <2>3
<1>4. \A g \in Handlers : req'[g].pc \notin {"dequeue", "check_kind"}
  BY <1>2 DEF PlaceInv
<1>5. QED
  BY <1>3, <1>4 DEF PlaceInv

\* A request that takes an entry out of the stream is the only place of its
\* job.
LEMMA ClaimMessagePlaces ==
  ASSUME TypeOK, PlaceInv, NEW h \in Handlers, ClaimMessage(h)
  PROVE  PlaceInv'
<1>1. PICK i \in DOMAIN stream :
        /\ stream' = RemoveAt(stream, i)
        /\ req' = [req EXCEPT ![h].pc = "create_claim",
                              ![h].sub = stream[i].sub, ![h].kinds = {}]
  BY DEF ClaimMessage, Compatible
<1> DEFINE q == stream[i].sub
<1>2. stream \in Seq(Entry) /\ q \in Submissions /\ InStream(q)
  BY Delivered DEF TypeOK, TablesOK, InStream
<1>3. /\ req'[h].pc = "create_claim" /\ req'[h].sub = q
      /\ \A g \in Handlers \ {h} : req'[g] = req[g]
      /\ UNCHANGED <<status, uploads, watch>>
  BY <1>1 DEF ClaimMessage, TypeOK, RequestsOK, Request
<1>4. ASSUME NEW s \in Submissions
      PROVE  SingleEntry(s)' /\ (InStream(s)' => InStream(s) /\ s # q)
  BY <1>1, <1>2, TakenOut DEF PlaceInv, OnePlace
<1> HIDE DEF q
<1>5. ASSUME NEW s \in Submissions PROVE OnePlace(s)'
  <2>1. ReaperCarries(s)' => ReaperCarries(s)
    BY <1>3 DEF ReaperCarries
  <2>2. CASE s = q
    <3>1. /\ Carriers(q) = {} /\ ~ReaperCarries(q) /\ uploads[q] # 0
          /\ status[q] \notin {"running"} \cup Terminal
      BY <1>2 DEF PlaceInv, OnePlace, Nowhere
    <3>2. Carriers(s)' \subseteq {h}
      BY <1>3, <2>2, <3>1 DEF Carriers
    <3>3. QED
      BY <1>3, <1>4, <2>1, <2>2, <3>1, <3>2 DEF OnePlace
  <2>3. CASE s # q
    <3>1. Carriers(s)' \subseteq Carriers(s)
      BY <1>3, <2>3 DEF Carriers
    <3>2. QED
      BY <1>3, <1>4, <2>1, <3>1, NoNewPlace DEF PlaceInv
  <2>4. QED
    BY <2>2, <2>3
<1>6. \A g \in Handlers : req'[g].pc \notin {"dequeue", "check_kind"}
  BY <1>3 DEF PlaceInv
<1>7. QED
  BY <1>5, <1>6 DEF PlaceInv

\* The request that marks a job running was its only place.
LEMMA MarkRunningPlaces ==
  ASSUME TypeOK, PlaceInv, NEW h \in Handlers, MarkRunning(h) \/ ResponseLost(h)
  PROVE  PlaceInv'
<1> DEFINE q == req[h].sub
<1>1. q \in Submissions /\ h \in Carriers(q)
  BY DEF MarkRunning, ResponseLost, TypeOK, RequestsOK, RequestOK, CarryPC,
         Carriers
<1>2. /\ req'[h].pc = "idle" /\ \A g \in Handlers \ {h} : req'[g] = req[g]
      /\ UNCHANGED <<stream, uploads, watch>>
      /\ status'[q] = "running"
      /\ \A s \in Submissions \ {q} : status'[s] = status[s]
  BY <1>1 DEF MarkRunning, ResponseLost, Reply, Idle, TypeOK, TablesOK, RequestsOK
<1> HIDE DEF q
<1>3. ASSUME NEW s \in Submissions PROVE OnePlace(s)'
  <2>1. /\ Carriers(s)' \subseteq Carriers(s) \ {h}
        /\ ReaperCarries(s)' => ReaperCarries(s)
        /\ SingleEntry(s)' /\ (InStream(s)' <=> InStream(s))
    BY <1>2, SameStream DEF Carriers, CarryPC, ReaperCarries, PlaceInv, OnePlace
  <2>2. CASE s = q
    <3>1. /\ ~InStream(q) /\ ~ReaperCarries(q) /\ uploads[q] # 0
          /\ \A g \in Carriers(q) : g = h
      BY <1>1 DEF PlaceInv, OnePlace, Nowhere
    <3>2. QED
      BY <1>2, <2>1, <2>2, <3>1 DEF OnePlace, Nowhere
  <2>3. CASE s # q
    BY <1>2, <2>1, <2>3, NoNewPlace DEF PlaceInv
  <2>4. QED
    BY <2>2, <2>3
<1>4. \A g \in Handlers : req'[g].pc \notin {"dequeue", "check_kind"}
  BY <1>2 DEF PlaceInv
<1>5. QED
  BY <1>3, <1>4 DEF PlaceInv

\* The row of a result was running, and so had no job.
LEMMA MarkResultPlaces ==
  ASSUME TypeOK, PlaceInv, NEW h \in Handlers, MarkResult(h)
  PROVE  PlaceInv'
<1> DEFINE q == req[h].sub
<1>1. q \in Submissions /\ status[q] = "running"
  BY DEF MarkResult, MayCommit, TypeOK, RequestsOK, RequestOK, ResultPC
<1>2. /\ req'[h].pc = "emit_result" /\ \A g \in Handlers \ {h} : req'[g] = req[g]
      /\ UNCHANGED <<stream, uploads, watch>>
      /\ \A s \in Submissions \ {q} : status'[s] = status[s]
  BY <1>1 DEF MarkResult, Goto, TypeOK, TablesOK, RequestsOK, Request
<1> HIDE DEF q
<1>3. ASSUME NEW s \in Submissions PROVE OnePlace(s)'
  <2>1. /\ Carriers(s)' \subseteq Carriers(s)
        /\ ReaperCarries(s)' => ReaperCarries(s)
        /\ SingleEntry(s)' /\ (InStream(s)' <=> InStream(s))
    BY <1>2, SameStream DEF Carriers, CarryPC, ReaperCarries, PlaceInv, OnePlace
  <2>2. CASE s = q
    <3>1. Nowhere(q) /\ uploads[q] # 0
      BY <1>1 DEF PlaceInv, OnePlace
    <3>2. QED
      BY <1>2, <2>1, <2>2, <3>1 DEF OnePlace, Nowhere
  <2>3. CASE s # q
    BY <1>2, <2>1, <2>3, NoNewPlace DEF PlaceInv
  <2>4. QED
    BY <2>2, <2>3
<1>4. \A g \in Handlers : req'[g].pc \notin {"dequeue", "check_kind"}
  BY <1>2 DEF PlaceInv
<1>5. QED
  BY <1>3, <1>4 DEF PlaceInv

\* The reaper drops jobs, or moves none, in the steps that neither change a
\* row nor add to the stream.
LEMMA ReaperGoesOn ==
  ASSUME TypeOK, PlaceInv,
         \/ DeleteStaleClaims \/ TickEnds \/ RequeueFails \/ WatcherCrash
         \/ \E s \in Submissions : DiscardStale(s)
  PROVE  PlaceInv'
<1>1. UNCHANGED <<status, uploads, stream, req>>
  BY DEF DeleteStaleClaims, TickEnds, RequeueFails, WatcherCrash, DiscardStale
<1>2. ASSUME NEW s \in Submissions, ReaperCarries(s)'
      PROVE  ReaperCarries(s)
  <2> USE SubmissionsAssumption
          DEF ReaperCarries, WatchIdle, TypeOK, TablesOK
  <2>1. CASE DeleteStaleClaims \/ TickEnds \/ WatcherCrash
    BY <1>2, <2>1 DEF DeleteStaleClaims, TickEnds, WatcherCrash
  <2>2. CASE RequeueFails
    BY <1>2, <2>2 DEF RequeueFails
  <2>3. ASSUME NEW q \in Submissions, DiscardStale(q) PROVE ReaperCarries(s)
    BY <1>2, <2>3 DEF DiscardStale
  <2>4. QED
    BY <2>1, <2>2, <2>3
<1>3. ASSUME NEW s \in Submissions PROVE OnePlace(s)'
  <2>1. Carriers(s)' \subseteq Carriers(s)
    BY <1>1 DEF Carriers
  <2>2. QED
    BY <1>1, <1>2, <2>1, SameStream, NoNewPlace DEF PlaceInv, OnePlace
<1>4. QED
  BY <1>1, <1>3 DEF PlaceInv

\* A row that the reaper queues was running, so the reaper is the only place
\* of its job.
LEMMA RequeuePlaces ==
  ASSUME TypeOK, PlaceInv,
         \/ \E s \in Submissions : RequeueStale(s)
         \/ \E old \in SUBSET Submissions : RequeueOrphans(old)
  PROVE  PlaceInv'
<1> USE SubmissionsAssumption DEF TypeOK, TablesOK
<1>1. UNCHANGED <<uploads, stream, req>>
  BY DEF RequeueStale, RequeueOrphans
<1>2. ASSUME NEW s \in Submissions
      PROVE  \/ status[s] = "running" /\ status'[s] = "queued"
             \/ status'[s] = status[s] /\ (ReaperCarries(s)' => ReaperCarries(s))
  <2>1. ASSUME NEW q \in Submissions, RequeueStale(q)
        PROVE  \/ status[s] = "running" /\ status'[s] = "queued"
               \/ /\ status'[s] = status[s]
                  /\ ReaperCarries(s)' => ReaperCarries(s)
    BY <2>1 DEF RequeueStale, ReaperCarries
  <2>2. ASSUME NEW old \in SUBSET Submissions, RequeueOrphans(old)
        PROVE  \/ status[s] = "running" /\ status'[s] = "queued"
               \/ /\ status'[s] = status[s]
                  /\ ReaperCarries(s)' => ReaperCarries(s)
    BY <2>2 DEF RequeueOrphans, Orphans, ReaperCarries
  <2>3. QED
    BY <2>1, <2>2
<1>3. ASSUME NEW s \in Submissions PROVE OnePlace(s)'
  <2>1. Carriers(s)' = Carriers(s)
    BY <1>1 DEF Carriers
  <2>2. SingleEntry(s)' /\ (InStream(s)' <=> InStream(s))
    BY <1>1, SameStream DEF PlaceInv, OnePlace
  <2>3. CASE status[s] = "running" /\ status'[s] = "queued"
    <3>1. Nowhere(s) /\ uploads[s] # 0
      BY <2>3 DEF PlaceInv, OnePlace
    <3>2. QED
      BY <1>1, <2>1, <2>2, <2>3, <3>1 DEF OnePlace, Nowhere, Terminal
  <2>4. QED
    BY <1>1, <1>2, <2>1, <2>2, <2>3, NoNewPlace DEF PlaceInv
<1>4. QED
  BY <1>1, <1>3 DEF PlaceInv

\* What the reaper puts into the stream it no longer holds.
LEMMA ReaperEnqueues ==
  ASSUME TypeOK, PlaceInv, NEW q \in Submissions,
         (EnqueueStale /\ q = watch.sub) \/ EnqueueOrphan(q)
  PROVE  PlaceInv'
<1> USE SubmissionsAssumption DEF TypeOK, TablesOK
<1>1. /\ stream \in Seq(Entry) /\ EnqueueJudge(q) /\ ReaperCarries(q)
      /\ UNCHANGED <<uploads, status, req>>
  BY DEF EnqueueStale, EnqueueOrphan, ReaperCarries
<1>2. ASSUME NEW s \in Submissions
      PROVE  ReaperCarries(s)' => ReaperCarries(s) /\ s # q
  BY DEF EnqueueStale, EnqueueOrphan, ReaperCarries
<1>3. ASSUME NEW s \in Submissions PROVE OnePlace(s)'
  <2>1. Carriers(s)' = Carriers(s)
    BY <1>1 DEF Carriers
  <2>2. CASE s = q
    <3>1. /\ ~InStream(s) /\ Carriers(s) = {} /\ uploads[s] # 0
          /\ status[s] \notin {"running"} \cup Terminal
      BY <1>1, <2>2 DEF PlaceInv, OnePlace, Nowhere
    <3>2. SingleEntry(s)'
      BY <1>1, <2>2, <3>1, PutIn DEF PlaceInv, OnePlace
    <3>3. QED
      BY <1>1, <1>2, <2>1, <2>2, <3>1, <3>2 DEF OnePlace
  <2>3. CASE s # q
    <3>1. SingleEntry(s)' /\ (InStream(s)' => InStream(s))
      BY <1>1, <2>3, PutIn DEF PlaceInv, OnePlace
    <3>2. QED
      BY <1>1, <1>2, <2>1, <3>1, NoNewPlace DEF PlaceInv
  <2>4. QED
    BY <2>2, <2>3
<1>4. QED
  BY <1>1, <1>3 DEF PlaceInv

\* PlaceInv is inductive.
LEMMA PlaceStep ==
  ASSUME MaxUploads <= 1, UseNextJob = FALSE
  PROVE  TypeOK /\ PlaceInv /\ [Next]_vars => PlaceInv'
<1> SUFFICES ASSUME TypeOK, PlaceInv, [Next]_vars PROVE PlaceInv'
  OBVIOUS
<1>1. ASSUME NEW h \in Handlers, HandlerStep(h) PROVE PlaceInv'
  <2>1. CASE NewRequest(h)
    BY <2>1, UploadPlaces, RequestGoesOn DEF NewRequest
  <2>2. CASE Enqueue(h)
    BY <2>2, EnqueuePlaces
  <2>3. CASE PollStep(h)
    BY <2>3, ClaimMessagePlaces, MarkRunningPlaces, RequestGoesOn DEF PollStep
  <2>4. CASE ResultStep(h)
    BY <2>4, MarkResultPlaces, RequestGoesOn DEF ResultStep
  <2>5. QED
    BY <1>1, <2>1, <2>2, <2>3, <2>4 DEF HandlerStep
<1>2. CASE AgentStep \/ TimePasses \/ AdminStep \/ UNCHANGED vars
  <2>1. UNCHANGED <<stream, status, uploads, watch, req>>
    BY <1>2 DEF AgentStep, TimePasses, AdminStep, JobHeartbeat, DropJob,
         LeaseLapses, ClaimOverdue, AdminApprove, AdminReject, AdminDelete,
         SetWorkerStatus, vars
  <2>2. QED
    BY <2>1, QuietStep
<1>3. CASE WatcherStep
  <2>1. EnqueueStale => watch.sub \in Submissions
    BY DEF EnqueueStale, TypeOK, TablesOK
  <2>2. QED
    BY <1>3, <2>1, ReaperGoesOn, RequeuePlaces, ReaperEnqueues DEF WatcherStep
<1>4. CASE Failure
  BY <1>4, RequestGoesOn, MarkRunningPlaces, ReaperGoesOn DEF Failure
<1>5. QED
  BY <1>1, <1>2, <1>3, <1>4 DEF Next, ReliableNext

\* No submission has a job before its first CompleteUpload.
LEMMA PlaceInit == Init => PlaceInv
BY SubmissionsAssumption
   DEF Init, PlaceInv, OnePlace, SingleEntry, Nowhere, InStream, Carriers,
       ReaperCarries, Idle, CarryPC, WatchIdle, Terminal

\* When a client completes each upload once and nobody polls jobs/next, no
\* failure, crash or interleaving makes two jobs of one submission, nor leaves
\* a job behind for a row that is running or finished.
THEOREM OneJobOnePlace ==
  ASSUME MaxUploads <= 1, UseNextJob = FALSE
  PROVE  Spec => []JobInOnePlace
<1>1. Init => PlaceInv
  BY PlaceInit
<1>2. TypeOK /\ PlaceInv /\ [Next]_vars => PlaceInv'
  BY PlaceStep
<1>3. PlaceInv => JobInOnePlace
  BY PlaceInvImplies
<1>4. QED
  BY <1>1, <1>2, <1>3, TypeCorrect, PTL DEF Spec

\* Under the same two conditions no step takes a finished submission back: the
\* unconditional MarkSubmissionRunning and MarkSubmissionQueued never meet one.
THEOREM FinishedStaysFinished ==
  ASSUME MaxUploads <= 1, UseNextJob = FALSE
  PROVE  Spec => TerminalStays
<1>1. Init => PlaceInv
  BY PlaceInit
<1>2. TypeOK /\ PlaceInv /\ [Next]_vars => PlaceInv'
  BY PlaceStep
<1> DEFINE Stays == \A s \in Submissions :
                      status[s] \in Terminal => status'[s] = status[s]
<1>3. TypeOK /\ PlaceInv /\ [Next]_vars => [Stays]_vars
  <2> SUFFICES ASSUME TypeOK, PlaceInv, [Next]_vars, NEW s \in Submissions,
                      status[s] \in Terminal
               PROVE  status'[s] = status[s]
    OBVIOUS
  <2> USE DEF TypeOK, TablesOK
  <2>1. Carriers(s) = {} /\ uploads[s] # 0
    BY DEF PlaceInv, OnePlace, Nowhere, Terminal
  <2>2. ASSUME NEW h \in Handlers, NEW q \in Submissions, CompleteUpload(h, q)
        PROVE  q # s
    BY <2>1, <2>2, BoundsAssumption DEF CompleteUpload
  <2>3. ASSUME NEW h \in Handlers,
               MarkRunning(h) \/ ResponseLost(h) \/ MarkResult(h)
        PROVE  req[h].sub # s
    BY <2>1, <2>3 DEF MarkRunning, ResponseLost, MarkResult, MayCommit,
                      Carriers, CarryPC, Terminal
  <2>4. CASE WatcherStep
    BY <2>4 DEF WatcherStep, DeleteStaleClaims, RequeueStale, DiscardStale,
         EnqueueStale, RequeueOrphans, Orphans, EnqueueOrphan, TickEnds,
         Terminal
  <2>5. ASSUME NEW h \in Handlers, HandlerStep(h) PROVE status'[s] = status[s]
    BY <2>2, <2>3, <2>5 DEF HandlerStep, NewRequest, CompleteUpload, ClaimNext,
         NextJob, StartPoll, SubmitResult, Enqueue, PollStep, CountKinds,
         ClaimMessage, NoCompatibleJobs, Dequeue, CheckKind, CreateClaim,
         ClaimConflict, MarkRunning, ResultStep, MarkResult, StaleResult,
         EmitResult, DeleteClaim
  <2>6. CASE AgentStep \/ TimePasses \/ AdminStep \/ UNCHANGED vars
    BY <2>6 DEF AgentStep, TimePasses, AdminStep, JobHeartbeat, DropJob,
         LeaseLapses, ClaimOverdue, AdminApprove, AdminReject, AdminDelete,
         SetWorkerStatus, vars
  <2>7. CASE Failure
    BY <2>3, <2>7 DEF Failure, Abort, DispatchFails, MarkRunningFails,
         ResponseLost, EmitFails, RequeueFails, WatcherCrash
  <2>8. QED
    BY <2>4, <2>5, <2>6, <2>7 DEF Next, ReliableNext
<1>4. QED
  BY <1>1, <1>2, <1>3, TypeCorrect, PTL DEF Spec, TerminalStays
-----------------------------------------------------------------------------
(* Capacity, when a worker has one poll in flight at a time.               *)

\* From its start to the insert of the claim a poll has found room for one
\* claim more; at the scan it knows the kinds there is room for, and at the
\* insert there is room for the kind of its job.
RoomPC == {"count_kinds", "scan", "dequeue", "check_kind", "create_claim"}
HasRoom(r) ==
  /\ r.pc \in RoomPC =>
       Cardinality(ClaimsOf(r.worker)) < ProfileOf[r.worker].maxWorkers
  /\ r.pc = "scan" => \A k \in r.kinds : Accepts(r.worker, k)
  /\ r.pc = "create_claim" => Accepts(r.worker, IsFinal(r.sub))

OnePollEach == \A w \in Workers : \A g, h \in PollsOf(w) : g = h

\* The inductive invariant.
CapacityInv ==
  /\ OnePollEach
  /\ \A h \in Handlers : HasRoom(req[h])
  /\ CapacityRespected

\* Claims of a worker can be counted.
LEMMA ClaimsCounted ==
  ASSUME NEW w \in Workers, NEW S \in SUBSET Submissions
  PROVE  /\ IsFiniteSet(S)
         /\ Cardinality(S) \in Nat
         /\ \A T \in SUBSET S : Cardinality(T) <= Cardinality(S)
         /\ Cardinality(S) = 0 <=> S = {}
<1>1. IsFiniteSet(S)
  BY SubmissionsAssumption, FS_Subset
<1>2. QED
  BY <1>1, FS_CardinalityType, FS_Subset, FS_EmptySet

\* Room for a kind of job stays room when claims end, and so does the limit.
LEMMA FewerClaims ==
  ASSUME NEW w \in Workers, ClaimsOf(w)' \subseteq ClaimsOf(w)
  PROVE  /\ Cardinality(ClaimsOf(w)') <= Cardinality(ClaimsOf(w))
         /\ OutputClaims(w)' <= OutputClaims(w)
         /\ InferenceClaims(w)' <= InferenceClaims(w)
         /\ Cardinality(ClaimsOf(w)) \in Nat /\ Cardinality(ClaimsOf(w)') \in Nat
         /\ OutputClaims(w) \in Nat /\ OutputClaims(w)' \in Nat
         /\ InferenceClaims(w) \in Nat /\ InferenceClaims(w)' \in Nat
<1> DEFINE A == ClaimsOf(w)
           B == ClaimsOf(w)'
<1>1. A \in SUBSET Submissions /\ B \in SUBSET Submissions /\ B \subseteq A
  BY DEF ClaimsOf
<1>2. /\ OutputClaims(w) = Cardinality(A \ FinalSubs)
      /\ OutputClaims(w)' = Cardinality(B \ FinalSubs)
      /\ InferenceClaims(w) = Cardinality(A \cap FinalSubs)
      /\ InferenceClaims(w)' = Cardinality(B \cap FinalSubs)
  BY DEF OutputClaims, InferenceClaims
<1> HIDE DEF A, B
<1>3. Cardinality(B) <= Cardinality(A) /\ Cardinality(A) \in Nat /\ Cardinality(B) \in Nat
  BY <1>1, ClaimsCounted
<1>4. /\ Cardinality(B \ FinalSubs) <= Cardinality(A \ FinalSubs)
      /\ Cardinality(A \ FinalSubs) \in Nat /\ Cardinality(B \ FinalSubs) \in Nat
  <2>1. /\ B \ FinalSubs \subseteq A \ FinalSubs
        /\ A \ FinalSubs \in SUBSET Submissions /\ B \ FinalSubs \in SUBSET Submissions
    BY <1>1
  <2>2. QED
    BY <2>1, ClaimsCounted
<1>5. /\ Cardinality(B \cap FinalSubs) <= Cardinality(A \cap FinalSubs)
      /\ Cardinality(A \cap FinalSubs) \in Nat /\ Cardinality(B \cap FinalSubs) \in Nat
  <2>1. /\ B \cap FinalSubs \subseteq A \cap FinalSubs
        /\ A \cap FinalSubs \in SUBSET Submissions
        /\ B \cap FinalSubs \in SUBSET Submissions
    BY <1>1
  <2>2. QED
    BY <2>1, ClaimsCounted
<1>6. QED
  BY <1>2, <1>3, <1>4, <1>5 DEF A, B

\* The conjuncts of CapacityRespected for one worker.
WithinLimits(w) ==
  /\ Cardinality(ClaimsOf(w)) <= ProfileOf[w].maxWorkers
  /\ OutputClaims(w) <= ProfileOf[w].outputSlots
  /\ InferenceClaims(w) <= ProfileOf[w].inferenceSlots
  /\ ProfileOf[w].exclusive => OutputClaims(w) = 0 \/ InferenceClaims(w) = 0

\* What a worker may hold is a statement about each worker.
LEMMA CapacityByWorker ==
  CapacityRespected <=> \A w \in Workers : WithinLimits(w)
BY DEF CapacityRespected, WithinLimits

\* The fields that CanAcceptJob compares are numbers.
LEMMA ProfileTyped ==
  ASSUME NEW w \in Workers
  PROVE  /\ ProfileOf[w].maxWorkers \in Nat
         /\ ProfileOf[w].outputSlots \in Nat
         /\ ProfileOf[w].inferenceSlots \in Nat
         /\ ProfileOf[w].exclusive \in BOOLEAN
<1>1. ProfileOf[w] \in Profile
  BY WorkersAssumption
<1>2. QED
  BY <1>1 DEF Profile

\* Ending claims breaks neither the limits nor what a poll has found.
LEMMA RoomStays ==
  ASSUME NEW w \in Workers, ClaimsOf(w)' \subseteq ClaimsOf(w)
  PROVE  /\ WithinLimits(w) => WithinLimits(w)'
         /\ Cardinality(ClaimsOf(w)) < ProfileOf[w].maxWorkers
              => Cardinality(ClaimsOf(w)') < ProfileOf[w].maxWorkers
         /\ \A k : Accepts(w, k) => Accepts(w, k)'
<1>1. /\ Cardinality(ClaimsOf(w)') <= Cardinality(ClaimsOf(w))
      /\ OutputClaims(w)' <= OutputClaims(w)
      /\ InferenceClaims(w)' <= InferenceClaims(w)
      /\ Cardinality(ClaimsOf(w)) \in Nat /\ Cardinality(ClaimsOf(w)') \in Nat
      /\ OutputClaims(w) \in Nat /\ OutputClaims(w)' \in Nat
      /\ InferenceClaims(w) \in Nat /\ InferenceClaims(w)' \in Nat
  BY FewerClaims
<1>2. QED
  BY <1>1, ProfileTyped DEF WithinLimits, Accepts, CanAcceptJob

\* Claims are made by CreateClaim only.
LEMMA ClaimsMade ==
  ASSUME TypeOK, [Next]_vars
  PROVE  \/ \E h \in Handlers : CreateClaim(h)
         \/ \A w \in Workers : ClaimsOf(w)' \subseteq ClaimsOf(w)
<1>1. CASE KeptOrEnded
  BY <1>1, SubmissionsAssumption DEF KeptOrEnded, ClaimsOf, NoClaim
<1>2. ASSUME NEW s \in Submissions, Granted(s)
      PROVE  \E h \in Handlers : CreateClaim(h)
  <2>1. nextAttempt' # nextAttempt
    BY <1>2 DEF Granted, TypeOK, TablesOK
  <2>2. QED
    BY <2>1, Footprints DEF Footprint, DeleteClaim, JobHeartbeat, LeaseLapses,
         ClaimOverdue, AdminDelete, DeleteStaleClaims
<1>3. QED
  BY <1>1, <1>2, ClaimStep

\* The steps of a request that lead to a statement before the insert; every
\* other step leaves it as it is, or beyond that point.
LEMMA PollFootprint ==
  ASSUME TypeOK, [Next]_vars, NEW h \in Handlers
  PROVE  \/ UNCHANGED req[h]
         \/ \E w \in Workers, pc \in {"count_kinds", "dequeue"} :
              StartPoll(h, w, pc)
         \/ CountKinds(h) \/ ClaimMessage(h) \/ Dequeue(h) \/ CheckKind(h)
         \/ /\ req'[h].pc \notin RoomPC
            /\ \/ req'[h].worker = None \/ req'[h].pc \in ResultPC
               \/ req'[h].worker = req[h].worker /\ req[h].pc \notin ResultPC
<1> DEFINE Goal ==
      \/ UNCHANGED req[h]
      \/ \E w \in Workers, pc \in {"count_kinds", "dequeue"} :
           StartPoll(h, w, pc)
      \/ CountKinds(h) \/ ClaimMessage(h) \/ Dequeue(h) \/ CheckKind(h)
      \/ /\ req'[h].pc \notin RoomPC
         /\ \/ req'[h].worker = None \/ req'[h].pc \in ResultPC
            \/ req'[h].worker = req[h].worker /\ req[h].pc \notin ResultPC
<1> USE DEF TypeOK, RequestsOK, RoomPC, ResultPC, Reply, Goto, Idle
<1>1. CASE UNCHANGED req
  BY <1>1
<1>2. ASSUME NEW g \in Handlers, NEW s \in Submissions, CompleteUpload(g, s)
      PROVE  Goal
  BY <1>2 DEF CompleteUpload
<1>3. ASSUME NEW g \in Handlers, NEW w \in Workers, ClaimNext(g, w) \/ NextJob(g, w)
      PROVE  Goal
  <2>1. PICK pc \in {"count_kinds", "dequeue"} : StartPoll(g, w, pc)
    BY <1>3 DEF ClaimNext, NextJob
  <2>2. g # h => UNCHANGED req[h]
    BY <2>1 DEF StartPoll
  <2>3. QED
    BY <2>1, <2>2
<1>4. ASSUME NEW g \in Handlers, NEW j \in jobs, SubmitResult(g, j) PROVE Goal
  BY <1>4 DEF SubmitResult
<1>5. ASSUME NEW g \in Handlers,
             \/ CountKinds(g) \/ ClaimMessage(g) \/ Dequeue(g) \/ CheckKind(g)
      PROVE  Goal
  <2>1. g # h => UNCHANGED req[h]
    BY <1>5 DEF CountKinds, ClaimMessage, Dequeue, CheckKind
  <2>2. QED
    BY <1>5, <2>1
<1>6. ASSUME NEW g \in Handlers,
             \/ Enqueue(g) \/ NoCompatibleJobs(g) \/ MarkRunning(g)
             \/ Abort(g) \/ MarkRunningFails(g) \/ ResponseLost(g)
             \/ StaleResult(g) \/ DeleteClaim(g)
      PROVE  Goal
  BY <1>6 DEF Enqueue, NoCompatibleJobs, MarkRunning, Abort, MarkRunningFails,
              ResponseLost, StaleResult, DeleteClaim
<1>7. ASSUME NEW g \in Handlers, CreateClaim(g) \/ ClaimConflict(g) \/ DispatchFails(g)
      PROVE  Goal
  BY <1>7 DEF CreateClaim, ClaimConflict, DispatchFails, Request
<1>8. ASSUME NEW g \in Handlers, MarkResult(g) \/ EmitResult(g) \/ EmitFails(g)
      PROVE  Goal
  BY <1>8 DEF MarkResult, EmitResult, EmitFails, Request
<1>9. CASE AgentStep \/ TimePasses \/ AdminStep \/ UNCHANGED vars
  BY <1>1, <1>9 DEF AgentStep, TimePasses, AdminStep, JobHeartbeat, DropJob,
       LeaseLapses, ClaimOverdue, AdminApprove, AdminReject, AdminDelete,
       SetWorkerStatus, vars
<1>10. CASE WatcherStep \/ RequeueFails \/ WatcherCrash
  BY <1>1, <1>10 DEF WatcherStep, DeleteStaleClaims, RequeueStale,
       DiscardStale, EnqueueStale, RequeueOrphans, EnqueueOrphan, TickEnds,
       RequeueFails, WatcherCrash
<1>11. ASSUME NEW g \in Handlers, HandlerStep(g) PROVE Goal
  BY <1>2, <1>3, <1>4, <1>5, <1>6, <1>7, <1>8, <1>11
  DEF HandlerStep, NewRequest, PollStep, ResultStep
<1>12. CASE Failure
  BY <1>6, <1>7, <1>8, <1>10, <1>12 DEF Failure
<1>13. QED
  BY <1>9, <1>10, <1>11, <1>12 DEF Next, ReliableNext

\* A worker starts a poll only when it has none in flight.
LEMMA PollsStaySingle ==
  ASSUME TypeOK, [Next]_vars, PollsPerWorker <= 1, OnePollEach
  PROVE  OnePollEach'
<1>1. ASSUME NEW w \in Workers, NEW h \in PollsOf(w)'
      PROVE  \/ h \in PollsOf(w)
             \/ /\ PollsOf(w) = {}
                /\ \A g \in Handlers \ {h} : req'[g] = req[g]
  <2> USE DEF PollsOf
  <2>1. CASE UNCHANGED req[h]
    BY <2>1
  <2>2. ASSUME NEW v \in Workers, NEW pc \in {"count_kinds", "dequeue"},
               StartPoll(h, v, pc)
        PROVE  /\ PollsOf(w) = {}
               /\ \A g \in Handlers \ {h} : req'[g] = req[g]
    <3>1. v = w
      BY <1>1, <2>2 DEF StartPoll, Idle, TypeOK, RequestsOK
    <3>2. IsFiniteSet(PollsOf(w))
      BY HandlersAssumption, FS_Subset
    <3>3. Cardinality(PollsOf(w)) = 0
      BY <2>2, <3>1, <3>2, BoundsAssumption, FS_CardinalityType DEF StartPoll
    <3>4. PollsOf(w) = {}
      BY <3>2, <3>3, FS_EmptySet
    <3>5. QED
      BY <2>2, <3>4 DEF StartPoll
  <2>3. CASE CountKinds(h) \/ CheckKind(h)
    BY <1>1, <2>3 DEF CountKinds, CheckKind, Goto, ResultPC, TypeOK,
                      RequestsOK, Request
  <2>4. CASE ClaimMessage(h)
    BY <1>1, <2>4 DEF ClaimMessage, ResultPC, TypeOK, RequestsOK, Request
  <2>5. CASE Dequeue(h)
    BY <1>1, <2>5, SubmissionsAssumption
    DEF Dequeue, Reply, Idle, ResultPC, TypeOK, RequestsOK, Request
  <2>6. CASE \/ req'[h].worker = None \/ req'[h].pc \in ResultPC
             \/ req'[h].worker = req[h].worker /\ req[h].pc \notin ResultPC
    BY <1>1, <2>6, SubmissionsAssumption
  <2>7. QED
    BY <1>1, <2>1, <2>2, <2>3, <2>4, <2>5, <2>6, PollFootprint
<1>2. ASSUME NEW w \in Workers, NEW g \in PollsOf(w)', NEW h \in PollsOf(w)',
             g # h
      PROVE  FALSE
  <2>1. CASE g \in PollsOf(w) /\ h \in PollsOf(w)
    BY <1>2, <2>1 DEF OnePollEach
  <2>2. CASE PollsOf(w) = {} /\ \A k \in Handlers \ {h} : req'[k] = req[k]
    BY <1>2, <2>2 DEF PollsOf
  <2>3. CASE PollsOf(w) = {} /\ \A k \in Handlers \ {g} : req'[k] = req[k]
    BY <1>2, <2>3 DEF PollsOf
  <2>4. QED
    BY <1>1, <1>2, <2>1, <2>2, <2>3
<1>3. QED
  BY <1>2 DEF OnePollEach

\* What a request knows after its step is true of the claims before the step.
LEMMA RoomFound ==
  ASSUME TypeOK, [Next]_vars, NEW h \in Handlers, HasRoom(req[h])
  PROVE  HasRoom(req'[h])
<1> USE DEF HasRoom, RoomPC
<1>1. CASE UNCHANGED req[h]
  BY <1>1
<1>2. ASSUME NEW w \in Workers, NEW pc \in {"count_kinds", "dequeue"},
             StartPoll(h, w, pc)
      PROVE  HasRoom(req'[h])
  <2>1. req'[h].pc = pc /\ req'[h].worker = w
    BY <1>2 DEF StartPoll, Idle, TypeOK, RequestsOK
  <2>2. Cardinality(ClaimsOf(w)) < ProfileOf[w].maxWorkers
    BY <1>2 DEF StartPoll
  <2>3. QED
    BY <2>1, <2>2
<1>3. CASE CountKinds(h)
  <2>1. /\ req'[h].pc = "scan" /\ req'[h].worker = req[h].worker
        /\ req'[h].kinds = {k \in BOOLEAN : Accepts(req[h].worker, k)}
        /\ req[h].pc = "count_kinds"
    BY <1>3 DEF CountKinds, TypeOK, RequestsOK, Request
  <2>2. QED
    BY <2>1
<1>4. CASE ClaimMessage(h)
  <2>1. PICK i \in DOMAIN stream :
          /\ IsFinal(stream[i].sub) \in req[h].kinds
          /\ req' = [req EXCEPT ![h].pc = "create_claim",
                                ![h].sub = stream[i].sub, ![h].kinds = {}]
    BY <1>4 DEF ClaimMessage, Compatible
  <2>2. /\ req'[h].pc = "create_claim" /\ req'[h].worker = req[h].worker
        /\ req'[h].sub = stream[i].sub /\ req[h].pc = "scan"
    BY <1>4, <2>1 DEF ClaimMessage, TypeOK, RequestsOK, Request
  <2>3. QED
    BY <2>1, <2>2
<1>5. CASE Dequeue(h)
  <2>1. \/ req'[h].pc = "idle"
        \/ /\ req'[h].pc = "check_kind" /\ req'[h].worker = req[h].worker
           /\ req[h].pc = "dequeue"
    BY <1>5 DEF Dequeue, Reply, Idle, TypeOK, RequestsOK, Request
  <2>2. QED
    BY <2>1
<1>6. CASE CheckKind(h)
  <2>1. /\ req[h].pc = "check_kind"
        /\ req'[h].worker = req[h].worker /\ req'[h].sub = req[h].sub
        /\ req'[h].pc = IF Accepts(req[h].worker, IsFinal(req[h].sub))
                        THEN "create_claim" ELSE "enqueue"
    BY <1>6 DEF CheckKind, Goto, TypeOK, RequestsOK, Request
  <2>2. QED
    BY <2>1
<1>7. CASE req'[h].pc \notin RoomPC
  BY <1>7
<1>8. QED
  BY <1>1, <1>2, <1>3, <1>4, <1>5, <1>6, <1>7, PollFootprint

\* A request whose worker gains no claim still has the room it has found.
LEMMA RoomKept ==
  ASSUME TypeOK', NEW h \in Handlers, HasRoom(req'[h]),
         \A w \in Workers : req'[h].pc \in RoomPC /\ w = req'[h].worker =>
           ClaimsOf(w)' \subseteq ClaimsOf(w)
  PROVE  HasRoom(req[h])'
<1>1. CASE req'[h].pc \in RoomPC
  <2>1. req'[h].worker \in Workers
    BY <1>1 DEF TypeOK, RequestsOK, RequestOK, RoomPC, PollPC
  <2>2. PICK w \in Workers : w = req'[h].worker
    BY <2>1
  <2>3. ClaimsOf(w)' \subseteq ClaimsOf(w)
    BY <1>1, <2>2
  <2>4. /\ Cardinality(ClaimsOf(w)) < ProfileOf[w].maxWorkers
             => Cardinality(ClaimsOf(w)') < ProfileOf[w].maxWorkers
        /\ \A k : Accepts(w, k) => Accepts(w, k)'
    BY <2>3, RoomStays
  <2>5. /\ Cardinality(ClaimsOf(w)) < ProfileOf[w].maxWorkers
        /\ req'[h].pc = "scan" => \A k \in req'[h].kinds : Accepts(w, k)
        /\ req'[h].pc = "create_claim" => Accepts(w, IsFinal(req'[h].sub))
    BY <1>1, <2>2 DEF HasRoom
  <2>6. /\ Cardinality(ClaimsOf(w)') < ProfileOf[w].maxWorkers
        /\ req'[h].pc = "scan" => \A k \in req'[h].kinds : Accepts(w, k)'
        /\ req'[h].pc = "create_claim" =>
             \A k : k = IsFinal(req'[h].sub) => Accepts(w, k)'
    BY <2>4, <2>5
  <2>7. QED
    BY <2>2, <2>6 DEF HasRoom, IsFinal, Accepts, OutputClaims, InferenceClaims,
                      ClaimsOf
<1>2. CASE req'[h].pc \notin RoomPC
  BY <1>2 DEF HasRoom, RoomPC
<1>3. QED
  BY <1>1, <1>2

\* The claim that a poll with room creates keeps its worker within limits.
LEMMA ClaimFits ==
  ASSUME TypeOK, NEW h \in Handlers, CreateClaim(h), HasRoom(req[h]),
         NEW w \in Workers, w = req[h].worker, WithinLimits(w)
  PROVE  /\ \A v \in Workers \ {w} : ClaimsOf(v)' = ClaimsOf(v)
         /\ WithinLimits(w)'
<1>1. req[h].pc = "create_claim" /\ req[h].sub \in Submissions
  BY DEF CreateClaim, TypeOK, RequestsOK, RequestOK, CarryPC
<1>2. PICK s \in Submissions : s = req[h].sub
  BY <1>1
<1>3. /\ claim[s] = NoClaim
      /\ \A q \in Submissions : claim'[q].worker = IF q = s THEN w ELSE claim[q].worker
  BY <1>2 DEF CreateClaim, Claimed, TypeOK, TablesOK
<1>4. \A v \in Workers \ {w} : ClaimsOf(v)' = ClaimsOf(v)
  BY <1>3, SubmissionsAssumption DEF ClaimsOf, NoClaim
<1>5. ClaimsOf(w)' = ClaimsOf(w) \cup {s} /\ s \notin ClaimsOf(w)
  BY <1>3, SubmissionsAssumption DEF ClaimsOf, NoClaim
<1> DEFINE A == ClaimsOf(w)
           B == ClaimsOf(w)'
<1>6. A \in SUBSET Submissions
  BY DEF ClaimsOf
<1>7. /\ Cardinality(A) < ProfileOf[w].maxWorkers
      /\ Accepts(w, s \in FinalSubs)
  BY <1>1, <1>2 DEF HasRoom, RoomPC, IsFinal
<1>8. /\ OutputClaims(w) = Cardinality(A \ FinalSubs)
      /\ OutputClaims(w)' = Cardinality(B \ FinalSubs)
      /\ InferenceClaims(w) = Cardinality(A \cap FinalSubs)
      /\ InferenceClaims(w)' = Cardinality(B \cap FinalSubs)
  BY DEF OutputClaims, InferenceClaims
<1>9. B = A \cup {s} /\ s \notin A
  BY <1>5
<1>10. /\ OutputClaims(w) <= ProfileOf[w].outputSlots
       /\ InferenceClaims(w) <= ProfileOf[w].inferenceSlots
  BY DEF WithinLimits
<1> DEFINE Fits(all, output, inference) ==
      /\ all <= ProfileOf[w].maxWorkers
      /\ output <= ProfileOf[w].outputSlots
      /\ inference <= ProfileOf[w].inferenceSlots
      /\ ProfileOf[w].exclusive => output = 0 \/ inference = 0
<1> HIDE DEF A, B, Fits
<1>11. /\ Cardinality(A) \in Nat /\ Cardinality(B) = Cardinality(A) + 1
       /\ Cardinality(A \ FinalSubs) \in Nat /\ Cardinality(A \cap FinalSubs) \in Nat
  <2>1. /\ A \ FinalSubs \in SUBSET Submissions
        /\ A \cap FinalSubs \in SUBSET Submissions
    BY <1>6
  <2>2. QED
    BY <1>6, <1>9, <2>1, ClaimsCounted, FS_AddElement
<1>12. ASSUME s \in FinalSubs
       PROVE  Fits(Cardinality(B), OutputClaims(w)', InferenceClaims(w)')
  <2>1. /\ B \ FinalSubs = A \ FinalSubs
        /\ B \cap FinalSubs = (A \cap FinalSubs) \cup {s}
        /\ s \notin A \cap FinalSubs /\ A \cap FinalSubs \in SUBSET Submissions
    BY <1>6, <1>9, <1>12
  <2>2. /\ Cardinality(B \cap FinalSubs) = Cardinality(A \cap FinalSubs) + 1
        /\ Cardinality(B \ FinalSubs) = Cardinality(A \ FinalSubs)
    BY <2>1, ClaimsCounted, FS_AddElement
  <2>3. /\ InferenceClaims(w) < ProfileOf[w].inferenceSlots
        /\ ProfileOf[w].exclusive => OutputClaims(w) <= 0
    BY <1>7, <1>12 DEF Accepts, CanAcceptJob
  <2>4. QED
    BY <1>7, <1>8, <1>10, <1>11, <2>2, <2>3, ProfileTyped DEF Fits
<1>13. ASSUME s \notin FinalSubs
       PROVE  Fits(Cardinality(B), OutputClaims(w)', InferenceClaims(w)')
  <2>1. /\ B \cap FinalSubs = A \cap FinalSubs
        /\ B \ FinalSubs = (A \ FinalSubs) \cup {s}
        /\ s \notin A \ FinalSubs /\ A \ FinalSubs \in SUBSET Submissions
    BY <1>6, <1>9, <1>13
  <2>2. /\ Cardinality(B \ FinalSubs) = Cardinality(A \ FinalSubs) + 1
        /\ Cardinality(B \cap FinalSubs) = Cardinality(A \cap FinalSubs)
    BY <2>1, ClaimsCounted, FS_AddElement
  <2>3. /\ OutputClaims(w) < ProfileOf[w].outputSlots
        /\ ProfileOf[w].exclusive => InferenceClaims(w) <= 0
    BY <1>7, <1>13 DEF Accepts, CanAcceptJob
  <2>4. QED
    BY <1>7, <1>8, <1>10, <1>11, <2>2, <2>3, ProfileTyped DEF Fits
<1>14. Fits(Cardinality(B), OutputClaims(w)', InferenceClaims(w)')
  BY <1>12, <1>13
<1>15. WithinLimits(w)'
  BY <1>14 DEF WithinLimits, Fits, B
<1>16. QED
  BY <1>4, <1>15

\* CapacityInv is inductive.
LEMMA CapacityStep ==
  ASSUME PollsPerWorker <= 1
  PROVE  TypeOK /\ TypeOK' /\ CapacityInv /\ [Next]_vars => CapacityInv'
<1> SUFFICES ASSUME TypeOK, TypeOK', CapacityInv, [Next]_vars PROVE CapacityInv'
  OBVIOUS
<1>1. OnePollEach'
  BY PollsStaySingle DEF CapacityInv
<1>2. CASE \A w \in Workers : ClaimsOf(w)' \subseteq ClaimsOf(w)
  <2>1. ASSUME NEW h \in Handlers PROVE HasRoom(req[h])'
    <3>1. HasRoom(req'[h])
      BY RoomFound DEF CapacityInv
    <3>2. QED
      BY <1>2, <3>1, RoomKept
  <2>2. CapacityRespected'
    BY <1>2, RoomStays, CapacityByWorker DEF CapacityInv, CapacityRespected, WithinLimits
  <2>3. QED
    BY <1>1, <2>1, <2>2 DEF CapacityInv
<1>3. ASSUME NEW g \in Handlers, CreateClaim(g) PROVE CapacityInv'
  <2>1. PICK w \in Workers : w = req[g].worker
    BY <1>3 DEF CreateClaim, TypeOK, RequestsOK, RequestOK, PollPC
  <2>2. WithinLimits(w) /\ HasRoom(req[g])
    BY CapacityByWorker DEF CapacityInv
  <2>3. /\ \A v \in Workers \ {w} : ClaimsOf(v)' = ClaimsOf(v)
        /\ WithinLimits(w)'
    BY <1>3, <2>1, <2>2, ClaimFits
  <2>4. ASSUME NEW v \in Workers PROVE WithinLimits(v)'
    <3>1. CASE v = w
      BY <2>3, <3>1
    <3>2. CASE v # w
      BY <2>3, <3>2, RoomStays, CapacityByWorker DEF CapacityInv
    <3>3. QED
      BY <3>1, <3>2
  <2>5. ASSUME NEW h \in Handlers PROVE HasRoom(req[h])'
    <3>1. HasRoom(req'[h])
      BY RoomFound DEF CapacityInv
    <3>2. req'[h].pc \in RoomPC => req'[h].worker \in Workers \ {w}
      <4>1. CASE h = g
        BY <1>3, <4>1 DEF CreateClaim, RoomPC, TypeOK, RequestsOK, Request
      <4>2. CASE h # g
        <5>1. req'[h] = req[h]
          BY <1>3, <4>2 DEF CreateClaim, TypeOK, RequestsOK
        <5>2. g \in PollsOf(w)
          BY <1>3, <2>1 DEF PollsOf, CreateClaim, ResultPC
        <5>3. req[h].pc \in RoomPC /\ req[h].worker = w => h \in PollsOf(w)
          BY DEF PollsOf, RoomPC, ResultPC
        <5>4. req[h].pc \in RoomPC => req[h].worker \in Workers
          BY DEF TypeOK, RequestsOK, RequestOK, RoomPC, PollPC
        <5>5. QED
          BY <4>2, <5>1, <5>2, <5>3, <5>4 DEF CapacityInv, OnePollEach
      <4>3. QED
        BY <4>1, <4>2
    <3>3. \A v \in Workers : req'[h].pc \in RoomPC /\ v = req'[h].worker =>
            ClaimsOf(v)' \subseteq ClaimsOf(v)
      BY <2>3, <3>2
    <3>4. QED
      BY <3>1, <3>3, RoomKept
  <2>6. CapacityRespected'
    BY <2>4 DEF CapacityRespected, WithinLimits
  <2>7. QED
    BY <1>1, <2>5, <2>6 DEF CapacityInv
<1>4. QED
  BY <1>2, <1>3, ClaimsMade

\* At first no worker has a claim or a poll.
LEMMA CapacityInit == Init => CapacityInv
<1> SUFFICES ASSUME Init PROVE CapacityInv
  OBVIOUS
<1>1. OnePollEach /\ \A h \in Handlers : HasRoom(req[h])
  BY SubmissionsAssumption
  DEF Init, Idle, OnePollEach, PollsOf, HasRoom, RoomPC
<1>2. ASSUME NEW w \in Workers PROVE WithinLimits(w)
  <2>1. ClaimsOf(w) = {}
    BY SubmissionsAssumption DEF Init, ClaimsOf, NoClaim
  <2>2. /\ Cardinality(ClaimsOf(w)) = 0 /\ OutputClaims(w) = 0
        /\ InferenceClaims(w) = 0
    BY <2>1, FS_EmptySet DEF OutputClaims, InferenceClaims
  <2>3. QED
    BY <2>2, ProfileTyped DEF WithinLimits
<1>3. QED
  BY <1>1, <1>2, CapacityByWorker DEF CapacityInv

\* A worker that sends one poll at a time never holds more claims than its
\* row and its slots allow, and an exclusive one never both kinds of job,
\* although each poll counts the claims in one statement and inserts in
\* another, and whatever fails in between.
THEOREM CapacityIsRespected ==
  ASSUME PollsPerWorker <= 1
  PROVE  Spec => []CapacityRespected
<1>1. Init => CapacityInv
  BY CapacityInit
<1>2. TypeOK /\ TypeOK' /\ CapacityInv /\ [Next]_vars => CapacityInv'
  BY CapacityStep
<1>3. CapacityInv => CapacityRespected
  BY DEF CapacityInv
<1>4. QED
  BY <1>1, <1>2, <1>3, TypeCorrect, PTL DEF Spec
-----------------------------------------------------------------------------
(* No loss, when nothing fails: whoever takes a job out of one place is   *)
(* the next to hold it.                                                    *)

\* Removing an entry takes only its own submission out of the stream.
LEMMA RemovedOne ==
  ASSUME stream \in Seq(Entry), NEW i \in DOMAIN stream,
         stream' = RemoveAt(stream, i), NEW s \in Submissions, InStream(s)
  PROVE  InStream(s)' \/ s = stream[i].sub
<1>1. PICK k \in DOMAIN stream : stream[k].sub = s
  BY DEF InStream
<1>2. i \in 1 .. Len(stream) /\ k \in 1 .. Len(stream) /\ Len(stream) \in Nat
  OBVIOUS
<1>3. /\ DOMAIN stream' = 1 .. Len(stream) - 1
      /\ \A n \in 1 .. Len(stream) - 1 :
           stream'[n] = IF n < i THEN stream[n] ELSE stream[n + 1]
  BY RemoveEntry
<1>4. CASE k < i
  <2>1. k \in DOMAIN stream' /\ stream'[k] = stream[k]
    BY <1>2, <1>3, <1>4
  <2>2. QED
    BY <1>1, <2>1 DEF InStream
<1>5. CASE k > i
  <2>1. k - 1 \in DOMAIN stream' /\ stream'[k - 1] = stream[k]
    BY <1>2, <1>3, <1>5
  <2>2. QED
    BY <1>1, <2>1 DEF InStream
<1>6. QED
  BY <1>1, <1>2, <1>4, <1>5

\* Who touches the stream.
LEMMA StreamFootprint ==
  ASSUME [ReliableNext]_vars
  PROVE  \/ \E h \in Handlers : ClaimMessage(h) \/ Dequeue(h) \/ Enqueue(h)
         \/ EnqueueStale \/ \E s \in Submissions : EnqueueOrphan(s)
         \/ UNCHANGED stream
<1> DEFINE Goal ==
      \/ \E h \in Handlers : ClaimMessage(h) \/ Dequeue(h) \/ Enqueue(h)
      \/ EnqueueStale \/ \E s \in Submissions : EnqueueOrphan(s)
      \/ UNCHANGED stream
<1>1. CASE UNCHANGED vars
  BY <1>1 DEF vars
<1>2. ASSUME NEW h \in Handlers, NewRequest(h) PROVE Goal
  BY <1>2 DEF NewRequest, CompleteUpload, ClaimNext, NextJob, StartPoll,
              SubmitResult
<1>3. ASSUME NEW h \in Handlers, PollStep(h) PROVE Goal
  BY <1>3 DEF PollStep, CountKinds, NoCompatibleJobs, CheckKind,
              ClaimConflict, MarkRunning, CreateClaim
<1>4. ASSUME NEW h \in Handlers, ResultStep(h) PROVE Goal
  BY <1>4 DEF ResultStep, MarkResult, StaleResult, EmitResult, DeleteClaim
<1>5. CASE AgentStep \/ TimePasses
  BY <1>5 DEF AgentStep, TimePasses, JobHeartbeat, DropJob, LeaseLapses,
              ClaimOverdue
<1>6. CASE WatcherStep
  BY <1>6 DEF WatcherStep, DeleteStaleClaims, RequeueStale, DiscardStale,
              RequeueOrphans, TickEnds
<1>7. CASE AdminStep
  BY <1>7 DEF AdminStep, AdminApprove, AdminReject, AdminDelete,
              SetWorkerStatus
<1>8. QED
  BY <1>1, <1>2, <1>3, <1>4, <1>5, <1>6, <1>7
  DEF ReliableNext, HandlerStep

\* EnqueueJudge puts a job into the stream and removes none.
LEMMA EnqueueKeeps ==
  ASSUME stream \in Seq(Entry), NEW q \in Submissions, EnqueueJudge(q)
  PROVE  /\ InStream(q)'
         /\ \A s \in Submissions : InStream(s) => InStream(s)'
<1>1. /\ DOMAIN stream' = 1 .. Len(stream) + 1
      /\ \A i \in DOMAIN stream : stream'[i] = stream[i]
      /\ stream'[Len(stream) + 1] = [sub |-> q, delivered |-> FALSE]
  BY Enqueued
<1>2. DOMAIN stream = 1 .. Len(stream) /\ Len(stream) \in Nat
  OBVIOUS
<1>3. DOMAIN stream \subseteq DOMAIN stream' /\ Len(stream) + 1 \in DOMAIN stream'
  BY <1>1, <1>2
<1>4. stream'[Len(stream) + 1].sub = q
  BY <1>1
<1>5. QED
  BY <1>1, <1>3, <1>4 DEF InStream

\* A job leaves the stream only into the hands of a request.
LEMMA StreamHandsOver ==
  ASSUME TypeOK, [ReliableNext]_vars, NEW s \in Submissions, InStream(s)
  PROVE  InStream(s)' \/ Carriers(s)' # {}
<1>1. stream \in Seq(Entry)
  BY DEF TypeOK, TablesOK
<1>2. ASSUME NEW h \in Handlers, ClaimMessage(h)
      PROVE  InStream(s)' \/ Carriers(s)' # {}
  <2>1. PICK i \in DOMAIN stream :
          /\ stream' = RemoveAt(stream, i)
          /\ req' = [req EXCEPT ![h].pc = "create_claim",
                                ![h].sub = stream[i].sub, ![h].kinds = {}]
    BY <1>2 DEF ClaimMessage, Compatible
  <2>2. req'[h].pc = "create_claim" /\ req'[h].sub = stream[i].sub
    BY <2>1 DEF TypeOK, RequestsOK, Request
  <2>3. stream[i].sub = s => h \in Carriers(s)'
    BY <2>2 DEF Carriers, CarryPC
  <2>4. QED
    BY <1>1, <2>1, <2>3, RemovedOne
<1>3. ASSUME NEW h \in Handlers, Dequeue(h)
      PROVE  InStream(s)'
  <2>1. CASE UNCHANGED stream
    BY <2>1 DEF InStream
  <2>2. ASSUME NEW i \in DOMAIN stream,
               stream' = [stream EXCEPT ![i].delivered = TRUE]
        PROVE  InStream(s)'
    <3>1. \A k \in DOMAIN stream : stream[k] \in Entry
      BY <1>1
    <3>2. \A k \in DOMAIN stream : stream'[k].sub = stream[k].sub
      BY <2>2, <3>1 DEF Entry
    <3>3. DOMAIN stream' = DOMAIN stream
      BY <2>2
    <3>4. QED
      BY <3>2, <3>3 DEF InStream
  <2>3. QED
    BY <1>3, <2>1, <2>2 DEF Dequeue
<1>4. ASSUME NEW q \in Submissions, EnqueueJudge(q)
      PROVE  InStream(s)'
  BY <1>1, <1>4, EnqueueKeeps
<1>5. ASSUME NEW h \in Handlers, Enqueue(h)
      PROVE  InStream(s)'
  BY <1>4, <1>5 DEF Enqueue, TypeOK, RequestsOK, RequestOK, CarryPC
<1>6. CASE EnqueueStale
  BY <1>4, <1>6 DEF EnqueueStale, TypeOK, TablesOK
<1>7. ASSUME NEW q \in Submissions, EnqueueOrphan(q)
      PROVE  InStream(s)'
  BY <1>4, <1>7 DEF EnqueueOrphan
<1>8. CASE UNCHANGED stream
  BY <1>8 DEF InStream
<1>9. QED
  BY <1>2, <1>3, <1>5, <1>6, <1>7, <1>8, StreamFootprint

\* Which statements move a request that carries a job.
LEMMA CarrierFootprint ==
  ASSUME TypeOK, [ReliableNext]_vars, NEW g \in Handlers, req[g].pc \in CarryPC
  PROVE  \/ Enqueue(g) \/ CheckKind(g) \/ CreateClaim(g) \/ ClaimConflict(g)
         \/ MarkRunning(g) \/ UNCHANGED req[g]
<1> DEFINE Goal ==
      \/ Enqueue(g) \/ CheckKind(g) \/ CreateClaim(g) \/ ClaimConflict(g)
      \/ MarkRunning(g) \/ UNCHANGED req[g]
<1> USE DEF TypeOK, RequestsOK, CarryPC
<1>1. CASE UNCHANGED vars
  BY <1>1 DEF vars
<1>2. ASSUME NEW h \in Handlers, NewRequest(h) PROVE Goal
  <2>1. req[h] = Idle => h # g
    BY DEF Idle
  <2>2. ASSUME NEW s \in Submissions, CompleteUpload(h, s) PROVE Goal
    BY <2>1, <2>2 DEF CompleteUpload
  <2>3. ASSUME NEW w \in Workers, NEW pc, StartPoll(h, w, pc) PROVE Goal
    BY <2>1, <2>3 DEF StartPoll
  <2>4. ASSUME NEW j \in jobs, SubmitResult(h, j) PROVE Goal
    BY <2>1, <2>4 DEF SubmitResult
  <2>5. QED
    BY <1>2, <2>2, <2>3, <2>4 DEF NewRequest, ClaimNext, NextJob
<1>3. ASSUME NEW h \in Handlers, PollStep(h) \/ Enqueue(h) PROVE Goal
  <2>1. CASE h = g
    BY <1>3, <2>1 DEF PollStep, CountKinds, ClaimMessage, NoCompatibleJobs,
                      Dequeue
  <2>2. CASE h # g
    BY <1>3, <2>2 DEF PollStep, CountKinds, ClaimMessage, NoCompatibleJobs,
         Dequeue, CheckKind, CreateClaim, ClaimConflict, MarkRunning, Enqueue,
         Reply, Goto
  <2>3. QED
    BY <2>1, <2>2
<1>4. ASSUME NEW h \in Handlers, ResultStep(h) PROVE Goal
  <2>1. h # g
    BY <1>4 DEF ResultStep, MarkResult, StaleResult, EmitResult, DeleteClaim
  <2>2. QED
    BY <1>4, <2>1 DEF ResultStep, MarkResult, StaleResult, EmitResult,
                      DeleteClaim, Reply, Goto
<1>5. CASE AgentStep \/ TimePasses
  BY <1>5 DEF AgentStep, TimePasses, JobHeartbeat, DropJob, LeaseLapses,
              ClaimOverdue
<1>6. CASE WatcherStep
  BY <1>6 DEF WatcherStep, DeleteStaleClaims, RequeueStale, DiscardStale,
              EnqueueStale, RequeueOrphans, EnqueueOrphan, TickEnds
<1>7. CASE AdminStep
  BY <1>7 DEF AdminStep, AdminApprove, AdminReject, AdminDelete,
              SetWorkerStatus
<1>8. QED
  BY <1>1, <1>2, <1>3, <1>4, <1>5, <1>6, <1>7
  DEF ReliableNext, HandlerStep

\* A request that carries a job keeps it, puts it into the stream, or has
\* marked it running.
LEMMA CarrierHandsOver ==
  ASSUME TypeOK, [ReliableNext]_vars, NEW s \in Submissions, Carriers(s) # {}
  PROVE  Carriers(s)' # {} \/ InStream(s)' \/ status'[s] = "running"
<1>1. PICK g \in Handlers : req[g].sub = s /\ req[g].pc \in CarryPC
  BY DEF Carriers
<1>2. CASE UNCHANGED req[g]
  BY <1>1, <1>2 DEF Carriers
<1>3. CASE Enqueue(g)
  BY <1>1, <1>3, EnqueueKeeps DEF Enqueue, TypeOK, TablesOK
<1>4. CASE CheckKind(g) \/ CreateClaim(g) \/ ClaimConflict(g)
  <2>1. req'[g].sub = s /\ req'[g].pc \in CarryPC
    BY <1>1, <1>4 DEF CheckKind, CreateClaim, ClaimConflict, Goto, CarryPC,
                      TypeOK, RequestsOK, Request
  <2>2. QED
    BY <2>1 DEF Carriers
<1>5. CASE MarkRunning(g)
  BY <1>1, <1>5 DEF MarkRunning, TypeOK, TablesOK
<1>6. QED
  BY <1>1, <1>2, <1>3, <1>4, <1>5, CarrierFootprint

\* The reaper keeps a submission it requeued until it is in the stream.
LEMMA ReaperHandsOver ==
  ASSUME TypeOK, [ReliableNext]_vars, NEW s \in Submissions, ReaperCarries(s)
  PROVE  ReaperCarries(s)' \/ InStream(s)'
<1> USE DEF ReaperCarries, TypeOK, TablesOK
<1>1. CASE UNCHANGED watch
  BY <1>1
<1>2. CASE EnqueueStale
  BY <1>2, EnqueueKeeps DEF EnqueueStale
<1>3. ASSUME NEW q \in Submissions, EnqueueOrphan(q)
      PROVE  ReaperCarries(s)' \/ InStream(s)'
  BY <1>3, EnqueueKeeps DEF EnqueueOrphan
<1>4. ASSUME NEW q \in Submissions, RequeueStale(q) \/ DiscardStale(q)
      PROVE  ReaperCarries(s)'
  BY <1>4, SubmissionsAssumption DEF RequeueStale, DiscardStale
<1>5. CASE DeleteStaleClaims \/ TickEnds
  BY <1>5, SubmissionsAssumption DEF DeleteStaleClaims, TickEnds
<1>6. ASSUME NEW old, RequeueOrphans(old) PROVE FALSE
  BY <1>6, SubmissionsAssumption DEF RequeueOrphans
<1>7. CASE \E h \in Handlers : HandlerStep(h)
  BY <1>1, <1>7 DEF HandlerStep, NewRequest, CompleteUpload, ClaimNext,
       NextJob, StartPoll, SubmitResult, Enqueue, PollStep, CountKinds,
       ClaimMessage, NoCompatibleJobs, Dequeue, CheckKind, CreateClaim,
       ClaimConflict, MarkRunning, ResultStep, MarkResult, StaleResult,
       EmitResult, DeleteClaim
<1>8. CASE AgentStep \/ TimePasses \/ AdminStep \/ UNCHANGED vars
  BY <1>1, <1>8 DEF AgentStep, TimePasses, AdminStep, JobHeartbeat, DropJob,
       LeaseLapses, ClaimOverdue, AdminApprove, AdminReject, AdminDelete,
       SetWorkerStatus, vars
<1>9. QED
  BY <1>2, <1>3, <1>4, <1>5, <1>6, <1>7, <1>8 DEF ReliableNext, WatcherStep

\* Whoever marks a submission queued is about to enqueue it.
LEMMA QueuedByCarrier ==
  ASSUME TypeOK, [ReliableNext]_vars, NEW s \in Submissions,
         status'[s] = "queued", status[s] # "queued"
  PROVE  Carriers(s)' # {} \/ ReaperCarries(s)'
<1> USE DEF TypeOK, TablesOK
<1>1. ASSUME NEW h \in Handlers, NEW q \in Submissions, CompleteUpload(h, q)
      PROVE  Carriers(s)' # {}
  <2>1. q = s
    BY <1>1 DEF CompleteUpload
  <2>2. req'[h].pc = "enqueue" /\ req'[h].sub = s
    BY <1>1, <2>1 DEF CompleteUpload, Idle, RequestsOK
  <2>3. QED
    BY <2>2 DEF Carriers, CarryPC
<1>2. ASSUME NEW q \in Submissions, RequeueStale(q)
      PROVE  ReaperCarries(s)'
  BY <1>2 DEF RequeueStale, ReaperCarries
<1>3. ASSUME NEW old, RequeueOrphans(old)
      PROVE  ReaperCarries(s)'
  BY <1>3 DEF RequeueOrphans, ReaperCarries
<1>4. ASSUME NEW h \in Handlers, MarkRunning(h) \/ MarkResult(h)
      PROVE  FALSE
  BY <1>4, VerdictsAssumption
  DEF MarkRunning, MarkResult, RequestsOK, RequestOK, ResultPC
<1>5. CASE UNCHANGED status
  BY <1>5
<1>6. CASE \E h \in Handlers : HandlerStep(h)
  BY <1>1, <1>4, <1>5, <1>6 DEF HandlerStep, NewRequest, ClaimNext,
       NextJob, StartPoll, SubmitResult, Enqueue, PollStep, CountKinds,
       ClaimMessage, NoCompatibleJobs, Dequeue, CheckKind, CreateClaim,
       ClaimConflict, ResultStep, StaleResult, EmitResult, DeleteClaim
<1>7. CASE WatcherStep
  BY <1>2, <1>3, <1>5, <1>7 DEF WatcherStep, DeleteStaleClaims, DiscardStale,
       EnqueueStale, EnqueueOrphan, TickEnds
<1>8. CASE AgentStep \/ TimePasses \/ AdminStep \/ UNCHANGED vars
  BY <1>5, <1>8 DEF AgentStep, TimePasses, AdminStep, JobHeartbeat, DropJob,
       LeaseLapses, ClaimOverdue, AdminApprove, AdminReject, AdminDelete,
       SetWorkerStatus, vars
<1>9. QED
  BY <1>6, <1>7, <1>8 DEF ReliableNext

\* While no statement fails and no process dies, a queued submission is never
\* lost, however uploads, polls, results, admin requests and the reaper
\* interleave.
THEOREM NothingLost == ReliableSpec => []NoLostJob
<1>1. Init => NoLostJob
  BY DEF Init, NoLostJob
<1>2. TypeOK /\ NoLostJob /\ [ReliableNext]_vars => NoLostJob'
  <2> SUFFICES ASSUME TypeOK, NoLostJob, [ReliableNext]_vars,
                      NEW s \in Submissions, status'[s] = "queued"
               PROVE  InStream(s)' \/ Carriers(s)' # {} \/ ReaperCarries(s)'
    BY DEF NoLostJob
  <2>1. CASE status[s] # "queued"
    BY <2>1, QueuedByCarrier
  <2>2. CASE InStream(s)
    BY <2>2, StreamHandsOver
  <2>3. CASE Carriers(s) # {}
    BY <2>3, CarrierHandsOver
  <2>4. CASE ReaperCarries(s)
    BY <2>4, ReaperHandsOver
  <2>5. QED
    BY <2>1, <2>2, <2>3, <2>4 DEF NoLostJob
<1>3. ReliableSpec => Spec
  BY PTL DEF ReliableSpec, Spec, Next
<1>4. QED
  BY <1>1, <1>2, <1>3, TypeCorrect, PTL DEF ReliableSpec
\* A request that is about to announce a result does nothing else.
LEMMA AnnouncerFootprint ==
  ASSUME TypeOK, [ReliableNext]_vars, NEW g \in Handlers,
         req[g].pc = "emit_result"
  PROVE  EmitResult(g) \/ UNCHANGED req[g]
<1> DEFINE Goal == EmitResult(g) \/ UNCHANGED req[g]
<1> USE DEF TypeOK, RequestsOK
<1>1. CASE UNCHANGED req
  BY <1>1
<1>2. ASSUME NEW h \in Handlers, NewRequest(h) PROVE Goal
  <2>1. req[h] = Idle => h # g
    BY DEF Idle
  <2>2. QED
    BY <1>2, <2>1 DEF NewRequest, CompleteUpload, ClaimNext, NextJob,
                      StartPoll, SubmitResult
<1>3. ASSUME NEW h \in Handlers, PollStep(h) \/ Enqueue(h) PROVE Goal
  BY <1>3 DEF PollStep, CountKinds, ClaimMessage, NoCompatibleJobs, Dequeue,
       CheckKind, CreateClaim, ClaimConflict, MarkRunning, Enqueue, Reply, Goto
<1>4. ASSUME NEW h \in Handlers, ResultStep(h) PROVE Goal
  BY <1>4 DEF ResultStep, MarkResult, StaleResult, EmitResult, DeleteClaim,
              Reply, Goto
<1>5. CASE AgentStep \/ TimePasses \/ AdminStep \/ UNCHANGED vars
  BY <1>1, <1>5 DEF AgentStep, TimePasses, AdminStep, JobHeartbeat, DropJob,
       LeaseLapses, ClaimOverdue, AdminApprove, AdminReject, AdminDelete,
       SetWorkerStatus, vars
<1>6. CASE WatcherStep
  BY <1>1, <1>6 DEF WatcherStep, DeleteStaleClaims, RequeueStale,
       DiscardStale, EnqueueStale, RequeueOrphans, EnqueueOrphan, TickEnds
<1>7. QED
  BY <1>2, <1>3, <1>4, <1>5, <1>6 DEF ReliableNext, HandlerStep

\* Only MarkResult puts a result into a row, and nothing leaves jobs:results.
LEMMA ResultFootprint ==
  ASSUME [ReliableNext]_vars
  PROVE  /\ (\E h \in Handlers : MarkResult(h)) \/ UNCHANGED resultBy
         /\ results \subseteq results'
<1> DEFINE Goal ==
      /\ (\E h \in Handlers : MarkResult(h)) \/ UNCHANGED resultBy
      /\ results \subseteq results'
<1>1. ASSUME NEW h \in Handlers, HandlerStep(h) PROVE Goal
  BY <1>1 DEF HandlerStep, NewRequest, CompleteUpload, ClaimNext,
       NextJob, StartPoll, SubmitResult, Enqueue, PollStep, CountKinds,
       ClaimMessage, NoCompatibleJobs, Dequeue, CheckKind, CreateClaim,
       ClaimConflict, MarkRunning, ResultStep, MarkResult, StaleResult,
       EmitResult, DeleteClaim
<1>2. CASE WatcherStep
  BY <1>2 DEF WatcherStep, DeleteStaleClaims, RequeueStale, DiscardStale,
       EnqueueStale, RequeueOrphans, EnqueueOrphan, TickEnds
<1>3. CASE AgentStep \/ TimePasses \/ AdminStep \/ UNCHANGED vars
  BY <1>3 DEF AgentStep, TimePasses, AdminStep, JobHeartbeat, DropJob,
       LeaseLapses, ClaimOverdue, AdminApprove, AdminReject, AdminDelete,
       SetWorkerStatus, vars
<1>4. QED
  BY <1>1, <1>2, <1>3 DEF ReliableNext

\* The result a row holds has been announced, or a request is about to.
Announced(s) ==
  \/ [sub |-> s, attempt |-> resultBy[s]] \in results
  \/ \E h \in Handlers : /\ req[h].pc = "emit_result" /\ req[h].sub = s
                         /\ req[h].attempt = resultBy[s]

\* A result that stays in its row stays announced.
LEMMA AnnouncedStays ==
  ASSUME TypeOK, [ReliableNext]_vars, NEW s \in Submissions,
         resultBy'[s] = resultBy[s], Announced(s)
  PROVE  Announced(s)'
<1>1. CASE [sub |-> s, attempt |-> resultBy[s]] \in results
  BY <1>1, ResultFootprint DEF Announced
<1>2. ASSUME NEW g \in Handlers, req[g].pc = "emit_result", req[g].sub = s,
             req[g].attempt = resultBy[s]
      PROVE  Announced(s)'
  <2>1. CASE UNCHANGED req[g]
    BY <1>2, <2>1 DEF Announced
  <2>2. CASE EmitResult(g)
    BY <1>2, <2>2 DEF Announced, EmitResult
  <2>3. QED
    BY <1>2, <2>1, <2>2, AnnouncerFootprint
<1>3. QED
  BY <1>1, <1>2 DEF Announced

\* While no statement fails and no process dies, no result is kept from the
\* leaderboard bridge: whatever a row holds is on jobs:results, or the request
\* that wrote it is about to put it there.
THEOREM CommittedResultsAnnounced == ReliableSpec => []CommittedIsAnnounced
<1>1. Init => CommittedIsAnnounced
  BY DEF Init, CommittedIsAnnounced
<1>2. TypeOK /\ CommittedIsAnnounced /\ [ReliableNext]_vars
        => CommittedIsAnnounced'
  <2> SUFFICES ASSUME TypeOK, CommittedIsAnnounced, [ReliableNext]_vars,
                      NEW s \in Submissions, resultBy'[s] # 0
               PROVE  Announced(s)'
    BY DEF CommittedIsAnnounced, Announced
  <2>1. CASE resultBy'[s] = resultBy[s]
    <3>1. Announced(s)
      BY <2>1 DEF CommittedIsAnnounced, Announced
    <3>2. QED
      BY <2>1, <3>1, AnnouncedStays
  <2>2. CASE resultBy'[s] # resultBy[s]
    <3>1. PICK h \in Handlers : MarkResult(h)
      BY <2>2, ResultFootprint
    <3>2. /\ req'[h].pc = "emit_result" /\ req'[h].sub = req[h].sub
          /\ req'[h].attempt = req[h].attempt
      BY <3>1 DEF MarkResult, Goto, TypeOK, RequestsOK, Request
    <3>3. s = req[h].sub /\ resultBy'[s] = req[h].attempt
      BY <2>2, <3>1 DEF MarkResult, TypeOK, TablesOK
    <3>4. QED
      BY <3>2, <3>3 DEF Announced
  <2>3. QED
    BY <2>1, <2>2
<1>3. ReliableSpec => Spec
  BY PTL DEF ReliableSpec, Spec, Next
<1>4. QED
  BY <1>1, <1>2, <1>3, TypeCorrect, PTL DEF ReliableSpec
=============================================================================
